SPECIFICATION Spec
CONSTANTS
    x = x
    y = y
    r1 = r1
    r2 = r2
    ips = ips
    NoData = NoData
    Absent = Absent
    Address <- MCAddress
    Id <- MCId
    TagKey <- MCTagKey
    TagValue <- MCTagValue
    DataId <- MCDataId
    Corpora <- MCCorpora
    MaxUpdates = 3
INVARIANTS FiltersPointToOwnRules ScopeMeansAllItsTags TargetsAreKnown AddressesAreUsed
           AsIfLoadedAtOnce
PROPERTY NoSideEffects
CHECK_DEADLOCK FALSE
