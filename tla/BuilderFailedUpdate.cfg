SPECIFICATION Spec
CONSTANTS
    x = x
    y = y
    r1 = r1
    r2 = r2
    ips = ips
    NoData = NoData
    Absent = Absent
    Address <- MCAddress
    Id <- MCId
    TagKey <- MCTagKey
    TagValue <- MCTagValue
    DataId <- MCDataId
    Corpora <- Failing
    MaxUpdates = 4
INVARIANT TargetsAlwaysKnown
CHECK_DEADLOCK FALSE
