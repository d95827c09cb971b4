SPECIFICATION Spec
CONSTANTS
    x = x
    y = y
    r1 = r1
    r2 = r2
    ips = ips
    NoData = NoData
    Absent = Absent
    Address <- MCAddress
    Id <- MCId
    TagKey <- MCTagKey
    TagValue <- MCTagValue
    DataId <- MCDataId
    Corpora <- Disagreements
    MaxUpdates = 3
INVARIANTS
    InputsAreCovered
    ProcessorsFitRules
CHECK_DEADLOCK FALSE
