SPECIFICATION Spec
CONSTANTS
    Id = {"a", ""}
    Error = {"e1", "e2", "e3"}
    Entry <- MCEntry
    Chunk = 2
    Counters = 4
    MaxEntries = 5
CHECK_DEADLOCK FALSE
INVARIANTS
    FailedIsExact
