SPECIFICATION Spec
CONSTANTS
    Width = 3
    ShortWidth = 1
    Mapped <- MCMapped
    Entries <- MCEntries
    Times = {5, 6}
    MaxNodes = 5
CHECK_DEADLOCK FALSE
INVARIANTS
    TreeShape
    SmallestNetworkDecides
PROPERTY IsAPrefixMap
