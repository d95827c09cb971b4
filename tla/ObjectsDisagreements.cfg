\* What the code does not do: tlc -continue reports each.
SPECIFICATION Spec
CONSTANTS
    NoKey = NoKey
    Glob = "*"
    MaxSize = 2
    MaxDepth = 3
    Cases <- Disagreements
INVARIANTS WithinDepth EmptyPathMeansAll
CHECK_DEADLOCK FALSE
