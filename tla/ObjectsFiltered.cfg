SPECIFICATION Spec
CONSTANTS
    NoKey = NoKey
    Glob = "*"
    MaxSize = 2
    MaxDepth = 3
    Cases <- MCCases
INVARIANTS FilterMeansItsPaths EveryOneOnce PathIsTrue
PROPERTY IterationEnds
CHECK_DEADLOCK FALSE
