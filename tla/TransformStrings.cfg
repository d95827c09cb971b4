SPECIFICATION Spec
CONSTANTS
    Cases <- MCStrings
    MaxString = 8
    MaxLen = 3
    MaxPath = 7
    MaxGlyphs = 3
    Wrap = 128
    Decomposition <- Table
    MinChunk = 5
    Inflight = 3
INVARIANTS NeverOvertakes OriginalUntouched PathResolved ChunksFit IsTheDecomposition
PROPERTIES Terminates NoMeansNoChange NothingLeft
CHECK_DEADLOCK FALSE
