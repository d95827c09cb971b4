\* What the comments say and the code does not do: tlc -continue reports each.
SPECIFICATION Spec
CONSTANTS
    Cases <- Disagreements
    MaxString = 20
    MaxLen = 3
    MaxPath = 3
    MaxGlyphs = 3
    Wrap = 128
    Decomposition <- Table
    MinChunk = 5
    Inflight = 3
INVARIANTS HtmlUntouched CommandLineCleaned OnlyCommentsRemoved NumberKept NoHalfSurrogate
           EncodedIsValid OnlyValidDecoded
PROPERTY NormalizedWhenNeeded
CHECK_DEADLOCK FALSE
