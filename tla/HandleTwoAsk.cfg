SPECIFICATION Spec
CONSTANTS
    Thread = {t1, t2}
    Target = {a, b}
    MaxHandles = 1
    ContextId = {c1}
    OneAsks = FALSE
CHECK_DEADLOCK FALSE
INVARIANT GivenStaysValid
