SPECIFICATION Spec
CONSTANTS
    Thread = {t1, t2}
    Target = {a, b}
    MaxHandles = 3
    ContextId = {c1, c2}
    OneAsks = TRUE
CHECK_DEADLOCK FALSE
SYMMETRY MCSymmetry
INVARIANTS
    FreedWithLastOwner
    AddressesInSync
    GivenStaysValid
