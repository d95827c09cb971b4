SPECIFICATION Spec
CONSTANTS
    Half = 32
    Scale = 3
    Period = 3
    MaxNow = 16
    MaxFailures = 0
    Timeouts <- MCTimeouts
INVARIANT BudgetRespected
