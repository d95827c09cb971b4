SPECIFICATION Spec
CONSTANTS
    x = x
    y = y
    z = z
    bad = bad
    odd = odd
    p1 = p1
    p2 = p2
    p3 = p3
    n1 = n1
    n2 = n2
    off = off
    nodata = nodata
    rf = rf
    inf = inf
    a = a
    b = b
    t1 = t1
    t2 = t2
    None = None
    NoObject = NoObject
    Target <- MCTarget
    Value <- MCValue
    Rule <- MCRule
    RuleFilter <- MCRuleFilter
    InputFilter <- MCInputFilter
    Action <- MCAction
    Type <- MCType
    Enabled <- MCEnabled
    Conditions <- MCConditions
    RuleType <- MCRuleType
    RuleActions <- MCRuleActions
    FilterRules <- MCFilterRules
    FilterTargets <- MCFilterTargets
    Params <- MCParams
    FreesObjects = TRUE
    MaxRuns = 2
    Budgets = {"short", "ample"}
INVARIANT ParametersTakenIntoAccount
CHECK_DEADLOCK FALSE
