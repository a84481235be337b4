SPECIFICATION Spec
CONSTANTS
    Keys <- TwoKeys
    NoKey = ""
    Depth = 3
    PathOf <- MCPathOf
    Fields = {"stake"}
    Values = {1, 2}
    PlaceholderValue = 0
    ParentValue <- StakeParent
    Same = Same
    CallKeys <- TwoKeys
    AnySet = TRUE
    MaxTransactions = 1
    MaxCalls = 3
INVARIANT RollbackRestoresValues
