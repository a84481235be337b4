SPECIFICATION Spec
CONSTANTS
    Keys <- ThreeKeys
    NoKey = ""
    Depth = 3
    PathOf <- MCPathOf
    Fields = {"stake"}
    Values = {1, 2}
    PlaceholderValue = 0
    ParentValue <- StakeParent
    Same = Same
    CallKeys <- WithEmptyKey
    AnySet = FALSE
    MaxTransactions = 2
    MaxCalls = 3
INVARIANTS TypeOK Rules BackupsReachable RollbackRestoresLabels StaleIsMarked HistoryIndependent
PROPERTY ImplementsStore
VIEW WithoutResult
