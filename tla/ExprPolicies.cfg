SPECIFICATION Spec
CONSTANTS
    Ids = {"a", "b"}
    MaxTokens = 7
CHECK_DEADLOCK FALSE
INVARIANTS EvaluatesMeaning MoreSignersNeverHurt
