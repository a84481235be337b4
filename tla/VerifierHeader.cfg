SPECIFICATION Spec
CONSTANTS
    Keys = {"a", "b", "c", "d"}
    NoKey = ""
    Depth = 4
    PathOf <- MCPathOf
    Fields = {"stake"}
    Values = {1, 2}
    PlaceholderValue = 0
    ParentValue <- StakeParent
    Scopes <- MCScopes
    Updates <- MCUpdates
    Same = Same
    Damaged = 3
    MaxChanges = 3
INVARIANT HeaderTells
