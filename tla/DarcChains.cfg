SPECIFICATION Spec
CONSTANTS
    Keys = {"k1", "k2"}
    Chains = {"a", "b"}
    Policies <- MCPolicies
    Groups <- MCGroups
    Signers <- MCSigners
    MaxRequests = 2
    MaxVersion = 2
CHECK_DEADLOCK FALSE
INVARIANTS AcceptedAsSigned LightVerifies KeptVersionsVerify HonestEvolves
PROPERTY OnlyAuthorised
