SPECIFICATION DBSpec
CONSTANTS
    Objects <- MCObjects
    ObjectValues <- MCValues
    Contracts <- MCContracts
    Empty = ""
INVARIANTS BucketHasStored ValuesSurvive
