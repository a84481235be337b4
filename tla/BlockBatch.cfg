SPECIFICATION Spec
CONSTANTS
    Objects <- MCObjects
    Reference = "ref"
    ConfigID <- MCConfigID
    Absent = Absent
    Failed = Failed
    Transactions <- MCTransactions
    Bases <- MCBases
    Bits = {1, 2}
    Hash <- MCHash
    SaltedHash <- MCSaltedHash
    MaxBatch = 3
INVARIANTS TypeOK AllOrNothing Reproducible ConfigOnce OrderFree
