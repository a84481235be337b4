SPECIFICATION FairSpec
CONSTANTS
    n1 = n1
    n2 = n2
    x = x
    k1 = k1
    k2 = k2
    t1 = t1
    t2 = t2
    Nodes <- TwoNodes
    Chains <- OneChain
    Clients <- TwoClients
    Txs <- TwoTxs
    Signed <- TwoTxs
    Good <- OneTx
    Nobody = Nobody
    MaxCrashes = 1
    Closing = TRUE
    Losses = 1
CHECK_DEADLOCK FALSE
INVARIANTS TypeOK GenesisExclusive NoPanic AcceptedOnce QueueBeforeReply
PROPERTIES CallsReturn QueueDrains
