------------------------------ MODULE OmniLedger ------------------------------
(***************************************************************************)
(* The omniledger service (omniledger/service/service.go) on the nodes of  *)
(* a roster: clients ask a node for a new ledger (CreateGenesisBlock) and  *)
(* hand transactions to its queue (AddTransaction); one goroutine per      *)
(* ledger (createQueueWorker) collects them and, at the end of an epoch,   *)
(* turns them into a block (createNewBlock).  A new block goes out in two  *)
(* propagations: that of the skipchain service (StoreSkipBlock), after     *)
(* which nodes have it in their databases, and that of the transactions,   *)
(* which runs updateCollection.  A propagation that too few nodes answer   *)
(* never returns to its caller (vendored messaging/propagate.go).          *)
(*                                                                         *)
(* A node may crash at any time, which loses its memory and keeps its      *)
(* databases.  Handlers read and write the map collectionDB without a      *)
(* lock; what Go makes of that race is a fatal error, so the crash stands  *)
(* for it.  Signatures and contracts are one bit each per transaction.     *)
(***************************************************************************)
EXTENDS Naturals, Sequences, FiniteSets, SequencesExt

CONSTANTS
    Nodes,      \* the conodes
    Chains,     \* the skipchain identifiers
    Clients,    \* concurrent callers
    Txs,        \* client transactions; each is submitted at most once
    Signed,     \* the transactions whose signatures satisfy the darc they name
    Good,       \* those of them whose contracts also succeed
    Nobody,     \* no client, no node, no chain, no transaction
    MaxCrashes, \* bound: how many times a node crashes
    Closing,    \* whether CloseQueues is ever closed
    Losses      \* bound: how many nodes that are up a propagation may miss

ASSUME LedgerAssumption ==
    /\ IsFiniteSet(Nodes)
    /\ Signed \subseteq Txs
    /\ Good \subseteq Signed
    /\ Nobody \notin Nodes \cup Chains \cup Clients \cup Txs
    /\ MaxCrashes \in Nat
    /\ Closing \in BOOLEAN
    /\ Losses \in Nat

VARIABLES
    status,     \* "up", "down", "failed" (newService returned an error) or "panic"
    db,         \* the ledgers whose blocks are in the node's skipchain database
    stored,     \* the collection a node keeps for a ledger: its objects, each
                \* with its contract
    mutex,      \* who holds createSkipChainMut
    worker,     \* the queue worker of a ledger: "none", "waiting" in select,
                \* "creating" a block, "stopped" by CloseQueues, or "hung" in
                \* a propagation
    ts,         \* the transactions a worker has collected
    closed,     \* CloseQueues was closed
    call,       \* what a client is doing
    reply       \* the answer to its last call

\* History: what became of the transactions, and which ledgers clients know.
VARIABLES
    accepted,   \* AddTransaction answered without error
    refused,    \* dropped by createNewBlock, alone or with their batch
    included,   \* in a stored block
    lost,       \* collected by a worker that stopped or crashed
    told,       \* the ledgers a CreateGenesisBlock answer named, per node
    crashes

nodeVars == <<status, db, stored, mutex, worker, ts, closed>>
clientVars == <<call, reply>>
history == <<accepted, refused, included, lost, told, crashes>>
vars == <<nodeVars, clientVars, history>>

Idle == [at |-> "idle", node |-> Nobody, chain |-> Nobody, tx |-> Nobody]

Init ==
    /\ status = [n \in Nodes |-> "up"]
    /\ db = [n \in Nodes |-> {}]
    /\ stored = [n \in Nodes |-> [c \in Chains |-> {}]]
    /\ mutex = [n \in Nodes |-> Nobody]
    /\ worker = [n \in Nodes |-> [c \in Chains |-> "none"]]
    /\ ts = [n \in Nodes |-> [c \in Chains |-> <<>>]]
    /\ closed = [n \in Nodes |-> FALSE]
    /\ call = [k \in Clients |-> Idle]
    /\ reply = [k \in Clients |-> "none"]
    /\ accepted = {}
    /\ refused = {}
    /\ included = {}
    /\ lost = {}
    /\ told = [n \in Nodes |-> {}]
    /\ crashes = 0

-----------------------------------------------------------------------------
(* Helpers *)

\* The identifiers in use.  A genesis block has a random back-link, so its
\* hash, the identifier of the new ledger, is none of these.
Created == UNION {db[n] : n \in Nodes}

\* A client returns from its call.
Return(k, answer) ==
    /\ call' = [call EXCEPT ![k] = Idle]
    /\ reply' = [reply EXCEPT ![k] = answer]

Up == {n \in Nodes : status[n] = "up"}

-----------------------------------------------------------------------------
(* Propagation *)

\* The nodes a propagation of n reaches, and those of them whose reply comes
\* back: nodes that are down are missed, and up to Losses others.
Propagations(n) ==
    {p \in [reached : SUBSET (Up \ {n}), replied : SUBSET (Up \ {n})] :
        /\ p.replied \subseteq p.reached
        /\ Cardinality((Up \ {n}) \ p.replied) <= Losses}

\* The threshold -1 of both propagations stands for a third of the others.
AllowedFailures == (Cardinality(Nodes) - 1) \div 3

\* Whether Dispatch calls back at the root n.  It does when enough replies are
\* there at the latest with the timeout; otherwise it returns an error that
\* nobody reads, and the caller waits for its channel for ever.
Completes(n, p) == Cardinality(Nodes \ (p.replied \cup {n})) <= AllowedFailures

\* Mutant of StoreBlock: nothing is stored.
StoreErrorIgnored(n, c, p) == UNCHANGED db

\* The skipchain service: ledger c is in the databases of leader n and of the
\* nodes its propagation reaches.
StoreBlock(n, c, p) ==
    db' = [m \in Nodes |-> IF m \in p.reached \cup {n} THEN db[m] \cup {c} ELSE db[m]]

\* updateCollection: the handler that every node runs after a block is
\* stored.  Its body is commented out, so the objects stay what they were.
updateCollection(objects, changes) == objects

\* The transaction propagation runs updateCollection on the nodes it reaches.
propagateTransactions(n, c, p, changes) ==
    stored' = [m \in Nodes |->
        IF m \in p.reached \cup {n}
        THEN [stored[m] EXCEPT ![c] = updateCollection(@, changes)]
        ELSE stored[m]]

\* What the genesis block creates (ContractConfig), with the contracts: the
\* reference to the genesis darc, the darc and the configuration.
GenesisObjects == {<<"reference", "config">>, <<"darc", "darc">>, <<"config", "config">>}

-----------------------------------------------------------------------------
(* CreateGenesisBlock *)

CallGenesis(k, n) ==
    /\ call[k].at = "idle"
    /\ status[n] = "up"
    /\ call' = [call EXCEPT ![k] = [Idle EXCEPT !.at = "lock", !.node = n]]
    /\ UNCHANGED <<nodeVars, reply, history>>

\* Mutant of LockFree: the lock is not awaited.
LockIgnored(n) == TRUE

LockFree(n) == mutex[n] = Nobody

GenesisLock(k) ==
    LET n == call[k].node
    IN  /\ call[k].at = "lock"
        /\ LockFree(n)
        /\ mutex' = [mutex EXCEPT ![n] = k]
        /\ call' = [call EXCEPT ![k].at = "store"]
        /\ UNCHANGED <<status, db, stored, worker, ts, closed, reply, history>>

\* Mutant of Unlock: the lock is kept.
KeepLocked(n) == UNCHANGED mutex

Unlock(n) == mutex' = [mutex EXCEPT ![n] = Nobody]

\* Wrong version, invalid genesis darc, or StoreSkipBlock refuses the block,
\* which it only does before anything is stored.
GenesisRefuse(k) ==
    /\ call[k].at = "store"
    /\ Unlock(call[k].node)
    /\ Return(k, "error")
    /\ UNCHANGED <<status, db, stored, worker, ts, closed, history>>

\* createNewBlock with no skipchain ID: StoreSkipBlock stores the block and
\* returns, or keeps its caller, and with it the lock.
GenesisStore(k) ==
    LET n == call[k].node
    IN  /\ call[k].at = "store"
        /\ \E c \in Chains \ Created, p \in Propagations(n) :
              /\ StoreBlock(n, c, p)
              /\ call' = [call EXCEPT ![k].at = IF Completes(n, p) THEN "update" ELSE "hung",
                                      ![k].chain = c]
        /\ UNCHANGED <<status, stored, mutex, worker, ts, closed, reply, history>>

\* The rest of createNewBlock: propagateTransactions returns, with an error
\* that is only logged, or keeps its caller.
GenesisUpdate(k) ==
    LET n == call[k].node
        c == call[k].chain
    IN  /\ call[k].at = "update"
        /\ \E p \in Propagations(n) :
              /\ propagateTransactions(n, c, p, GenesisObjects)
              /\ call' = [call EXCEPT ![k].at = IF Completes(n, p) THEN "register" ELSE "hung"]
        /\ UNCHANGED <<status, db, mutex, worker, ts, closed, reply, history>>

\* Mutant of GenesisRegister: the answer comes before the worker.
GenesisAnswerFirst(k) ==
    LET n == call[k].node
    IN  /\ call[k].at = "register"
        /\ told' = [told EXCEPT ![n] = @ \cup {call[k].chain}]
        /\ Unlock(n)
        /\ Return(k, "ok")
        /\ UNCHANGED <<status, db, stored, worker, ts, closed, accepted, refused, included, lost, crashes>>

\* save, start the worker, answer, unlock.
GenesisRegister(k) ==
    LET n == call[k].node
        c == call[k].chain
    IN  /\ call[k].at = "register"
        /\ worker' = [worker EXCEPT ![n][c] = "waiting"]
        /\ told' = [told EXCEPT ![n] = @ \cup {c}]
        /\ Unlock(n)
        /\ Return(k, "ok")
        /\ UNCHANGED <<status, db, stored, ts, closed, accepted, refused, included, lost, crashes>>

-----------------------------------------------------------------------------
(* AddTransaction and the queue worker *)

Submitted == {call[k].tx : k \in Clients} \cup accepted

\* Wrong version, no instructions, or no worker for this ledger.
AddTransactionRefuse(k, n) ==
    /\ call[k].at = "idle"
    /\ status[n] = "up"
    /\ Return(k, "error")
    /\ UNCHANGED <<nodeVars, history>>

\* The channel is looked up under workersMu; the send on it follows.
AddTransaction(k, n, c, t) ==
    /\ call[k].at = "idle"
    /\ status[n] = "up"
    /\ worker[n][c] # "none"
    /\ t \notin Submitted
    /\ call' = [call EXCEPT ![k] = [at |-> "send", node |-> n, chain |-> c, tx |-> t]]
    /\ UNCHANGED <<nodeVars, reply, history>>

\* Mutant of Enqueue: a transaction replaces the queue.
Replace(q, t) == t

Enqueue(q, t) == Append(q, t)

\* The unbuffered channel: the worker's select takes the transaction of a
\* client that is sending, and the client's call returns.
Receive(k) ==
    LET n == call[k].node
        c == call[k].chain
        t == call[k].tx
    IN  /\ call[k].at = "send"
        /\ status[n] = "up"
        /\ worker[n][c] = "waiting"
        /\ ts' = [ts EXCEPT ![n][c] = Enqueue(@, t)]
        /\ accepted' = accepted \cup {t}
        /\ Return(k, "ok")
        /\ UNCHANGED <<status, db, stored, mutex, worker, closed, refused, included, lost, told, crashes>>

\* Mutant of HasWork: a single transaction is not enough.
HasSeveral(q) == Len(q) > 1

HasWork(q) == q # <<>>

\* The timer fires.  With an empty queue it is only set again.
Epoch(n, c) ==
    /\ status[n] = "up"
    /\ worker[n][c] = "waiting"
    /\ HasWork(ts[n][c])
    /\ IF c \in db[n]
       THEN worker' = [worker EXCEPT ![n][c] = "creating"] /\ UNCHANGED status
       ELSE status' = [status EXCEPT ![n] = "panic"] /\ UNCHANGED worker
    /\ UNCHANGED <<db, stored, mutex, ts, closed, clientVars, history>>

\* Whether a collection has the object with the contract expected of it.
GetValueContract(objects, object, contract) == <<object, contract>> \in objects

\* Whether the darc an instruction names is found.
loadLatestDarc(n, c) == GetValueContract(stored[n][c], "darc", "darc")

\* verifyClientTx: the darc of every instruction is found and satisfied.
Verified(n, c, t) == loadLatestDarc(n, c) /\ t \in Signed

\* Mutant of AfterBlock: the queue is kept for the next epoch.
KeepQueue(q) == q

\* What becomes of the queue once createNewBlock returned, with or without an
\* error.
AfterBlock(q) == <<>>

\* createNewBlock for an existing ledger: it fails when no signature is valid
\* or when the skipchain refuses the block; otherwise createStateChanges
\* drops the transactions whose contracts fail and the others are in the new
\* block, which is stored even when a propagation keeps the worker.
CreateBlock(n, c) ==
    LET batch == ToSet(ts[n][c])
        valid == {t \in batch : Verified(n, c, t)}
    IN  /\ status[n] = "up"
        /\ worker[n][c] = "creating"
        /\ ts' = [ts EXCEPT ![n][c] = AfterBlock(@)]
        /\ \/ /\ worker' = [worker EXCEPT ![n][c] = "waiting"]
              /\ refused' = refused \cup batch
              /\ UNCHANGED <<db, stored, included>>
           \/ /\ valid # {}
              /\ \E p, q \in Propagations(n) :
                    /\ StoreBlock(n, c, p)
                    /\ IF Completes(n, p) THEN propagateTransactions(n, c, q, {})
                                          ELSE UNCHANGED stored
                    /\ worker' = [worker EXCEPT ![n][c] =
                          IF Completes(n, p) /\ Completes(n, q) THEN "waiting" ELSE "hung"]
              /\ included' = included \cup (valid \cap Good)
              /\ refused' = refused \cup (batch \ (valid \cap Good))
        /\ UNCHANGED <<status, mutex, closed, clientVars, accepted, lost, told, crashes>>

-----------------------------------------------------------------------------
(* Stopping, crashing and starting again *)

CloseQueues(n) ==
    /\ Closing
    /\ status[n] = "up"
    /\ ~closed[n]
    /\ closed' = [closed EXCEPT ![n] = TRUE]
    /\ UNCHANGED <<status, db, stored, mutex, worker, ts, clientVars, history>>

\* The worker's select sees the closed channel.  The map of workers keeps
\* its entry, so AddTransaction still finds the channel nobody reads.
WorkerStop(n, c) ==
    /\ status[n] = "up"
    /\ closed[n]
    /\ worker[n][c] = "waiting"
    /\ worker' = [worker EXCEPT ![n][c] = "stopped"]
    /\ ts' = [ts EXCEPT ![n][c] = <<>>]
    /\ lost' = lost \cup ToSet(ts[n][c])
    /\ UNCHANGED <<status, db, stored, mutex, closed, clientVars, accepted, refused, included, told, crashes>>

\* The process dies; the clients of a call in progress get a network error.
Crash(n) ==
    /\ status[n] = "up"
    /\ crashes < MaxCrashes
    /\ crashes' = crashes + 1
    /\ status' = [status EXCEPT ![n] = "down"]
    /\ mutex' = [mutex EXCEPT ![n] = Nobody]
    /\ worker' = [worker EXCEPT ![n] = [c \in Chains |-> "none"]]
    /\ lost' = lost \cup UNION {ToSet(ts[n][c]) : c \in Chains}
    /\ ts' = [ts EXCEPT ![n] = [c \in Chains |-> <<>>]]
    /\ call' = [k \in Clients |-> IF call[k].node = n THEN Idle ELSE call[k]]
    /\ reply' = [k \in Clients |-> IF call[k].node = n THEN "error" ELSE reply[k]]
    /\ UNCHANGED <<db, stored, closed, accepted, refused, included, told>>

\* loadBlockInterval and loadConfig: the configuration is found through the
\* reference object, and both have the configuration contract.
IntervalLoads(objects) ==
    GetValueContract(objects, "reference", "config") /\ GetValueContract(objects, "config", "config")

\* What loadAll brings back of a collection: it asks the bucket for the
\* contracts under another name than Store used, and gets none.
Loaded(objects) == {<<o[1], "">> : o \in objects}

\* newService and tryLoad: every ledger of the database gets a worker again,
\* and an error for one of them keeps the service from starting.  (tryLoad
\* goes through the blocks and takes the hash of each for a ledger; in this
\* commit no ledger has a second block.)
Restart(n) ==
    /\ status[n] = "down"
    /\ stored' = [stored EXCEPT ![n] = [c \in Chains |-> Loaded(stored[n][c])]]
    /\ IF \A c \in db[n] : IntervalLoads(Loaded(stored[n][c]))
       THEN /\ status' = [status EXCEPT ![n] = "up"]
            /\ worker' = [worker EXCEPT ![n] =
                            [c \in Chains |-> IF c \in db[n] THEN "waiting" ELSE "none"]]
       ELSE /\ status' = [status EXCEPT ![n] = "failed"]
            /\ UNCHANGED worker
    /\ closed' = [closed EXCEPT ![n] = FALSE]
    /\ UNCHANGED <<db, mutex, ts, clientVars, history>>

-----------------------------------------------------------------------------
Next ==
    \/ \E k \in Clients, n \in Nodes : CallGenesis(k, n)
    \/ \E k \in Clients : GenesisLock(k)
    \/ \E k \in Clients : GenesisRefuse(k)
    \/ \E k \in Clients : GenesisStore(k)
    \/ \E k \in Clients : GenesisUpdate(k)
    \/ \E k \in Clients : GenesisRegister(k)
    \/ \E k \in Clients, n \in Nodes : AddTransactionRefuse(k, n)
    \/ \E k \in Clients, n \in Nodes, c \in Chains, t \in Txs : AddTransaction(k, n, c, t)
    \/ \E k \in Clients : Receive(k)
    \/ \E n \in Nodes, c \in Chains : Epoch(n, c)
    \/ \E n \in Nodes, c \in Chains : CreateBlock(n, c)
    \/ \E n \in Nodes : CloseQueues(n)
    \/ \E n \in Nodes, c \in Chains : WorkerStop(n, c)
    \/ \E n \in Nodes : Crash(n)
    \/ \E n \in Nodes : Restart(n)

Spec == Init /\ [][Next]_vars

\* The scheduler runs every goroutine that can run, a Go mutex does not
\* starve a waiter and select chooses among the ready cases at random, so a
\* client that waits for the lock or for the worker is served in the end.  Of
\* a propagation nothing is assumed but that it completes or hangs.
Fairness ==
    /\ \A k \in Clients :
          /\ SF_vars(GenesisLock(k))
          /\ WF_vars(GenesisRefuse(k) \/ GenesisStore(k))
          /\ WF_vars(GenesisUpdate(k))
          /\ WF_vars(GenesisRegister(k))
          /\ SF_vars(Receive(k))
    /\ \A n \in Nodes, c \in Chains : WF_vars(Epoch(n, c)) /\ WF_vars(CreateBlock(n, c))

FairSpec == Spec /\ Fairness

-----------------------------------------------------------------------------
(* Properties *)

WorkerStates == {"none", "waiting", "creating", "stopped", "hung"}

\* A call has the arguments it was made with and, from GenesisStore on, the
\* ledger it created.
CallType ==
    {Idle}
    \cup [at : {"lock", "store"}, node : Nodes, chain : {Nobody}, tx : {Nobody}]
    \cup [at : {"update", "register", "hung"}, node : Nodes, chain : Chains, tx : {Nobody}]
    \cup [at : {"send"}, node : Nodes, chain : Chains, tx : Txs]

\* The objects of a collection with the contracts they may be found with.
Entries == {"reference", "darc", "config"} \X {"config", "darc", ""}

\* The type invariant of the service's state (struct Service) and of the calls.
TypeOK ==
    /\ status \in [Nodes -> {"up", "down", "failed", "panic"}]
    /\ db \in [Nodes -> SUBSET Chains]
    /\ stored \in [Nodes -> [Chains -> SUBSET Entries]]
    /\ mutex \in [Nodes -> Clients \cup {Nobody}]
    /\ worker \in [Nodes -> [Chains -> WorkerStates]]
    /\ ts \in [Nodes -> [Chains -> Seq(Txs)]]
    /\ closed \in [Nodes -> BOOLEAN]
    /\ call \in [Clients -> CallType]
    /\ reply \in [Clients -> {"none", "ok", "error"}]
    /\ accepted \in SUBSET Txs
    /\ refused \in SUBSET Txs
    /\ included \in SUBSET Txs
    /\ lost \in SUBSET Txs
    /\ told \in [Nodes -> SUBSET Chains]
    /\ crashes \in Nat

\* The callers between Lock and Unlock of CreateGenesisBlock.
InGenesis(k) == call[k].at \in {"store", "update", "hung", "register"}

\* "we do not want to allow concurrent creation of genesis blocks": of the
\* callers of one node at most one is between Lock and Unlock, the time of
\* its two propagations, one that hangs and the crash of the node included.
GenesisExclusive ==
    \A j, k \in Clients :
        InGenesis(j) /\ InGenesis(k) /\ call[j].node = call[k].node => j = k

\* The panic "DB is in bad state and cannot find skipchain anymore" is never
\* reached: whatever crashes and propagation failures there are, a worker
\* only runs for a ledger its node has stored.
NoPanic == \A n \in Nodes : status[n] # "panic"

\* A transaction that AddTransaction accepted is in exactly one place, once:
\* in one worker's queue, in a block, refused with its batch, or lost with
\* a worker that stopped.
AcceptedOnce ==
    /\ \A n \in Nodes, c \in Chains : \A t \in ToSet(ts[n][c]) :
          /\ t \in accepted \ (refused \cup included \cup lost)
          /\ \A m \in Nodes, d \in Chains :
                t \in ToSet(ts[m][d]) => <<m, d>> = <<n, c>>
          /\ \A i, j \in DOMAIN ts[n][c] : ts[n][c][i] = t /\ ts[n][c][j] = t => i = j
    /\ \A t \in accepted :
          \/ \E n \in Nodes, c \in Chains : t \in ToSet(ts[n][c])
          \/ t \in refused \cup included \cup lost
    /\ refused \cap included = {}
    /\ (refused \cup included) \cap lost = {}

\* Once a client knows a ledger from the answer of CreateGenesisBlock, the
\* node that gave the answer takes transactions for it as long as it is up.
QueueBeforeReply ==
    \A n \in Nodes : \A c \in told[n] : status[n] = "up" => worker[n][c] # "none"

\* Whether a creation of a ledger on n hangs, with the lock.
Blocked(n) == \E k \in Clients : call[k].at = "hung" /\ call[k].node = n

\* Every call comes back: AddTransaction while the queues of its node are
\* open, because a worker always returns to its select, and CreateGenesisBlock
\* as long as no creation on its node hangs, because the lock is released on
\* every other path.  A crash ends the calls to its node.
CallsReturn ==
    \A k \in Clients :
        call[k].at # "idle" ~>
            \/ call[k].at = "idle"
            \/ call[k].at = "send" /\ closed[call[k].node]
            \/ call[k].at # "send" /\ Blocked(call[k].node)

\* A creation or a worker hangs only when more nodes than a propagation allows
\* for crashed or were missed, counting each crash and the Losses of one
\* propagation.
HangBeyondThreshold ==
    \/ \E k \in Clients : call[k].at = "hung"
    \/ \E n \in Nodes, c \in Chains : worker[n][c] = "hung"
    => crashes + Losses > AllowedFailures

\* What the queue accepts is taken out of it by the end of some epoch, unless
\* its worker stops or crashes before.
QueueDrains == \A t \in Txs : t \in accepted ~> t \in refused \cup included \cup lost

\* What a comment says and the code does not do; a run refutes it.

\* "PropagationFunc starts the propagation protocol and blocks until all
\* children minus the exception stored the new value or the timeout has been
\* reached": the creation of a ledger comes out of its propagations.
PropagationReturns ==
    \A k \in Clients :
        call[k].at \in {"store", "update", "hung"} ~> call[k].at \notin {"store", "update", "hung"}

=============================================================================
