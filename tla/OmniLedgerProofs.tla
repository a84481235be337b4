--------------------------- MODULE OmniLedgerProofs ---------------------------
(***************************************************************************)
(* The safety of the omniledger service for any roster, any number of      *)
(* clients, ledgers and transactions, and any number of crashes.           *)
(***************************************************************************)
EXTENDS OmniLedger, FiniteSetTheorems, TLAPS

-----------------------------------------------------------------------------
(* Types *)

\* Changing the entry of one ledger on one node keeps the type of a map.
LEMMA EntryType ==
    ASSUME NEW S, NEW f \in [Nodes -> [Chains -> S]], NEW n \in Nodes, NEW c \in Chains, NEW v \in S
    PROVE  [f EXCEPT ![n][c] = v] \in [Nodes -> [Chains -> S]]
OBVIOUS

\* What a call in progress refers to.
LEMMA CallFacts ==
    ASSUME TypeOK, NEW k \in Clients
    PROVE  /\ call[k] \in CallType
           /\ call[k].at \in {"lock", "store"} =>
                 /\ call[k] \in [at : {"lock", "store"}, node : Nodes, chain : {Nobody}, tx : {Nobody}]
                 /\ call[k].node \in Nodes
           /\ call[k].at \in {"update", "hung", "register"} =>
                 /\ call[k] \in [at : {"update", "register", "hung"}, node : Nodes, chain : Chains, tx : {Nobody}]
                 /\ call[k].node \in Nodes
                 /\ call[k].chain \in Chains
           /\ call[k].at = "send" =>
                 /\ call[k].node \in Nodes
                 /\ call[k].chain \in Chains
                 /\ call[k].tx \in Txs
           /\ call[k].node \in Nodes \cup {Nobody}
BY DEF TypeOK, CallType, Idle

\* Return leaves the client idle with an answer.
LEMMA ReturnType ==
    ASSUME TypeOK, NEW k \in Clients, NEW answer \in {"ok", "error"}, Return(k, answer)
    PROVE  /\ call' \in [Clients -> CallType]
           /\ reply' \in [Clients -> {"none", "ok", "error"}]
BY DEF TypeOK, CallType, Return

\* StoreBlock (StoreSkipBlock) keeps the type of the databases.
LEMMA StoreBlockType ==
    ASSUME TypeOK, NEW n \in Nodes, NEW c \in Chains, NEW p, StoreBlock(n, c, p)
    PROVE  db' \in [Nodes -> SUBSET Chains]
BY DEF TypeOK, StoreBlock

\* propagateTransactions leaves every collection as it was.
LEMMA PropagateType ==
    ASSUME TypeOK, NEW n \in Nodes, NEW c \in Chains, NEW p, NEW changes,
           propagateTransactions(n, c, p, changes)
    PROVE  stored' \in [Nodes -> [Chains -> SUBSET Entries]]
<1>1. \A m \in Nodes : [stored[m] EXCEPT ![c] = stored[m][c]] \in [Chains -> SUBSET Entries]
  BY DEF TypeOK
<1>2. stored' = [m \in Nodes |-> IF m \in p.reached \cup {n}
                                 THEN [stored[m] EXCEPT ![c] = stored[m][c]] ELSE stored[m]]
  BY DEF propagateTransactions, updateCollection
<1>3. QED
  BY <1>1, <1>2 DEF TypeOK

\* loadAll brings back entries of a collection.
LEMMA LoadedType ==
    ASSUME NEW objects \in SUBSET Entries
    PROVE  Loaded(objects) \in SUBSET Entries
<1>1. ASSUME NEW o \in objects PROVE <<o[1], "">> \in Entries
  <2>1. o \in {"reference", "darc", "config"} \X {"config", "darc", ""}
    BY DEF Entries
  <2>2. o[1] \in {"reference", "darc", "config"}
    BY <2>1
  <2>3. QED
    BY <2>2 DEF Entries
<1>2. QED
  BY <1>1 DEF Loaded

\* Every handler, worker step, crash and restart keeps the types.
LEMMA TypeStep == TypeOK /\ [Next]_vars => TypeOK'
<1> SUFFICES ASSUME TypeOK, [Next]_vars PROVE TypeOK'
  OBVIOUS
<1> USE LedgerAssumption
<1>1. CASE UNCHANGED vars
  BY <1>1 DEF TypeOK, vars, nodeVars, clientVars, history
<1>2. ASSUME NEW k \in Clients, NEW n \in Nodes, CallGenesis(k, n) PROVE TypeOK'
  BY <1>2 DEF TypeOK, CallType, Idle, CallGenesis, nodeVars, history
<1>3. ASSUME NEW k \in Clients, GenesisLock(k) PROVE TypeOK'
  <2> DEFINE n == call[k].node
  <2>1. n \in Nodes /\ call[k] \in [at : {"lock", "store"}, node : Nodes, chain : {Nobody}, tx : {Nobody}]
    BY <1>3, CallFacts DEF GenesisLock
  <2>2. mutex' \in [Nodes -> Clients \cup {Nobody}]
    BY <1>3, <2>1 DEF TypeOK, GenesisLock
  <2>3. call' = [call EXCEPT ![k] = [call[k] EXCEPT !.at = "store"]]
    BY <1>3 DEF GenesisLock
  <2>4. [call[k] EXCEPT !.at = "store"] \in CallType
    BY <2>1 DEF CallType
  <2>5. call' \in [Clients -> CallType]
    BY <2>3, <2>4 DEF TypeOK
  <2>6. QED
    BY <1>3, <2>2, <2>5 DEF TypeOK, GenesisLock, history
<1>4. ASSUME NEW k \in Clients, GenesisRefuse(k) PROVE TypeOK'
  BY <1>4, ReturnType DEF TypeOK, GenesisRefuse, Unlock, history
<1>5. ASSUME NEW k \in Clients, GenesisStore(k) PROVE TypeOK'
  <2> DEFINE n == call[k].node
  <2>1. n \in Nodes /\ call[k] \in [at : {"lock", "store"}, node : Nodes, chain : {Nobody}, tx : {Nobody}]
    BY <1>5, CallFacts DEF GenesisStore
  <2>2. PICK c \in Chains, p \in Propagations(n), s \in {"update", "hung"} :
          /\ StoreBlock(n, c, p)
          /\ call' = [call EXCEPT ![k].at = s, ![k].chain = c]
    BY <1>5 DEF GenesisStore
  <2> DEFINE r == [call[k] EXCEPT !.at = s, !.chain = c]
  <2>3. r \in CallType
    BY <2>1 DEF CallType
  <2>4. call' \in [Clients -> CallType]
    <3>1. call' = [call EXCEPT ![k] = r]
      BY <2>2 DEF TypeOK
    <3>2. QED
      BY <2>3, <3>1 DEF TypeOK
  <2>5. db' \in [Nodes -> SUBSET Chains]
    BY <2>1, <2>2, StoreBlockType
  <2>6. QED
    BY <1>5, <2>4, <2>5 DEF TypeOK, GenesisStore, history
<1>6. ASSUME NEW k \in Clients, GenesisUpdate(k) PROVE TypeOK'
  <2> DEFINE n == call[k].node
             c == call[k].chain
  <2>1. /\ n \in Nodes /\ c \in Chains
        /\ call[k] \in [at : {"update", "register", "hung"}, node : Nodes, chain : Chains, tx : {Nobody}]
    BY <1>6, CallFacts DEF GenesisUpdate
  <2>2. PICK p \in Propagations(n), s \in {"register", "hung"} :
          /\ propagateTransactions(n, c, p, GenesisObjects)
          /\ call' = [call EXCEPT ![k].at = s]
    BY <1>6 DEF GenesisUpdate
  <2>3. call' = [call EXCEPT ![k] = [call[k] EXCEPT !.at = s]]
    BY <2>2
  <2>4. [call[k] EXCEPT !.at = s] \in CallType
    BY <2>1 DEF CallType
  <2>5. call' \in [Clients -> CallType]
    BY <2>3, <2>4 DEF TypeOK
  <2>6. stored' \in [Nodes -> [Chains -> SUBSET Entries]]
    BY <2>1, <2>2, PropagateType
  <2>7. QED
    BY <1>6, <2>5, <2>6 DEF TypeOK, GenesisUpdate, history
<1>7. ASSUME NEW k \in Clients, GenesisRegister(k) PROVE TypeOK'
  <2>1. call[k].node \in Nodes /\ call[k].chain \in Chains
    BY <1>7, CallFacts DEF GenesisRegister
  <2>2. worker' \in [Nodes -> [Chains -> WorkerStates]]
    BY <1>7, <2>1, EntryType DEF TypeOK, WorkerStates, GenesisRegister
  <2>3. told' \in [Nodes -> SUBSET Chains]
    BY <1>7, <2>1 DEF TypeOK, GenesisRegister
  <2>4. QED
    BY <1>7, <2>2, <2>3, ReturnType DEF TypeOK, GenesisRegister, Unlock
<1>8. ASSUME NEW k \in Clients, NEW n \in Nodes, AddTransactionRefuse(k, n) PROVE TypeOK'
  BY <1>8, ReturnType DEF TypeOK, AddTransactionRefuse, nodeVars, history
<1>9. ASSUME NEW k \in Clients, NEW n \in Nodes, NEW c \in Chains, NEW t \in Txs,
             AddTransaction(k, n, c, t)
      PROVE TypeOK'
  BY <1>9 DEF TypeOK, CallType, AddTransaction, nodeVars, history
<1>10. ASSUME NEW k \in Clients, Receive(k) PROVE TypeOK'
  <2> DEFINE n == call[k].node
             c == call[k].chain
             t == call[k].tx
  <2>1. n \in Nodes /\ c \in Chains /\ t \in Txs
    BY <1>10, CallFacts DEF Receive
  <2>2. ts[n][c] \in Seq(Txs)
    BY <2>1 DEF TypeOK
  <2>3. Append(ts[n][c], t) \in Seq(Txs)
    BY <2>1, <2>2
  <2>4. ts' = [ts EXCEPT ![n][c] = Append(ts[n][c], t)]
    BY <1>10 DEF Receive, Enqueue
  <2>5. ts' \in [Nodes -> [Chains -> Seq(Txs)]]
    BY <2>1, <2>3, <2>4 DEF TypeOK
  <2>6. QED
    BY <1>10, <2>1, <2>5, ReturnType DEF TypeOK, Receive
<1>11. ASSUME NEW n \in Nodes, NEW c \in Chains, Epoch(n, c) PROVE TypeOK'
  <2>1. CASE c \in db[n]
    <3>1. worker \in [Nodes -> [Chains -> WorkerStates]] /\ "creating" \in WorkerStates
      BY DEF TypeOK, WorkerStates
    <3>2. worker' = [worker EXCEPT ![n][c] = "creating"]
      BY <1>11, <2>1 DEF Epoch
    <3>3. worker' \in [Nodes -> [Chains -> WorkerStates]]
      BY <3>1, <3>2, EntryType
    <3>4. QED
      BY <1>11, <2>1, <3>3 DEF TypeOK, WorkerStates, Epoch, clientVars, history
  <2>2. CASE c \notin db[n]
    BY <1>11, <2>2 DEF TypeOK, Epoch, clientVars, history
  <2>3. QED
    BY <2>1, <2>2
<1>12. ASSUME NEW n \in Nodes, NEW c \in Chains, CreateBlock(n, c) PROVE TypeOK'
  <2>1. ToSet(ts[n][c]) \subseteq Txs
    BY DEF TypeOK, ToSet
  <2>2. refused' \subseteq Txs /\ included' \subseteq Txs
    BY <1>12, <2>1 DEF TypeOK, CreateBlock
  <2>3. /\ db' \in [Nodes -> SUBSET Chains]
        /\ stored' \in [Nodes -> [Chains -> SUBSET Entries]]
    <3>1. CASE UNCHANGED <<db, stored>>
      BY <3>1 DEF TypeOK
    <3>2. CASE \E p, q \in Propagations(n) :
                  /\ StoreBlock(n, c, p)
                  /\ \/ propagateTransactions(n, c, q, {})
                     \/ UNCHANGED stored
      BY <3>2, StoreBlockType, PropagateType DEF TypeOK
    <3>3. QED
      BY <1>12, <3>1, <3>2 DEF CreateBlock
  <2>4. worker' \in [Nodes -> [Chains -> WorkerStates]]
    <3>1. PICK s \in {"waiting", "hung"} : worker' = [worker EXCEPT ![n][c] = s]
      BY <1>12 DEF CreateBlock
    <3>2. QED
      BY <3>1, EntryType DEF TypeOK, WorkerStates
  <2>5. ts' \in [Nodes -> [Chains -> Seq(Txs)]]
    BY <1>12 DEF TypeOK, CreateBlock, AfterBlock
  <2>6. QED
    BY <1>12, <2>2, <2>3, <2>4, <2>5 DEF TypeOK, CreateBlock, clientVars
<1>13. ASSUME NEW n \in Nodes, CloseQueues(n) PROVE TypeOK'
  BY <1>13 DEF TypeOK, CloseQueues, clientVars, history
<1>14. ASSUME NEW n \in Nodes, NEW c \in Chains, WorkerStop(n, c) PROVE TypeOK'
  BY <1>14 DEF TypeOK, WorkerStates, WorkerStop, ToSet, clientVars
<1>15. ASSUME NEW n \in Nodes, Crash(n) PROVE TypeOK'
  BY <1>15 DEF TypeOK, WorkerStates, CallType, Idle, Crash, ToSet
<1>16. ASSUME NEW n \in Nodes, Restart(n) PROVE TypeOK'
  <2>1. \/ UNCHANGED worker
        \/ worker' = [worker EXCEPT ![n] =
                         [c \in Chains |-> IF c \in db[n] THEN "waiting" ELSE "none"]]
    BY <1>16 DEF Restart
  <2>2. \/ status' = [status EXCEPT ![n] = "up"]
        \/ status' = [status EXCEPT ![n] = "failed"]
    BY <1>16 DEF Restart
  <2>3. worker' \in [Nodes -> [Chains -> WorkerStates]]
    <3>1. [c \in Chains |-> IF c \in db[n] THEN "waiting" ELSE "none"] \in [Chains -> WorkerStates]
      BY DEF WorkerStates
    <3>2. QED
      BY <2>1, <3>1 DEF TypeOK
  <2>4. status' \in [Nodes -> {"up", "down", "failed", "panic"}]
    BY <2>2 DEF TypeOK
  <2>5. /\ UNCHANGED <<db, mutex, ts, call, reply, accepted, refused, included, lost, told, crashes>>
        /\ closed' = [closed EXCEPT ![n] = FALSE]
    BY <1>16 DEF Restart, clientVars, history
  <2>6. stored' \in [Nodes -> [Chains -> SUBSET Entries]]
    <3>1. \A c \in Chains : Loaded(stored[n][c]) \in SUBSET Entries
      <4>1. \A c \in Chains : stored[n][c] \in SUBSET Entries
        BY DEF TypeOK
      <4>2. QED
        BY <4>1, LoadedType
    <3>2. [c \in Chains |-> Loaded(stored[n][c])] \in [Chains -> SUBSET Entries]
      BY <3>1
    <3>3. stored' = [stored EXCEPT ![n] = [c \in Chains |-> Loaded(stored[n][c])]]
      BY <1>16 DEF Restart
    <3>4. QED
      BY <3>2, <3>3 DEF TypeOK
  <2>7. QED
    BY <2>3, <2>4, <2>5, <2>6 DEF TypeOK, WorkerStates
<1>17. QED
  BY <1>1, <1>2, <1>3, <1>4, <1>5, <1>6, <1>7, <1>8, <1>9, <1>10, <1>11, <1>12,
     <1>13, <1>14, <1>15, <1>16 DEF Next

\* The state of the service and of the calls has its types in every
\* execution, whatever the roster.
THEOREM TypeCorrect == Spec => []TypeOK
<1>1. Init => TypeOK
  BY LedgerAssumption DEF Init, TypeOK, WorkerStates, CallType, Idle
<1>2. QED
  BY <1>1, TypeStep, PTL DEF Spec

-----------------------------------------------------------------------------
(* The lock around the creation of a ledger *)

\* A caller between Lock and Unlock holds the mutex of the node it called.
LockInv == \A k \in Clients : InGenesis(k) => mutex[call[k].node] = k

\* Only the holder of createSkipChainMut moves on to create a block, and every
\* return of CreateGenesisBlock, and a crash, gives the lock back.
LEMMA LockStep == TypeOK /\ LockInv /\ [Next]_vars => LockInv'
<1> SUFFICES ASSUME TypeOK, LockInv, [Next]_vars PROVE LockInv'
  OBVIOUS
<1> USE LedgerAssumption
<1>0. ASSUME NEW k \in Clients, UNCHANGED mutex, NEW r, call' = [call EXCEPT ![k] = r],
             r.at \notin {"store", "update", "hung", "register"}
      PROVE  LockInv'
  BY <1>0 DEF TypeOK, LockInv, InGenesis
<1>a. ASSUME NEW k \in Clients, InGenesis(k), Unlock(call[k].node), NEW answer, Return(k, answer)
      PROVE  LockInv'
  <2>1. call[k].node \in Nodes /\ mutex[call[k].node] = k
    BY <1>a, CallFacts DEF LockInv, InGenesis
  <2>2. SUFFICES ASSUME NEW j \in Clients, j # k, InGenesis(j)
                 PROVE  mutex'[call[j].node] = j
    BY <1>a, <2>2 DEF TypeOK, LockInv, InGenesis, Return, Idle
  <2>3. mutex[call[j].node] = j /\ call[j].node \in Nodes
    BY <2>2, CallFacts DEF LockInv, InGenesis
  <2>4. call[j].node # call[k].node
    BY <2>1, <2>2, <2>3
  <2>5. QED
    BY <1>a, <2>3, <2>4 DEF TypeOK, Unlock
<1>1. CASE UNCHANGED <<mutex, call>>
  BY <1>1 DEF LockInv, InGenesis
<1>2. ASSUME NEW k \in Clients, NEW n \in Nodes, CallGenesis(k, n) PROVE LockInv'
  BY <1>0, <1>2 DEF CallGenesis, Idle, nodeVars
<1>3. ASSUME NEW k \in Clients, GenesisLock(k) PROVE LockInv'
  <2>1. call[k].node \in Nodes /\ mutex[call[k].node] = Nobody
    BY <1>3, CallFacts DEF GenesisLock, LockFree
  <2>2. mutex' = [mutex EXCEPT ![call[k].node] = k] /\ call' = [call EXCEPT ![k].at = "store"]
    BY <1>3 DEF GenesisLock
  <2>3. \A j \in Clients : j # k /\ InGenesis(j) => call[j].node # call[k].node
    BY <2>1 DEF LockInv
  <2>4. ASSUME NEW j \in Clients, InGenesis(j)' PROVE mutex'[call'[j].node] = j
    <3>1. CASE j = k
      BY <2>1, <2>2, <3>1 DEF TypeOK
    <3>2. CASE j # k
      BY <2>2, <2>3, <2>4, <3>2, CallFacts DEF TypeOK, LockInv, InGenesis
    <3>3. QED
      BY <3>1, <3>2
  <2>5. QED
    BY <2>4 DEF LockInv
<1>4. ASSUME NEW k \in Clients, GenesisRefuse(k) PROVE LockInv'
  BY <1>4, <1>a DEF GenesisRefuse, InGenesis
<1>b. ASSUME NEW k \in Clients, UNCHANGED mutex, InGenesis(k),
             \A j \in Clients : call'[j].node = call[j].node /\ (j # k => call'[j] = call[j])
      PROVE  LockInv'
  BY <1>b DEF LockInv, InGenesis
<1>5. ASSUME NEW k \in Clients, GenesisStore(k) PROVE LockInv'
  <2>1. PICK c, s : call' = [call EXCEPT ![k].at = s, ![k].chain = c]
    BY <1>5 DEF GenesisStore
  <2>2. UNCHANGED mutex /\ InGenesis(k)
    BY <1>5 DEF GenesisStore, InGenesis
  <2>3. \A j \in Clients : call'[j].node = call[j].node /\ (j # k => call'[j] = call[j])
    BY <2>1 DEF TypeOK
  <2>4. QED
    BY <1>b, <2>2, <2>3
<1>6. ASSUME NEW k \in Clients, GenesisUpdate(k) PROVE LockInv'
  <2>1. PICK s : call' = [call EXCEPT ![k].at = s]
    BY <1>6 DEF GenesisUpdate
  <2>2. UNCHANGED mutex /\ InGenesis(k)
    BY <1>6 DEF GenesisUpdate, InGenesis
  <2>3. \A j \in Clients : call'[j].node = call[j].node /\ (j # k => call'[j] = call[j])
    BY <2>1 DEF TypeOK
  <2>4. QED
    BY <1>b, <2>2, <2>3
<1>7. ASSUME NEW k \in Clients, GenesisRegister(k) PROVE LockInv'
  BY <1>7, <1>a DEF GenesisRegister, InGenesis
<1>8. ASSUME NEW k \in Clients, NEW n \in Nodes, AddTransactionRefuse(k, n) PROVE LockInv'
  BY <1>0, <1>8 DEF AddTransactionRefuse, Return, Idle, nodeVars
<1>9. ASSUME NEW k \in Clients, NEW n \in Nodes, NEW c \in Chains, NEW t \in Txs,
             AddTransaction(k, n, c, t)
      PROVE LockInv'
  BY <1>0, <1>9 DEF AddTransaction, nodeVars
<1>10. ASSUME NEW k \in Clients, Receive(k) PROVE LockInv'
  BY <1>0, <1>10 DEF Receive, Return, Idle
<1>11. ASSUME NEW n \in Nodes, Crash(n) PROVE LockInv'
  <2>1. ASSUME NEW j \in Clients, InGenesis(j)' PROVE mutex'[call'[j].node] = j
    <3>1. call[j].node # n /\ call'[j] = call[j]
      BY <1>11, <2>1 DEF Crash, InGenesis, Idle
    <3>2. InGenesis(j) /\ call[j].node \in Nodes
      BY <2>1, <3>1, CallFacts DEF InGenesis
    <3>3. QED
      BY <1>11, <3>1, <3>2 DEF TypeOK, LockInv, Crash
  <2>2. QED
    BY <2>1 DEF LockInv
<1>12. ASSUME NEW n \in Nodes, NEW c \in Chains, Epoch(n, c) \/ CreateBlock(n, c) \/ WorkerStop(n, c)
       PROVE  LockInv'
  BY <1>1, <1>12 DEF Epoch, CreateBlock, WorkerStop, clientVars
<1>13. ASSUME NEW n \in Nodes, CloseQueues(n) \/ Restart(n) PROVE LockInv'
  BY <1>1, <1>13 DEF CloseQueues, Restart, clientVars
<1>14. CASE UNCHANGED vars
  BY <1>1, <1>14 DEF vars, nodeVars, clientVars
<1>15. QED
  BY <1>2, <1>3, <1>4, <1>5, <1>6, <1>7, <1>8, <1>9, <1>10, <1>11, <1>12, <1>13, <1>14 DEF Next

\* CreateGenesisBlock never runs twice at the same time on a node, for any
\* number of callers.
THEOREM GenesisIsExclusive == Spec => []GenesisExclusive
<1>1. Init => LockInv
  BY DEF Init, LockInv, InGenesis, Idle
<1>2. LockInv => GenesisExclusive
  BY DEF LockInv, InGenesis, GenesisExclusive
<1>3. Spec => []LockInv
  BY <1>1, LockStep, TypeCorrect, PTL DEF Spec
<1>4. QED
  BY <1>2, <1>3, PTL

-----------------------------------------------------------------------------
(* Workers and the databases of their nodes *)

\* A creation after StoreSkipBlock has returned.
Announcing(k) == call[k].at \in {"update", "register"}

\* A worker, and the answer that names a ledger, come after the ledger is in
\* the database of their node.
StoredFirst ==
    /\ \A n \in Nodes, c \in Chains : worker[n][c] # "none" => c \in db[n]
    /\ \A n \in Nodes : told[n] \subseteq db[n]
    /\ \A k \in Clients : Announcing(k) => call[k].chain \in db[call[k].node]

LedgerInv == StoredFirst /\ NoPanic /\ QueueBeforeReply

\* Storing a block removes nothing from any database and puts the ledger in
\* the leader's.
LEMMA StoreBlockGrows ==
    ASSUME TypeOK, NEW n \in Nodes, NEW c \in Chains, NEW p, StoreBlock(n, c, p)
    PROVE  (\A m \in Nodes : db[m] \subseteq db'[m]) /\ c \in db'[n]
BY DEF TypeOK, StoreBlock

\* Every step keeps the ledgers of the workers in the database of their node:
\* a worker is started after the block is stored and blocks are never removed.
LEMMA LedgerStep == TypeOK /\ LedgerInv /\ [Next]_vars => LedgerInv'
<1> SUFFICES ASSUME TypeOK, LedgerInv, [Next]_vars PROVE LedgerInv'
  OBVIOUS
<1> USE LedgerAssumption
\* The steps that change no worker, no status and no answer, and only add to
\* the databases.
<1>0. ASSUME UNCHANGED <<status, worker, told>>, \A m \in Nodes : db[m] \subseteq db'[m],
             \A k \in Clients :
                Announcing(k)' => call'[k].chain \in db'[call'[k].node]
      PROVE  LedgerInv'
  BY <1>0 DEF LedgerInv, StoredFirst, NoPanic, QueueBeforeReply, Announcing
<1>a. ASSUME NEW k \in Clients, NEW r, r.at \notin {"update", "register"}, call' = [call EXCEPT ![k] = r],
             UNCHANGED <<status, worker, told>>, \A m \in Nodes : db[m] \subseteq db'[m]
      PROVE  LedgerInv'
  <2>1. ASSUME NEW j \in Clients, Announcing(j)'
        PROVE  call'[j].chain \in db'[call'[j].node]
    <3>1. j # k /\ call'[j] = call[j]
      BY <1>a, <2>1 DEF TypeOK, Announcing
    <3>2. QED
      BY <1>a, <2>1, <3>1, CallFacts DEF LedgerInv, StoredFirst, Announcing
  <2>2. QED
    BY <1>0, <1>a, <2>1
<1>1. CASE UNCHANGED <<status, worker, told, db, call>>
  BY <1>1 DEF LedgerInv, StoredFirst, NoPanic, QueueBeforeReply, Announcing
<1>2. ASSUME NEW k \in Clients, NEW n \in Nodes, CallGenesis(k, n) PROVE LedgerInv'
  <2> DEFINE r == [Idle EXCEPT !.at = "lock", !.node = n]
  <2>1. r.at \notin {"update", "register"} /\ call' = [call EXCEPT ![k] = r] /\ UNCHANGED <<status, worker, told, db>>
    BY <1>2 DEF CallGenesis, Idle, nodeVars, history
  <2>2. QED
    BY <1>a, <2>1
<1>3. ASSUME NEW k \in Clients, GenesisLock(k) PROVE LedgerInv'
  <2>1. \A j \in Clients : Announcing(j)' => call'[j] = call[j]
    BY <1>3 DEF TypeOK, GenesisLock, Announcing
  <2>2. UNCHANGED <<status, worker, told, db>>
    BY <1>3 DEF GenesisLock, history
  <2>3. QED
    BY <1>0, <2>1, <2>2 DEF LedgerInv, StoredFirst, Announcing
<1>4. ASSUME NEW k \in Clients, GenesisRefuse(k) PROVE LedgerInv'
  <2>1. call' = [call EXCEPT ![k] = Idle] /\ UNCHANGED <<status, worker, told, db>>
    BY <1>4 DEF GenesisRefuse, Return, history
  <2>2. QED
    BY <1>a, <2>1 DEF Idle
<1>5. ASSUME NEW k \in Clients, GenesisStore(k) PROVE LedgerInv'
  <2> DEFINE n == call[k].node
  <2>1. n \in Nodes
    BY <1>5, CallFacts DEF GenesisStore
  <2>2. PICK c \in Chains, p \in Propagations(n), s \in {"update", "hung"} :
          /\ StoreBlock(n, c, p)
          /\ call' = [call EXCEPT ![k].at = s, ![k].chain = c]
    BY <1>5 DEF GenesisStore
  <2>3. (\A m \in Nodes : db[m] \subseteq db'[m]) /\ c \in db'[n]
    BY <2>1, <2>2, StoreBlockGrows
  <2>4. ASSUME NEW j \in Clients, Announcing(j)'
        PROVE  call'[j].chain \in db'[call'[j].node]
    <3>1. CASE j = k
      <4>1. call[k] \in [at : {"lock", "store"}, node : Nodes, chain : {Nobody}, tx : {Nobody}]
        BY <1>5, CallFacts DEF GenesisStore
      <4>2. call'[k].chain = c /\ call'[k].node = n
        BY <2>2, <4>1 DEF TypeOK
      <4>3. QED
        BY <2>3, <3>1, <4>2
    <3>2. CASE j # k
      <4>1. call'[j] = call[j]
        BY <2>2, <3>2 DEF TypeOK
      <4>2. QED
        BY <2>3, <2>4, <4>1, CallFacts DEF LedgerInv, StoredFirst, Announcing
    <3>3. QED
      BY <3>1, <3>2
  <2>5. UNCHANGED <<status, worker, told>>
    BY <1>5 DEF GenesisStore, history
  <2>6. QED
    BY <1>0, <2>3, <2>4, <2>5
<1>6. ASSUME NEW k \in Clients, GenesisUpdate(k) PROVE LedgerInv'
  <2>1. PICK s : call' = [call EXCEPT ![k].at = s]
    BY <1>6 DEF GenesisUpdate
  <2>2. UNCHANGED <<status, worker, told, db>> /\ Announcing(k)
    BY <1>6 DEF GenesisUpdate, history, Announcing
  <2>3. \A j \in Clients : /\ call'[j].chain = call[j].chain
                           /\ call'[j].node = call[j].node
                           /\ j # k => call'[j] = call[j]
    BY <2>1 DEF TypeOK
  <2>4. \A j \in Clients : Announcing(j)' => Announcing(j)
    BY <2>2, <2>3 DEF Announcing
  <2>5. QED
    BY <1>0, <2>2, <2>3, <2>4 DEF LedgerInv, StoredFirst
<1>7. ASSUME NEW k \in Clients, GenesisRegister(k) PROVE LedgerInv'
  <2> DEFINE n == call[k].node
             c == call[k].chain
  <2>1. n \in Nodes /\ c \in Chains /\ c \in db[n]
    BY <1>7, CallFacts DEF GenesisRegister, LedgerInv, StoredFirst, Announcing
  <2>2. /\ worker' = [worker EXCEPT ![n][c] = "waiting"]
        /\ told' = [told EXCEPT ![n] = told[n] \cup {c}]
        /\ UNCHANGED <<status, db>>
        /\ call' = [call EXCEPT ![k] = Idle]
    BY <1>7 DEF GenesisRegister, Return
  <2>3. StoredFirst'
    <3>1. \A m \in Nodes, d \in Chains : worker'[m][d] # "none" => d \in db'[m]
      BY <2>1, <2>2 DEF TypeOK, LedgerInv, StoredFirst
    <3>2. \A m \in Nodes : told'[m] \subseteq db'[m]
      BY <2>1, <2>2 DEF TypeOK, LedgerInv, StoredFirst
    <3>3. \A j \in Clients : Announcing(j)' => call'[j].chain \in db'[call'[j].node]
      BY <2>2 DEF TypeOK, Idle, LedgerInv, StoredFirst, Announcing
    <3>4. QED
      BY <3>1, <3>2, <3>3 DEF StoredFirst, Announcing
  <2>4. QueueBeforeReply'
    BY <2>1, <2>2 DEF TypeOK, LedgerInv, QueueBeforeReply
  <2>5. QED
    BY <2>2, <2>3, <2>4 DEF LedgerInv, NoPanic
<1>8. ASSUME NEW k \in Clients, NEW n \in Nodes, AddTransactionRefuse(k, n) PROVE LedgerInv'
  <2>1. call' = [call EXCEPT ![k] = Idle] /\ UNCHANGED <<status, worker, told, db>>
    BY <1>8 DEF AddTransactionRefuse, Return, nodeVars, history
  <2>2. QED
    BY <1>a, <2>1 DEF Idle
<1>9. ASSUME NEW k \in Clients, NEW n \in Nodes, NEW c \in Chains, NEW t \in Txs,
             AddTransaction(k, n, c, t)
      PROVE LedgerInv'
  <2> DEFINE r == [at |-> "send", node |-> n, chain |-> c, tx |-> t]
  <2>1. r.at \notin {"update", "register"} /\ call' = [call EXCEPT ![k] = r] /\ UNCHANGED <<status, worker, told, db>>
    BY <1>9 DEF AddTransaction, nodeVars, history
  <2>2. QED
    BY <1>a, <2>1
<1>10. ASSUME NEW k \in Clients, Receive(k) PROVE LedgerInv'
  <2>1. call' = [call EXCEPT ![k] = Idle] /\ UNCHANGED <<status, worker, told, db>>
    BY <1>10 DEF Receive, Return
  <2>2. QED
    BY <1>a, <2>1 DEF Idle
<1>11. ASSUME NEW n \in Nodes, NEW c \in Chains, Epoch(n, c) PROVE LedgerInv'
  <2>1. c \in db[n]
    BY <1>11 DEF Epoch, LedgerInv, StoredFirst
  <2>2. worker' = [worker EXCEPT ![n][c] = "creating"] /\ UNCHANGED <<status, db, told, call>>
    BY <1>11, <2>1 DEF Epoch, clientVars, history
  <2>3. QED
    BY <2>1, <2>2 DEF TypeOK, LedgerInv, StoredFirst, NoPanic, QueueBeforeReply, Announcing
<1>12. ASSUME NEW n \in Nodes, NEW c \in Chains, CreateBlock(n, c) PROVE LedgerInv'
  <2>1. worker[n][c] = "creating" /\ \E s \in {"waiting", "hung"} : worker' = [worker EXCEPT ![n][c] = s]
    BY <1>12 DEF CreateBlock
  <2>2. \A m \in Nodes : db[m] \subseteq db'[m]
    BY <1>12, StoreBlockGrows DEF CreateBlock
  <2>3. UNCHANGED <<status, told, call>>
    BY <1>12 DEF CreateBlock, clientVars
  <2>4. \A m \in Nodes, d \in Chains : worker'[m][d] # "none" <=> worker[m][d] # "none"
    BY <2>1 DEF TypeOK
  <2>5. StoredFirst'
    <3>1. \A k \in Clients : Announcing(k) => call[k].node \in Nodes
      BY CallFacts DEF Announcing
    <3>2. QED
      BY <2>2, <2>3, <2>4, <3>1 DEF LedgerInv, StoredFirst, Announcing
  <2>6. QED
    BY <2>3, <2>4, <2>5 DEF TypeOK, LedgerInv, NoPanic, QueueBeforeReply
<1>13. ASSUME NEW n \in Nodes, CloseQueues(n) PROVE LedgerInv'
  BY <1>1, <1>13 DEF CloseQueues, clientVars, history
<1>14. ASSUME NEW n \in Nodes, NEW c \in Chains, WorkerStop(n, c) PROVE LedgerInv'
  <2>1. /\ worker[n][c] = "waiting"
        /\ worker' = [worker EXCEPT ![n][c] = "stopped"]
        /\ UNCHANGED <<status, db, told, call>>
    BY <1>14 DEF WorkerStop, clientVars
  <2>2. QED
    BY <2>1 DEF TypeOK, LedgerInv, StoredFirst, NoPanic, QueueBeforeReply, Announcing
<1>15. ASSUME NEW n \in Nodes, Crash(n) PROVE LedgerInv'
  <2>1. /\ worker' = [worker EXCEPT ![n] = [c \in Chains |-> "none"]]
        /\ status' = [status EXCEPT ![n] = "down"]
        /\ call' = [k \in Clients |-> IF call[k].node = n THEN Idle ELSE call[k]]
        /\ UNCHANGED <<db, told>>
    BY <1>15 DEF Crash
  <2>2. StoredFirst'
    BY <2>1 DEF TypeOK, LedgerInv, StoredFirst, Announcing, Idle
  <2>3. QueueBeforeReply' /\ NoPanic'
    BY <2>1 DEF TypeOK, LedgerInv, QueueBeforeReply, NoPanic
  <2>4. QED
    BY <2>2, <2>3 DEF LedgerInv
<1>16. ASSUME NEW n \in Nodes, Restart(n) PROVE LedgerInv'
  <2>1. UNCHANGED <<db, told, call>>
    BY <1>16 DEF Restart, clientVars, history
  <2>2. CASE /\ status' = [status EXCEPT ![n] = "up"]
             /\ worker' = [worker EXCEPT ![n] =
                              [c \in Chains |-> IF c \in db[n] THEN "waiting" ELSE "none"]]
    <3>1. StoredFirst'
      BY <2>1, <2>2 DEF TypeOK, LedgerInv, StoredFirst, Announcing
    <3>2. QueueBeforeReply'
      <4>1. ASSUME NEW m \in Nodes, NEW c \in told[m], status'[m] = "up" PROVE worker'[m][c] # "none"
        <5>1. c \in Chains /\ c \in db[m]
          BY DEF TypeOK, LedgerInv, StoredFirst
        <5>2. QED
          BY <2>2, <4>1, <5>1 DEF TypeOK, LedgerInv, QueueBeforeReply
      <4>2. QED
        BY <2>1, <4>1 DEF QueueBeforeReply
    <3>3. QED
      BY <2>2, <3>1, <3>2 DEF TypeOK, LedgerInv, NoPanic
  <2>3. CASE status' = [status EXCEPT ![n] = "failed"] /\ UNCHANGED worker
    BY <2>1, <2>3 DEF TypeOK, LedgerInv, StoredFirst, NoPanic, QueueBeforeReply, Announcing
  <2>4. QED
    BY <1>16, <2>2, <2>3 DEF Restart
<1>17. CASE UNCHANGED vars
  BY <1>1, <1>17 DEF vars, nodeVars, clientVars, history
<1>18. QED
  BY <1>2, <1>3, <1>4, <1>5, <1>6, <1>7, <1>8, <1>9, <1>10, <1>11, <1>12, <1>13, <1>14,
     <1>15, <1>16, <1>17 DEF Next

\* The invariant about databases and workers holds in every execution of the
\* service.
LEMMA LedgerInvariant == Spec => []LedgerInv
<1>1. Init => LedgerInv
  BY DEF Init, LedgerInv, StoredFirst, NoPanic, QueueBeforeReply, Announcing, Idle
<1>2. QED
  BY <1>1, LedgerStep, TypeCorrect, PTL DEF Spec

\* The panic of createQueueWorker is unreachable on every roster, whatever
\* crashes, restarts and propagation failures there are.
THEOREM WorkersNeverPanic == Spec => []NoPanic
BY LedgerInvariant, PTL DEF LedgerInv

\* A ledger that CreateGenesisBlock announced has a queue on the node that
\* announced it, whenever that node serves calls, also after it restarted.
THEOREM AnnouncedHasQueue == Spec => []QueueBeforeReply
BY LedgerInvariant, PTL DEF LedgerInv

-----------------------------------------------------------------------------
(* Propagations that hang *)

\* A propagation misses the replies of the nodes that are not up and of at
\* most Losses others.
LEMMA MissingBound ==
    ASSUME NEW n \in Nodes, NEW p \in Propagations(n)
    PROVE  Cardinality(Nodes \ (p.replied \cup {n})) <= Cardinality(Nodes \ Up) + Losses
<1> DEFINE D == Nodes \ Up
           L == (Up \ {n}) \ p.replied
           M == Nodes \ (p.replied \cup {n})
<1>1. Cardinality(L) <= Losses
  BY DEF Propagations
<1>2. M \subseteq D \cup L
  BY DEF Up
<1>3. IsFiniteSet(D) /\ IsFiniteSet(L) /\ IsFiniteSet(D \cap L)
  BY LedgerAssumption, FS_Subset DEF Up
<1>4. /\ IsFiniteSet(D \cup L)
      /\ Cardinality(D \cup L) = Cardinality(D) + Cardinality(L) - Cardinality(D \cap L)
  BY <1>3, FS_Union
<1>5. Cardinality(M) <= Cardinality(D \cup L)
  BY <1>2, <1>4, FS_Subset
<1>6. /\ Cardinality(D) \in Nat /\ Cardinality(L) \in Nat /\ Cardinality(D \cap L) \in Nat
      /\ Cardinality(D \cup L) \in Nat
  BY <1>3, <1>4, FS_CardinalityType
<1>7. IsFiniteSet(M)
  BY <1>2, <1>4, FS_Subset
<1>8. Cardinality(M) \in Nat
  BY <1>7, FS_CardinalityType
<1> HIDE DEF D, L, M
<1>9. Cardinality(M) <= Cardinality(D) + Losses
  BY <1>1, <1>4, <1>5, <1>6, <1>8, LedgerAssumption
<1>10. QED
  BY <1>9 DEF D, M

\* Every node that is not up has crashed, and what hangs was missed by more
\* nodes than its propagation allows for.
HangInv == Cardinality(Nodes \ Up) <= crashes /\ HangBeyondThreshold

\* GenesisStore, GenesisUpdate and CreateBlock hang only beyond the threshold;
\* Crash takes one node down, and no step but a crash does.
LEMMA HangStep == TypeOK /\ LedgerInv /\ HangInv /\ [Next]_vars => HangInv'
<1> SUFFICES ASSUME TypeOK, LedgerInv, HangInv, [Next]_vars PROVE HangInv'
  OBVIOUS
<1> USE LedgerAssumption
<1> DEFINE Beyond == crashes + Losses > AllowedFailures
<1>c. crashes \in Nat /\ Cardinality(Nodes) \in Nat /\ AllowedFailures \in Int
  BY FS_CardinalityType DEF TypeOK, AllowedFailures
<1>u. IsFiniteSet(Nodes \ Up) /\ Cardinality(Nodes \ Up) \in Nat
  BY FS_Subset, FS_CardinalityType
<1>m. ASSUME NEW n \in Nodes, NEW p \in Propagations(n), ~Completes(n, p) PROVE Beyond
  <2> DEFINE M == Nodes \ (p.replied \cup {n})
  <2>1. IsFiniteSet(M)
    BY FS_Subset
  <2>2. Cardinality(M) \in Nat
    BY <2>1, FS_CardinalityType
  <2>3. Cardinality(M) <= Cardinality(Nodes \ Up) + Losses
    BY MissingBound
  <2>4. ~(Cardinality(M) <= AllowedFailures)
    BY <1>m DEF Completes
  <2>5. Cardinality(Nodes \ Up) <= crashes
    BY DEF HangInv
  <2> HIDE DEF M
  <2>6. QED
    BY <1>c, <1>u, <2>2, <2>3, <2>4, <2>5
\* The steps with the same nodes up, after which whatever hangs that did not
\* hang before is beyond the threshold.
<1>0. ASSUME Up' = Up, UNCHANGED crashes,
             \A k \in Clients : call'[k].at = "hung" => call[k].at = "hung" \/ Beyond,
             \A n \in Nodes, c \in Chains : worker'[n][c] = "hung" => worker[n][c] = "hung" \/ Beyond
      PROVE  HangInv'
  <2>1. AllowedFailures' = AllowedFailures
    BY DEF AllowedFailures
  <2>2. HangBeyondThreshold'
    BY <1>0, <2>1 DEF HangInv, HangBeyondThreshold
  <2>3. QED
    BY <1>0, <2>2 DEF HangInv
<1>1. CASE UNCHANGED <<status, worker, call, crashes>>
  <2>1. Up' = Up
    BY <1>1 DEF Up
  <2>2. QED
    BY <1>0, <1>1, <2>1
<1>a. ASSUME NEW k \in Clients, NEW r, call' = [call EXCEPT ![k] = r],
             r.at = "hung" => Beyond, UNCHANGED <<status, worker, crashes>>
      PROVE  HangInv'
  <2>1. Up' = Up
    BY <1>a DEF Up
  <2>2. \A j \in Clients : call'[j].at = "hung" => call[j].at = "hung" \/ Beyond
    BY <1>a DEF TypeOK
  <2>3. QED
    BY <1>0, <1>a, <2>1, <2>2
<1>2. ASSUME NEW k \in Clients, NEW n \in Nodes, CallGenesis(k, n) PROVE HangInv'
  <2> DEFINE r == [Idle EXCEPT !.at = "lock", !.node = n]
  <2>1. r.at # "hung" /\ call' = [call EXCEPT ![k] = r] /\ UNCHANGED <<status, worker, crashes>>
    BY <1>2 DEF CallGenesis, Idle, nodeVars, history
  <2>2. QED
    BY <1>a, <2>1
<1>3. ASSUME NEW k \in Clients, GenesisLock(k) PROVE HangInv'
  <2>1. call[k] \in [at : {"lock", "store"}, node : Nodes, chain : {Nobody}, tx : {Nobody}]
    BY <1>3, CallFacts DEF GenesisLock
  <2> DEFINE r == [call[k] EXCEPT !.at = "store"]
  <2>2. r.at # "hung" /\ call' = [call EXCEPT ![k] = r] /\ UNCHANGED <<status, worker, crashes>>
    BY <1>3, <2>1 DEF GenesisLock, history
  <2>3. QED
    BY <1>a, <2>2
\* The calls that return.
<1>b. ASSUME NEW k \in Clients, call' = [call EXCEPT ![k] = Idle], UNCHANGED <<status, worker, crashes>>
      PROVE  HangInv'
  BY <1>a, <1>b DEF Idle
<1>4. ASSUME NEW k \in Clients, GenesisRefuse(k) PROVE HangInv'
  BY <1>b, <1>4 DEF GenesisRefuse, Return, history
<1>5. ASSUME NEW k \in Clients, GenesisStore(k) PROVE HangInv'
  <2> DEFINE n == call[k].node
  <2>1. n \in Nodes /\ call[k] \in [at : {"lock", "store"}, node : Nodes, chain : {Nobody}, tx : {Nobody}]
    BY <1>5, CallFacts DEF GenesisStore
  <2>2. PICK c \in Chains, p \in Propagations(n) :
          call' = [call EXCEPT ![k].at = IF Completes(n, p) THEN "update" ELSE "hung", ![k].chain = c]
    BY <1>5 DEF GenesisStore
  <2> DEFINE r == [call[k] EXCEPT !.at = IF Completes(n, p) THEN "update" ELSE "hung", !.chain = c]
  <2>3. r.at = "hung" => Beyond
    BY <2>1, <1>m
  <2>4. call' = [call EXCEPT ![k] = r]
    BY <2>2 DEF TypeOK
  <2>5. QED
    BY <1>5, <1>a, <2>3, <2>4 DEF GenesisStore, history
<1>6. ASSUME NEW k \in Clients, GenesisUpdate(k) PROVE HangInv'
  <2> DEFINE n == call[k].node
  <2>1. n \in Nodes /\ call[k] \in [at : {"update", "register", "hung"}, node : Nodes, chain : Chains, tx : {Nobody}]
    BY <1>6, CallFacts DEF GenesisUpdate
  <2>2. PICK p \in Propagations(n) :
          call' = [call EXCEPT ![k].at = IF Completes(n, p) THEN "register" ELSE "hung"]
    BY <1>6 DEF GenesisUpdate
  <2> DEFINE r == [call[k] EXCEPT !.at = IF Completes(n, p) THEN "register" ELSE "hung"]
  <2>3. r.at = "hung" => Beyond
    BY <2>1, <1>m
  <2>4. call' = [call EXCEPT ![k] = r]
    BY <2>2
  <2>5. QED
    BY <1>6, <1>a, <2>3, <2>4 DEF GenesisUpdate, history
<1>7. ASSUME NEW k \in Clients, GenesisRegister(k) PROVE HangInv'
  <2>1. call[k].node \in Nodes /\ call[k].chain \in Chains
    BY <1>7, CallFacts DEF GenesisRegister
  <2>2. /\ worker' = [worker EXCEPT ![call[k].node][call[k].chain] = "waiting"]
        /\ call' = [call EXCEPT ![k] = Idle]
        /\ UNCHANGED <<status, crashes>>
    BY <1>7 DEF GenesisRegister, Return
  <2>3. \A m \in Nodes, d \in Chains : worker'[m][d] = "hung" => worker[m][d] = "hung"
    BY <2>1, <2>2 DEF TypeOK
  <2>4. \A j \in Clients : call'[j].at = "hung" => call[j].at = "hung"
    BY <2>2 DEF TypeOK, Idle
  <2>5. Up' = Up
    BY <2>2 DEF Up
  <2>6. QED
    BY <1>0, <2>2, <2>3, <2>4, <2>5
<1>8. ASSUME NEW k \in Clients, NEW n \in Nodes, AddTransactionRefuse(k, n) PROVE HangInv'
  BY <1>b, <1>8 DEF AddTransactionRefuse, Return, nodeVars, history
<1>9. ASSUME NEW k \in Clients, NEW n \in Nodes, NEW c \in Chains, NEW t \in Txs,
             AddTransaction(k, n, c, t)
      PROVE HangInv'
  <2> DEFINE r == [at |-> "send", node |-> n, chain |-> c, tx |-> t]
  <2>1. r.at # "hung" /\ call' = [call EXCEPT ![k] = r] /\ UNCHANGED <<status, worker, crashes>>
    BY <1>9 DEF AddTransaction, nodeVars, history
  <2>2. QED
    BY <1>a, <2>1
<1>10. ASSUME NEW k \in Clients, Receive(k) PROVE HangInv'
  BY <1>b, <1>10 DEF Receive, Return
\* The steps of a worker.
<1>d. ASSUME NEW n \in Nodes, NEW c \in Chains, NEW s, worker' = [worker EXCEPT ![n][c] = s],
             s = "hung" => Beyond, UNCHANGED <<status, call, crashes>>
      PROVE  HangInv'
  <2>1. Up' = Up
    BY <1>d DEF Up
  <2>2. \A m \in Nodes, d \in Chains : worker'[m][d] = "hung" => worker[m][d] = "hung" \/ Beyond
    BY <1>d DEF TypeOK
  <2>3. QED
    BY <1>0, <1>d, <2>1, <2>2
<1>11. ASSUME NEW n \in Nodes, NEW c \in Chains, Epoch(n, c) PROVE HangInv'
  <2>1. c \in db[n]
    BY <1>11 DEF Epoch, LedgerInv, StoredFirst
  <2>2. QED
    BY <1>11, <1>d, <2>1 DEF Epoch, clientVars, history
<1>12. ASSUME NEW n \in Nodes, NEW c \in Chains, CreateBlock(n, c) PROVE HangInv'
  <2>1. UNCHANGED <<status, call, crashes>>
    BY <1>12 DEF CreateBlock, clientVars
  <2>2. CASE worker' = [worker EXCEPT ![n][c] = "waiting"]
    <3>1. "waiting" # "hung"
      OBVIOUS
    <3> HIDE DEF Beyond
    <3>2. QED
      BY <1>d, <2>1, <2>2, <3>1
  <2>3. CASE \E p, q \in Propagations(n) :
                worker' = [worker EXCEPT ![n][c] =
                    IF Completes(n, p) /\ Completes(n, q) THEN "waiting" ELSE "hung"]
    <3>1. PICK p \in Propagations(n), q \in Propagations(n) :
                worker' = [worker EXCEPT ![n][c] =
                    IF Completes(n, p) /\ Completes(n, q) THEN "waiting" ELSE "hung"]
      BY <2>3
    <3> DEFINE s == IF Completes(n, p) /\ Completes(n, q) THEN "waiting" ELSE "hung"
    <3>2. s = "hung" => Beyond
      BY <1>m
    <3>3. worker' = [worker EXCEPT ![n][c] = s]
      BY <3>1
    <3> HIDE DEF s, Beyond
    <3>4. QED
      BY <1>d, <2>1, <3>2, <3>3
  <2>4. QED
    BY <1>12, <2>2, <2>3 DEF CreateBlock
<1>13. ASSUME NEW n \in Nodes, CloseQueues(n) PROVE HangInv'
  BY <1>1, <1>13 DEF CloseQueues, clientVars, history
<1>14. ASSUME NEW n \in Nodes, NEW c \in Chains, WorkerStop(n, c) PROVE HangInv'
  <2>1. worker' = [worker EXCEPT ![n][c] = "stopped"] /\ UNCHANGED <<status, call, crashes>>
    BY <1>14 DEF WorkerStop, clientVars
  <2>2. "stopped" # "hung"
    OBVIOUS
  <2> HIDE DEF Beyond
  <2>3. QED
    BY <1>d, <2>1, <2>2
<1>15. ASSUME NEW n \in Nodes, Crash(n) PROVE HangInv'
  <2>1. /\ status' = [status EXCEPT ![n] = "down"]
        /\ worker' = [worker EXCEPT ![n] = [c \in Chains |-> "none"]]
        /\ call' = [k \in Clients |-> IF call[k].node = n THEN Idle ELSE call[k]]
        /\ crashes' = crashes + 1
    BY <1>15 DEF Crash
  <2>2. Up' = Up \ {n}
    BY <2>1 DEF TypeOK, Up
  <2>3. Nodes \ Up' = (Nodes \ Up) \cup {n}
    BY <2>2
  <2>4. Cardinality(Nodes \ Up') <= Cardinality(Nodes \ Up) + 1
    <3>1. Cardinality((Nodes \ Up) \cup {n}) \in {Cardinality(Nodes \ Up), Cardinality(Nodes \ Up) + 1}
      BY <1>u, FS_AddElement
    <3>2. Cardinality(Nodes \ Up') \in {Cardinality(Nodes \ Up), Cardinality(Nodes \ Up) + 1}
      BY <2>3, <3>1, Zenon
    <3>3. QED
      BY <1>u, <3>2
  <2>5. Cardinality(Nodes \ Up') <= crashes'
    <3>1. IsFiniteSet(Nodes \ Up')
      BY FS_Subset
    <3>2. Cardinality(Nodes \ Up') \in Nat
      BY <3>1, FS_CardinalityType
    <3>3. Cardinality(Nodes \ Up) <= crashes
      BY DEF HangInv
    <3>4. QED
      BY <1>c, <1>u, <2>1, <2>4, <3>2, <3>3
  <2>6. AllowedFailures' = AllowedFailures
    BY DEF AllowedFailures
  <2>7. \A k \in Clients : call'[k].at = "hung" => call[k].at = "hung"
    BY <2>1 DEF Idle
  <2>8. \A m \in Nodes, d \in Chains : worker'[m][d] = "hung" => worker[m][d] = "hung"
    BY <2>1 DEF TypeOK
  <2>9. Beyond => Beyond'
    BY <1>c, <2>1, <2>6
  <2>10. HangBeyondThreshold'
    BY <2>7, <2>8, <2>9 DEF HangInv, HangBeyondThreshold
  <2>11. QED
    BY <2>5, <2>10 DEF HangInv
<1>16. ASSUME NEW n \in Nodes, Restart(n) PROVE HangInv'
  <2>1. UNCHANGED <<call, crashes>> /\ status[n] = "down"
    BY <1>16 DEF Restart, clientVars, history
  <2>2. Nodes \ Up' \in SUBSET (Nodes \ Up)
    BY <1>16, <2>1 DEF TypeOK, Up, Restart
  <2>3. Cardinality(Nodes \ Up') <= crashes'
    <3>1. /\ IsFiniteSet(Nodes \ Up')
          /\ Cardinality(Nodes \ Up') <= Cardinality(Nodes \ Up)
      BY <1>u, <2>2, FS_Subset
    <3>2. Cardinality(Nodes \ Up') \in Nat
      BY <3>1, FS_CardinalityType
    <3>3. Cardinality(Nodes \ Up) <= crashes
      BY DEF HangInv
    <3>4. QED
      BY <1>c, <1>u, <2>1, <3>1, <3>2, <3>3
  <2>4. \A m \in Nodes, d \in Chains : worker'[m][d] = "hung" => worker[m][d] = "hung"
    <3>1. CASE worker' = [worker EXCEPT ![n] =
                             [c \in Chains |-> IF c \in db[n] THEN "waiting" ELSE "none"]]
      BY <3>1 DEF TypeOK
    <3>2. CASE UNCHANGED worker
      BY <3>2
    <3>3. QED
      BY <1>16, <3>1, <3>2 DEF Restart
  <2>5. AllowedFailures' = AllowedFailures
    BY DEF AllowedFailures
  <2>6. HangBeyondThreshold'
    BY <2>1, <2>4, <2>5 DEF HangInv, HangBeyondThreshold
  <2>7. QED
    BY <2>3, <2>6 DEF HangInv
<1>17. CASE UNCHANGED vars
  BY <1>1, <1>17 DEF vars, nodeVars, clientVars, history
<1>18. QED
  BY <1>2, <1>3, <1>4, <1>5, <1>6, <1>7, <1>8, <1>9, <1>10, <1>11, <1>12, <1>13, <1>14,
     <1>15, <1>16, <1>17 DEF Next

\* Whatever the roster, CreateGenesisBlock and the workers only hang when more
\* nodes crashed or were missed than a third of the others.
THEOREM HangsBeyondThreshold == Spec => []HangBeyondThreshold
<1>1. Init => HangInv
  <2> SUFFICES ASSUME Init PROVE HangInv
    OBVIOUS
  <2>1. Nodes \ Up = {}
    BY DEF Init, Up
  <2>2. Cardinality(Nodes \ Up) <= crashes
    <3>1. Cardinality({}) = 0
      BY FS_EmptySet
    <3>2. Cardinality(Nodes \ Up) = 0 /\ crashes = 0
      BY <2>1, <3>1 DEF Init
    <3>3. QED
      BY <3>2
  <2>3. HangBeyondThreshold
    BY DEF Init, HangBeyondThreshold, Idle
  <2>4. QED
    BY <2>2, <2>3 DEF HangInv
<1>2. Spec => []HangInv
  BY <1>1, HangStep, TypeCorrect, LedgerInvariant, PTL DEF Spec
<1>3. QED
  BY <1>2, PTL DEF HangInv

-----------------------------------------------------------------------------
(* What becomes of a transaction *)

Sending(k) == call[k].at = "send"

Decided == refused \cup included \cup lost

\* No transaction has two outcomes.
Apart == refused \cap included = {} /\ (refused \cup included) \cap lost = {}

\* A transaction on its way to a worker is not accepted yet and is sent once;
\* only accepted ones are decided.
AcceptInv ==
    /\ \A k \in Clients : Sending(k) => call[k].tx \notin accepted
    /\ \A j, k \in Clients : Sending(j) /\ Sending(k) /\ call[j].tx = call[k].tx => j = k
    /\ Decided \subseteq accepted
    /\ AcceptedOnce

\* AcceptedOnce, with Decided for the three sets.
LEMMA AcceptedOnceFacts ==
    AcceptedOnce <=>
        /\ \A n \in Nodes, c \in Chains : \A t \in ToSet(ts[n][c]) :
              /\ t \in accepted \ Decided
              /\ \A m \in Nodes, d \in Chains : t \in ToSet(ts[m][d]) => m = n /\ d = c
              /\ \A i, j \in DOMAIN ts[n][c] : ts[n][c][i] = t /\ ts[n][c][j] = t => i = j
        /\ \A t \in accepted :
              t \in Decided \/ \E n \in Nodes, c \in Chains : t \in ToSet(ts[n][c])
        /\ Apart
BY DEF AcceptedOnce, Decided, Apart

\* The queue of a worker after it takes one more transaction.
LEMMA AppendFacts ==
    \A q \in Seq(Txs), t \in Txs :
        /\ ToSet(Append(q, t)) = ToSet(q) \cup {t}
        /\ \A i \in DOMAIN Append(q, t) :
              \/ i = Len(q) + 1 /\ Append(q, t)[i] = t
              \/ i \in DOMAIN q /\ Append(q, t)[i] = q[i] /\ q[i] \in ToSet(q)
<1> SUFFICES ASSUME NEW q \in Seq(Txs), NEW t \in Txs
             PROVE  /\ ToSet(Append(q, t)) = ToSet(q) \cup {t}
                    /\ \A i \in DOMAIN Append(q, t) :
                          \/ i = Len(q) + 1 /\ Append(q, t)[i] = t
                          \/ i \in DOMAIN q /\ Append(q, t)[i] = q[i] /\ q[i] \in ToSet(q)
  OBVIOUS
<1> DEFINE r == Append(q, t)
<1>1. Len(q) \in Nat /\ DOMAIN q = 1..Len(q) /\ DOMAIN r = 1..Len(q) + 1
  OBVIOUS
<1>2. r[Len(q) + 1] = t /\ \A i \in DOMAIN q : r[i] = q[i]
  OBVIOUS
<1>3. \A i \in DOMAIN r : i \in DOMAIN q \/ i = Len(q) + 1
  BY <1>1
<1>4. \A i \in DOMAIN q : i \in DOMAIN r
  BY <1>1
<1>5. Len(q) + 1 \in DOMAIN r
  BY <1>1
<1> HIDE DEF r
<1>6. ToSet(r) = ToSet(q) \cup {t}
  BY <1>2, <1>3, <1>4, <1>5 DEF ToSet
<1>7. \A i \in DOMAIN q : q[i] \in ToSet(q)
  BY DEF ToSet
<1>8. QED
  BY <1>2, <1>3, <1>6, <1>7 DEF r

\* The queue a worker starts with holds no transaction.
LEMMA EmptyFacts == ToSet(<<>>) = {}
BY DEF ToSet

\* Every step moves a transaction from its caller to a queue, and from there to
\* one outcome (Receive, CreateBlock, WorkerStop and Crash).
LEMMA AcceptStep == TypeOK /\ AcceptInv /\ [Next]_vars => AcceptInv'
<1> SUFFICES ASSUME TypeOK, AcceptInv, [Next]_vars PROVE AcceptInv'
  OBVIOUS
<1> USE LedgerAssumption
\* The steps that touch no queue and start no sending.
<1>0. ASSUME UNCHANGED <<ts, accepted, refused, included, lost>>,
             \A k \in Clients : Sending(k)' => call'[k] = call[k]
      PROVE  AcceptInv'
  <2>1. Decided' = Decided /\ AcceptedOnce'
    BY <1>0 DEF Decided, AcceptInv, AcceptedOnce
  <2>2. \A k \in Clients : Sending(k)' => Sending(k) /\ call'[k].tx = call[k].tx
    BY <1>0 DEF Sending
  <2>3. QED
    BY <1>0, <2>1, <2>2 DEF AcceptInv
\* The steps that empty queues and decide the transactions S in them.
<1>a. ASSUME NEW S, S \subseteq accepted, UNCHANGED accepted, Decided' = Decided \cup S, Apart',
             \A n \in Nodes, c \in Chains :
                \/ ts'[n][c] = <<>> /\ ToSet(ts[n][c]) \subseteq S
                \/ ts'[n][c] = ts[n][c] /\ ToSet(ts[n][c]) \cap S = {},
             \A k \in Clients : Sending(k)' => call'[k] = call[k]
      PROVE  AcceptInv'
  <2>1. \A k \in Clients : Sending(k)' => Sending(k) /\ call'[k].tx = call[k].tx
    BY <1>a DEF Sending
  <2>2. \A n \in Nodes, c \in Chains : \A t \in ToSet(ts'[n][c]) :
            ts'[n][c] = ts[n][c] /\ t \in ToSet(ts[n][c]) /\ t \notin S
    BY <1>a, EmptyFacts
  <2>3. ASSUME NEW n \in Nodes, NEW c \in Chains, NEW t \in ToSet(ts'[n][c])
        PROVE  /\ t \in accepted' \ Decided'
               /\ \A m \in Nodes, d \in Chains : t \in ToSet(ts'[m][d]) => m = n /\ d = c
               /\ \A i, j \in DOMAIN ts'[n][c] : ts'[n][c][i] = t /\ ts'[n][c][j] = t => i = j
    BY <1>a, <2>2, <2>3, AcceptedOnceFacts DEF AcceptInv
  <2>4. ASSUME NEW t \in accepted'
        PROVE  t \in Decided' \/ \E n \in Nodes, c \in Chains : t \in ToSet(ts'[n][c])
    BY <1>a, AcceptedOnceFacts DEF AcceptInv
  <2>5. AcceptedOnce'
    BY <1>a, <2>3, <2>4 DEF AcceptedOnce, Decided, Apart
  <2>6. QED
    BY <1>a, <2>1, <2>5 DEF AcceptInv
<1>1. CASE UNCHANGED <<ts, accepted, refused, included, lost, call>>
  BY <1>0, <1>1
<1>2. ASSUME NEW k \in Clients, NEW n \in Nodes, CallGenesis(k, n) PROVE AcceptInv'
  <2>1. call' = [call EXCEPT ![k] = [Idle EXCEPT !.at = "lock", !.node = n]]
    BY <1>2 DEF CallGenesis
  <2>2. \A j \in Clients : Sending(j)' => call'[j] = call[j]
    BY <2>1 DEF TypeOK, Sending, Idle
  <2>3. QED
    BY <1>0, <1>2, <2>2 DEF CallGenesis, nodeVars, history
<1>3. ASSUME NEW k \in Clients, GenesisLock(k) PROVE AcceptInv'
  <2>1. \A j \in Clients : Sending(j)' => call'[j] = call[j]
    BY <1>3 DEF TypeOK, GenesisLock, Sending
  <2>2. QED
    BY <1>0, <1>3, <2>1 DEF GenesisLock, history
\* The steps of a client that returns and whose call was no AddTransaction.
<1>b. ASSUME NEW k \in Clients, NEW answer, Return(k, answer),
             UNCHANGED <<ts, accepted, refused, included, lost>>
      PROVE  AcceptInv'
  <2>1. \A j \in Clients : Sending(j)' => call'[j] = call[j]
    BY <1>b DEF TypeOK, Return, Idle, Sending
  <2>2. QED
    BY <1>0, <1>b, <2>1
<1>4. ASSUME NEW k \in Clients, GenesisRefuse(k) PROVE AcceptInv'
  BY <1>b, <1>4 DEF GenesisRefuse, history
<1>5. ASSUME NEW k \in Clients, GenesisStore(k) PROVE AcceptInv'
  <2>1. PICK c \in Chains, s \in {"update", "hung"} :
          call' = [call EXCEPT ![k].at = s, ![k].chain = c]
    BY <1>5 DEF GenesisStore
  <2>2. call[k] \in [at : {"lock", "store"}, node : Nodes, chain : {Nobody}, tx : {Nobody}]
    BY <1>5, CallFacts DEF GenesisStore
  <2>3. \A j \in Clients : Sending(j)' => call'[j] = call[j]
    BY <2>1, <2>2 DEF TypeOK, Sending
  <2>4. QED
    BY <1>0, <1>5, <2>3 DEF GenesisStore, history
<1>6. ASSUME NEW k \in Clients, GenesisUpdate(k) PROVE AcceptInv'
  <2>1. PICK s \in {"register", "hung"} : call' = [call EXCEPT ![k].at = s]
    BY <1>6 DEF GenesisUpdate
  <2>2. call[k] \in [at : {"update", "register", "hung"}, node : Nodes, chain : Chains, tx : {Nobody}]
    BY <1>6, CallFacts DEF GenesisUpdate
  <2>3. \A j \in Clients : Sending(j)' => call'[j] = call[j]
    BY <2>1, <2>2 DEF TypeOK, Sending
  <2>4. QED
    BY <1>0, <1>6, <2>3 DEF GenesisUpdate, history
<1>7. ASSUME NEW k \in Clients, GenesisRegister(k) PROVE AcceptInv'
  BY <1>b, <1>7 DEF GenesisRegister
<1>8. ASSUME NEW k \in Clients, NEW n \in Nodes, AddTransactionRefuse(k, n) PROVE AcceptInv'
  BY <1>b, <1>8 DEF AddTransactionRefuse, nodeVars, history
<1>9. ASSUME NEW k \in Clients, NEW n \in Nodes, NEW c \in Chains, NEW t \in Txs,
             AddTransaction(k, n, c, t)
      PROVE AcceptInv'
  <2>1. t \notin accepted /\ \A j \in Clients : call[j].tx # t
    BY <1>9 DEF AddTransaction, Submitted
  <2>2. call' = [call EXCEPT ![k] = [at |-> "send", node |-> n, chain |-> c, tx |-> t]]
    BY <1>9 DEF AddTransaction
  <2>3. call'[k].tx = t /\ \A j \in Clients : j # k => call'[j] = call[j]
    BY <2>2 DEF TypeOK
  <2>4. UNCHANGED <<ts, accepted, refused, included, lost>>
    BY <1>9 DEF AddTransaction, nodeVars, history
  <2>5. AcceptedOnce' /\ Decided' \subseteq accepted'
    BY <2>4 DEF AcceptInv, AcceptedOnce, Decided
  <2>6. QED
    BY <2>1, <2>3, <2>4, <2>5 DEF AcceptInv, Sending
<1>10. ASSUME NEW k \in Clients, Receive(k) PROVE AcceptInv'
  <2> DEFINE n == call[k].node
             c == call[k].chain
             t == call[k].tx
             q == ts[n][c]
  <2>1. n \in Nodes /\ c \in Chains /\ t \in Txs /\ Sending(k) /\ q \in Seq(Txs)
    BY <1>10, CallFacts DEF Receive, Sending, TypeOK
  <2>2. /\ ts' = [ts EXCEPT ![n][c] = Append(q, t)]
        /\ accepted' = accepted \cup {t}
        /\ UNCHANGED <<refused, included, lost>>
        /\ call' = [call EXCEPT ![k] = Idle]
    BY <1>10 DEF Receive, Enqueue, Return
  <2>3. t \notin accepted /\ t \notin Decided /\ Decided' = Decided
    BY <2>1, <2>2 DEF AcceptInv, Decided
  <2> HIDE DEF n, c, t
  <2>4. \A m \in Nodes, d \in Chains : t \notin ToSet(ts[m][d])
    BY <2>3, AcceptedOnceFacts DEF AcceptInv
  <2>5. ts'[n][c] = Append(q, t)
    BY <2>1, <2>2 DEF TypeOK
  <2>6. \A m \in Nodes, d \in Chains : ~(m = n /\ d = c) => ts'[m][d] = ts[m][d]
    BY <2>1, <2>2 DEF TypeOK
  <2>q. q \in Seq(Txs) /\ t \in Txs
    BY <2>1
  <2> HIDE DEF q
  <2>7. ToSet(ts'[n][c]) = ToSet(q) \cup {t}
    BY <2>q, <2>5, AppendFacts
  <2>8. \A m \in Nodes, d \in Chains : \A u \in ToSet(ts'[m][d]) :
            \/ u = t /\ m = n /\ d = c
            \/ u # t /\ u \in ToSet(ts[m][d])
    BY <2>1, <2>4, <2>6, <2>7 DEF q
  <2>9. ASSUME NEW m \in Nodes, NEW d \in Chains, NEW u \in ToSet(ts'[m][d])
        PROVE  /\ u \in accepted' \ Decided'
               /\ \A o \in Nodes, e \in Chains : u \in ToSet(ts'[o][e]) => o = m /\ e = d
    <3>1. CASE u = t
      BY <2>2, <2>3, <2>8, <2>9, <3>1
    <3>2. CASE u # t
      <4>1. u \in ToSet(ts[m][d])
        BY <2>8, <2>9, <3>2
      <4>2. /\ u \in accepted \ Decided
            /\ \A o \in Nodes, e \in Chains : u \in ToSet(ts[o][e]) => o = m /\ e = d
        BY <4>1, AcceptedOnceFacts DEF AcceptInv
      <4>3. QED
        BY <2>2, <2>3, <2>8, <3>2, <4>2
    <3>3. QED
      BY <3>1, <3>2
  <2>10. ASSUME NEW m \in Nodes, NEW d \in Chains, NEW u \in ToSet(ts'[m][d]),
                NEW i \in DOMAIN ts'[m][d], NEW j \in DOMAIN ts'[m][d],
                ts'[m][d][i] = u, ts'[m][d][j] = u
         PROVE  i = j
    <3>1. CASE ~(m = n /\ d = c)
      <4>1. ts'[m][d] = ts[m][d] /\ u \in ToSet(ts[m][d])
        BY <2>6, <2>8, <2>10, <3>1
      <4>2. \A v \in ToSet(ts[m][d]) : \A a, b \in DOMAIN ts[m][d] :
                ts[m][d][a] = v /\ ts[m][d][b] = v => a = b
        BY AcceptedOnceFacts DEF AcceptInv
      <4>3. QED
        BY <2>10, <4>1, <4>2
    <3>2. CASE m = n /\ d = c /\ u = t
      <4>1. t \notin ToSet(q)
        BY <2>1, <2>4 DEF q
      <4>2. i \in DOMAIN Append(q, t) /\ j \in DOMAIN Append(q, t)
            /\ Append(q, t)[i] = t /\ Append(q, t)[j] = t
        BY <2>5, <2>10, <3>2
      <4>3. i = Len(q) + 1 /\ j = Len(q) + 1
        BY <2>q, <4>1, <4>2, AppendFacts
      <4>4. QED
        BY <4>3
    <3>3. CASE m = n /\ d = c /\ u # t
      <4>1. i \in DOMAIN Append(q, t) /\ j \in DOMAIN Append(q, t)
            /\ Append(q, t)[i] = u /\ Append(q, t)[j] = u
        BY <2>5, <2>10, <3>3
      <4>2. i \in DOMAIN q /\ j \in DOMAIN q /\ q[i] = u /\ q[j] = u /\ u \in ToSet(q)
        BY <2>q, <3>3, <4>1, AppendFacts
      <4>3. \A v \in ToSet(q) : \A a, b \in DOMAIN q : q[a] = v /\ q[b] = v => a = b
        BY <2>1, AcceptedOnceFacts DEF AcceptInv, q
      <4>4. QED
        BY <4>2, <4>3
    <3>4. QED
      BY <3>1, <3>2, <3>3
  <2>11. ASSUME NEW u \in accepted'
         PROVE  u \in Decided' \/ \E m \in Nodes, d \in Chains : u \in ToSet(ts'[m][d])
    <3>1. CASE u = t
      BY <2>1, <2>7, <3>1
    <3>2. CASE u # t
      <4>1. u \in Decided \/ \E m \in Nodes, d \in Chains : u \in ToSet(ts[m][d])
        BY <2>2, <3>2, AcceptedOnceFacts DEF AcceptInv
      <4>2. \A m \in Nodes, d \in Chains : ToSet(ts[m][d]) \subseteq ToSet(ts'[m][d])
        BY <2>6, <2>7 DEF q
      <4>3. QED
        BY <2>3, <4>1, <4>2
    <3>3. QED
      BY <3>1, <3>2
  <2>12. AcceptedOnce'
    <3>1. Apart'
      BY <2>2, AcceptedOnceFacts DEF AcceptInv, Apart
    <3>2. QED
      BY <2>9, <2>10, <2>11, <3>1 DEF AcceptedOnce, Decided, Apart
  <2>13. \A j \in Clients : Sending(j)' =>
            j # k /\ Sending(j) /\ call'[j].tx = call[j].tx /\ call[j].tx # t
    BY <2>1, <2>2 DEF TypeOK, AcceptInv, Sending, Idle, t
  <2>14. QED
    BY <2>2, <2>3, <2>12, <2>13 DEF AcceptInv
<1>11. ASSUME NEW n \in Nodes, NEW c \in Chains, Epoch(n, c) PROVE AcceptInv'
  BY <1>1, <1>11 DEF Epoch, clientVars, history
\* A worker that lets go of its whole queue.
<1>c. ASSUME NEW n \in Nodes, NEW c \in Chains, ts' = [ts EXCEPT ![n][c] = <<>>],
             UNCHANGED <<accepted, call>>, Decided' = Decided \cup ToSet(ts[n][c]), Apart'
      PROVE  AcceptInv'
  <2> DEFINE S == ToSet(ts[n][c])
  <2>1. S \subseteq accepted
    BY AcceptedOnceFacts DEF AcceptInv
  <2>2. ASSUME NEW m \in Nodes, NEW d \in Chains
        PROVE  \/ ts'[m][d] = <<>> /\ ToSet(ts[m][d]) \subseteq S
               \/ ts'[m][d] = ts[m][d] /\ ToSet(ts[m][d]) \cap S = {}
    <3>1. CASE m = n /\ d = c
      BY <1>c, <3>1 DEF TypeOK
    <3>2. CASE ~(m = n /\ d = c)
      <4>1. ts'[m][d] = ts[m][d]
        BY <1>c, <3>2 DEF TypeOK
      <4>2. ToSet(ts[m][d]) \cap S = {}
        BY <3>2, AcceptedOnceFacts DEF AcceptInv
      <4>3. QED
        BY <4>1, <4>2
    <3>3. QED
      BY <3>1, <3>2
  <2>3. QED
    BY <1>a, <1>c, <2>1, <2>2
<1>12. ASSUME NEW n \in Nodes, NEW c \in Chains, CreateBlock(n, c) PROVE AcceptInv'
  <2>1. ts' = [ts EXCEPT ![n][c] = <<>>] /\ UNCHANGED <<accepted, call, lost>>
    BY <1>12 DEF CreateBlock, AfterBlock, clientVars
  <2> DEFINE batch == ToSet(ts[n][c])
             valid == {t \in batch : Verified(n, c, t)}
  <2>2. batch \cap Decided = {} /\ Apart
    BY AcceptedOnceFacts DEF AcceptInv
  <2>3. \/ refused' = refused \cup batch /\ UNCHANGED included
        \/ /\ included' = included \cup (valid \cap Good)
           /\ refused' = refused \cup (batch \ (valid \cap Good))
    BY <1>12 DEF CreateBlock
  <2>4. Decided' = Decided \cup batch
    BY <2>1, <2>3 DEF Decided
  <2>5. Apart'
    BY <2>1, <2>2, <2>3 DEF Decided, Apart
  <2>6. QED
    BY <1>c, <2>1, <2>4, <2>5
<1>13. ASSUME NEW n \in Nodes, CloseQueues(n) PROVE AcceptInv'
  BY <1>1, <1>13 DEF CloseQueues, clientVars, history
<1>14. ASSUME NEW n \in Nodes, NEW c \in Chains, WorkerStop(n, c) PROVE AcceptInv'
  <2>1. /\ ts' = [ts EXCEPT ![n][c] = <<>>]
        /\ UNCHANGED <<accepted, call, refused, included>>
        /\ lost' = lost \cup ToSet(ts[n][c])
    BY <1>14 DEF WorkerStop, clientVars
  <2>2. Decided' = Decided \cup ToSet(ts[n][c])
    BY <2>1 DEF Decided
  <2>3. Apart'
    <3>1. ToSet(ts[n][c]) \cap Decided = {} /\ Apart
      BY AcceptedOnceFacts DEF AcceptInv
    <3>2. QED
      BY <2>1, <3>1 DEF Decided, Apart
  <2>4. QED
    BY <1>c, <2>1, <2>2, <2>3
<1>15. ASSUME NEW n \in Nodes, Crash(n) PROVE AcceptInv'
  <2> DEFINE S == UNION {ToSet(ts[n][c]) : c \in Chains}
  <2>1. /\ lost' = lost \cup S
        /\ ts' = [ts EXCEPT ![n] = [c \in Chains |-> <<>>]]
        /\ call' = [k \in Clients |-> IF call[k].node = n THEN Idle ELSE call[k]]
        /\ UNCHANGED <<accepted, refused, included>>
    BY <1>15 DEF Crash
  <2>2. S \subseteq accepted
    BY AcceptedOnceFacts DEF AcceptInv
  <2>3. Decided' = Decided \cup S
    BY <2>1 DEF Decided
  <2>4. \A k \in Clients : Sending(k)' => call'[k] = call[k]
    BY <2>1 DEF Sending, Idle
  <2>5. ASSUME NEW m \in Nodes, NEW d \in Chains
        PROVE  \/ ts'[m][d] = <<>> /\ ToSet(ts[m][d]) \subseteq S
               \/ ts'[m][d] = ts[m][d] /\ ToSet(ts[m][d]) \cap S = {}
    <3>1. CASE m = n
      BY <2>1, <3>1 DEF TypeOK
    <3>2. CASE m # n
      <4>1. ts'[m][d] = ts[m][d]
        BY <2>1, <3>2 DEF TypeOK
      <4>2. ToSet(ts[m][d]) \cap S = {}
        BY <3>2, AcceptedOnceFacts DEF AcceptInv
      <4>3. QED
        BY <4>1, <4>2
    <3>3. QED
      BY <3>1, <3>2
  <2>6. Apart'
    <3>1. S \cap Decided = {} /\ Apart
      BY AcceptedOnceFacts DEF AcceptInv
    <3>2. QED
      BY <2>1, <3>1 DEF Decided, Apart
  <2>7. QED
    BY <1>a, <2>1, <2>2, <2>3, <2>4, <2>5, <2>6
<1>16. ASSUME NEW n \in Nodes, Restart(n) PROVE AcceptInv'
  BY <1>1, <1>16 DEF Restart, clientVars, history
<1>17. CASE UNCHANGED vars
  BY <1>1, <1>17 DEF vars, nodeVars, clientVars, history
<1>18. QED
  BY <1>2, <1>3, <1>4, <1>5, <1>6, <1>7, <1>8, <1>9, <1>10, <1>11, <1>12, <1>13, <1>14,
     <1>15, <1>16, <1>17 DEF Next

\* No transaction that AddTransaction accepted is duplicated or forgotten: it
\* is in one queue, once, until it is in a block, refused or lost with its
\* worker.
THEOREM AcceptedIsInOnePlace == Spec => []AcceptedOnce
<1>1. Init => AcceptInv
  BY EmptyFacts DEF Init, AcceptInv, AcceptedOnce, Sending, Decided, Idle
<1>2. Spec => []AcceptInv
  BY <1>1, AcceptStep, TypeCorrect, PTL DEF Spec
<1>3. QED
  BY <1>2, PTL DEF AcceptInv

=============================================================================
