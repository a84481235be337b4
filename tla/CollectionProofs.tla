---------------------------- MODULE CollectionProofs ----------------------------
(***************************************************************************)
(* The collection keeps its rules, can always take back an open            *)
(* transaction, never loses track of a node that is out of date,           *)
(* implements a map with transactions, and its labels depend on the        *)
(* associations only; and the bucket behind it has what was stored.        *)
(***************************************************************************)
EXTENDS Collection, CollectionDB, MerkleTreeProofs, SequenceTheorems

-----------------------------------------------------------------------------
(* The invariant of the specification *)

LEMMA AnyType == AnySet \in BOOLEAN
BY CallAssumption

USE AnyType

Results == {"ok", "empty key", "key collision", "key not found"}

CollectionInv ==
    /\ ongoing \in BOOLEAN
    /\ id \in 0..MaxTransactions
    /\ ongoing => id < MaxTransactions
    /\ calls \in 0..MaxCalls
    /\ result \in Results
    /\ Good(AnySet, tree, detached, atBegin, ongoing)

LEMMA NoneEmpty == DOMAIN None = {}
BY DEF None

LEMMA InitInv == Init => CollectionInv
<1> SUFFICES ASSUME Init PROVE CollectionInv
  OBVIOUS
<1>1. /\ tree = EmptyTree /\ atBegin = EmptyTree /\ detached = None /\ ongoing = FALSE
      /\ id = 0 /\ calls = 0 /\ result = "ok"
  BY DEF Init
<1>2. /\ Regular(tree) /\ Sound(tree) /\ Clean(tree) /\ FreshLeaves(tree)
      /\ \A q \in DOMAIN tree : UpToDate(tree, q)
  BY <1>1, EmptyTreeFacts
<1>3. ongoing \in BOOLEAN /\ DOMAIN detached = {} /\ atBegin = tree
  BY <1>1, NoneEmpty
<1>4. Good(AnySet, tree, detached, tree, ongoing)
  BY <1>2, <1>3, GoodStart
<1>5. Good(AnySet, tree, detached, atBegin, ongoing)
  BY <1>3, <1>4
<1> QED BY <1>1, <1>3, <1>5, CallAssumption DEF CollectionInv, Results

\* The calls that change the tree.
LEMMA ChangeInv ==
    ASSUME CollectionInv, NEW T, NEW D, Change(T, D),
           Good(AnySet, T, D, IF ongoing THEN atBegin ELSE T, ongoing)
    PROVE  CollectionInv'
<1>1. /\ tree' = T /\ detached' = D /\ ongoing' = ongoing /\ id' = id /\ result' = "ok"
      /\ atBegin' = IF ongoing THEN atBegin ELSE T
  BY DEF Change
<1>2. calls' \in 0..MaxCalls
  <2>1. CASE ongoing
    BY <2>1, CallAssumption DEF Change, CollectionInv
  <2>2. CASE ~ongoing
    BY <2>2, CallAssumption DEF Change, CollectionInv
  <2> QED BY <2>1, <2>2
<1>3. Good(AnySet, tree', detached', atBegin', ongoing')
  BY <1>1
<1> QED BY <1>1, <1>2, <1>3 DEF CollectionInv, Results

LEMMA FailInv ==
    ASSUME CollectionInv, NEW e \in Results, Fail(e)
    PROVE  CollectionInv'
BY DEF CollectionInv, Fail

LEMMA SetInv ==
    ASSUME CollectionInv, NEW k \in CallKeys, NEW upd, Set(k, upd)
    PROVE  CollectionInv'
<1>1. /\ k \in Keys \cup {NoKey} /\ ongoing \in BOOLEAN
      /\ Good(AnySet, tree, detached, atBegin, ongoing)
      /\ AnySet \/ (k # NoKey /\ tree[Landing(tree, k)].shares = {})
  BY CallAssumption DEF CollectionInv, Set
<1>2. CASE tree[Landing(tree, k)].key # k
  BY <1>2, FailInv DEF Set, Results
<1>3. CASE tree[Landing(tree, k)].key = k
  <2> DEFINE N == Written(tree, k, upd, ongoing)
             E == WrittenDetached(tree, detached, k, upd)
  <2>1. Change(N, E)
    BY <1>3 DEF Set
  <2>2. Good(AnySet, N, E, IF ongoing THEN atBegin ELSE N, ongoing)
    BY <1>1, <1>3, GoodSet
  <2> HIDE DEF N, E
  <2> QED BY <2>1, <2>2, ChangeInv
<1> QED BY <1>2, <1>3

LEMMA StopInv ==
    ASSUME CollectionInv, NEW T, Stop(T), NEW E, E = None, NEW ty, ty = FALSE, Good(AnySet, T, E, T, ty)
    PROVE  CollectionInv'
<1>1. /\ ongoing /\ tree' = T /\ atBegin' = T /\ detached' = E /\ calls' = 0 /\ ongoing' = ty
      /\ id' = id + 1 /\ result' = result
  BY DEF Stop
<1>2. Good(AnySet, tree', detached', atBegin', ongoing')
  BY <1>1
<1>3. id' \in 0..MaxTransactions /\ 0 \in 0..MaxCalls
  BY <1>1, CallAssumption DEF CollectionInv
<1> QED BY <1>1, <1>2, <1>3 DEF CollectionInv

LEMMA NextInv == CollectionInv /\ [Next]_vars => CollectionInv'
<1> SUFFICES ASSUME CollectionInv, [Next]_vars PROVE CollectionInv'
  OBVIOUS
<1>0. ongoing \in BOOLEAN /\ Good(AnySet, tree, detached, atBegin, ongoing)
  BY DEF CollectionInv
<1>1. ASSUME NEW k \in CallKeys, NEW v \in [Fields -> Values], Add(k, v)
      PROVE  CollectionInv'
  <2>1. CASE k = NoKey \/ tree[Landing(tree, k)].key = k
    BY <1>1, <2>1, FailInv DEF Add, Results
  <2>2. CASE ~(k = NoKey \/ tree[Landing(tree, k)].key = k)
    <3> DEFINE N == Added(tree, k, v, ongoing)
    <3>1. k \in Keys /\ tree[Landing(tree, k)].key # k /\ Change(N, detached)
      BY <1>1, <2>2, CallAssumption DEF Add
    <3>2. Good(AnySet, N, detached, IF ongoing THEN atBegin ELSE N, ongoing)
      BY <1>0, <3>1, GoodAdd
    <3> HIDE DEF N
    <3> QED BY <3>1, <3>2, ChangeInv
  <2> QED BY <2>1, <2>2
<1>2. ASSUME NEW k \in CallKeys, NEW upd \in [Fields -> Values \cup {Same}], Set(k, upd)
      PROVE  CollectionInv'
  BY <1>2, SetInv
<1>3. ASSUME NEW k \in CallKeys, NEW f \in Fields, NEW v \in Values, SetField(k, f, v)
      PROVE  CollectionInv'
  BY <1>3, SetInv DEF SetField
<1>4. ASSUME NEW k \in CallKeys, Remove(k)
      PROVE  CollectionInv'
  <2>1. CASE tree[Landing(tree, k)].key # k
    BY <1>4, <2>1, FailInv DEF Remove, Results
  <2>2. CASE tree[Landing(tree, k)].key = k
    <3> DEFINE N == Removed(tree, detached, k, ongoing).tree
               E == Removed(tree, detached, k, ongoing).detached
    <3>1. Change(N, E) /\ k \in Keys \cup {NoKey}
      BY <1>4, <2>2, CallAssumption DEF Remove
    <3>2. Good(AnySet, N, E, IF ongoing THEN atBegin ELSE N, ongoing)
      BY <1>0, <2>2, <3>1, GoodRemove
    <3> HIDE DEF N, E
    <3> QED BY <3>1, <3>2, ChangeInv
  <2> QED BY <2>1, <2>2
<1>5. CASE Begin
  <2> DEFINE ty == TRUE
  <2>1. ty \in BOOLEAN /\ ty
    OBVIOUS
  <2>2. /\ ~ongoing /\ id < MaxTransactions /\ ongoing' = ty /\ tree' = tree /\ detached' = detached
        /\ id' = id /\ result' = result /\ atBegin' = atBegin /\ calls' = calls
    BY <1>5 DEF Begin
  <2> HIDE DEF ty
  <2>3. Good(AnySet, tree, detached, atBegin, ty)
    BY <1>0, <2>1, <2>2, GoodBegin
  <2>4. Good(AnySet, tree', detached', atBegin', ongoing')
    BY <2>2, <2>3
  <2> QED BY <2>1, <2>2, <2>4 DEF CollectionInv
<1>6. CASE End
  <2> DEFINE T == Fixed(Confirmed(tree))
             E == None
             ty == FALSE
  <2>1. Stop(T) /\ ongoing /\ E = None /\ ty = FALSE /\ ty \in BOOLEAN /\ DOMAIN E = {}
    BY <1>6, NoneEmpty DEF End, Stop
  <2> HIDE DEF E, ty
  <2>2. Good(AnySet, T, E, T, ty)
    BY <1>0, <2>1, GoodEnd
  <2> HIDE DEF T
  <2> QED BY <2>1, <2>2, StopInv
<1>7. CASE Rollback
  <2> DEFINE T == RolledBack(tree, detached)
             E == None
             ty == FALSE
  <2>1. Stop(T) /\ E = None /\ ty = FALSE /\ ty \in BOOLEAN /\ DOMAIN E = {}
    BY <1>7, NoneEmpty DEF Rollback
  <2> HIDE DEF E, ty
  <2>2. Good(AnySet, T, E, T, ty)
    BY <1>0, <2>1, GoodRollback
  <2> HIDE DEF T
  <2> QED BY <2>1, <2>2, StopInv
<1>8. CASE UNCHANGED vars
  BY <1>8 DEF vars, CollectionInv
<1> QED BY <1>1, <1>2, <1>3, <1>4, <1>5, <1>6, <1>7, <1>8 DEF Next

\* The inductive invariant of the collection: see Good and Undo.
THEOREM Invariance == Spec => []CollectionInv
BY InitInv, NextInv, PTL DEF Spec

\* Every node of the tree keeps its types through all calls and transactions,
\* with one backup at most (node.backup keeps the first).
THEOREM CollectionTyped == Spec => []TypeOK
<1>1. CollectionInv => TypeOK
  <2> SUFFICES ASSUME CollectionInv PROVE TypeOK
    OBVIOUS
  <2>1. Shape(tree) /\ Sound(tree) /\ Sound(detached)
    BY DEF CollectionInv, Good, Undo, Regular
  <2>2. ASSUME NEW p \in DOMAIN tree
        PROVE  Len(p) \in 0..Depth /\ NodeOK(tree[p])
    <3>1. p \in Path /\ Size(p) <= Depth /\ Size(p) \in Nat
      BY <2>1, PathSize DEF Shape
    <3>2. Len(p) \in 0..Depth
      BY <3>1, KeyAssumption DEF Size
    <3> QED BY <2>1, <3>2 DEF Sound
  <2> QED BY <2>1, <2>2 DEF TypeOK, CollectionInv, Results, Sound
<1> QED BY <1>1, Invariance, PTL

\* Add, Set, Remove, End and Rollback keep the rules of a collection tree
\* (collection/README.md), and the shape is the one its keys determine.
THEOREM CollectionRules == Spec => []Rules
<1>1. CollectionInv => Rules
  BY RegularWellFormed DEF CollectionInv, Good, Undo, Rules
<1> QED BY <1>1, Invariance, PTL

\* Rollback and confirm reach every backup, and none outlives its transaction.
THEOREM CollectionBackups == Spec => []BackupsReachable
<1>1. CollectionInv => BackupsReachable
  BY DEF CollectionInv, Good, Undo, Reachables, Clean, BackupsReachable
<1> QED BY <1>1, Invariance, PTL

\* At any moment of a transaction, Rollback brings back the nodes, the keys
\* and the labels of the tree at Begin, even for the callers of AnySet.
THEOREM CollectionRollback == Spec => []RollbackRestoresLabels
<1>1. CollectionInv => RollbackRestoresLabels
  <2> SUFFICES ASSUME CollectionInv PROVE RollbackRestoresLabels
    OBVIOUS
  <2>1. Restored(AnySet, RolledBack(tree, detached), atBegin)
    BY RollbackRestores DEF CollectionInv, Good
  <2> QED BY <2>1 DEF Restored, RollbackRestoresLabels
<1> QED BY <1>1, Invariance, PTL

\* End finds whatever is out of date, and outside a transaction nothing is,
\* unless a caller sets a key that a Remove of the same transaction moved.
THEOREM CollectionStale ==
    ASSUME ~AnySet
    PROVE  Spec => []StaleIsMarked
<1>1. CollectionInv => StaleIsMarked
  <2> SUFFICES ASSUME CollectionInv PROVE StaleIsMarked
    OBVIOUS
  <2>1. Marked(tree, ongoing)
    BY DEF CollectionInv, Good
  <2> QED BY <2>1 DEF Marked, Marks, StaleIsMarked
<1> QED BY <1>1, Invariance, PTL

-----------------------------------------------------------------------------
(* The collection implements the map *)

\* What Rollback would bring back are the associations at Begin.
LEMMA SavedContents ==
    ASSUME ~AnySet, CollectionInv
    PROVE  Contents(RolledBack(tree, detached)) = Contents(atBegin)
<1>1. Undo(AnySet, tree, detached, atBegin) /\ Regular(atBegin)
  BY DEF CollectionInv, Good
<1>2. Restored(AnySet, RolledBack(tree, detached), atBegin) /\ Regular(atBegin)
  BY <1>1, RollbackRestores
<1> QED BY <1>2, SameContents DEF Restored

LEMMA InvTree ==
    ASSUME CollectionInv
    PROVE  /\ Regular(tree) /\ Nodes(tree) /\ ongoing \in BOOLEAN /\ DOMAIN Contents(tree) = KeysIn(tree)
           /\ ~ongoing => atBegin = tree
BY ContentsFacts DEF CollectionInv, Good, Undo, Sound

LEMMA StoreInit ==
    ASSUME Init
    PROVE  KV!Init
<1>1. atBegin = tree /\ tree = EmptyTree
  BY DEF Init
<1>2. Regular(tree) /\ KeysIn(tree) = {}
  BY <1>1, EmptyTreeFacts
<1>3. Contents(tree) = [k \in {} |-> k]
  BY <1>2, ContentsFacts
<1> QED BY <1>1, <1>3 DEF Init, KV!Init

\* A call that changes the associations of the tree.
LEMMA StoreChange ==
    ASSUME NEW T, NEW D, Change(T, D)
    PROVE  KV!Change(Contents(T))
BY DEF Change, KV!Change

LEMMA StoreFail ==
    ASSUME NEW e, Fail(e)
    PROVE  KV!Fail(e)
BY DEF Fail, KV!Fail

LEMMA FoundStored ==
    ASSUME CollectionInv, NEW k \in Keys
    PROVE  tree[Landing(tree, k)].key = k <=> k \in DOMAIN Contents(tree)
<1>1. Regular(tree) /\ DOMAIN Contents(tree) = KeysIn(tree)
  BY InvTree
<1> QED BY <1>1, HomeOf DEF Regular

LEMMA StoreAdd ==
    ASSUME CollectionInv, NEW k \in Keys, NEW v, Add(k, v)
    PROVE  KV!Add(k, v)
<1>1. k # NoKey
  BY KeyAssumption
<1>2. CASE tree[Landing(tree, k)].key = k
  <2>1. k \in DOMAIN Contents(tree)
    BY <1>2, FoundStored
  <2>2. Fail("key collision")
    BY <1>1, <1>2 DEF Add
  <2> QED BY <2>1, <2>2, StoreFail DEF KV!Add
<1>3. CASE tree[Landing(tree, k)].key # k
  <2> DEFINE T == Added(tree, k, v, ongoing)
             F == [c \in DOMAIN Contents(tree) \cup {k} |-> IF c = k THEN v ELSE Contents(tree)[c]]
  <2>1. k \notin DOMAIN Contents(tree)
    BY <1>3, FoundStored
  <2>2. Change(T, detached)
    BY <1>1, <1>3 DEF Add
  <2>3. Contents(T) = F
    <3>1. Regular(tree) /\ Nodes(tree) /\ ongoing \in BOOLEAN
      BY InvTree
    <3>2. Contents(T) = WithKey(Contents(tree), k, v)
      BY <1>3, <3>1, AddedContents
    <3> QED BY <3>2 DEF WithKey
  <2> HIDE DEF T
  <2>4. KV!Change(Contents(T))
    BY <2>2, StoreChange
  <2>5. KV!Change(F)
    BY <2>3, <2>4
  <2> QED BY <2>1, <2>5 DEF KV!Add
<1> QED BY <1>2, <1>3

LEMMA StoreSet ==
    ASSUME CollectionInv, NEW k \in Keys, NEW upd, Set(k, upd)
    PROVE  KV!Set(k, upd)
<1>1. CASE tree[Landing(tree, k)].key # k
  <2>1. k \notin DOMAIN Contents(tree)
    BY <1>1, FoundStored
  <2>2. Fail("key not found")
    BY <1>1 DEF Set
  <2> QED BY <2>1, <2>2, StoreFail DEF KV!Set
<1>2. CASE tree[Landing(tree, k)].key = k
  <2> DEFINE T == Written(tree, k, upd, ongoing)
             D == WrittenDetached(tree, detached, k, upd)
             F == [Contents(tree) EXCEPT ![k] = [f \in Fields |-> IF upd[f] = Same THEN @[f] ELSE upd[f]]]
  <2>1. k \in DOMAIN Contents(tree)
    BY <1>2, FoundStored
  <2>2. Change(T, D)
    BY <1>2 DEF Set
  <2>3. Contents(T) = F
    BY <1>2, InvTree, WrittenContents DEF Overwrite
  <2> HIDE DEF T, D
  <2>4. KV!Change(Contents(T))
    BY <2>2, StoreChange
  <2>5. KV!Change(F)
    BY <2>3, <2>4
  <2> QED BY <2>1, <2>5 DEF KV!Set
<1> QED BY <1>1, <1>2

LEMMA StoreRemove ==
    ASSUME CollectionInv, NEW k \in Keys, Remove(k)
    PROVE  KV!Remove(k)
<1>1. CASE tree[Landing(tree, k)].key # k
  <2>1. k \notin DOMAIN Contents(tree)
    BY <1>1, FoundStored
  <2>2. Fail("key not found")
    BY <1>1 DEF Remove
  <2> QED BY <2>1, <2>2, StoreFail DEF KV!Remove
<1>2. CASE tree[Landing(tree, k)].key = k
  <2> DEFINE T == Removed(tree, detached, k, ongoing).tree
             D == Removed(tree, detached, k, ongoing).detached
             F == [c \in DOMAIN Contents(tree) \ {k} |-> Contents(tree)[c]]
  <2>1. k \in DOMAIN Contents(tree)
    BY <1>2, FoundStored
  <2>2. Change(T, D)
    BY <1>2 DEF Remove
  <2>3. Contents(T) = F
    <3>1. Regular(tree) /\ Nodes(tree) /\ ongoing \in BOOLEAN
      BY InvTree
    <3>2. Contents(T) = WithoutKey(Contents(tree), k)
      BY <1>2, <3>1, RemovedContents
    <3> QED BY <3>2 DEF WithoutKey
  <2> HIDE DEF T, D
  <2>4. KV!Change(Contents(T))
    BY <2>2, StoreChange
  <2>5. KV!Change(F)
    BY <2>3, <2>4
  <2> QED BY <2>1, <2>5 DEF KV!Remove, KV!Restrict
<1> QED BY <1>1, <1>2

LEMMA StoreEnd ==
    ASSUME CollectionInv, End
    PROVE  KV!End
<1> DEFINE T == Fixed(Confirmed(tree))
<1>1. /\ Regular(tree) /\ DOMAIN T = DOMAIN tree
      /\ \A q \in DOMAIN tree : /\ T[q].key = tree[q].key
                                /\ IsLeaf(tree, q) => T[q].values = tree[q].values
  BY EndFacts DEF CollectionInv, Good, Undo
<1>2. ongoing /\ tree' = T /\ atBegin' = T /\ ongoing' = FALSE /\ result' = result
  BY DEF End, Stop
<1> HIDE DEF T
<1>3. Contents(T) = Contents(tree)
  BY <1>1, SameContents
<1> QED BY <1>2, <1>3 DEF KV!End

LEMMA StoreRollback ==
    ASSUME ~AnySet, CollectionInv, Rollback
    PROVE  KV!Rollback
<1>1. /\ ongoing /\ tree' = RolledBack(tree, detached) /\ atBegin' = tree'
      /\ ongoing' = FALSE /\ result' = result
  BY DEF Rollback, Stop
<1>2. Contents(RolledBack(tree, detached)) = Contents(atBegin)
  BY SavedContents
<1> QED BY <1>1, <1>2 DEF KV!Rollback

\* Add refuses the empty key, and Remove of it, which succeeds when the walk
\* ends at a placeholder, takes no key away.
LEMMA StoreEmpty ==
    ASSUME CollectionInv, NEW v, Add(NoKey, v) \/ Remove(NoKey)
    PROVE  KV!CallEmpty
<1>1. CASE Add(NoKey, v)
  <2>1. Fail("empty key")
    BY <1>1 DEF Add
  <2> QED BY <2>1, StoreFail DEF KV!CallEmpty
<1>2. CASE Remove(NoKey) /\ tree[Landing(tree, NoKey)].key # NoKey
  <2>1. Fail("key not found")
    BY <1>2 DEF Remove
  <2> QED BY <2>1, StoreFail DEF KV!CallEmpty
<1>3. CASE Remove(NoKey) /\ tree[Landing(tree, NoKey)].key = NoKey
  <2> DEFINE T == Removed(tree, detached, NoKey, ongoing).tree
             D == Removed(tree, detached, NoKey, ongoing).detached
             F == Contents(tree)
  <2>1. Change(T, D)
    BY <1>3 DEF Remove
  <2>2. /\ Regular(tree) /\ Nodes(tree) /\ ongoing \in BOOLEAN /\ (~ongoing => atBegin = tree)
        /\ DOMAIN F = KeysIn(tree) /\ F = [c \in KeysIn(tree) |-> F[c]]
    BY InvTree, ContentsFacts
  <2>3. NoKey \notin KeysIn(tree)
    BY KeyAssumption DEF KeysIn
  <2>4. Contents(T) = WithoutKey(F, NoKey)
    BY <1>3, <2>2, RemovedContents
  <2> HIDE DEF T, D, F
  <2>5. Contents(T) = F
    BY <2>2, <2>3, <2>4 DEF WithoutKey
  <2>6. tree' = T /\ atBegin' = (IF ongoing THEN atBegin ELSE T) /\ result' = "ok" /\ ongoing' = ongoing
    BY <2>1 DEF Change
  <2>7. Contents(tree') = Contents(tree) /\ Contents(atBegin') = Contents(atBegin)
    BY <2>2, <2>5, <2>6 DEF F
  <2>8. KV!Fail("ok")
    BY <2>6, <2>7 DEF KV!Fail
  <2> QED BY <2>8 DEF KV!CallEmpty
<1> QED BY <1>1, <1>2, <1>3

\* Every step of the collection is a step of the map, or none.
LEMMA StoreNext ==
    ASSUME ~AnySet, CollectionInv, [Next]_vars
    PROVE  [KV!Next]_KV!vars
<1> USE CallAssumption
<1>1. ASSUME NEW k \in CallKeys, NEW v \in [Fields -> Values], Add(k, v)
      PROVE  KV!Next
  BY <1>1, StoreAdd, StoreEmpty DEF KV!Next
<1>2. ASSUME NEW k \in CallKeys, NEW upd \in [Fields -> Values \cup {Same}], Set(k, upd)
      PROVE  KV!Next
  <2>1. k \in Keys
    BY <1>2 DEF Set
  <2> QED BY <1>2, <2>1, StoreSet DEF KV!Next
<1>3. ASSUME NEW k \in CallKeys, NEW f \in Fields, NEW v \in Values, SetField(k, f, v)
      PROVE  KV!Next
  <2> DEFINE upd == [g \in Fields |-> IF g = f THEN v ELSE Same]
  <2>1. Set(k, upd) /\ upd \in [Fields -> Values \cup {Same}]
    BY <1>3 DEF SetField
  <2> HIDE DEF upd
  <2> QED BY <2>1, <1>2
<1>4. ASSUME NEW k \in CallKeys, Remove(k)
      PROVE  KV!Next
  <2>1. CASE k = NoKey
    BY <1>4, <2>1, StoreEmpty DEF KV!Next
  <2>2. CASE k \in Keys
    BY <1>4, <2>2, StoreRemove DEF KV!Next
  <2> QED BY <2>1, <2>2
<1>5. CASE Begin
  <2>1. KV!Begin
    BY <1>5 DEF Begin, KV!Begin
  <2> QED BY <2>1 DEF KV!Next
<1>6. CASE End
  BY <1>6, StoreEnd DEF KV!Next
<1>7. CASE Rollback
  BY <1>7, StoreRollback DEF KV!Next
<1>8. CASE UNCHANGED vars
  BY <1>8 DEF vars, KV!vars
<1> QED BY <1>1, <1>2, <1>3, <1>4, <1>5, <1>6, <1>7, <1>8 DEF Next

\* The collection answers its callers like a map with transactions: Add, Set
\* and Remove change the association they name and nothing else, or answer
\* with the error of collection/manipulators.go, the empty key changes none,
\* End keeps what the transaction did, and Rollback brings back the associations at Begin
\* ("Rollback cancels the transaction").
THEOREM CollectionImplementsStore ==
    ASSUME ~AnySet
    PROVE  Spec => ImplementsStore
<1>1. Init => KV!Init
  BY StoreInit
<1>2. CollectionInv /\ [Next]_vars => [KV!Next]_KV!vars
  BY StoreNext
<1> QED BY <1>1, <1>2, Invariance, PTL DEF Spec, ImplementsStore, KV!Spec

\* Rollback brings back the values of Begin as well, as long as no caller sets
\* a key that Remove moved in the same transaction: these calls are the only
\* ones that write into the values of a backup.
THEOREM CollectionRollbackValues ==
    ASSUME ~AnySet
    PROVE  Spec => []RollbackRestoresValues
<1>1. CollectionInv => RollbackRestoresValues
  BY SavedContents DEF RollbackRestoresValues
<1> QED BY <1>1, Invariance, PTL

-----------------------------------------------------------------------------
(* The labels depend on the associations only *)

\* The root label, by which the nodes of the ledger agree on their state,
\* depends on the associations only: whatever calls and transactions led to
\* the tree, cancelled ones included, it is the label of the tree that adding
\* the associations to an empty collection builds.
THEOREM CollectionHistory ==
    ASSUME ~AnySet
    PROVE  Spec => []HistoryIndependent
<1>1. CollectionInv => HistoryIndependent
  <2> SUFFICES ASSUME CollectionInv, ~ongoing
               PROVE  tree[Root].label = Built(Contents(tree))[Root].label
    BY DEF HistoryIndependent
  <2>1. Regular(tree) /\ Marked(tree, ongoing) /\ FreshLeaves(tree)
    BY DEF CollectionInv, Good, Undo
  <2>2. Pure(tree)
    BY <2>1 DEF Pure, Marked
  <2>3. /\ DOMAIN Contents(tree) \in SUBSET Keys
        /\ Contents(tree) = [c \in DOMAIN Contents(tree) |-> Contents(tree)[c]]
    BY <2>1, ContentsFacts
  <2>4. Pure(Built(Contents(tree))) /\ Contents(Built(Contents(tree))) = Contents(tree)
    BY <2>3, BuiltFacts
  <2>5. Root \in DOMAIN tree
    BY <2>1, ShapeRoot DEF Regular
  <2>6. SameAt(tree, Built(Contents(tree)), Root)
    BY <2>2, <2>4, <2>5, SameLabels
  <2> QED BY <2>6 DEF SameAt
<1> QED BY <1>1, Invariance, PTL


-----------------------------------------------------------------------------
(* The bucket behind a collection: CollectionDB *)

HIDE AnyType

\* What is stored are objects; without it a key of the bucket that ends in
\* "kind" could be mistaken for one.
ObjectsOnly == DOMAIN stored \subseteq ObjectKeys

\* ValuesSurvive alone is not inductive: Reload takes the values from the
\* bucket.
BucketInv == ObjectsOnly /\ BucketHasStored /\ ValuesSurvive

\* The keys of contracts are no objects and differ for different objects.
LEMMA KindKeys ==
    ASSUME NEW j \in ObjectKeys, NEW k \in ObjectKeys
    PROVE  Kind(j) # k /\ (Kind(j) = Kind(k) => j = k)
<1>1. PICK o \in Objects : j = <<o>>
  BY DEF ObjectKeys, Plain
<1>2. PICK p \in Objects : k = <<p>>
  BY DEF ObjectKeys, Plain
<1> DEFINE S == {o, p, "kind"}
<1>3. j \in Seq(S) /\ k \in Seq(S) /\ Len(j) = 1 /\ Len(k) = 1 /\ j[1] = o /\ k[1] = p
  BY <1>1, <1>2
<1>4. "kind" \in S
  OBVIOUS
<1> HIDE DEF S
<1>5. Len(Kind(j)) = 2 /\ Kind(j)[1] = o /\ Kind(k)[1] = p
  BY <1>3, <1>4, AppendProperties DEF Kind
<1> QED BY <1>1, <1>2, <1>3, <1>5

\* What storeInColl does to a map, on the key of the object and on others.
LEMMA StoredKeys ==
    ASSUME NEW f, NEW a, NEW o, NEW v, NEW c
    PROVE  LET g == storeInColl(f, a, o, v, c)
           IN  /\ \A k : k # Plain(o) => (k \in DOMAIN g <=> k \in DOMAIN f)
               /\ \A k \in DOMAIN g : k # Plain(o) => g[k] = f[k]
               /\ Plain(o) \in DOMAIN g <=> a # "remove"
               /\ a # "remove" => g[Plain(o)] = [value |-> v, contract |-> c]
<1>1. CASE a = "remove"
  BY <1>1 DEF storeInColl, Delete
<1>2. CASE a # "remove"
  BY <1>2 DEF storeInColl, Put
<1> QED
  BY <1>1, <1>2

\* What the bolt transaction of Store does to the bucket.
LEMMA BucketKeys ==
    ASSUME NEW a, NEW o, NEW v, NEW c, Kind(Plain(o)) # Plain(o)
    PROVE  LET g == BucketWritten(a, o, v, c)
               own == {Plain(o), Kind(Plain(o))}
           IN  /\ \A k : k \notin own => (k \in DOMAIN g <=> k \in DOMAIN bucket)
               /\ \A k \in DOMAIN g : k \notin own => g[k] = bucket[k]
               /\ a = "remove" => own \cap DOMAIN g = {}
               /\ a # "remove" => /\ own \subseteq DOMAIN g
                                  /\ g[Plain(o)] = v
                                  /\ g[Kind(Plain(o))] = c
<1>1. CASE a = "remove"
  BY <1>1 DEF BucketWritten, Delete
<1>2. CASE a # "remove"
  BY <1>2 DEF BucketWritten, Put
<1> QED
  BY <1>1, <1>2

\* tryHash leaves the collection as it was.
LEMMA TryHashUndone ==
    ASSUME NEW os, NEW v, NEW c, tryHash(os, v, c),
           \A i \in DOMAIN os : i \in Nat \ {0}
    PROVE  /\ DOMAIN coll' = DOMAIN coll
           /\ \A k \in DOMAIN coll : coll'[k] = coll[k]
<1>1. ASSUME NEW k \in Addable(os) PROVE k \notin DOMAIN coll
  <2>1. PICK i \in DOMAIN os : k = Plain(os[i]) /\ \A j \in 1..i : Plain(os[j]) \notin DOMAIN coll
    BY DEF Addable
  <2>2. i \in 1..i
    OBVIOUS
  <2> QED
    BY <2>1, <2>2
<1> QED
  BY <1>1 DEF tryHash, Undone, Delete

\* Nothing is stored at first.
LEMMA BucketInit == DBInit => BucketInv
BY DEF DBInit, BucketInv, ObjectsOnly, BucketHasStored, ValuesSurvive, Nothing

\* Store keeps bucket, collection and history together.
LEMMA StoreBucket ==
    ASSUME BucketInv, NEW a, NEW o \in Objects, NEW v, NEW c, Store(a, o, v, c)
    PROVE  BucketInv'
<1> DEFINE own == Plain(o)
<1>1. own \in ObjectKeys
  BY DEF ObjectKeys
<1>2. /\ coll' = storeInColl(coll, a, o, v, c)
      /\ bucket' = BucketWritten(a, o, v, c)
      /\ stored' = storeInColl(stored, a, o, v, c)
      /\ behind' = behind \ {own}
  BY DEF Store
<1>3. /\ \A k : k # own => (k \in DOMAIN coll' <=> k \in DOMAIN coll)
      /\ \A k \in DOMAIN coll' : k # own => coll'[k] = coll[k]
      /\ own \in DOMAIN coll' <=> a # "remove"
      /\ a # "remove" => coll'[own] = [value |-> v, contract |-> c]
  BY <1>2, StoredKeys
<1>4. /\ \A k : k # own => (k \in DOMAIN stored' <=> k \in DOMAIN stored)
      /\ \A k \in DOMAIN stored' : k # own => stored'[k] = stored[k]
      /\ own \in DOMAIN stored' <=> a # "remove"
      /\ a # "remove" => stored'[own] = [value |-> v, contract |-> c]
  BY <1>2, StoredKeys
<1>5. /\ \A k : k \notin {own, Kind(own)} => (k \in DOMAIN bucket' <=> k \in DOMAIN bucket)
      /\ \A k \in DOMAIN bucket' : k \notin {own, Kind(own)} => bucket'[k] = bucket[k]
      /\ a = "remove" => {own, Kind(own)} \cap DOMAIN bucket' = {}
      /\ a # "remove" => /\ {own, Kind(own)} \subseteq DOMAIN bucket'
                         /\ bucket'[own] = v
                         /\ bucket'[Kind(own)] = c
  BY <1>1, <1>2, KindKeys, BucketKeys
<1> HIDE DEF own
<1>6. ObjectsOnly'
  BY <1>1, <1>4 DEF BucketInv, ObjectsOnly, ObjectKeys
<1>7. ASSUME NEW k \in DOMAIN stored'
      PROVE  /\ k \in DOMAIN bucket' /\ Kind(k) \in DOMAIN bucket'
             /\ bucket'[k] = stored'[k].value /\ bucket'[Kind(k)] = stored'[k].contract
  <2>1. CASE k = own
    BY <2>1, <1>4, <1>5
  <2>2. CASE k # own
    <3>1. k \in DOMAIN stored /\ stored'[k] = stored[k] /\ k \in ObjectKeys
      BY <2>2, <1>4 DEF BucketInv, ObjectsOnly
    <3>2. k \notin {own, Kind(own)} /\ Kind(k) \notin {own, Kind(own)}
      BY <3>1, <2>2, <1>1, KindKeys
    <3>3. /\ k \in DOMAIN bucket /\ Kind(k) \in DOMAIN bucket
          /\ bucket[k] = stored[k].value /\ bucket[Kind(k)] = stored[k].contract
      BY <3>1 DEF BucketInv, BucketHasStored
    <3> QED
      BY <3>1, <3>2, <3>3, <1>5
  <2> QED
    BY <2>1, <2>2
<1>8. ASSUME NEW k \in DOMAIN bucket'
      PROVE  k \in DOMAIN stored' \/ \E j \in DOMAIN stored' : k = Kind(j)
  <2>1. CASE k \in {own, Kind(own)}
    BY <2>1, <1>4, <1>5
  <2>2. CASE k \notin {own, Kind(own)}
    <3>1. k \in DOMAIN bucket
      BY <2>2, <1>5
    <3>2. k \in DOMAIN stored \/ \E j \in DOMAIN stored : k = Kind(j)
      BY <3>1 DEF BucketInv, BucketHasStored
    <3> QED
      BY <3>2, <2>2, <1>4
  <2> QED
    BY <2>1, <2>2
<1>9. BucketHasStored'
  BY <1>7, <1>8 DEF BucketHasStored, Kind
<1>10. ValuesSurvive'
  <2>1. ASSUME NEW k \in ObjectKeys \ behind'
        PROVE  /\ k \in DOMAIN coll' <=> k \in DOMAIN stored'
               /\ k \in DOMAIN coll' => coll'[k].value = stored'[k].value
    <3>1. CASE k = own
      BY <3>1, <1>3, <1>4
    <3>2. CASE k # own
      <4>1. k \in ObjectKeys \ behind
        BY <2>1, <3>2, <1>2 DEF own
      <4> QED
        BY <4>1, <3>2, <1>3, <1>4 DEF BucketInv, ValuesSurvive
    <3> QED
      BY <3>1, <3>2
  <2> QED
    BY <2>1 DEF ValuesSurvive, ObjectKeys, Plain
<1> QED
  BY <1>6, <1>9, <1>10 DEF BucketInv

\* A failing write touches the collection only, at an object that is then
\* behind.
LEMMA FailBucket ==
    ASSUME BucketInv, NEW a, NEW o \in Objects, NEW v, NEW c, StoreDiskFails(a, o, v, c)
    PROVE  BucketInv'
<1>1. UNCHANGED <<bucket, stored>> /\ behind' = behind \cup {Plain(o)}
  BY DEF StoreDiskFails
<1>2. ObjectsOnly' /\ BucketHasStored'
  BY <1>1 DEF BucketInv, ObjectsOnly, ObjectKeys, Plain, BucketHasStored, Kind
<1>3. ASSUME NEW k \in ObjectKeys \ behind'
      PROVE  /\ k \in DOMAIN coll' <=> k \in DOMAIN stored
             /\ k \in DOMAIN coll' => coll'[k].value = stored[k].value
  <2>1. k # Plain(o) /\ k \in ObjectKeys \ behind
    BY <1>1
  <2>2. coll' = storeInColl(coll, a, o, v, c)
    BY DEF StoreDiskFails
  <2>3. /\ \A j : j # Plain(o) => (j \in DOMAIN coll' <=> j \in DOMAIN coll)
        /\ \A j \in DOMAIN coll' : j # Plain(o) => coll'[j] = coll[j]
        /\ Plain(o) \in DOMAIN coll' <=> a # "remove"
        /\ a # "remove" => coll'[Plain(o)] = [value |-> v, contract |-> c]
    BY <2>2, StoredKeys
  <2> QED
    BY <2>1, <2>3 DEF BucketInv, ValuesSurvive
<1>4. ValuesSurvive'
  BY <1>1, <1>3 DEF ValuesSurvive, ObjectKeys, Plain
<1> QED
  BY <1>2, <1>4 DEF BucketInv

\* A restart takes every object and its value from the bucket.
LEMMA ReloadBucket == ASSUME BucketInv, Reload PROVE BucketInv'
<1>1. UNCHANGED <<bucket, stored>> /\ coll' = Loaded
  BY DEF Reload
<1>2. ObjectsOnly' /\ BucketHasStored'
  BY <1>1 DEF BucketInv, ObjectsOnly, ObjectKeys, Plain, BucketHasStored, Kind
<1>3. DOMAIN coll' = DOMAIN bucket /\ \A k \in DOMAIN bucket : coll'[k].value = bucket[k]
  BY <1>1 DEF Loaded
<1>4. ASSUME NEW k \in ObjectKeys
      PROVE  k \in DOMAIN bucket <=> k \in DOMAIN stored
  BY KindKeys DEF BucketInv, ObjectsOnly, BucketHasStored
<1>5. \A k \in DOMAIN stored : bucket[k] = stored[k].value
  BY DEF BucketInv, BucketHasStored
<1>6. ValuesSurvive'
  BY <1>1, <1>3, <1>4, <1>5 DEF ValuesSurvive, ObjectKeys, Plain
<1> QED
  BY <1>2, <1>6 DEF BucketInv

\* The steps of the database keep the invariant.
LEMMA BucketNext == BucketInv /\ [DBNext]_dbVars => BucketInv'
<1> SUFFICES ASSUME BucketInv, [DBNext]_dbVars PROVE BucketInv'
  OBVIOUS
<1>1. ASSUME NEW a, NEW o \in Objects, NEW v, NEW c, Store(a, o, v, c) PROVE BucketInv'
  BY <1>1, StoreBucket
<1>2. ASSUME NEW a, NEW o \in Objects, NEW v, NEW c, StoreDiskFails(a, o, v, c) PROVE BucketInv'
  BY <1>2, FailBucket
<1>3. CASE Reload
  BY <1>3, ReloadBucket
<1>4. ASSUME NEW os \in Lists, NEW v, NEW c, tryHash(os, v, c) PROVE BucketInv'
  <2>1. \A i \in DOMAIN os : i \in Nat \ {0}
    BY DEF Lists
  <2>2. DOMAIN coll' = DOMAIN coll /\ \A k \in DOMAIN coll : coll'[k] = coll[k]
    BY <1>4, <2>1, TryHashUndone
  <2>3. UNCHANGED <<bucket, stored, behind>>
    BY <1>4 DEF tryHash
  <2>4. ObjectsOnly' /\ BucketHasStored'
    BY <2>3 DEF BucketInv, ObjectsOnly, ObjectKeys, Plain, BucketHasStored, Kind
  <2>5. ValuesSurvive'
    BY <2>2, <2>3 DEF BucketInv, ValuesSurvive, ObjectKeys, Plain
  <2> QED
    BY <2>4, <2>5 DEF BucketInv
<1>5. CASE UNCHANGED dbVars
  BY <1>5 DEF dbVars, BucketInv, ObjectsOnly, BucketHasStored, ValuesSurvive, ObjectKeys, Plain, Kind
<1> QED
  BY <1>1, <1>2, <1>3, <1>4, <1>5 DEF DBNext

\* The bucket has the objects whose Store answered without error, with values
\* and contracts, for any objects and through any restarts and failures.
THEOREM BucketIsComplete == DBSpec => []BucketHasStored
<1>1. BucketInv => BucketHasStored
  BY DEF BucketInv
<1> QED
  BY BucketInit, BucketNext, <1>1, PTL DEF DBSpec

\* The collection has the values of the objects that were stored, through any
\* restarts and any calls of tryHash, except where a write failed since.
THEOREM RestartKeepsValues == DBSpec => []ValuesSurvive
<1>1. BucketInv => ValuesSurvive
  BY DEF BucketInv
<1> QED
  BY BucketInit, BucketNext, <1>1, PTL DEF DBSpec

=============================================================================
