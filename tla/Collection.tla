------------------------------ MODULE Collection ------------------------------
(***************************************************************************)
(* A collection (omniledger/collection): the ledger's key-value store kept *)
(* as an authenticated tree, with the calls that change it (Add, Set,      *)
(* SetField, Remove) and its transactions (Begin, End, Rollback).  A call  *)
(* that panics (Begin inside a transaction, End or Rollback outside) stops *)
(* the program and is not a step.                                          *)
(***************************************************************************)
EXTENDS MerkleTree

CONSTANTS
    CallKeys,      \* the keys callers pass, possibly the empty one
    AnySet,        \* callers also Set a key that Remove moved in the same
                   \* transaction, or the empty key
    MaxTransactions,  \* bound: how many transactions a behaviour begins
    MaxCalls          \* bound: how many calls change the tree in one transaction

ASSUME CallAssumption ==
    /\ CallKeys \subseteq Keys \cup {NoKey}
    /\ AnySet \in BOOLEAN
    /\ MaxTransactions \in Nat
    /\ MaxCalls \in Nat

VARIABLES
    tree,      \* the linked nodes
    detached,  \* the nodes a Remove unlinked that a backup still points to
    ongoing,   \* transaction.ongoing
    id,        \* transaction.id
    result,    \* the answer to the last call: "ok" or the error
    atBegin,   \* history: the tree when the transaction began
    calls      \* history: the calls that changed the tree since

vars == <<tree, detached, ongoing, id, result, atBegin, calls>>

None == [p \in {} |-> p]

Init ==
    /\ tree = EmptyTree
    /\ detached = None
    /\ ongoing = FALSE
    /\ id = 0
    /\ result = "ok"
    /\ atBegin = EmptyTree
    /\ calls = 0

Fail(error) ==
    /\ result' = error
    /\ UNCHANGED <<tree, detached, ongoing, id, atBegin, calls>>

\* The call put the tree T and the unlinked nodes D in place.
Change(T, D) ==
    /\ ongoing => calls < MaxCalls
    /\ calls' = IF ongoing THEN calls + 1 ELSE 0
    /\ tree' = T
    /\ detached' = D
    /\ atBegin' = IF ongoing THEN atBegin ELSE T
    /\ result' = "ok"
    /\ UNCHANGED <<ongoing, id>>

Add(k, v) ==
    IF k = NoKey THEN Fail("empty key")
    ELSE IF tree[Landing(tree, k)].key = k THEN Fail("key collision")
    ELSE Change(Added(tree, k, v, ongoing), detached)

Set(k, upd) ==
    /\ AnySet \/ (k # NoKey /\ tree[Landing(tree, k)].shares = {})
    /\ IF tree[Landing(tree, k)].key # k THEN Fail("key not found")
       ELSE Change(Written(tree, k, upd, ongoing),
                   WrittenDetached(tree, detached, k, upd))

SetField(k, f, v) == Set(k, [g \in Fields |-> IF g = f THEN v ELSE Same])

Remove(k) ==
    IF tree[Landing(tree, k)].key # k THEN Fail("key not found")
    ELSE LET R == Removed(tree, detached, k, ongoing)
         IN  Change(R.tree, R.detached)

Begin ==
    /\ ~ongoing
    /\ id < MaxTransactions
    /\ ongoing' = TRUE
    /\ UNCHANGED <<tree, detached, id, result, atBegin, calls>>

\* The transaction stops with the tree T.
Stop(T) ==
    /\ ongoing
    /\ tree' = T
    /\ atBegin' = T
    /\ detached' = None
    /\ calls' = 0
    /\ ongoing' = FALSE
    /\ id' = id + 1
    /\ UNCHANGED result

Rollback == Stop(RolledBack(tree, detached))

End == Stop(Fixed(Confirmed(tree)))

Next ==
    \/ \E k \in CallKeys, v \in [Fields -> Values] : Add(k, v)
    \/ \E k \in CallKeys, upd \in [Fields -> Values \cup {Same}] : Set(k, upd)
    \/ \E k \in CallKeys, f \in Fields, v \in Values : SetField(k, f, v)
    \/ \E k \in CallKeys : Remove(k)
    \/ Begin
    \/ End
    \/ Rollback

Spec == Init /\ [][Next]_vars

-----------------------------------------------------------------------------
(* Properties *)

\* The type invariant: each node holds a key or none, at most one backup, and
\* the transaction state has its types (struct node and Collection.transaction).
\* Labels and values are left out: their types depend on the fields.
TypeOK ==
    /\ \A p \in DOMAIN tree : Len(p) \in 0..Depth /\ NodeOK(tree[p])
    /\ \A p \in DOMAIN detached : NodeOK(detached[p])
    /\ ongoing \in BOOLEAN
    /\ id \in 0..MaxTransactions
    /\ calls \in 0..MaxCalls
    /\ result \in {"ok", "empty key", "key collision", "key not found"}

\* Add, Set, Remove, End and Rollback keep the tree within the rules, inside
\* a transaction as well as outside.
Rules == WellFormed(tree)

\* End repairs exactly the nodes marked inconsistent, and reaches them only
\* through marked nodes: so a node out of date is marked, and so is every
\* node above it.  Outside a transaction nothing is out of date at all.
StaleIsMarked ==
    \A p \in DOMAIN tree :
        ~UpToDate(tree, p) =>
            ongoing /\ \A a \in Ancestors(p) \cup {p} : tree[a].inconsistent

\* Rollback and confirm descend only through nodes that are marked or backed
\* up: no backup may lie below a node that is neither, and none outlives the
\* transaction.
BackupsReachable ==
    \A p \in DOMAIN tree :
        tree[p].backup # {} => ongoing /\ \A a \in Ancestors(p) : Touched(tree[a])

\* What Rollback would bring back at any moment of a transaction: the nodes,
\* keys and labels of the tree at Begin.
RollbackRestoresLabels ==
    LET T == RolledBack(tree, detached)
    IN  /\ DOMAIN T = DOMAIN atBegin
        /\ \A p \in DOMAIN T : T[p].key = atBegin[p].key /\ T[p].label = atBegin[p].label

\* "Rollback cancels the transaction": it also brings back the values.
RollbackRestoresValues ==
    Contents(RolledBack(tree, detached)) = Contents(atBegin)

\* The root label depends on the associations only, never on the calls and
\* transactions that led to them: the bijection collection/README.md claims,
\* and what lets every node of the ledger agree on the root.
HistoryIndependent ==
    ~ongoing => tree[Root].label = Built(Contents(tree))[Root].label

\* The collection implements a map with transactions: Rollback brings back
\* the associations the tree had at Begin, and the empty key names none.
KV == INSTANCE KeyValueStore WITH
         store <- Contents(tree),
         saved <- Contents(atBegin)

ImplementsStore == KV!Spec

=============================================================================
