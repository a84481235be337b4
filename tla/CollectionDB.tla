----------------------------- MODULE CollectionDB -----------------------------
(***************************************************************************)
(* The collection a node keeps for a ledger together with its copy in a    *)
(* bucket of the node's database (omniledger/service/struct.go): Store     *)
(* changes both, newCollectionDB fills the collection from the bucket when *)
(* the node starts again, and tryHash computes a root without keeping what *)
(* it added.                                                               *)
(*                                                                         *)
(* The bucket is a map from byte strings.  Of their structure it matters   *)
(* only which object a key belongs to and its ending: an object ID as it   *)
(* is, with "kind" (what Store writes) or with "sig" (what loadAll reads). *)
(***************************************************************************)
EXTENDS Naturals, Sequences

CONSTANTS
    Objects,       \* object IDs, none a prefix of another
    ObjectValues,  \* the values of objects
    Contracts,     \* the contract IDs
    Empty          \* the empty byte string

ASSUME DBAssumption == Empty \notin ObjectValues \cup Contracts

VARIABLES
    coll,    \* the collection: a map from keys to a value and a contract
    bucket,  \* the bucket: a map from keys to byte strings
    stored,  \* history: what the calls of Store that answered without error left
    behind   \* history: the objects with a failed write that is still in memory

dbVars == <<coll, bucket, stored, behind>>

Plain(o) == <<o>>
Kind(k) == Append(k, "kind")
Sig(k) == Append(k, "sig")

Nothing == [k \in {} |-> k]

DBInit ==
    /\ coll = Nothing
    /\ bucket = Nothing
    /\ stored = Nothing
    /\ behind = {}

\* f with k mapped to v.
Put(f, k, v) == [j \in DOMAIN f \cup {k} |-> IF j = k THEN v ELSE f[j]]

\* f without the keys S.
Delete(f, S) == [k \in DOMAIN f \ S |-> f[k]]

-----------------------------------------------------------------------------
(* Store *)

\* storeInColl: Add refuses an existing key, Set and Remove a missing one.
Accepts(action, o) == (action = "create") = (Plain(o) \notin DOMAIN coll)

storeInColl(f, action, o, v, c) ==
    IF action = "remove" THEN Delete(f, {Plain(o)})
    ELSE Put(f, Plain(o), [value |-> v, contract |-> c])

\* Mutant of BucketWritten: only the first Store of an object writes its value.
BucketWrittenOnce(action, o, v, c) ==
    IF action = "remove" THEN Delete(bucket, {Plain(o), Kind(Plain(o))})
    ELSE IF action = "update" THEN Put(bucket, Kind(Plain(o)), c)
    ELSE Put(Put(bucket, Plain(o), v), Kind(Plain(o)), c)

\* The bolt transaction of Store.
BucketWritten(action, o, v, c) ==
    IF action = "remove" THEN Delete(bucket, {Plain(o), Kind(Plain(o))})
    ELSE Put(Put(bucket, Plain(o), v), Kind(Plain(o)), c)

Store(action, o, v, c) ==
    /\ Accepts(action, o)
    /\ coll' = storeInColl(coll, action, o, v, c)
    /\ bucket' = BucketWritten(action, o, v, c)
    /\ stored' = storeInColl(stored, action, o, v, c)
    /\ behind' = behind \ {Plain(o)}

\* The collection is changed already when the bolt transaction fails.
StoreDiskFails(action, o, v, c) ==
    /\ Accepts(action, o)
    /\ coll' = storeInColl(coll, action, o, v, c)
    /\ behind' = behind \cup {Plain(o)}
    /\ UNCHANGED <<bucket, stored>>

-----------------------------------------------------------------------------
(* newCollectionDB *)

\* loadAll: every key of the bucket becomes a key of the collection, with
\* what is found under its "sig" key as the contract.
Loaded ==
    [k \in DOMAIN bucket |->
        [value    |-> bucket[k],
         contract |-> IF Sig(k) \in DOMAIN bucket THEN bucket[Sig(k)] ELSE Empty]]

\* The node starts again: memory is gone, the bucket is not.
Reload ==
    /\ coll' = Loaded
    /\ behind' = {}
    /\ UNCHANGED <<bucket, stored>>

-----------------------------------------------------------------------------
(* tryHash *)

\* The keys of the objects os that are added before one is there already.
Addable(os) ==
    {Plain(os[i]) : i \in {n \in DOMAIN os : \A j \in 1..n :
        Plain(os[j]) \notin DOMAIN coll /\ \A h \in 1..j - 1 : os[h] # os[j]}}

\* Mutant of Undone: a failing Add leaves the pairs added before it.
UndoneOnSuccess(f, os) ==
    IF Addable(os) = {Plain(os[i]) : i \in DOMAIN os} THEN Delete(f, Addable(os)) ELSE f

\* The deferred calls remove the pairs that were added, also when the call
\* returns early.
Undone(f, os) == Delete(f, Addable(os))

tryHash(os, v, c) ==
    LET f == [k \in DOMAIN coll \cup Addable(os) |->
                IF k \in DOMAIN coll THEN coll[k] ELSE [value |-> v, contract |-> c]]
    IN  /\ coll' = Undone(f, os)
        /\ UNCHANGED <<bucket, stored, behind>>

\* The lists of objects tryHash is tried with.
Lists == UNION {[1..n -> Objects] : n \in 0..2}

DBNext ==
    \/ \E a \in {"create", "update", "remove"}, o \in Objects, v \in ObjectValues, c \in Contracts :
          Store(a, o, v, c)
    \/ \E a \in {"create", "update", "remove"}, o \in Objects, v \in ObjectValues, c \in Contracts :
          StoreDiskFails(a, o, v, c)
    \/ Reload
    \/ \E os \in Lists, v \in ObjectValues, c \in Contracts : tryHash(os, v, c)

DBSpec == DBInit /\ [][DBNext]_dbVars

-----------------------------------------------------------------------------
(* Properties *)

ObjectKeys == {Plain(o) : o \in Objects}

\* What is on disk are the objects whose Store answered without error, with
\* their values and contracts, through restarts and failing writes of others.
BucketHasStored ==
    /\ DOMAIN bucket = DOMAIN stored \cup {Kind(k) : k \in DOMAIN stored}
    /\ \A k \in DOMAIN stored : bucket[k] = stored[k].value /\ bucket[Kind(k)] = stored[k].contract

\* The collection has the objects that were stored, with their values, before
\* and after any restart and around any tryHash; only the objects whose write
\* failed since the node started may differ, and a restart undoes them.
ValuesSurvive ==
    \A k \in ObjectKeys \ behind :
        /\ k \in DOMAIN coll <=> k \in DOMAIN stored
        /\ k \in DOMAIN coll => coll[k].value = stored[k].value

=============================================================================
