---------------------------- MODULE KeyValueStore ----------------------------
(***************************************************************************)
(* What a collection promises its callers: a map from keys to values, with *)
(* one transaction at a time that is either kept or cancelled as a whole.  *)
(* Collection implements this specification.                               *)
(***************************************************************************)
EXTENDS FiniteSets, Functions

CONSTANTS Keys, Fields, Values, Same

VARIABLES
    store,     \* the associations, a function from the stored keys
    saved,     \* the associations a Rollback brings back
    ongoing,   \* a transaction is in progress
    result     \* the answer to the last call: "ok" or the error

vars == <<store, saved, ongoing, result>>

Init ==
    /\ store = [k \in {} |-> k]
    /\ saved = store
    /\ ongoing = FALSE
    /\ result = "ok"

\* A call that changed the associations to s.
Change(s) ==
    /\ result' = "ok"
    /\ store' = s
    /\ saved' = IF ongoing THEN saved ELSE s
    /\ UNCHANGED ongoing

Fail(error) ==
    /\ result' = error
    /\ UNCHANGED <<store, saved, ongoing>>

Add(k, v) ==
    IF k \in DOMAIN store THEN Fail("key collision")
    ELSE Change([c \in DOMAIN store \cup {k} |-> IF c = k THEN v ELSE store[c]])

Set(k, upd) ==
    IF k \notin DOMAIN store THEN Fail("key not found")
    ELSE Change([store EXCEPT ![k] =
                    [f \in Fields |-> IF upd[f] = Same THEN @[f] ELSE upd[f]]])

Remove(k) ==
    IF k \notin DOMAIN store THEN Fail("key not found")
    ELSE Change(Restrict(store, DOMAIN store \ {k}))

\* A call with the empty key names no association: whatever it answers,
\* nothing changes.
CallEmpty == \E answer \in {"ok", "empty key", "key not found"} : Fail(answer)

Begin ==
    /\ ~ongoing
    /\ ongoing' = TRUE
    /\ UNCHANGED <<store, saved, result>>

End ==
    /\ ongoing
    /\ ongoing' = FALSE
    /\ saved' = store
    /\ UNCHANGED <<store, result>>

Rollback ==
    /\ ongoing
    /\ ongoing' = FALSE
    /\ store' = saved
    /\ UNCHANGED <<saved, result>>

Next ==
    \/ \E k \in Keys, v \in [Fields -> Values] : Add(k, v)
    \/ \E k \in Keys, upd \in [Fields -> Values \cup {Same}] : Set(k, upd)
    \/ \E k \in Keys : Remove(k)
    \/ CallEmpty
    \/ Begin
    \/ End
    \/ Rollback

Spec == Init /\ [][Next]_vars

=============================================================================
