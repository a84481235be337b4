------------------------------- MODULE Verifier -------------------------------
(***************************************************************************)
(* A collection that does not store all associations (omniledger/          *)
(* collection: proof.go, verifiers.go, scope.go, update.go and Collect of  *)
(* transaction.go), following a server that does.  The server broadcasts   *)
(* its updates with proofs of the records they use; the verifier starts    *)
(* from the label of the empty tree, learns nodes from proofs, applies     *)
(* updates to what it knows and drops what is out of its scope.            *)
(*                                                                         *)
(* The verifier's tree is partial: of an unknown node only the label is    *)
(* there.  Proofs travel serialised, so they share no memory with a tree;  *)
(* messages arrive late, repeatedly, in any order and damaged.  A call     *)
(* that panics (Verify and Prepare on a marked root, Apply of an update of *)
(* another transaction) stops the program and is not a step.               *)
(***************************************************************************)
EXTENDS MerkleTree, SequencesExt

CONSTANTS
    Scopes,     \* scopes of the verifier: sets of masks, {} being scope None
    Updates,    \* the updates of the application, see below
    Damaged,    \* a value no record has, put into proofs on the way
    MaxChanges  \* bound: the updates the server applies

\* An update declares records, by what its Check expects: that the key is
\* there or that it is not.  Its Apply makes the calls "ops" in turn and
\* ignores their errors.
ASSUME UpdateAssumption ==
    /\ MaxChanges \in Nat
    /\ \A u \in Updates :
          /\ DOMAIN u.need \subseteq Keys
          /\ u.ops \in Seq([name   : {"Add", "Set", "Remove"},
                            key    : DOMAIN u.need,
                            values : [Fields -> Values]])

VARIABLES
    server,    \* the tree of the server
    sent,      \* the broadcast messages: the update, proofs of the records it
               \* declares, the label it leads to, and the root that a block header
               \* gets after it
    scope,     \* the masks of the verifier
    copy,      \* the tree of the verifier
    unknown,   \* the nodes of it that are not known
    detached,  \* the nodes a Remove unlinked that a backup still points to
    ongoing,   \* transaction.ongoing of the verifier
    prepared,  \* what Prepare returned last, as long as transaction.id has
               \* not changed since (Apply panics from then on)
    stored,    \* history: the associations the verifier's calls left
    atBegin,   \* history: the same at Begin
    mixed      \* history: a prepared update was applied to another state, or after
               \* what its proofs told had been collected

vars == <<server, sent, scope, copy, unknown, detached, ongoing, prepared, stored, atBegin, mixed>>

Nothing == [x \in {} |-> x]

-----------------------------------------------------------------------------
(* Proofs *)

\* The label that is all zeros.
NoLabel == [zero |-> TRUE]

dumpNode(T, p) ==
    [key    |-> IF IsLeaf(T, p) THEN T[p].key ELSE NoKey,
     values |-> T[p].values,
     left   |-> IF IsLeaf(T, p) THEN NoLabel ELSE T[Child(p, 0)].label,
     right  |-> IF IsLeaf(T, p) THEN NoLabel ELSE T[Child(p, 1)].label,
     label  |-> T[p].label]

leaf(d) == d.left = NoLabel /\ d.right = NoLabel

consistent(d) ==
    d.label = IF leaf(d) THEN LeafLabel(d.key, d.values) ELSE NodeLabel(d.values, d.left, d.right)

\* Getter.Proof: the root and both nodes of every step to the leaf.
Proof(T, k) ==
    [key   |-> k,
     root  |-> dumpNode(T, Root),
     steps |-> [n \in 1..Len(Landing(T, k)) |->
                  [left  |-> dumpNode(T, Child(Prefix(PathOf[k], n - 1), 0)),
                   right |-> dumpNode(T, Child(Prefix(PathOf[k], n - 1), 1))]]]

\* The node where the bits of the key lead after n steps.
Cursor(p, n) ==
    IF n = 0 THEN p.root
    ELSE IF PathOf[p.key][n] = 1 THEN p.steps[n].right ELSE p.steps[n].left

\* Mutant of Consistent: the steps may end above a leaf.
ConsistentAnyEnd(p) ==
    /\ p.steps # <<>>
    /\ consistent(p.root)
    /\ \A n \in DOMAIN p.steps :
          /\ Cursor(p, n - 1).left = p.steps[n].left.label
          /\ Cursor(p, n - 1).right = p.steps[n].right.label
          /\ consistent(p.steps[n].left)
          /\ consistent(p.steps[n].right)

Consistent(p) ==
    /\ p.steps # <<>>
    /\ consistent(p.root)
    /\ \A n \in DOMAIN p.steps :
          /\ Cursor(p, n - 1).left = p.steps[n].left.label
          /\ Cursor(p, n - 1).right = p.steps[n].right.label
          /\ consistent(p.steps[n].left)
          /\ consistent(p.steps[n].right)
    /\ leaf(Cursor(p, Len(p.steps)))

Match(p) == p.steps # <<>> /\ Cursor(p, Len(p.steps)).key = p.key

\* RawValues of a proof that matches
RawValues(p) == Cursor(p, Len(p.steps)).values

\* GetRoot, which goes into the header of a block, and what Verify of a
\* service proof compares with it.
GetRoot(T) == T[Root].key
TreeRootHash(p) == p.root.key

\* The part of a service proof's Verify about the collection.
VerifyInclusion(p, collectionRoot) == Consistent(p) /\ TreeRootHash(p) = collectionRoot

\* What becomes of a proof on the way: nothing, another key, steps lost at
\* the end, other values or another key in a node of the last step, with the
\* label left alone or computed anew.
Arriving(p) ==
    LET end      == Len(p.steps)
        relabel(d) == [d EXCEPT !.label = LeafLabel(d.key, d.values)]
        spoilt(d) == {[d EXCEPT !.values = [f \in Fields |-> Damaged]]}
                     \cup {[d EXCEPT !.key = c] : c \in Keys \cup {NoKey}}
        changed(d) == spoilt(d) \cup {relabel(s) : s \in spoilt(d)}
    IN  {[p EXCEPT !.key = c] : c \in Keys}
        \cup {[p EXCEPT !.steps = SubSeq(p.steps, 1, n)] : n \in 0..end}
        \cup {[p EXCEPT !.steps[end].left = d] : d \in changed(p.steps[end].left)}
        \cup {[p EXCEPT !.steps[end].right = d] : d \in changed(p.steps[end].right)}

-----------------------------------------------------------------------------
(* Partial trees *)

\* Mutant of Verified: only the root is compared.
VerifiedByRoot(T, p) == p.root.label = T[Root].label /\ p.steps # <<>>

\* Verify returns true.
Verified(T, p) == p.root.label = T[Root].label /\ Consistent(p)

\* Mutant of Dumps: the siblings are left out.
DumpsOfWalk(p) == [q \in {Prefix(PathOf[p.key], n) : n \in 0..Len(p.steps)} |-> Cursor(p, Len(q))]

\* The nodes of a proof, by their paths.
Dumps(p) ==
    [q \in {Root} \cup {Child(Prefix(PathOf[p.key], n - 1), b) : n \in DOMAIN p.steps, b \in {0, 1}} |->
        IF q = Root THEN p.root
        ELSE IF Last(q) = 1 THEN p.steps[Len(q)].right ELSE p.steps[Len(q)].left]

\* dump.to on every node of the proof: what was unknown becomes known, its
\* children unknown until their own turn.
Learned(T, U, p) ==
    LET D     == Dumps(p)
        fresh == {q \in DOMAIN D : q \in DOMAIN T => q \in U /\ T[q].label = D[q].label}
        open  == {q \in fresh : ~leaf(D[q])}
        below == {Child(q, b) : q \in open, b \in {0, 1}} \ fresh
        known(q) == IF q \in DOMAIN T THEN [T[q] EXCEPT !.key = D[q].key, !.values = D[q].values]
                    ELSE Node(D[q].key, D[q].values, D[q].label)
        child(q) == Node(NoKey, Nothing,
                         IF Last(q) = 1 THEN D[Parent(q)].right ELSE D[Parent(q)].left)
    IN  [tree    |-> [q \in DOMAIN T \cup fresh \cup below |->
                         IF q \in fresh THEN known(q) ELSE IF q \in below THEN child(q) ELSE T[q]],
         unknown |-> (U \ fresh) \cup below]

\* The walk of Record to k meets known nodes only.
Known(T, U, k) == \A n \in 0..Len(Landing(T, k)) : Prefix(PathOf[k], n) \notin U

\* The walk of Add, Set, Remove and Proof, which look at siblings too.
Walkable(T, U, k) ==
    \A n \in 0..Len(Landing(T, k)) :
        LET q == Prefix(PathOf[k], n) IN q \notin U /\ (n > 0 => Sibling(q) \notin U)

\* Mutant of match: a node is compared with its own bits.
matchExact(S, p) == \E m \in S : \A i \in 1..Len(p) : i <= Len(m) => m[i] = p[i]

\* scope.match as Collect calls it on the node p: the last two bits of the
\* path are left out of the comparison.
match(S, p) == \E m \in S : \A i \in 1..Len(p) - 2 : i <= Len(m) => m[i] = p[i]

\* Collect: in scope None the root is dropped as well, else explore drops
\* the topmost known nodes from the third level on that do not match.
Collect(T, U, S) ==
    LET out  == IF Root \in U THEN {}
                ELSE IF S = {} THEN {Root}
                ELSE {q \in DOMAIN T \ U : Len(q) > 1 /\ ~match(S, q)}
        keep == {q \in DOMAIN T : \A o \in out : ~IsStrictPrefix(o, q)}
    IN  [tree    |-> [q \in keep |-> IF q \in out
                                     THEN [T[q] EXCEPT !.key = NoKey, !.values = Nothing]
                                     ELSE T[q]],
         unknown |-> (U \cup out) \cap keep]

\* Mutant of FixedKnown: only the root is repaired.
FixedRoot(T, U) ==
    LET N == IF Root \in U THEN T ELSE Updated(T, {Root})
    IN  [q \in DOMAIN T |-> [N[q] EXCEPT !.inconsistent = FALSE]]

\* fix: a node that is unknown, or has an unknown child, is only cleared.
FixedKnown(T, U) ==
    LET S == {q \in DOMAIN T : \A a \in Ancestors(q) \cup {q} : T[a].inconsistent}
        N == Updated(T, {q \in S \ U : ~IsLeaf(T, q) => {Child(q, 0), Child(q, 1)} \cap U = {}})
    IN  [q \in DOMAIN T |-> IF q \in S THEN [N[q] EXCEPT !.inconsistent = FALSE] ELSE N[q]]

-----------------------------------------------------------------------------
(* Navigators *)

\* Mutant of GoRight: the stakes of the left child are one too many.
GoRightLate(query, left) == query > left

\* Stake64.Navigate, for a query within the stake of the parent.
GoRight(query, left) == query >= left

\* Navigator.Record: where the search for a stake of field f ends and what is
\* left of the query, which Navigate rewrites on the way down.
Navigated(T, U, f, query) ==
    LET walk[n \in 0..Depth + 1] ==
          IF n = 0 THEN [at |-> Root, query |-> query, end |-> "none"]
          ELSE LET w == walk[n - 1]
                   l == Child(w.at, 0)
                   r == Child(w.at, 1)
               IN  IF w.end # "none" THEN w
                   ELSE IF {w.at, l, r} \cap U # {} THEN [w EXCEPT !.end = "unknown"]
                   ELSE IF IsLeaf(T, w.at) THEN [w EXCEPT !.end = "found"]
                   ELSE IF w.query >= T[w.at].values[f] THEN [w EXCEPT !.end = "exceeds"]
                   ELSE IF GoRight(w.query, T[l].values[f])
                   THEN [w EXCEPT !.at = r, !.query = @ - T[l].values[f]]
                   ELSE [w EXCEPT !.at = l]
    IN  walk[Depth + 1]

-----------------------------------------------------------------------------
(* Calls and updates, on a tree T with unlinked nodes D and unknown nodes U *)

State(T, D, U) == [tree |-> T, detached |-> D, unknown |-> U]

\* The call returns nil.
Succeeds(s, op) ==
    /\ Walkable(s.tree, s.unknown, op.key)
    /\ (op.name = "Add") # (s.tree[Landing(s.tree, op.key)].key = op.key)

\* What a call leaves; with an error it changes nothing.
Called(s, op, tx) ==
    IF ~Succeeds(s, op) THEN s
    ELSE CASE op.name = "Add" ->
                State(Added(s.tree, op.key, op.values, tx), s.detached, s.unknown)
           [] op.name = "Set" ->
                State(Written(s.tree, op.key, op.values, tx),
                      WrittenDetached(s.tree, s.detached, op.key, op.values), s.unknown)
           [] op.name = "Remove" ->
                LET R == Removed(s.tree, s.detached, op.key, tx)
                IN  State(R.tree, R.detached, s.unknown)

\* The calls of an update's Apply.
CallOne(t, op) == Called(t, op, TRUE)

Applied(s, ops) == FoldLeft(CallOne, s, ops)

\* proxy.Get ignores the error of an unknown record and returns one that
\* does not match.
Get(T, U, k) == Known(T, U, k) /\ T[Landing(T, k)].key = k

Check(T, U, u) == \A k \in DOMAIN u.need : Get(T, U, k) = u.need[k]

\* End: confirm, fix, Collect.
Ended(s, S) == Collect(FixedKnown(Confirmed(s.tree), s.unknown), s.unknown, S)

\* The associations after the calls that succeeded.
Noted(A, op) ==
    CASE op.name = "Add" ->
            [k \in DOMAIN A \cup {op.key} |-> IF k = op.key THEN op.values ELSE A[k]]
      [] op.name = "Set" -> [A EXCEPT ![op.key] = Overwrite(@, op.values)]
      [] op.name = "Remove" -> [k \in DOMAIN A \ {op.key} |-> A[k]]

NoteOne(t, op) ==
    [state |-> CallOne(t.state, op),
     assoc |-> IF Succeeds(t.state, op) THEN Noted(t.assoc, op) ELSE t.assoc]

NotedAll(A, s, ops) == FoldLeft(NoteOne, [state |-> s, assoc |-> A], ops).assoc

-----------------------------------------------------------------------------
(* The server and the verifier *)

\* NewVerifier
Init ==
    /\ server = EmptyTree
    /\ sent = {}
    /\ scope \in Scopes
    /\ copy = [q \in {Root} |-> Node(NoKey, Nothing, EmptyTree[Root].label)]
    /\ unknown = {Root}
    /\ detached = Nothing
    /\ ongoing = FALSE
    /\ prepared = {}
    /\ stored = Nothing
    /\ atBegin = Nothing
    /\ mixed = FALSE

mine == <<scope, copy, unknown, detached, ongoing, prepared, stored, atBegin, mixed>>

\* The server applies an update, of which it proves the records first, and
\* broadcasts it.
Broadcast(u) ==
    /\ Cardinality(sent) < MaxChanges
    /\ Check(server, {}, u)
    /\ server' = Ended(Applied(State(server, Nothing, {}), u.ops), {<<>>}).tree
    /\ sent' = sent \cup {[update  |-> u,
                           records |-> [k \in DOMAIN u.need |-> Proof(server, k)],
                           after   |-> server'[Root].label,
                           header  |-> GetRoot(server')]}
    /\ UNCHANGED mine

Usable == ~copy[Root].inconsistent

\* Verify: a damaged proof changes nothing.
Verify(p) ==
    /\ Usable
    /\ Verified(copy, p)
    /\ copy' = Learned(copy, unknown, p).tree
    /\ unknown' = Learned(copy, unknown, p).unknown
    /\ UNCHANGED <<server, sent, scope, detached, ongoing, prepared, stored, atBegin, mixed>>

\* The tree and the unknown nodes after verifying the proofs of P.
LearnOne(p, l) == Learned(l.tree, l.unknown, p)

LearnedAll(T, U, P) == FoldSet(LearnOne, [tree |-> T, unknown |-> U], P)

\* Prepare of an update whose proofs are all valid.  One that fails has
\* verified the proofs before the invalid one: those are steps of Verify.
Prepare(m) ==
    LET P == Range(m.records)
        l == LearnedAll(copy, unknown, P)
    IN  /\ Usable
        /\ \A p \in P : Verified(copy, p)
        /\ copy' = l.tree
        /\ unknown' = l.unknown
        /\ prepared' = {m}
        /\ UNCHANGED <<server, sent, scope, detached, ongoing, stored, atBegin, mixed>>

\* The calls went through outside a transaction, or the transaction ended,
\* with the tree T and the associations A.
Settle(T, A) ==
    LET c == Collect(T, unknown, scope)
    IN  /\ copy' = c.tree
        /\ unknown' = c.unknown
        /\ detached' = Nothing
        /\ stored' = A
        /\ atBegin' = A

\* The message starts from the state the verifier is in.
Fresh(m) == \A k \in DOMAIN m.records : m.records[k].root.label = copy[Root].label

Now == State(copy, detached, unknown)

\* The one call of a broadcast update, made outside a transaction by a
\* caller who compared the states.  It leaves transaction.id alone.
Direct(m) ==
    LET op == m.update.ops[1]
    IN  /\ ~ongoing
        /\ Len(m.update.ops) = 1
        /\ Fresh(m)
        /\ Succeeds(Now, op)
        /\ Settle(Called(Now, op, FALSE).tree, Noted(stored, op))
        /\ UNCHANGED <<server, sent, scope, ongoing, prepared, mixed>>

\* What Prepare learned from the proofs of the message is still known.
Ready(m) == \A k \in DOMAIN m.update.need : Walkable(copy, unknown, k)

\* applyUpdate, in a transaction of its own or in the one that is ongoing.
Apply(m) ==
    LET s == Applied(Now, m.update.ops)
        A == NotedAll(stored, Now, m.update.ops)
    IN  /\ Check(copy, unknown, m.update)
        /\ mixed' = (mixed \/ ~Fresh(m) \/ ~Ready(m) \/ (ongoing /\ stored # atBegin))
        /\ IF ongoing
           THEN /\ copy' = s.tree
                /\ detached' = s.detached
                /\ stored' = A
                /\ UNCHANGED <<unknown, prepared, atBegin>>
           ELSE /\ Settle(FixedKnown(Confirmed(s.tree), unknown), A)
                /\ prepared' = {}
        /\ UNCHANGED <<server, sent, scope, ongoing>>

Begin ==
    /\ ~ongoing
    /\ ongoing' = TRUE
    /\ UNCHANGED <<server, sent, scope, copy, unknown, detached, prepared, stored, atBegin, mixed>>

Rollback ==
    /\ ongoing
    /\ ongoing' = FALSE
    /\ copy' = RolledBack(copy, detached)
    /\ detached' = Nothing
    /\ stored' = atBegin
    /\ prepared' = {}
    /\ UNCHANGED <<server, sent, scope, unknown, atBegin, mixed>>

End ==
    /\ ongoing
    /\ ongoing' = FALSE
    /\ Settle(FixedKnown(Confirmed(copy), unknown), stored)
    /\ prepared' = {}
    /\ UNCHANGED <<server, sent, scope, mixed>>

Proofs == {Proof(server, k) : k \in Keys} \cup UNION {Range(m.records) : m \in sent}

Next ==
    \/ \E u \in Updates : Broadcast(u)
    \/ \E p \in Proofs : \E a \in Arriving(p) : Verify(a)
    \/ \E m \in sent : Prepare(m)
    \/ \E m \in sent : Direct(m)
    \/ \E p \in prepared : Apply(p)
    \/ Begin
    \/ Rollback
    \/ End

Spec == Init /\ [][Next]_vars

-----------------------------------------------------------------------------
(* Properties *)

\* A proof that Getter.Proof made is consistent, and whatever became of it on
\* the way: if Verify accepts it, Match says whether the server has the key
\* and RawValues returns the values the server has for it.
ProofsTell ==
    \A k \in Keys :
        /\ Consistent(Proof(server, k))
        /\ \A p \in Arriving(Proof(server, k)) :
              Verified(server, p) => /\ Match(p) = Found(server, p.key)
                                     /\ Match(p) => RawValues(p) = Contents(server)[p.key]

\* What the verifier knows of its tree, through any sequence of proofs,
\* updates, stale ones included, and rollbacks, is what the full tree with
\* the same associations has there; so is its root label.
KnowsTruth ==
    ~ongoing =>
        LET F == Built(stored)
        IN  \A q \in DOMAIN copy :
                /\ q \in DOMAIN F
                /\ copy[q].label = F[q].label
                /\ q \notin unknown => dumpNode(copy, q) = dumpNode(F, q)

\* A broadcast update that declares some record and starts from the state of
\* the verifier is accepted by it with its proofs alone, and takes it to the
\* state the server reached.
UpdatesTransfer ==
    ~ongoing /\ Usable => \A m \in sent :
        DOMAIN m.records # {} /\ Fresh(m) =>
            LET l == LearnedAll(copy, unknown, Range(m.records))
            IN  /\ \A k \in DOMAIN m.records : Verified(copy, m.records[k])
                /\ Check(l.tree, l.unknown, m.update)
                /\ Ended(Applied(State(l.tree, Nothing, l.unknown), m.update.ops), scope)
                      .tree[Root].label = m.after

\* However messages arrive, the verifier is in a state the server was in,
\* unless a prepared update was applied to another state than its own, or
\* after what its proofs told had been collected.
FollowsServer ==
    ~ongoing /\ ~mixed =>
        copy[Root].label \in {EmptyTree[Root].label} \cup {m.after : m \in sent}

\* The stakes of field f in A, of all keys or of those left of k in the tree.
Total(A, f) == MapThenSumSet(LAMBDA k : A[k][f], DOMAIN A)

Left(A, k) ==
    {c \in DOMAIN A : \E i \in 1..Depth :
        /\ \A j \in 1..i - 1 : PathOf[c][j] = PathOf[k][j]
        /\ PathOf[c][i] < PathOf[k][i]}

Selects(T, U, A, f) ==
    \A query \in 0..Total(A, f) :
        LET w == Navigated(T, U, f, query)
        IN  CASE w.end = "unknown" -> U # {}
              [] w.end = "exceeds" -> query = Total(A, f)
              [] w.end = "found" ->
                    LET k      == T[w.at].key
                        before == MapThenSumSet(LAMBDA c : A[c][f], Left(A, k))
                    IN  k \in DOMAIN A /\ before <= query /\ query < before + A[k][f]

\* A navigator finds each key for as many queries as the key has stakes, in
\* the full tree and in a partial one unless it meets an unknown node, as
\* long as the sum of all stakes does not wrap around.  The keys come from
\* left to right, though the comment on Navigate (field.go:122) has a query of
\* at least the left value go left.  Of the query that the record keeps nothing
\* is said here: record.go:34 calls it the original one, and Navigate rewrites it.
NavigatorsSelect ==
    ~ongoing => \A f \in Fields :
        /\ Total(stored, f) = Built(stored)[Root].values[f] => Selects(copy, unknown, stored, f)
        /\ Total(Contents(server), f) = server[Root].values[f]
              => Selects(server, {}, Contents(server), f)

\* "GetRoot returns the root hash of the collection": a proof that Verify
\* accepts with a block header is about the collection after that block.
HeaderTells ==
    \A p \in Proofs, m \in sent : VerifyInclusion(p, m.header) => p.root.label = m.after

\* Collect never takes away what a call on a key of the scope needs: once
\* the verifier can change such a key without a proof, it always can.
ScopeKept ==
    [][\A k \in Keys :
          /\ \E m \in scope : IsPrefix(m, PathOf[k])
          /\ Walkable(copy, unknown, k)
          => Walkable(copy', unknown', k)]_vars

=============================================================================
