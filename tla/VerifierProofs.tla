---------------------------- MODULE VerifierProofs ----------------------------
(***************************************************************************)
(* What a proof says about the tree of the server, and what a verifier     *)
(* knows of it, for keys, values and updates of any kind and paths of any  *)
(* depth.                                                                  *)
(***************************************************************************)
EXTENDS Verifier, MerkleTreeProofs

\* The calls of an update, one by one.
Calls == INSTANCE Folding WITH Op <- CallOne

-----------------------------------------------------------------------------
(* Labels *)

\* A label tells what was hashed.
LEMMA LeafLabels ==
    ASSUME NEW k, NEW v, NEW c, NEW w, LeafLabel(k, v) = LeafLabel(c, w)
    PROVE  k = c /\ v = w
BY DEF LeafLabel

LEMMA NodeLabels ==
    ASSUME NEW v, NEW l, NEW r, NEW w, NEW m, NEW n, NodeLabel(v, l, r) = NodeLabel(w, m, n)
    PROVE  v = w /\ l = m /\ r = n
BY DEF NodeLabel

LEMMA LabelKinds ==
    ASSUME NEW k, NEW v, NEW w, NEW l, NEW r
    PROVE  /\ LeafLabel(k, v) # NodeLabel(w, l, r)
           /\ LeafLabel(k, v) # NoLabel
           /\ NodeLabel(w, l, r) # NoLabel
<1> DEFINE a == LeafLabel(k, v)
           b == NodeLabel(w, l, r)
<1>1. a.leaf = TRUE /\ b.leaf = FALSE
  BY DEF LeafLabel, NodeLabel
<1>2. "leaf" \in DOMAIN a /\ "leaf" \in DOMAIN b /\ "leaf" \notin DOMAIN NoLabel
  BY DEF LeafLabel, NodeLabel, NoLabel
<1> HIDE DEF a, b
<1>3. a # b
  BY <1>1
<1>4. a # NoLabel /\ b # NoLabel
  BY <1>2
<1> QED BY <1>3, <1>4 DEF a, b

LEMMA ConsistentLabel ==
    ASSUME NEW d, consistent(d)
    PROVE  d.label # NoLabel
BY LabelKinds DEF consistent

-----------------------------------------------------------------------------
(* Proofs *)

\* What is dumped in d is the node q of T.
Agrees(d, T, q) == q \in DOMAIN T /\ consistent(d) /\ d.label = T[q].label

\* What is in d that is not the key of an internal node.
Tells(d, T, q) ==
    /\ d.values = T[q].values
    /\ leaf(d) <=> IsLeaf(T, q)
    /\ IsLeaf(T, q) => d.key = T[q].key
    /\ ~IsLeaf(T, q) => d.left = T[Child(q, 0)].label /\ d.right = T[Child(q, 1)].label

LEMMA AgreeTells ==
    ASSUME NEW T, NEW q, UpToDate(T, q), NEW d, Agrees(d, T, q)
    PROVE  Tells(d, T, q)
<1>1. CASE IsLeaf(T, q)
  <2>1. T[q].label = LeafLabel(T[q].key, T[q].values)
    BY <1>1 DEF UpToDate
  <2>2. leaf(d)
    BY <2>1, LabelKinds DEF Agrees, consistent
  <2>3. LeafLabel(d.key, d.values) = LeafLabel(T[q].key, T[q].values)
    BY <2>1, <2>2 DEF Agrees, consistent
  <2> QED BY <1>1, <2>2, <2>3, LeafLabels DEF Tells
<1>2. CASE ~IsLeaf(T, q)
  <2>1. T[q].label = NodeLabel(T[q].values, T[Child(q, 0)].label, T[Child(q, 1)].label)
    BY <1>2 DEF UpToDate
  <2>2. ~leaf(d)
    BY <2>1, LabelKinds DEF Agrees, consistent
  <2>3. NodeLabel(d.values, d.left, d.right)
          = NodeLabel(T[q].values, T[Child(q, 0)].label, T[Child(q, 1)].label)
    BY <2>1, <2>2 DEF Agrees, consistent
  <2> QED BY <1>2, <2>2, <2>3, NodeLabels DEF Tells
<1> QED BY <1>1, <1>2

\* A message on its way has the form of a proof.
ProofLike(p) ==
    /\ p.key \in Keys
    /\ Len(p.steps) \in Nat
    /\ DOMAIN p.steps = 1..Len(p.steps)

\* The first n steps of the proof agree with T.
AgreesTo(p, T, n) ==
    LET P == PathOf[p.key]
    IN  /\ n <= Depth
        /\ Agrees(Cursor(p, n), T, Prefix(P, n))
        /\ n > 0 => /\ Agrees(p.steps[n].left, T, Child(Prefix(P, n - 1), 0))
                    /\ Agrees(p.steps[n].right, T, Child(Prefix(P, n - 1), 1))

\* A proof that Verify accepts agrees with the tree all the way.
LEMMA ProofAgrees ==
    ASSUME NEW T, Shape(T), \A q \in DOMAIN T : UpToDate(T, q), NEW p, ProofLike(p), Verified(T, p)
    PROVE  \A n \in 0..Len(p.steps) : AgreesTo(p, T, n)
<1> DEFINE P == PathOf[p.key]
           N == Len(p.steps)
           C(n) == Cursor(p, n)
           W == {n \in 0..N : AgreesTo(p, T, n)}
<1>1. P \in Path /\ Size(P) = Depth /\ Depth \in Nat \ {0} /\ N \in Nat /\ DOMAIN p.steps = 1..N
  BY KeyPaths DEF ProofLike
<1>2. /\ p.root.label = T[Root].label /\ consistent(p.root)
      /\ \A n \in 1..N : /\ C(n - 1).left = p.steps[n].left.label
                         /\ C(n - 1).right = p.steps[n].right.label
                         /\ consistent(p.steps[n].left)
                         /\ consistent(p.steps[n].right)
  BY <1>1 DEF Verified, Consistent
<1>3. AgreesTo(p, T, 0)
  <2>1. C(0) = p.root /\ Prefix(P, 0) = Root
    BY <1>1, PrefixSelf DEF Cursor
  <2>2. Root \in DOMAIN T
    BY ShapeRoot
  <2> HIDE DEF P, C
  <2>3. Agrees(C(0), T, Prefix(P, 0))
    BY <1>2, <2>1, <2>2 DEF Agrees
  <2> QED BY <1>1, <2>3 DEF AgreesTo, P, C
<1>4. ASSUME NEW n \in 0..N - 1, AgreesTo(p, T, n)
      PROVE  AgreesTo(p, T, n + 1)
  <2> DEFINE m == n + 1
             q == Prefix(P, n)
             l == p.steps[m].left
             r == p.steps[m].right
  <2>1. m \in 1..N /\ m - 1 = n /\ m > 0 /\ m # 0
    BY <1>1
  <2>2. C(n).left = l.label /\ C(n).right = r.label /\ consistent(l) /\ consistent(r)
    BY <1>2, <2>1
  <2>3. Agrees(C(n), T, q) /\ n <= Depth /\ q \in DOMAIN T
    BY <1>4 DEF AgreesTo, Agrees
  <2>4. Tells(C(n), T, q)
    BY <2>3, AgreeTells
  <2>5. ~leaf(C(n))
    BY <2>2, ConsistentLabel DEF leaf
  <2>6. ~IsLeaf(T, q) /\ l.label = T[Child(q, 0)].label /\ r.label = T[Child(q, 1)].label
    BY <2>2, <2>4, <2>5 DEF Tells
  <2>7. q \in Path /\ Size(q) = n
    BY <1>1, <2>3, PrefixFacts
  <2>8. \A b \in Bit : Child(q, b) \in DOMAIN T /\ Size(Child(q, b)) = n + 1
    BY <2>3, <2>6, <2>7, ShapeInner, ChildFacts
  <2>9. n + 1 <= Depth
    BY <2>8 DEF Shape, Bit
  <2>10. n \in 0..Size(P) - 1
    BY <1>1, <2>9
  <2>11. P[n + 1] \in Bit /\ Prefix(P, n + 1) = Child(q, P[n + 1])
    BY <1>1, <2>10, PrefixStep
  <2>12. Agrees(l, T, Child(q, 0)) /\ Agrees(r, T, Child(q, 1))
    BY <2>2, <2>6, <2>8 DEF Agrees, Bit
  <2>13. C(m) = IF P[m] = 1 THEN r ELSE l
    BY <2>1 DEF Cursor
  <2>14. m = n + 1
    OBVIOUS
  <2> HIDE DEF m, q, l, r, C
  <2>15. Agrees(C(m), T, Prefix(P, m))
    <3>1. CASE P[m] = 1
      BY <2>11, <2>12, <2>13, <2>14, <3>1
    <3>2. CASE P[m] = 0
      BY <2>11, <2>12, <2>13, <2>14, <3>2
    <3> QED BY <2>11, <2>14, <3>1, <3>2 DEF Bit
  <2>16. AgreesTo(p, T, m)
    BY <2>1, <2>9, <2>12, <2>14, <2>15 DEF AgreesTo, C, q, l, r
  <2> QED BY <2>14, <2>16
<1> HIDE DEF P, C
<1>5. 0 \in W /\ \A n \in 0..N - 1 : n \in W => n + 1 \in W
  BY <1>1, <1>3, <1>4
<1> HIDE DEF W, N
<1>6. 0..N \subseteq W
  BY <1>1, <1>5, Ind!BoundedInduction
<1> QED BY <1>6 DEF W, N

\* So it says whether the tree has the key, and its values.
LEMMA ProofIsRight ==
    ASSUME NEW T, Shape(T), \A q \in DOMAIN T : UpToDate(T, q), NEW p, ProofLike(p), Verified(T, p)
    PROVE  LET q == Landing(T, p.key)
           IN  /\ Match(p) <=> T[q].key = p.key
               /\ RawValues(p) = T[q].values
<1> DEFINE P == PathOf[p.key]
           N == Len(p.steps)
           d == Cursor(p, N)
           q == Prefix(P, N)
<1>1. P \in Path /\ Size(P) = Depth /\ Depth \in Nat \ {0} /\ N \in Nat
  BY KeyPaths DEF ProofLike
<1>2. N <= Depth /\ Agrees(d, T, q)
  <2>1. AgreesTo(p, T, N)
    BY <1>1, ProofAgrees
  <2> QED BY <2>1 DEF AgreesTo
<1>3. p.steps # <<>> /\ leaf(d)
  BY DEF Verified, Consistent
<1>4. q \in DOMAIN T /\ Tells(d, T, q)
  BY <1>2, AgreeTells DEF Agrees
<1>5. IsLeaf(T, q) /\ d.key = T[q].key /\ d.values = T[q].values
  BY <1>3, <1>4 DEF Tells
<1>6. On(q, P)
  BY <1>1, <1>2, OnPrefix
<1>7. Landing(T, p.key) = q
  BY <1>4, <1>5, <1>6, LandingUnique DEF ProofLike
<1> QED BY <1>3, <1>5, <1>7 DEF Match, RawValues

\* The nodes that Getter.Proof puts into a proof.
LEMMA DumpConsistent ==
    ASSUME NEW T, Shape(T), \A r \in DOMAIN T : UpToDate(T, r), NEW q \in DOMAIN T
    PROVE  consistent(dumpNode(T, q)) /\ dumpNode(T, q).label = T[q].label
<1> DEFINE d == dumpNode(T, q)
<1>1. CASE IsLeaf(T, q)
  <2>1. d.left = NoLabel /\ d.right = NoLabel /\ d.key = T[q].key
    BY <1>1 DEF dumpNode
  <2>2. d.values = T[q].values /\ d.label = T[q].label
    BY DEF dumpNode
  <2>3. T[q].label = LeafLabel(T[q].key, T[q].values)
    BY <1>1 DEF UpToDate
  <2> HIDE DEF d
  <2>4. leaf(d)
    BY <2>1 DEF leaf
  <2>5. consistent(d)
    BY <2>1, <2>2, <2>3, <2>4 DEF consistent
  <2> QED BY <2>2, <2>5 DEF d
<1>2. CASE ~IsLeaf(T, q)
  <2>1. d.left = T[Child(q, 0)].label /\ d.right = T[Child(q, 1)].label
    BY <1>2 DEF dumpNode
  <2>2. d.values = T[q].values /\ d.label = T[q].label
    BY DEF dumpNode
  <2>3. T[q].label = NodeLabel(T[q].values, T[Child(q, 0)].label, T[Child(q, 1)].label)
    BY <1>2 DEF UpToDate
  <2> HIDE DEF d
  <2>4. d.label = NodeLabel(d.values, d.left, d.right)
    BY <2>1, <2>2, <2>3
  <2>5. T[Child(q, 0)].label # NoLabel
    <3>1. Child(q, 0) \in DOMAIN T
      BY <1>2 DEF IsLeaf
    <3> DEFINE c == Child(q, 0)
    <3>2. UpToDate(T, c)
      BY <3>1
    <3> HIDE DEF c
    <3>3. T[c].label # NoLabel
      BY <3>2, LabelKinds DEF UpToDate
    <3> QED BY <3>3 DEF c
  <2>6. ~leaf(d)
    BY <2>1, <2>5 DEF leaf
  <2>7. consistent(d)
    BY <2>4, <2>6 DEF consistent
  <2> QED BY <2>2, <2>7 DEF d
<1> QED BY <1>1, <1>2

\* Getter.Proof: the walk and the siblings, down to a leaf.
LEMMA ProofForm ==
    ASSUME NEW T, Shape(T), \A q \in DOMAIN T : UpToDate(T, q), NEW k \in Keys
    PROVE  LET p == Proof(T, k)
           IN  /\ ProofLike(p) /\ p.key = k /\ p.root = dumpNode(T, Root)
               /\ Len(p.steps) = Len(Landing(T, k)) /\ Len(p.steps) >= 1
               /\ Consistent(p)
<1> DEFINE p == Proof(T, k)
           P == PathOf[k]
           q == Landing(T, k)
           N == Len(q)
           C(n) == Cursor(p, n)
           L(n) == dumpNode(T, Child(Prefix(P, n - 1), 0))
           R(n) == dumpNode(T, Child(Prefix(P, n - 1), 1))
<1>1. /\ q \in DOMAIN T /\ IsLeaf(T, q) /\ On(q, P) /\ q \in Path /\ N \in 0..Depth /\ N = Size(q)
      /\ P \in Path /\ Size(P) = Depth /\ Depth \in Nat \ {0}
  BY LandingFacts, KeyPaths DEF Shape, Size
<1>2. N >= 1
  <2>1. q # Root
    BY <1>1, ShapeRoot
  <2> QED BY <1>1, <2>1, RootOnly
<1>3. p.key = k /\ p.root = dumpNode(T, Root) /\ p.steps = [n \in 1..N |-> [left |-> L(n), right |-> R(n)]]
  BY DEF Proof
<1> HIDE DEF p, L, R
<1>4. Len(p.steps) = N /\ DOMAIN p.steps = 1..N /\ p.steps # <<>>
  BY <1>1, <1>2, <1>3
<1>5. \A n \in 1..N : p.steps[n].left = L(n) /\ p.steps[n].right = R(n)
  BY <1>3
<1>6. ASSUME NEW n \in 0..N
      PROVE  /\ Prefix(P, n) \in DOMAIN T /\ Prefix(P, n) \in Path /\ Size(Prefix(P, n)) = n
             /\ On(Prefix(P, n), q)
  <2>1. Prefix(P, n) \in Path /\ Size(Prefix(P, n)) = n /\ On(Prefix(P, n), P)
    BY <1>1, PrefixFacts, OnPrefix
  <2>2. On(Prefix(P, n), q)
    BY <1>1, <2>1, OnComparable
  <2> QED BY <1>1, <2>1, <2>2 DEF Shape
<1>7. ASSUME NEW n \in 1..N
      PROVE  /\ ~IsLeaf(T, Prefix(P, n - 1))
             /\ \A b \in Bit : Child(Prefix(P, n - 1), b) \in DOMAIN T
             /\ P[n] \in Bit /\ Prefix(P, n) = Child(Prefix(P, n - 1), P[n])
  <2> DEFINE m == n - 1
  <2>1. m \in 0..N /\ m \in 0..Size(P) - 1 /\ m + 1 = n
    BY <1>1
  <2> HIDE DEF m
  <2>2. P[n] \in Bit /\ Prefix(P, n) = Child(Prefix(P, m), P[n])
    BY <1>1, <2>1, PrefixStep
  <2>3. Prefix(P, n) \in DOMAIN T /\ Prefix(P, m) \in DOMAIN T
    BY <1>6, <2>1
  <2>4. ~IsLeaf(T, Prefix(P, m)) /\ \A b \in Bit : Child(Prefix(P, m), b) \in DOMAIN T
    BY <2>2, <2>3, ShapeInner
  <2> QED BY <2>2, <2>4 DEF m
<1>8. ASSUME NEW n \in 0..N
      PROVE  C(n) = dumpNode(T, Prefix(P, n))
  <2>1. CASE n = 0
    BY <1>1, <1>3, <2>1, PrefixSelf DEF Cursor
  <2>2. CASE n # 0
    <3>1. n \in 1..N
      BY <2>2
    <3>2. C(n) = IF P[n] = 1 THEN R(n) ELSE L(n)
      BY <1>3, <1>5, <2>2, <3>1 DEF Cursor
    <3>3. P[n] \in Bit /\ Prefix(P, n) = Child(Prefix(P, n - 1), P[n])
      BY <1>7, <3>1
    <3> QED BY <3>2, <3>3 DEF L, R, Bit
  <2> QED BY <2>1, <2>2
<1>9. ASSUME NEW n \in 1..N
      PROVE  /\ C(n - 1).left = p.steps[n].left.label
             /\ C(n - 1).right = p.steps[n].right.label
             /\ consistent(p.steps[n].left)
             /\ consistent(p.steps[n].right)
  <2> DEFINE m == n - 1
             a == Prefix(P, m)
  <2>1. m \in 0..N
    OBVIOUS
  <2>2. C(m) = dumpNode(T, a)
    BY <1>8, <2>1
  <2>3. ~IsLeaf(T, a) /\ Child(a, 0) \in DOMAIN T /\ Child(a, 1) \in DOMAIN T
    BY <1>7 DEF Bit
  <2>4. p.steps[n].left = dumpNode(T, Child(a, 0)) /\ p.steps[n].right = dumpNode(T, Child(a, 1))
    BY <1>5 DEF L, R
  <2> HIDE DEF m, a, C
  <2>5. C(m).left = T[Child(a, 0)].label /\ C(m).right = T[Child(a, 1)].label
    BY <2>2, <2>3 DEF dumpNode
  <2>6. /\ consistent(p.steps[n].left) /\ p.steps[n].left.label = T[Child(a, 0)].label
        /\ consistent(p.steps[n].right) /\ p.steps[n].right.label = T[Child(a, 1)].label
    BY <2>3, <2>4, DumpConsistent
  <2> QED BY <2>5, <2>6 DEF m
<1>10. consistent(p.root)
  BY <1>3, ShapeRoot, DumpConsistent
<1>11. leaf(C(N))
  <2>1. C(N) = dumpNode(T, q)
    <3> HIDE DEF C, q, N, P
    <3>1. q = Prefix(P, N) /\ N \in 0..N
      BY <1>1 DEF On
    <3>2. C(N) = dumpNode(T, Prefix(P, N))
      BY <1>8, <3>1
    <3> QED BY <3>1, <3>2
  <2> HIDE DEF C, q
  <2> QED BY <1>1, <2>1 DEF dumpNode, leaf
<1>12. Consistent(p)
  BY <1>4, <1>9, <1>10, <1>11 DEF Consistent
<1> HIDE DEF C, q, N
<1> QED BY <1>1, <1>2, <1>3, <1>4, <1>12 DEF ProofLike, p, q, N

\* What arrives of it has the form of a proof.
LEMMA ArrivingForm ==
    ASSUME NEW p, ProofLike(p), Len(p.steps) >= 1,
           p = [key |-> p.key, root |-> p.root, steps |-> p.steps], NEW a \in Arriving(p)
    PROVE  ProofLike(a)
<1> DEFINE N == Len(p.steps)
<1>1. p.key \in Keys /\ N \in Nat /\ DOMAIN p.steps = 1..N /\ N \in 1..N
  BY DEF ProofLike
<1>2. CASE \E c \in Keys : a = [p EXCEPT !.key = c]
  <2>1. PICK c \in Keys : a = [p EXCEPT !.key = c]
    BY <1>2
  <2>2. a.key = c /\ a.steps = p.steps
    BY <2>1
  <2> QED BY <1>1, <2>2 DEF ProofLike
<1>3. CASE \E n \in 0..N : a = [p EXCEPT !.steps = SubSeq(p.steps, 1, n)]
  <2>1. PICK n \in 0..N : a = [p EXCEPT !.steps = SubSeq(p.steps, 1, n)]
    BY <1>3
  <2>2. a.key = p.key /\ a.steps = SubSeq(p.steps, 1, n)
    BY <2>1
  <2>3. SubSeq(p.steps, 1, n) = [i \in 1..n |-> p.steps[i]]
    OBVIOUS
  <2>4. Len(a.steps) = n /\ DOMAIN a.steps = 1..n
    BY <2>2, <2>3
  <2> QED BY <1>1, <2>2, <2>4 DEF ProofLike
<1>4. CASE \E d : a = [p EXCEPT !.steps[N].left = d] \/ a = [p EXCEPT !.steps[N].right = d]
  <2>1. \E s : a = [p EXCEPT !.steps = [@ EXCEPT ![N] = s]]
    BY <1>4
  <2>2. PICK s : a = [p EXCEPT !.steps = [p.steps EXCEPT ![N] = s]]
    BY <2>1
  <2>3. a.key = p.key /\ a.steps = [p.steps EXCEPT ![N] = s]
    BY <2>2
  <2>4. DOMAIN a.steps = 1..N
    BY <1>1, <2>3
  <2>5. Len(a.steps) = N
    BY <1>1, <2>4
  <2> QED BY <1>1, <2>3, <2>4, <2>5 DEF ProofLike
<1> QED BY <1>2, <1>3, <1>4 DEF Arriving


-----------------------------------------------------------------------------
(* Calls on a tree of which every node is known *)

USE WhateverType, OpenType

\* A call that an update makes.
IsCall(op) == op.name \in {"Add", "Set", "Remove"} /\ op.key \in Keys

\* The tree of the server while an update is applied.
SaneState(s, B) ==
    /\ s = State(s.tree, s.detached, {})
    /\ Sane(s.tree, s.detached, B, Open)

LEMMA StateFields ==
    ASSUME NEW T, NEW D, NEW U
    PROVE  LET s == State(T, D, U) IN s.tree = T /\ s.detached = D /\ s.unknown = U
BY DEF State

LEMMA CallForms ==
    ASSUME NEW s, NEW op, IsCall(op), Succeeds(s, op), NEW tx \in BOOLEAN
    PROVE  LET T == s.tree
               k == op.key
           IN  \/ /\ op.name = "Add" /\ T[Landing(T, k)].key # k
                  /\ Called(s, op, tx) = State(Added(T, k, op.values, tx), s.detached, s.unknown)
               \/ /\ op.name = "Set" /\ T[Landing(T, k)].key = k
                  /\ Called(s, op, tx) = State(Written(T, k, op.values, tx),
                                               WrittenDetached(T, s.detached, k, op.values), s.unknown)
               \/ /\ op.name = "Remove" /\ T[Landing(T, k)].key = k
                  /\ Called(s, op, tx) = State(Removed(T, s.detached, k, tx).tree,
                                               Removed(T, s.detached, k, tx).detached, s.unknown)
<1>1. CASE op.name = "Add"
  BY <1>1 DEF Called, Succeeds
<1>2. CASE op.name = "Set"
  BY <1>2 DEF Called, Succeeds
<1>3. CASE op.name = "Remove"
  BY <1>3 DEF Called, Succeeds
<1> QED BY <1>1, <1>2, <1>3 DEF IsCall

LEMMA CallSane ==
    ASSUME NEW B, NEW s, SaneState(s, B), NEW op, IsCall(op)
    PROVE  SaneState(CallOne(s, op), B)
<1> DEFINE T == s.tree
           D == s.detached
           k == op.key
           N == CallOne(s, op)
<1>1. CASE ~Succeeds(s, op)
  BY <1>1 DEF CallOne, Called
<1>2. CASE Succeeds(s, op)
  <2>1. k \in Keys /\ Sane(T, D, B, Open) /\ s.unknown = {}
    <3>1. k \in Keys /\ s = State(T, D, {}) /\ Sane(T, D, B, Open)
      BY DEF IsCall, SaneState
    <3> HIDE DEF T, D, k
    <3>2. s.unknown = {}
      BY <3>1, StateFields
    <3> QED BY <3>1, <3>2
  <2>2. N = Called(s, op, Open)
    BY DEF CallOne, Open
  <2>3. \/ T[Landing(T, k)].key # k /\ N = State(Added(T, k, op.values, Open), D, {})
        \/ /\ T[Landing(T, k)].key = k
           /\ N = State(Written(T, k, op.values, Open), WrittenDetached(T, D, k, op.values), {})
        \/ /\ T[Landing(T, k)].key = k
           /\ N = State(Removed(T, D, k, Open).tree, Removed(T, D, k, Open).detached, {})
    BY <1>2, <2>1, <2>2, CallForms
  <2> HIDE DEF T, D, k, N
  <2>4. ASSUME NEW M, NEW E, N = State(M, E, {}), Sane(M, E, B, Open)
        PROVE  SaneState(N, B)
    <3>1. N.tree = M /\ N.detached = E
      BY <2>4, StateFields
    <3> QED BY <2>4, <3>1 DEF SaneState
  <2>5. SaneState(N, B)
    <3>1. CASE T[Landing(T, k)].key # k /\ N = State(Added(T, k, op.values, Open), D, {})
      <4>1. Sane(Added(T, k, op.values, Open), D, B, Open)
        BY <2>1, <3>1, SaneAdd
      <4> QED BY <2>4, <3>1, <4>1
    <3>2. CASE /\ T[Landing(T, k)].key = k
               /\ N = State(Written(T, k, op.values, Open), WrittenDetached(T, D, k, op.values), {})
      <4>1. Sane(Written(T, k, op.values, Open), WrittenDetached(T, D, k, op.values), B, Open)
        BY <2>1, <3>2, SaneSet
      <4> QED BY <2>4, <3>2, <4>1
    <3>3. CASE /\ T[Landing(T, k)].key = k
               /\ N = State(Removed(T, D, k, Open).tree, Removed(T, D, k, Open).detached, {})
      <4>1. Sane(Removed(T, D, k, Open).tree, Removed(T, D, k, Open).detached, B, Open)
        BY <2>1, <3>3, SaneRemove
      <4> QED BY <2>4, <3>3, <4>1
    <3> QED BY <2>3, <3>1, <3>2, <3>3
  <2> QED BY <2>5 DEF N
<1> QED BY <1>1, <1>2

\* The calls of an update, in turn.
LEMMA AppliedFold ==
    ASSUME NEW s, NEW ops
    PROVE  Applied(s, ops) = Calls!Fold(s, ops)
BY Zenon DEF Applied, Calls!Fold, Calls!FoldLeft, FoldLeft, Calls!MapThenFoldSet, MapThenFoldSet, Calls!Max, Max

LEMMA AppliedSteps ==
    ASSUME NEW s, NEW S, NEW ops \in Seq(S), NEW n \in 0..Len(ops) - 1
    PROVE  Applied(s, SubSeq(ops, 1, n + 1)) = CallOne(Applied(s, SubSeq(ops, 1, n)), ops[n + 1])
<1> DEFINE m == n + 1
<1>1. m \in 1..Len(ops) /\ m - 1 = n
  OBVIOUS
<1> HIDE DEF m
<1>2. Calls!Fold(s, SubSeq(ops, 1, m)) = CallOne(Calls!Fold(s, SubSeq(ops, 1, m - 1)), ops[m])
  BY <1>1, Calls!FoldStep
<1>3. Applied(s, SubSeq(ops, 1, m)) = CallOne(Applied(s, SubSeq(ops, 1, n)), ops[m])
  BY <1>1, <1>2, AppliedFold
<1> QED BY <1>3 DEF m

LEMMA AppliedNone ==
    ASSUME NEW s
    PROVE  Applied(s, << >>) = s
<1>1. Calls!Fold(s, << >>) = s
  BY Calls!FoldEmpty
<1> QED BY <1>1, AppliedFold

LEMMA WholeSeq ==
    ASSUME NEW S, NEW ops \in Seq(S)
    PROVE  Len(ops) \in Nat /\ SubSeq(ops, 1, Len(ops)) = ops /\ SubSeq(ops, 1, 0) = << >>
OBVIOUS

AllCalls(ops) == \E S : ops \in Seq(S) /\ \A op \in S : IsCall(op)

LEMMA UpdateCalls ==
    ASSUME NEW u \in Updates
    PROVE  AllCalls(u.ops) /\ DOMAIN u.need \subseteq Keys
<1> DEFINE S == [name : {"Add", "Set", "Remove"}, key : DOMAIN u.need, values : [Fields -> Values]]
<1>1. u.ops \in Seq(S) /\ DOMAIN u.need \subseteq Keys
  BY UpdateAssumption
<1>2. \A op \in S : op.name \in {"Add", "Set", "Remove"} /\ op.key \in DOMAIN u.need
  OBVIOUS
<1> HIDE DEF S
<1>3. \A op \in S : IsCall(op)
  BY <1>1, <1>2 DEF IsCall
<1> QED BY <1>1, <1>3 DEF AllCalls

LEMMA AppliedSane ==
    ASSUME NEW B, NEW s, SaneState(s, B), NEW ops, AllCalls(ops)
    PROVE  SaneState(Applied(s, ops), B)
<1>1. PICK S : ops \in Seq(S) /\ \A op \in S : IsCall(op)
  BY DEF AllCalls
<1> DEFINE M == Len(ops)
           W == {n \in 0..M : SaneState(Applied(s, SubSeq(ops, 1, n)), B)}
<1>2. M \in Nat /\ SubSeq(ops, 1, M) = ops /\ SubSeq(ops, 1, 0) = << >>
  BY <1>1, WholeSeq
<1>3. 0 \in W
  <2>1. Applied(s, SubSeq(ops, 1, 0)) = s
    BY <1>2, AppliedNone
  <2> QED BY <1>2, <2>1
<1>4. ASSUME NEW n \in 0..M - 1, n \in W
      PROVE  n + 1 \in W
  <2> DEFINE a == Applied(s, SubSeq(ops, 1, n))
  <2>1. SaneState(a, B) /\ n + 1 \in 0..M /\ n + 1 \in 1..M
    BY <1>2, <1>4
  <2>2. IsCall(ops[n + 1])
    BY <1>1, <2>1
  <2>3. Applied(s, SubSeq(ops, 1, n + 1)) = CallOne(a, ops[n + 1])
    BY <1>1, AppliedSteps
  <2> HIDE DEF a
  <2>4. SaneState(CallOne(a, ops[n + 1]), B)
    BY <2>1, <2>2, CallSane
  <2> QED BY <2>1, <2>3, <2>4
<1> HIDE DEF W
<1>5. 0..M \subseteq W
  BY <1>2, <1>3, <1>4, Ind!BoundedInduction
<1>6. M \in W
  BY <1>2, <1>5
<1> QED BY <1>2, <1>6 DEF W

\* With every node known, fix is the fix of a full tree.
LEMMA FixedKnownAll ==
    ASSUME NEW T
    PROVE  FixedKnown(T, {}) = Fixed(T)
<1> DEFINE S == {q \in DOMAIN T : \A a \in Ancestors(q) \cup {q} : T[a].inconsistent}
           R == {q \in S \ {} : ~IsLeaf(T, q) => {Child(q, 0), Child(q, 1)} \cap {} = {}}
<1>1. R = S
  OBVIOUS
<1> HIDE DEF R
<1>2. FixedKnown(T, {}) = [q \in DOMAIN T |-> IF q \in S THEN [Updated(T, R)[q] EXCEPT !.inconsistent = FALSE]
                                              ELSE Updated(T, R)[q]]
  BY DEF FixedKnown, R
<1> QED BY <1>1, <1>2 DEF Fixed

\* The mask without bits matches every path.
LEMMA CollectAll ==
    ASSUME NEW T, T = [q \in DOMAIN T |-> T[q]]
    PROVE  Collect(T, {}, {<< >>}).tree = T
<1> DEFINE S == {<< >>}
           out == {q \in DOMAIN T \ {} : Len(q) > 1 /\ ~match(S, q)}
           keep == {q \in DOMAIN T : \A o \in out : ~IsStrictPrefix(o, q)}
<1>1. \A q \in DOMAIN T : match(S, q)
  BY DEF match
<1>2. out = {}
  BY <1>1
<1> HIDE DEF out
<1>3. keep = DOMAIN T
  BY <1>2
<1> HIDE DEF keep
<1>4. Collect(T, {}, S).tree = [q \in keep |-> IF q \in out THEN [T[q] EXCEPT !.key = NoKey, !.values = Nothing]
                                              ELSE T[q]]
  BY DEF Collect, out, keep
<1>5. Collect(T, {}, S).tree = [q \in DOMAIN T |-> T[q]]
  BY <1>2, <1>3, <1>4
<1> QED BY <1>5

\* A tree outside transactions.
Still(T) == Pure(T) /\ Sound(T) /\ Clean(T) /\ T = [q \in DOMAIN T |-> T[q]]

LEMMA NoneAtAll == DOMAIN Nothing = {}
BY DEF Nothing

LEMMA StillSane ==
    ASSUME NEW T, Still(T)
    PROVE  SaneState(State(T, Nothing, {}), T)
<1>1. Good(Whatever, T, Nothing, T, Open)
  BY NoneAtAll, GoodStart DEF Still, Pure
<1>2. Marked(T, Open)
  BY DEF Marked, Still, Pure
<1> DEFINE s == State(T, Nothing, {})
<1>3. s.tree = T /\ s.detached = Nothing
  BY StateFields
<1>4. s = State(s.tree, s.detached, {})
  BY <1>3
<1> HIDE DEF s
<1>5. Sane(s.tree, s.detached, T, Open)
  BY <1>1, <1>2, <1>3 DEF Sane, Still, Pure
<1> QED BY <1>4, <1>5 DEF SaneState, s

\* The tree after End has the keys and, in its leaves, the values of before.
LEMMA SaneEnd ==
    ASSUME NEW T, NEW D, NEW B, Sane(T, D, B, Open)
    PROVE  LET N == Fixed(Confirmed(T))
           IN  Still(N) /\ Contents(N) = Contents(T)
<1> DEFINE N == Fixed(Confirmed(T))
<1>1. Regular(T) /\ Sound(T) /\ Reachables(T) /\ Marked(T, Open) /\ FreshLeaves(T)
  BY DEF Sane, Good, Undo
<1>2. Marked(T, TRUE)
  BY <1>1 DEF Marked
<1>3. /\ Regular(N) /\ Sound(N) /\ Clean(N) /\ DOMAIN N = DOMAIN T
      /\ \A q \in DOMAIN T : /\ N[q].key = T[q].key
                             /\ IsLeaf(T, q) => N[q].values = T[q].values
      /\ \A q \in DOMAIN N : UpToDate(N, q)
  BY <1>1, <1>2, EndFacts
<1>4. N = [q \in DOMAIN N |-> N[q]]
  BY DEF Fixed
<1> HIDE DEF N
<1>5. ASSUME NEW q \in DOMAIN N, IsLeaf(N, q)
      PROVE  FreshLeaf(N[q])
  <2>1. N[q].label = LeafLabel(N[q].key, N[q].values)
    BY <1>3, <1>5 DEF UpToDate
  <2>2. IsLeaf(T, q) /\ q \in DOMAIN T /\ FreshLeaf(T[q])
    BY <1>1, <1>3, <1>5 DEF IsLeaf, FreshLeaves
  <2> QED BY <1>3, <2>1, <2>2 DEF FreshLeaf
<1>6. Still(N)
  BY <1>3, <1>4, <1>5 DEF Still, Pure, FreshLeaves
<1>7. Contents(N) = Contents(T)
  BY <1>1, <1>3, SameContents
<1> QED BY <1>6, <1>7 DEF N

\* The server after an update.
LEMMA ServerEnds ==
    ASSUME NEW T, Still(T), NEW ops, AllCalls(ops)
    PROVE  LET s == Applied(State(T, Nothing, {}), ops)
               N == Ended(s, {<< >>}).tree
           IN  Still(N) /\ Contents(N) = Contents(s.tree) /\ SaneState(s, T)
<1> DEFINE s == Applied(State(T, Nothing, {}), ops)
           N == Fixed(Confirmed(s.tree))
<1>1. SaneState(s, T)
  BY StillSane, AppliedSane
<1> HIDE DEF s
<1>2. Sane(s.tree, s.detached, T, Open) /\ s.unknown = {}
  <2>1. s = State(s.tree, s.detached, {}) /\ Sane(s.tree, s.detached, T, Open)
    BY <1>1 DEF SaneState
  <2> DEFINE M == s.tree
             E == s.detached
  <2>2. s = State(M, E, {})
    BY <2>1
  <2> HIDE DEF M, E
  <2>3. s.unknown = {}
    BY <2>2, StateFields
  <2> QED BY <2>1, <2>3
<1>3. Still(N) /\ Contents(N) = Contents(s.tree)
  BY <1>2, SaneEnd
<1>4. Ended(s, {<< >>}).tree = N
  <2>1. Ended(s, {<< >>}).tree = Collect(FixedKnown(Confirmed(s.tree), {}), {}, {<< >>}).tree
    BY <1>2 DEF Ended
  <2>2. FixedKnown(Confirmed(s.tree), {}) = N
    BY FixedKnownAll
  <2> HIDE DEF N
  <2>3. N = [q \in DOMAIN N |-> N[q]]
    BY <1>3 DEF Still
  <2>4. Collect(N, {}, {<< >>}).tree = N
    BY <2>3, CollectAll
  <2> QED BY <2>1, <2>2, <2>4
<1> QED BY <1>1, <1>3, <1>4 DEF s

-----------------------------------------------------------------------------
(* The server *)

LEMMA InitServer == Init => Still(server)
<1> SUFFICES ASSUME Init PROVE Still(server)
  OBVIOUS
<1>1. server = EmptyTree
  BY DEF Init
<1> QED BY <1>1, EmptyTreeFacts DEF Still, Pure

\* Nobody but Broadcast touches the server.
LEMMA ServerSteps ==
    ASSUME [Next]_vars
    PROVE  (\E u \in Updates : Broadcast(u)) \/ (server' = server /\ sent' = sent)
<1>1. CASE UNCHANGED vars
  BY <1>1 DEF vars
<1>2. CASE Next
  BY <1>2 DEF Next, Verify, Prepare, Direct, Apply, Begin, Rollback, End
<1> QED BY <1>1, <1>2

LEMMA NextServer == Still(server) /\ [Next]_vars => Still(server)'
<1> SUFFICES ASSUME Still(server), [Next]_vars PROVE Still(server')
  OBVIOUS
<1>1. CASE server' = server
  BY <1>1
<1>2. ASSUME NEW u \in Updates, Broadcast(u)
      PROVE  Still(server')
  <2>1. server' = Ended(Applied(State(server, Nothing, {}), u.ops), {<<>>}).tree
    BY <1>2 DEF Broadcast
  <2>2. AllCalls(u.ops)
    BY UpdateCalls
  <2> QED BY <2>1, <2>2, ServerEnds
<1> QED BY <1>1, <1>2, ServerSteps

LEMMA FoundIs ==
    ASSUME NEW T, Regular(T), NEW k \in Keys
    PROVE  /\ Found(T, k) <=> T[Landing(T, k)].key = k
           /\ Found(T, k) => Contents(T)[k] = T[Landing(T, k)].values
<1>1. k # NoKey /\ Shape(T)
  BY KeyAssumption DEF Regular
<1>2. Landing(T, k) \in DOMAIN T
  BY <1>1, LandingFacts
<1>3. Found(T, k) <=> T[Landing(T, k)].key = k
  BY <1>1 DEF Found
<1>4. ASSUME Found(T, k)
      PROVE  Contents(T)[k] = T[Landing(T, k)].values
  BY <1>1, <1>2, <1>3, <1>4, ContentsFacts
<1> QED BY <1>3, <1>4

LEMMA StillTells == Still(server) => ProofsTell
<1> SUFFICES ASSUME Still(server), NEW k \in Keys
    PROVE  /\ Consistent(Proof(server, k))
           /\ \A p \in Arriving(Proof(server, k)) :
                 Verified(server, p) => /\ Match(p) = Found(server, p.key)
                                        /\ Match(p) => RawValues(p) = Contents(server)[p.key]
  BY DEF ProofsTell
<1>1. Shape(server) /\ Regular(server) /\ \A q \in DOMAIN server : UpToDate(server, q)
  BY DEF Still, Pure, Regular
<1> DEFINE r == Proof(server, k)
<1>2. ProofLike(r) /\ Len(r.steps) >= 1 /\ Consistent(r)
  BY <1>1, ProofForm
<1>3. r = [key |-> r.key, root |-> r.root, steps |-> r.steps]
  BY DEF Proof
<1> HIDE DEF r
<1>4. ASSUME NEW p \in Arriving(r), Verified(server, p)
      PROVE  /\ Match(p) = Found(server, p.key)
             /\ Match(p) => RawValues(p) = Contents(server)[p.key]
  <2>1. ProofLike(p)
    BY <1>2, <1>3, ArrivingForm
  <2> DEFINE q == Landing(server, p.key)
  <2>2. (Match(p) <=> server[q].key = p.key) /\ RawValues(p) = server[q].values
    BY <1>1, <1>4, <2>1, ProofIsRight
  <2>3. /\ Found(server, p.key) <=> server[q].key = p.key
        /\ Found(server, p.key) => Contents(server)[p.key] = server[q].values
    BY <1>1, <2>1, FoundIs DEF ProofLike
  <2>4. Match(p) \in BOOLEAN /\ Found(server, p.key) \in BOOLEAN
    BY DEF Match, Found
  <2> HIDE DEF q
  <2> QED BY <2>2, <2>3, <2>4
<1> QED BY <1>2, <1>4 DEF r

\* A proof is always consistent, and damaged or not, what Verify accepts of
\* it says whether the server has the key and which values it has for it
\* (Getter.Proof, Proof.Consistent, Match and RawValues).
THEOREM ProofsAlwaysTell == Spec => []ProofsTell
<1>1. Spec => []Still(server)
  BY InitServer, NextServer, PTL DEF Spec
<1> QED BY <1>1, StillTells, PTL

-----------------------------------------------------------------------------
(* The calls of a verifier *)

USE PathSize

\* What a walk to the leaf p for the key k finds.
Walked(C, U, F, k, p) ==
    /\ Root \notin U /\ Shape(C)
    /\ p \in DOMAIN C \ U /\ p \in Path /\ IsLeaf(C, p) /\ On(p, PathOf[k])
    /\ p \in DOMAIN F /\ IsLeaf(F, p) /\ Landing(F, k) = p
    /\ C[p].key = F[p].key /\ SameAt(C, F, p)
    /\ Around(U, p) /\ p # Root

\* The walk of a call ends where it would end in the full tree.
LEMMA WalkEnds ==
    ASSUME NEW F, Shape(F), NEW C, NEW U, NEW tx, Knows(C, U, F, tx), NEW k \in Keys, Walkable(C, U, k)
    PROVE  Walked(C, U, F, k, Landing(C, k))
<1> DEFINE p == Landing(C, k)
           P == PathOf[k]
           N == Len(p)
<1>1. P \in Path /\ Size(P) = Depth /\ Depth \in Nat \ {0}
  BY KeyPaths
<1>2. \A n \in 0..N : LET q == Prefix(P, n) IN q \notin U /\ (n > 0 => Sibling(q) \notin U)
  BY DEF Walkable
<1>3. Root \notin U
  <2>1. CASE DOMAIN C = {Root}
    <3>1. Root \in Path /\ Size(Root) = 0 /\ Prefix(P, 0) = Root
      BY <1>1, PrefixSelf
    <3>2. Len(Root) = 0
      BY DEF Root
    <3>3. Child(Root, 0) # Root
      BY <3>1, ChildFacts DEF Bit
    <3>4. IsLeaf(C, Root)
      BY <2>1, <3>3 DEF IsLeaf
    <3>5. Root \in DOMAIN C /\ Root = Prefix(P, Len(Root))
      BY <2>1, <3>1, <3>2
    <3>6. p \in DOMAIN C
      BY <3>4, <3>5 DEF Landing
    <3>7. p = Root
      BY <2>1, <3>6
    <3>8. 0 \in 0..N
      BY <3>2, <3>7
    <3> QED BY <1>2, <3>1, <3>8
  <2>2. CASE DOMAIN C # {Root}
    BY <2>2 DEF Knows, Part
  <2> QED BY <2>1, <2>2
<1>4. Shape(C)
  BY <1>3 DEF Knows, Part
<1>5. p \in DOMAIN C /\ IsLeaf(C, p) /\ On(p, P)
  BY <1>4, LandingFacts
<1>6. p \in Path /\ N = Size(p) /\ N \in Nat
  BY <1>4, <1>5 DEF Shape, Size
<1> HIDE DEF p, P
<1>7. N <= Size(P) /\ p = Prefix(P, N)
  BY <1>5, <1>6 DEF On
<1>8. ASSUME NEW a \in Path, On(a, p)
      PROVE  a \notin U /\ (Size(a) # 0 => Sibling(a) \notin U)
  <2>1. Size(a) \in 0..N /\ a = Prefix(p, Size(a))
    BY <1>6, <1>8 DEF On
  <2>2. a = Prefix(P, Size(a))
    BY <1>1, <1>6, <1>7, <2>1, PrefixFacts
  <2> DEFINE n == Size(a)
  <2>3. Prefix(P, n) \notin U /\ (n > 0 => Sibling(Prefix(P, n)) \notin U)
    BY <1>2, <2>1
  <2>4. n \in Nat
    BY <2>1, <1>6
  <2> HIDE DEF n
  <2>5. n # 0 => n > 0
    BY <2>4
  <2> QED BY <2>2, <2>3, <2>5 DEF n
<1>9. Around(U, p)
  BY <1>8 DEF Around
<1>10. p \notin U
  BY <1>6, <1>8, OnSelf
<1>11. p \in DOMAIN F /\ IsLeaf(F, p) /\ C[p].key = F[p].key /\ SameAt(C, F, p)
  BY <1>5, <1>10 DEF Knows, LeavesOf
<1>12. Landing(F, k) = p
  BY <1>5, <1>11, LandingUnique DEF P
<1>13. p # Root
  BY <1>4, <1>5, ShapeRoot
<1> QED BY <1>3, <1>4, <1>5, <1>6, <1>9, <1>10, <1>11, <1>12, <1>13 DEF Walked, P, p

\* A walk that meets no unknown node ends where it ends in the full tree.
LEMMA WalkMeets ==
    ASSUME NEW F, Calm(F), NEW C, NEW U, NEW tx, Knows(C, U, F, tx), NEW k \in Keys, Walkable(C, U, k)
    PROVE  LET p == Landing(C, k)
           IN  /\ Meeting(C, U, F, p) /\ p = Landing(F, k) /\ On(p, PathOf[k])
               /\ p \in DOMAIN C /\ p \in Path /\ IsLeaf(C, p) /\ C[p].key = F[p].key
               /\ C[p].values = F[p].values
               /\ F[p].key \in Keys \cup {NoKey}
               /\ F[p].key # NoKey => On(p, PathOf[F[p].key])
               /\ Shape(C) /\ Nodes(C) /\ Sound(C) /\ Root \notin U
<1> DEFINE p == Landing(C, k)
<1>1. Regular(F) /\ Shape(F) /\ Keyed(F)
  BY CalmFacts DEF Pure
<1>2. Walked(C, U, F, k, p)
  BY <1>1, WalkEnds
<1> HIDE DEF p
<1>3. Meeting(C, U, F, p)
  BY <1>1, <1>2 DEF Walked, Meeting
<1>4. p \in DOMAIN F
  BY <1>2 DEF Walked
<1>5. /\ F[p].key \in Keys \cup {NoKey}
      /\ F[p].key # NoKey => On(p, PathOf[F[p].key])
  BY <1>1, <1>4 DEF Regular, Keyed
<1>6. Nodes(C) /\ Sound(C)
  BY PartFacts
<1>7. /\ p = Landing(F, k) /\ On(p, PathOf[k])
      /\ p \in DOMAIN C /\ p \in Path /\ IsLeaf(C, p) /\ C[p].key = F[p].key
      /\ C[p].values = F[p].values /\ Shape(C) /\ Root \notin U
  BY <1>2 DEF Walked, SameAt
<1> QED BY <1>3, <1>5, <1>6, <1>7 DEF p

\* A call of a verifier that succeeds does to what it knows what the same call,
\* outside a transaction, does to the full tree, and can be undone: Add.
LEMMA AddCarried ==
    ASSUME NEW F, Calm(F), NEW C, NEW U, NEW tx \in BOOLEAN, Knows(C, U, F, tx),
           NEW k \in Keys, Walkable(C, U, k), C[Landing(C, k)].key # k, NEW v,
           NEW gt \in BOOLEAN, ~gt
    PROVE  LET N == Added(C, k, v, tx)
               M == Added(F, k, v, gt)
           IN  /\ Carried(C, U, N, M, tx)
               /\ Calm(M) /\ Contents(M) = WithKey(Contents(F), k, v)
               /\ \A any \in BOOLEAN : \A D, B : tx /\ Undo(any, C, D, B) => Undo(any, N, D, B)
<1> DEFINE p == Landing(C, k)
           N == Added(C, k, v, tx)
           M == Added(F, k, v, gt)
<1>1. /\ Meeting(C, U, F, p) /\ p = Landing(F, k) /\ On(p, PathOf[k])
      /\ p \in DOMAIN C /\ p \in Path /\ IsLeaf(C, p) /\ C[p].key = F[p].key
      /\ F[p].key \in Keys \cup {NoKey}
      /\ F[p].key # NoKey => On(p, PathOf[F[p].key])
      /\ Shape(C) /\ Nodes(C) /\ Sound(C)
  BY WalkMeets
<1>2. AddMakes(C, N, p, k, v, tx)
  <2>1. C[p].key \in Keys \cup {NoKey} /\ C[p].key # k /\ (C[p].key # NoKey => On(p, PathOf[C[p].key]))
    BY <1>1
  <2> QED BY <1>1, <2>1, AddStep
<1>3. F[Landing(F, k)].key # k
  BY <1>1
<1>4. Calm(M) /\ Contents(M) = WithKey(Contents(F), k, v)
  BY <1>3, CalmAdd
<1>5. AddMakes(F, M, p, k, v, gt)
  <2>1. Regular(F) /\ Nodes(F)
    BY CalmFacts
  <2> QED BY <1>1, <1>3, <2>1, AddedStep DEF AddMakes
<1>6. NoKey \notin Keys
  BY KeyAssumption
<1> HIDE DEF p, N, M
<1>7. CASE C[p].key = NoKey
  <2>1. Rewritten(C, N, p, k, v, tx) /\ Rewritten(F, M, p, k, v, gt)
    BY <1>1, <1>2, <1>5, <1>6, <1>7 DEF AddMakes
  <2>2. Carried(C, U, N, M, tx)
    BY <1>1, <2>1, CarriedRewritten
  <2>3. ASSUME NEW any \in BOOLEAN, NEW D, NEW B, tx, Undo(any, C, D, B)
        PROVE  Undo(any, N, D, B)
    <3>1. Shape(N) /\ Sound(D)
      BY <2>2, <2>3 DEF Carried, Undo
    <3>2. \A q \in DOMAIN D : Keeps(any, D[q], D[q])
      BY KeepsSelf
    <3> QED BY <1>1, <2>1, <2>3, <3>1, <3>2, UndoRewritten
  <2> QED BY <1>4, <2>2, <2>3 DEF N, M
<1>8. CASE C[p].key # NoKey
  <2>1. C[p].key \in Keys /\ Forks(p, k, C[p].key) /\ Divided(C, N, p, k, v, tx)
    BY <1>2, <1>8 DEF AddMakes
  <2>2. F[p].key \in Keys /\ Forks(p, k, F[p].key) /\ Divided(F, M, p, k, v, gt)
    BY <1>1, <1>5, <1>8 DEF AddMakes
  <2>3. Carried(C, U, N, M, tx)
    BY <1>1, <2>1, <2>2, CarriedDivided
  <2>4. ASSUME NEW any \in BOOLEAN, NEW D, NEW B, tx, Undo(any, C, D, B)
        PROVE  Undo(any, N, D, B)
    <3>1. Shape(N)
      BY <2>3 DEF Carried
    <3> QED BY <1>1, <2>1, <2>4, <3>1, UndoDivided
  <2> QED BY <1>4, <2>3, <2>4 DEF N, M
<1> QED BY <1>7, <1>8

\* Set. What can be undone includes the values of an unlinked node only if the
\* leaf shares no slice with one (any = FALSE).
LEMMA SetCarried ==
    ASSUME NEW F, Calm(F), NEW C, NEW U, NEW tx \in BOOLEAN, Knows(C, U, F, tx),
           NEW k \in Keys, Walkable(C, U, k), C[Landing(C, k)].key = k, NEW v,
           NEW gt \in BOOLEAN, ~gt
    PROVE  LET N == Written(C, k, v, tx)
               M == Written(F, k, v, gt)
           IN  /\ Carried(C, U, N, M, tx)
               /\ Calm(M) /\ Contents(M) = [Contents(F) EXCEPT ![k] = Overwrite(Contents(F)[k], v)]
               /\ \A any \in BOOLEAN : \A D, B :
                     /\ any \/ C[Landing(C, k)].shares = {}
                     /\ tx /\ Undo(any, C, D, B)
                     => Undo(any, N, WrittenDetached(C, D, k, v), B)
<1> DEFINE p == Landing(C, k)
           N == Written(C, k, v, tx)
           M == Written(F, k, v, gt)
           x == Overwrite(C[p].values, v)
<1>1. /\ Meeting(C, U, F, p) /\ p = Landing(F, k) /\ On(p, PathOf[k])
      /\ p \in DOMAIN C /\ p \in Path /\ IsLeaf(C, p) /\ C[p].key = F[p].key /\ C[p].values = F[p].values
      /\ Shape(C) /\ Nodes(C) /\ Sound(C)
  BY WalkMeets
<1>2. Rewritten(C, N, p, k, x, tx)
  BY <1>1, SetStep
<1>3. F[Landing(F, k)].key = k
  BY <1>1
<1>4. Calm(M) /\ Contents(M) = [Contents(F) EXCEPT ![k] = Overwrite(Contents(F)[k], v)]
  BY <1>3, CalmSet
<1>5. Rewritten(F, M, p, k, x, gt)
  <2>1. Regular(F) /\ Nodes(F)
    BY CalmFacts
  <2> QED BY <1>1, <1>3, <2>1, WrittenStep
<1> HIDE DEF N, M, x
<1>6. Carried(C, U, N, M, tx)
  BY <1>1, <1>2, <1>5, CarriedRewritten
<1>7. ASSUME NEW any \in BOOLEAN, NEW D, NEW B, any \/ C[p].shares = {}, tx, Undo(any, C, D, B)
      PROVE  Undo(any, N, WrittenDetached(C, D, k, v), B)
  <2> DEFINE E == WrittenDetached(C, D, k, v)
  <2>1. Shape(N) /\ Sound(D)
    BY <1>6, <1>7 DEF Carried, Undo
  <2>2. DOMAIN E = DOMAIN D /\ Sound(E) /\ \A q \in DOMAIN D : Keeps(any, D[q], E[q])
    BY <1>7, <2>1, WrittenDetachedFacts
  <2> HIDE DEF E, p
  <2>3. Undo(any, N, E, B)
    BY <1>1, <1>2, <1>7, <2>1, <2>2, UndoRewritten
  <2> QED BY <2>3 DEF E
<1> QED BY <1>4, <1>6, <1>7 DEF N, M

\* Remove.
LEMMA RemoveCarried ==
    ASSUME NEW F, Calm(F), NEW C, NEW U, NEW tx \in BOOLEAN, Knows(C, U, F, tx),
           NEW k \in Keys, Walkable(C, U, k), C[Landing(C, k)].key = k, NEW D, NEW G,
           NEW gt \in BOOLEAN, ~gt
    PROVE  LET N == Removed(C, D, k, tx).tree
               E == Removed(C, D, k, tx).detached
               M == Removed(F, G, k, gt).tree
           IN  /\ Carried(C, U, N, M, tx)
               /\ Calm(M) /\ Contents(M) = WithoutKey(Contents(F), k)
               /\ \A any \in BOOLEAN : \A B : tx /\ Undo(any, C, D, B) => Undo(any, N, E, B)
<1> DEFINE p == Landing(C, k)
           N == Removed(C, D, k, tx).tree
           E == Removed(C, D, k, tx).detached
           M == Removed(F, G, k, gt).tree
           H == Removed(F, G, k, gt).detached
<1>1. /\ Meeting(C, U, F, p) /\ p = Landing(F, k) /\ On(p, PathOf[k])
      /\ p \in DOMAIN C /\ p \in Path /\ IsLeaf(C, p) /\ C[p].key = F[p].key /\ C[p].values = F[p].values
      /\ Shape(C) /\ Nodes(C) /\ Sound(C)
  BY WalkMeets
<1>2. Cuts(C, D, N, E, p, tx)
  BY <1>1, RemoveStep
<1>3. F[Landing(F, k)].key = k
  BY <1>1
<1>4. Calm(M) /\ Contents(M) = WithoutKey(Contents(F), k)
  BY <1>3, CalmRemove
<1>5. Cuts(F, G, M, H, p, gt)
  <2>1. Regular(F) /\ Nodes(F)
    BY CalmFacts
  <2> QED BY <1>1, <1>3, <2>1, RemovedStep
<1>6. Size(p) >= 2 => (IsLeaf(C, Sibling(p)) <=> IsLeaf(F, Sibling(p)))
  <2> SUFFICES ASSUME Size(p) >= 2 PROVE IsLeaf(C, Sibling(p)) <=> IsLeaf(F, Sibling(p))
    OBVIOUS
  <2> HIDE DEF p
  <2>1. Size(p) # 0
    BY <1>1
  <2>2. Sibling(p) \in DOMAIN C
    BY <1>1, <2>1, SiblingIn
  <2>3. Sibling(p) \notin U
    BY <1>1, <2>1, OnSelf DEF Meeting, Around
  <2> QED BY <2>2, <2>3, PartFacts, SamePlaceholder
<1> HIDE DEF N, E, M, H, p
<1>7. CASE Rewritten(C, N, p, NoKey, PlaceholderValues, tx)
           /\ (Size(p) < 2 \/ ~IsLeaf(C, Sibling(p)))
           /\ DOMAIN E = DOMAIN D /\ \A q \in DOMAIN D : E[q] = D[q]
  <2>1. ~\E U_1, t : Stem(F, p, U_1, t)
    BY <1>1, <1>6, <1>7 DEF Stem
  <2>2. Rewritten(F, M, p, NoKey, PlaceholderValues, gt)
    BY <1>5, <2>1 DEF Cuts
  <2>3. Carried(C, U, N, M, tx)
    BY <1>1, <1>7, <2>2, CarriedRewritten
  <2>4. ASSUME NEW any \in BOOLEAN, NEW B, tx, Undo(any, C, D, B)
        PROVE  Undo(any, N, E, B)
    <3>1. Shape(N) /\ Sound(D)
      BY <2>3, <2>4 DEF Carried, Undo
    <3>2. \A q \in DOMAIN D : Keeps(any, D[q], E[q])
      BY <1>7, KeepsSelf
    <3>3. Sound(E)
      BY <1>7, <3>1 DEF Sound, Nodes
    <3> QED BY <1>1, <1>7, <2>4, <3>1, <3>2, <3>3, UndoRewritten
  <2> QED BY <1>4, <2>3, <2>4 DEF N, E, M
<1>8. ASSUME NEW V, NEW t, Stem(C, p, V, t), Merged(C, N, p, t, tx), Released(C, D, E, p, V, tx)
      PROVE  /\ Carried(C, U, N, M, tx)
             /\ \A any \in BOOLEAN : \A B : tx /\ Undo(any, C, D, B) => Undo(any, N, E, B)
  <2>1. Size(p) >= 2 /\ IsLeaf(C, Sibling(p))
    BY <1>8 DEF Stem
  <2>2. ~(Size(p) < 2 \/ ~IsLeaf(F, Sibling(p)))
    BY <1>1, <1>6, <2>1
  <2>3. PICK W, r : Stem(F, p, W, r) /\ Merged(F, M, p, r, gt)
    BY <1>5, <2>2 DEF Cuts
  <2>4. Carried(C, U, N, M, tx)
    BY <1>1, <1>8, <2>3, CarriedMerged
  <2>5. ASSUME NEW any \in BOOLEAN, NEW B, tx, Undo(any, C, D, B)
        PROVE  Undo(any, N, E, B)
    <3>1. Shape(N)
      BY <2>4 DEF Carried
    <3> QED BY <1>1, <1>8, <2>5, <3>1, UndoMerged
  <2> QED BY <2>4, <2>5
<1>9. \/ Rewritten(C, N, p, NoKey, PlaceholderValues, tx)
           /\ (Size(p) < 2 \/ ~IsLeaf(C, Sibling(p)))
           /\ DOMAIN E = DOMAIN D /\ \A q \in DOMAIN D : E[q] = D[q]
      \/ \E V, t : Stem(C, p, V, t) /\ Merged(C, N, p, t, tx) /\ Released(C, D, E, p, V, tx)
  BY <1>2 DEF Cuts
<1> QED BY <1>4, <1>7, <1>8, <1>9 DEF N, E, M

\* The notes, one by one.
Notes == INSTANCE Folding WITH Op <- NoteOne

-----------------------------------------------------------------------------
(* The calls of an update on a partial tree *)

\* A state between the calls: the tree is a part of the full tree with the
\* associations A, Rollback brings B back, and while the root is not marked
\* nothing has changed since the associations were Z.
Tracks(any, s, U, B, A, Z, tx) ==
    /\ s = State(s.tree, s.detached, U)
    /\ PartOf(s.tree, U, A, tx)
    /\ tx => Restorable(any, s.tree, s.detached, U, B)
    /\ tx /\ ~s.tree[Root].inconsistent => Clean(s.tree) /\ DOMAIN s.detached = {} /\ A = Z
    /\ ~tx => Clean(s.tree)

\* The call is no Set that writes into a slice of an unlinked node.
Unmoved(s, op) ==
    op.name = "Set" /\ Succeeds(s, op) => s.tree[Landing(s.tree, op.key)].shares = {}

\* What a call that succeeds leaves.
LEMMA CallNext ==
    ASSUME NEW any \in BOOLEAN, NEW tx \in BOOLEAN, NEW C, NEW U, NEW D, NEW B, NEW Z,
           Root \notin U, tx => Restorable(any, C, D, U, B), ~tx => Clean(C),
           NEW N, NEW E, NEW M, Carried(C, U, N, M, tx), Calm(M),
           tx /\ Undo(any, C, D, B) => Undo(any, N, E, B)
    PROVE  Tracks(any, State(N, E, U), U, B, Contents(M), Z, tx)
<1> DEFINE s == State(N, E, U)
<1>1. s.tree = N /\ s.detached = E
  BY StateFields
<1> HIDE DEF s
<1>2. s = State(s.tree, s.detached, U)
  BY <1>1 DEF s
<1>3. PartOf(N, U, Contents(M), tx)
  BY DEF PartOf, Carried
<1>4. tx => Restorable(any, N, E, U, B)
  BY DEF Restorable
<1>5. /\ tx => N[Root].inconsistent
      /\ ~tx => Clean(N)
  BY DEF Carried
<1> QED BY <1>1, <1>2, <1>3, <1>4, <1>5 DEF Tracks, s

\* The associations after a call.
NoteOf(s, A, op) == IF Succeeds(s, op) THEN Noted(A, op) ELSE A

\* What Noted does, call by call.
LEMMA NotedIs ==
    ASSUME NEW A, NEW op, NEW s, Succeeds(s, op)
    PROVE  /\ op.name = "Add" => NoteOf(s, A, op) = WithKey(A, op.key, op.values)
           /\ op.name = "Set" => NoteOf(s, A, op) = [A EXCEPT ![op.key] = Overwrite(A[op.key], op.values)]
           /\ op.name = "Remove" => NoteOf(s, A, op) = WithoutKey(A, op.key)
  BY DEF Noted, NoteOf, WithKey, WithoutKey

\* Each call keeps the verifier in step with the associations.
LEMMA CallTracks ==
    ASSUME NEW any \in BOOLEAN, NEW s, NEW U, NEW B, NEW A, NEW Z, NEW tx \in BOOLEAN,
           Tracks(any, s, U, B, A, Z, tx), NEW op, IsCall(op), any \/ Unmoved(s, op)
    PROVE  Tracks(any, Called(s, op, tx), U, B, NoteOf(s, A, op), Z, tx)
<1>1. CASE ~Succeeds(s, op)
  BY <1>1 DEF Called, NoteOf
<1>2. CASE Succeeds(s, op)
  <2> DEFINE C == s.tree
             D == s.detached
             k == op.key
             v == op.values
             N == Called(s, op, tx)
  <2>1. PICK F : Calm(F) /\ Contents(F) = A /\ Knows(C, U, F, tx)
    BY DEF Tracks, PartOf
  <2>2. s.unknown = U
    <3>1. s = State(C, D, U)
      BY DEF Tracks
    <3> HIDE DEF C, D
    <3> QED BY <3>1, StateFields
  <2>3. Walkable(C, U, k) /\ k \in Keys
    BY <1>2, <2>2 DEF Succeeds, IsCall
  <2>4. Root \notin U
    BY <2>1, <2>3, WalkMeets
  <2>5. (tx => Restorable(any, C, D, U, B)) /\ (~tx => Clean(C))
    BY DEF Tracks
  <2>6. \/ /\ op.name = "Add" /\ C[Landing(C, k)].key # k
           /\ N = State(Added(C, k, v, tx), D, U)
        \/ /\ op.name = "Set" /\ C[Landing(C, k)].key = k
           /\ N = State(Written(C, k, v, tx), WrittenDetached(C, D, k, v), U)
        \/ /\ op.name = "Remove" /\ C[Landing(C, k)].key = k
           /\ N = State(Removed(C, D, k, tx).tree, Removed(C, D, k, tx).detached, U)
    BY <1>2, <2>2, CallForms
  <2>7. op.name = "Set" => any \/ C[Landing(C, k)].shares = {}
    BY <1>2 DEF Unmoved
  <2>8. Unmarked \in BOOLEAN /\ ~Unmarked
    BY DEF Unmarked
  <2> DEFINE K == NoteOf(s, A, op)
  <2>9. /\ op.name = "Add" => K = WithKey(A, k, v)
        /\ op.name = "Set" => K = [A EXCEPT ![k] = Overwrite(A[k], v)]
        /\ op.name = "Remove" => K = WithoutKey(A, k)
    BY <1>2, NotedIs
  <2> HIDE DEF C, D, k, v, N, K
  <2>10. CASE /\ op.name = "Add" /\ C[Landing(C, k)].key # k
              /\ N = State(Added(C, k, v, tx), D, U)
    <3> DEFINE M == Added(F, k, v, Unmarked)
               T == Added(C, k, v, tx)
    <3>1. /\ Carried(C, U, T, M, tx)
          /\ Calm(M) /\ Contents(M) = WithKey(Contents(F), k, v)
          /\ \A any_1 \in BOOLEAN : \A D_1, B_1 : tx /\ Undo(any_1, C, D_1, B_1) => Undo(any_1, T, D_1, B_1)
      BY <2>1, <2>3, <2>8, <2>10, AddCarried
    <3>2. tx /\ Undo(any, C, D, B) => Undo(any, T, D, B)
      BY <3>1
    <3>3. Contents(M) = K
      BY <2>1, <2>9, <2>10, <3>1
    <3>4. N = State(T, D, U)
      BY <2>10
    <3> HIDE DEF M, T
    <3>5. Tracks(any, State(T, D, U), U, B, Contents(M), Z, tx)
      BY <2>4, <2>5, <3>1, <3>2, CallNext
    <3> QED BY <3>3, <3>4, <3>5 DEF N, K
  <2>11. CASE /\ op.name = "Set" /\ C[Landing(C, k)].key = k
              /\ N = State(Written(C, k, v, tx), WrittenDetached(C, D, k, v), U)
    <3> DEFINE M == Written(F, k, v, Unmarked)
               T == Written(C, k, v, tx)
               E == WrittenDetached(C, D, k, v)
    <3>1. /\ Carried(C, U, T, M, tx)
          /\ Calm(M) /\ Contents(M) = [Contents(F) EXCEPT ![k] = Overwrite(Contents(F)[k], v)]
          /\ \A any_1 \in BOOLEAN : \A D_1, B_1 :
                     /\ any_1 \/ C[Landing(C, k)].shares = {}
                     /\ tx /\ Undo(any_1, C, D_1, B_1)
                     => Undo(any_1, T, WrittenDetached(C, D_1, k, v), B_1)
      BY <2>1, <2>3, <2>8, <2>11, SetCarried
    <3>2. tx /\ Undo(any, C, D, B) => Undo(any, T, E, B)
      BY <2>7, <2>11, <3>1
    <3>3. Contents(M) = K
      BY <2>1, <2>9, <2>11, <3>1
    <3>4. N = State(T, E, U)
      BY <2>11
    <3> HIDE DEF M, T, E
    <3>5. Tracks(any, State(T, E, U), U, B, Contents(M), Z, tx)
      BY <2>4, <2>5, <3>1, <3>2, CallNext
    <3> QED BY <3>3, <3>4, <3>5 DEF N, K
  <2>12. CASE /\ op.name = "Remove" /\ C[Landing(C, k)].key = k
              /\ N = State(Removed(C, D, k, tx).tree, Removed(C, D, k, tx).detached, U)
    <3> DEFINE M == Removed(F, D, k, Unmarked).tree
               T == Removed(C, D, k, tx).tree
               E == Removed(C, D, k, tx).detached
    <3>1. /\ Carried(C, U, T, M, tx)
          /\ Calm(M) /\ Contents(M) = WithoutKey(Contents(F), k)
          /\ \A any_1 \in BOOLEAN : \A B_1 : tx /\ Undo(any_1, C, D, B_1) => Undo(any_1, T, E, B_1)
      BY <2>1, <2>3, <2>8, <2>12, RemoveCarried
    <3>2. tx /\ Undo(any, C, D, B) => Undo(any, T, E, B)
      BY <3>1
    <3>3. Contents(M) = K
      BY <2>1, <2>9, <2>12, <3>1
    <3>4. N = State(T, E, U)
      BY <2>12
    <3> HIDE DEF M, T, E
    <3>5. Tracks(any, State(T, E, U), U, B, Contents(M), Z, tx)
      BY <2>4, <2>5, <3>1, <3>2, CallNext
    <3> QED BY <3>3, <3>4, <3>5 DEF N, K
  <2> QED BY <2>6, <2>10, <2>11, <2>12
<1> QED BY <1>1, <1>2

\* The fold behind NotedAll, with the state beside the associations.
NotedBoth(A, s, ops) == FoldLeft(NoteOne, [state |-> s, assoc |-> A], ops)

\* It is the fold of the module Folding.
LEMMA NotedFold ==
    ASSUME NEW A, NEW s, NEW ops
    PROVE  /\ NotedBoth(A, s, ops) = Notes!Fold([state |-> s, assoc |-> A], ops)
           /\ NotedAll(A, s, ops) = NotedBoth(A, s, ops).assoc
<1>1. NotedBoth(A, s, ops) = Notes!Fold([state |-> s, assoc |-> A], ops)
  BY Zenon DEF NotedBoth, Notes!Fold, Notes!FoldLeft, FoldLeft, Notes!MapThenFoldSet, MapThenFoldSet, Notes!Max, Max
<1> QED BY <1>1 DEF NotedAll, NotedBoth

\* It goes on by one call at a time.
LEMMA NotedSteps ==
    ASSUME NEW A, NEW s, NEW S, NEW ops \in Seq(S), NEW n \in 0..Len(ops) - 1
    PROVE  NotedBoth(A, s, SubSeq(ops, 1, n + 1)) = NoteOne(NotedBoth(A, s, SubSeq(ops, 1, n)), ops[n + 1])
<1> DEFINE m == n + 1
           b == [state |-> s, assoc |-> A]
<1>1. m \in 1..Len(ops) /\ m - 1 = n
  OBVIOUS
<1>2. \A o : NotedBoth(A, s, o) = Notes!Fold(b, o)
  BY NotedFold
<1> HIDE DEF m, b
<1>3. Notes!Fold(b, SubSeq(ops, 1, m)) = NoteOne(Notes!Fold(b, SubSeq(ops, 1, m - 1)), ops[m])
  BY <1>1, Notes!FoldStep
<1>4. NotedBoth(A, s, SubSeq(ops, 1, m)) = NoteOne(NotedBoth(A, s, SubSeq(ops, 1, n)), ops[m])
  BY <1>1, <1>2, <1>3
<1> QED BY <1>4 DEF m

\* It starts from where it is.
LEMMA NotedNone ==
    ASSUME NEW A, NEW s
    PROVE  LET b == NotedBoth(A, s, << >>) IN b.state = s /\ b.assoc = A
<1>1. Notes!Fold([state |-> s, assoc |-> A], << >>) = [state |-> s, assoc |-> A]
  BY Notes!FoldEmpty
<1> QED BY <1>1, NotedFold

\* None of the calls, each in the state the ones before it leave, is such a Set.
UnmovedAll(s, ops) ==
    \A n \in DOMAIN ops : Unmoved(Applied(s, SubSeq(ops, 1, n - 1)), ops[n])

\* So does every call of an update, whichever of them succeed.
LEMMA PrefixTracks ==
    ASSUME NEW any \in BOOLEAN, NEW s, NEW U, NEW B, NEW A, NEW Z,
           Tracks(any, s, U, B, A, Z, Open), NEW ops, AllCalls(ops), any \/ UnmovedAll(s, ops)
    PROVE  \A n \in 0..Len(ops) :
              LET b == NotedBoth(A, s, SubSeq(ops, 1, n))
              IN  /\ b.state = Applied(s, SubSeq(ops, 1, n))
                  /\ Tracks(any, b.state, U, B, b.assoc, Z, Open)
<1>1. PICK S : ops \in Seq(S) /\ \A op \in S : IsCall(op)
  BY DEF AllCalls
<1> DEFINE M == Len(ops)
           T(n) == NotedBoth(A, s, SubSeq(ops, 1, n))
           OK(n) == /\ T(n).state = Applied(s, SubSeq(ops, 1, n))
                    /\ Tracks(any, T(n).state, U, B, T(n).assoc, Z, Open)
           W == {n \in 0..M : OK(n)}
<1>2. M \in Nat /\ SubSeq(ops, 1, M) = ops /\ SubSeq(ops, 1, 0) = << >>
  BY <1>1, WholeSeq
<1>3. 0 \in W
  <2>1. Applied(s, SubSeq(ops, 1, 0)) = s
    BY <1>2, AppliedNone
  <2>2. T(0).state = s /\ T(0).assoc = A
    BY <1>2, NotedNone
  <2> HIDE DEF T
  <2>3. OK(0)
    BY <2>1, <2>2
  <2> HIDE DEF OK
  <2> QED BY <1>2, <2>3
<1>4. ASSUME NEW n \in 0..M - 1, n \in W
      PROVE  n + 1 \in W
  <2> DEFINE a == T(n).state
             C == T(n).assoc
             op == ops[n + 1]
  <2>1. n + 1 \in 0..M /\ n + 1 \in 1..M /\ (n + 1) - 1 = n /\ n + 1 \in DOMAIN ops
    BY <1>1, <1>2, <1>4
  <2>2. Tracks(any, a, U, B, C, Z, Open) /\ a = Applied(s, SubSeq(ops, 1, n))
    BY <1>4
  <2>3. IsCall(op)
    BY <1>1, <2>1
  <2>4. T(n + 1) = NoteOne(T(n), op)
    BY <1>1, NotedSteps
  <2>5. Applied(s, SubSeq(ops, 1, n + 1)) = CallOne(a, op)
    BY <1>1, <2>2, AppliedSteps
  <2>6. any \/ Unmoved(a, op)
    <3>1. CASE any
      BY <3>1
    <3>2. CASE UnmovedAll(s, ops)
      <4> DEFINE m == n + 1
      <4>0. m \in DOMAIN ops /\ m - 1 = n
        BY <2>1
      <4> HIDE DEF m, a
      <4>1. Unmoved(Applied(s, SubSeq(ops, 1, m - 1)), ops[m])
        BY <3>2, <4>0 DEF UnmovedAll
      <4>2. Unmoved(a, ops[m])
        BY <2>2, <4>0, <4>1
      <4> QED BY <4>2 DEF m
    <3> QED BY <3>1, <3>2
  <2>7. CallOne(a, op) = Called(a, op, Open)
    BY DEF CallOne, Open
  <2>8. T(n + 1).state = CallOne(a, op) /\ T(n + 1).assoc = NoteOf(a, C, op)
    <3> HIDE DEF op
    <3> QED BY <2>4 DEF NoteOne, NoteOf
  <2> HIDE DEF a, C, op, T
  <2>9. Tracks(any, Called(a, op, Open), U, B, NoteOf(a, C, op), Z, Open)
    BY <2>2, <2>3, <2>6, CallTracks
  <2> QED BY <2>1, <2>5, <2>7, <2>8, <2>9
<1> HIDE DEF W
<1>5. 0..M \subseteq W
  BY <1>2, <1>3, <1>4, Ind!BoundedInduction
<1>6. \A n \in 0..M : OK(n)
  <2> HIDE DEF OK
  <2> QED BY <1>5 DEF W
<1> QED BY <1>6

\* So does the whole update.
LEMMA AppliedTracks ==
    ASSUME NEW any \in BOOLEAN, NEW s, NEW U, NEW B, NEW A, NEW Z,
           Tracks(any, s, U, B, A, Z, Open), NEW ops, AllCalls(ops), any \/ UnmovedAll(s, ops)
    PROVE  Tracks(any, Applied(s, ops), U, B, NotedAll(A, s, ops), Z, Open)
<1> DEFINE M == Len(ops)
           b == NotedBoth(A, s, SubSeq(ops, 1, M))
<1>1. M \in 0..M /\ SubSeq(ops, 1, M) = ops
  <2>1. PICK S : ops \in Seq(S) /\ \A op \in S : IsCall(op)
    BY DEF AllCalls
  <2>2. M \in Nat
    BY <2>1
  <2> QED BY <2>1, <2>2, WholeSeq
<1>2. b.state = Applied(s, SubSeq(ops, 1, M)) /\ Tracks(any, b.state, U, B, b.assoc, Z, Open)
  BY <1>1, PrefixTracks
<1>3. b = NotedBoth(A, s, ops) /\ NotedAll(A, s, ops) = b.assoc
  BY <1>1, NotedFold
<1> HIDE DEF b, M
<1> QED BY <1>1, <1>2, <1>3

-----------------------------------------------------------------------------
(* The end of a transaction *)

\* fix updates the marked nodes with known children, in any tree a verifier has.
LEMMA FixedKnownMends ==
    ASSUME NEW C, Sound(C), Clean(C), NEW U, IF Root \in U THEN DOMAIN C = {Root} ELSE Shape(C)
    PROVE  MendedPart(C, U, FixedKnown(C, U))
<1> DEFINE S == {q \in DOMAIN C : Marks(C, q)}
           V == {q \in S \ U : ~IsLeaf(C, q) => {Child(q, 0), Child(q, 1)} \cap U = {}}
           X == Updated(C, V)
           N == FixedKnown(C, U)
<1>1. /\ DOMAIN N = DOMAIN C
      /\ \A q \in DOMAIN C : N[q] = IF q \in S THEN [X[q] EXCEPT !.inconsistent = Unmarked] ELSE X[q]
  BY DEF FixedKnown, Marks, Unmarked
<1>2. Nodes(C)
  BY DEF Sound
<1>3. \A q \in DOMAIN C : q \in V <=> Mends(C, U, q)
  BY DEF Mends, Bit
<1>4. Root \in U => V = {}
  BY DEF Marks
<1>5. V \subseteq DOMAIN C
  OBVIOUS
<1> HIDE DEF N, S, V
<1>6. /\ DOMAIN X = DOMAIN C
      /\ \A p \in DOMAIN C :
            /\ IsNode(X[p])
            /\ SameRest(C[p], X[p])
            /\ p \notin V => X[p] = C[p]
            /\ p \in V => UpToDate(X, p)
            /\ IsLeaf(C, p) => X[p].values = C[p].values
  <2>1. CASE Root \in U
    <3>1. X = [p \in DOMAIN C |-> C[p]]
      BY <1>4, <2>1, UpdatedNone
    <3>2. DOMAIN X = DOMAIN C /\ \A p \in DOMAIN C : X[p] = C[p]
      BY <3>1
    <3> HIDE DEF X
    <3> QED BY <1>2, <1>4, <2>1, <3>2 DEF Nodes, SameRest
  <2>2. CASE Root \notin U
    BY <1>2, <2>2, UpdatedFacts
  <2> QED BY <2>1, <2>2
<1> HIDE DEF X
<1>7. ASSUME NEW q \in DOMAIN C
      PROVE  /\ IsNode(N[q]) /\ N[q].key = C[q].key /\ N[q].backup = {} /\ NodeOK(N[q])
             /\ N[q].values = X[q].values /\ N[q].label = X[q].label
  <2>1. IsNode(C[q]) /\ NodeOK(C[q]) /\ C[q].backup = {}
    BY DEF Sound, Nodes, Clean
  <2>2. SameRest(C[q], X[q]) /\ IsNode(X[q])
    BY <1>6
  <2>3. N[q] = X[q] \/ N[q] = [X[q] EXCEPT !.inconsistent = Unmarked]
    BY <1>1
  <2> QED BY <2>1, <2>2, <2>3, KeptNode
<1>8. Sound(N) /\ Clean(N)
  BY <1>1, <1>7 DEF Sound, Nodes, Clean
<1>9. SameInside(X, N)
  <2>1. \A q \in DOMAIN C : X[q].key = C[q].key
    BY <1>6 DEF SameRest
  <2> QED BY <1>1, <1>6, <1>7, <2>1 DEF SameInside
<1>10. ASSUME NEW q \in DOMAIN C, Mends(C, U, q)
       PROVE  UpToDate(N, q)
  <2>1. q \in V /\ Root \notin U
    BY <1>3, <1>4, <1>10
  <2>2. Shape(X)
    BY <1>6, <2>1, ShapeSame
  <2> QED BY <1>6, <1>9, <2>1, <2>2, SameUpToDate
<1>11. \A q \in DOMAIN C : ~Mends(C, U, q) => SameAt(N, C, q)
  BY <1>3, <1>6, <1>7 DEF SameAt
<1>12. \A q \in DOMAIN C : N[q].key = C[q].key /\ (IsLeaf(C, q) => N[q].values = C[q].values)
  BY <1>6, <1>7
<1> QED BY <1>1, <1>8, <1>10, <1>11, <1>12 DEF MendedPart, N

\* After End without Collect all that is known is true again.
LEMMA FixedKnows ==
    ASSUME NEW F, Calm(F), NEW C, NEW U, NEW tx \in BOOLEAN, Knows(C, U, F, tx), Reachables(C), NEW ty
    PROVE  LET N == FixedKnown(Confirmed(C), U)
           IN  Knows(N, U, F, ty) /\ Exact(N, U, F) /\ Clean(N)
<1> DEFINE X == Confirmed(C)
           N == FixedKnown(X, U)
<1>1. Knows(X, U, F, tx) /\ Clean(X)
  BY ConfirmedKnows
<1> HIDE DEF X
<1>2. Sound(X) /\ IF Root \in U THEN DOMAIN X = {Root} ELSE Shape(X)
  BY <1>1 DEF Knows, Part
<1>3. MendedPart(X, U, N)
  BY <1>1, <1>2, FixedKnownMends
<1> HIDE DEF N
<1>4. Knows(N, U, F, ty) /\ Exact(N, U, F)
  BY <1>1, <1>3, MendedKnows
<1> QED BY <1>3, <1>4 DEF MendedPart, N, X

-----------------------------------------------------------------------------
(* Collect *)

\* The ancestors of a node are the strict prefixes of its path.
LEMMA StrictPrefix ==
    ASSUME NEW o \in Path, NEW q \in Path
    PROVE  IsStrictPrefix(o, q) <=> o \in Ancestors(q)
<1>1. Len(o) \in Nat /\ Len(q) \in Nat /\ SubSeq(o, 1, Len(o)) = o
  BY DEF Path
<1>2. o \in Ancestors(q) <=> On(o, q) /\ Size(o) < Size(q)
  BY AncestorsOn
<1>3. IsStrictPrefix(o, q) <=> Len(o) <= Len(q) /\ o = SubSeq(q, 1, Len(o)) /\ o # q
  BY <1>1 DEF IsStrictPrefix, IsPrefix
<1>4. On(o, q) <=> Size(o) <= Size(q) /\ o = SubSeq(q, 1, Size(o))
  BY DEF On, Prefix
<1>5. Size(o) = Len(o) /\ Size(q) = Len(q)
  BY DEF Size
<1>6. On(o, q) /\ o # q => Size(o) < Size(q)
  BY <1>1, <1>4, <1>5, OnEqual
<1>7. Size(o) < Size(q) => o # q
  BY <1>1, <1>5
<1> QED BY <1>2, <1>3, <1>4, <1>5, <1>6, <1>7

\* X are the nodes that Collect drops, K the ones that stay.
Collects(C, U, X, K, N, V) ==
    /\ X \subseteq DOMAIN C \ U
    /\ K \subseteq DOMAIN C
    /\ \A q \in DOMAIN C : q \in K <=> \A o \in X : o \notin Ancestors(q)
    /\ \/ Root \in U /\ X = {}
       \/ Root \notin U /\ X = {Root}
       \/ Root \notin U /\ \A q \in X : Size(q) > 1
    /\ DOMAIN N = K
    /\ \A q \in K : N[q] = IF q \in X THEN [C[q] EXCEPT !.key = NoKey, !.values = Nothing] ELSE C[q]
    /\ V = (U \cup X) \cap K

\* Collect is as Collects says.
LEMMA CollectForm ==
    ASSUME NEW C, NEW U, DOMAIN C \subseteq Path, Root \in DOMAIN C, NEW S
    PROVE  \E X, K : Collects(C, U, X, K, Collect(C, U, S).tree, Collect(C, U, S).unknown)
<1> DEFINE X == IF Root \in U THEN {}
                ELSE IF S = {} THEN {Root}
                ELSE {q \in DOMAIN C \ U : Len(q) > 1 /\ ~match(S, q)}
           K == {q \in DOMAIN C : \A o \in X : ~IsStrictPrefix(o, q)}
           N == Collect(C, U, S).tree
           V == Collect(C, U, S).unknown
<1>1. /\ N = [q \in K |-> IF q \in X THEN [C[q] EXCEPT !.key = NoKey, !.values = Nothing] ELSE C[q]]
      /\ V = (U \cup X) \cap K
  BY DEF Collect
<1>2. X \subseteq DOMAIN C \ U
  OBVIOUS
<1>3. \/ Root \in U /\ X = {}
      \/ Root \notin U /\ X = {Root}
      \/ Root \notin U /\ \A q \in X : Size(q) > 1
  BY DEF Size
<1> HIDE DEF X, N, V
<1>4. \A q \in DOMAIN C : q \in K <=> \A o \in X : o \notin Ancestors(q)
  BY <1>2, StrictPrefix
<1>5. K \subseteq DOMAIN C
  OBVIOUS
<1> HIDE DEF K
<1>6. /\ DOMAIN N = K
      /\ \A q \in K : N[q] = IF q \in X THEN [C[q] EXCEPT !.key = NoKey, !.values = Nothing] ELSE C[q]
  BY <1>1
<1>7. Collects(C, U, X, K, N, V)
  BY <1>1, <1>2, <1>3, <1>4, <1>5, <1>6 DEF Collects
<1> QED BY <1>7 DEF N, V

\* The fields of a node whose key and values Collect clears.
LEMMA KeyValues ==
    ASSUME NEW n, IsNode(n), NEW x, NEW y
    PROVE  [n EXCEPT !.key = x, !.values = y] =
              Rec(x, y, n.label, n.inconsistent, n.backup, n.shares)
<1> DEFINE m == [n EXCEPT !.key = x]
<1>1. m = Rec(x, n.values, n.label, n.inconsistent, n.backup, n.shares)
  BY OneField
<1>2. IsNode(m) /\ m.key = x /\ m.values = n.values
      /\ m.label = n.label /\ m.inconsistent = n.inconsistent /\ m.backup = n.backup /\ m.shares = n.shares
  BY <1>1, RecFields
<1> HIDE DEF m
<1>3. [m EXCEPT !.values = y] = Rec(m.key, y, m.label, m.inconsistent, m.backup, m.shares)
  BY <1>2, OneField
<1>4. [m EXCEPT !.values = y] = Rec(x, y, n.label, n.inconsistent, n.backup, n.shares)
  BY <1>3, <1>2
<1> QED BY <1>4 DEF m

\* What stays known after Collect is true.
LEMMA CollectsKnows ==
    ASSUME NEW C, NEW U, NEW F, NEW tx, Knows(C, U, F, tx), Exact(C, U, F), Clean(C),
           NEW X, NEW K, NEW N, NEW V, Collects(C, U, X, K, N, V), NEW ty
    PROVE  Knows(N, V, F, ty) /\ Exact(N, V, F) /\ Clean(N)
<1>1. /\ Sound(C) /\ U \subseteq DOMAIN C /\ Closed(C, U) /\ DOMAIN C \subseteq DOMAIN F
      /\ Root \in DOMAIN C /\ LeavesOf(C, U, F) /\ LabelsOf(C, U, F)
  BY PartFacts
<1>2. IF Root \in U THEN DOMAIN C = {Root} ELSE Shape(C)
  BY DEF Knows, Part
<1>3. /\ X \subseteq DOMAIN C /\ X \cap U = {} /\ K \subseteq DOMAIN C
      /\ \A q \in DOMAIN C : q \in K <=> \A o \in X : o \notin Ancestors(q)
      /\ \/ Root \in U /\ X = {}
         \/ Root \notin U /\ X = {Root}
         \/ Root \notin U /\ \A q \in X : Size(q) > 1
      /\ DOMAIN N = K
      /\ \A q \in K : N[q] = IF q \in X THEN [C[q] EXCEPT !.key = NoKey, !.values = Nothing] ELSE C[q]
      /\ V = (U \cup X) \cap K
  BY DEF Collects
<1>4. \A q \in DOMAIN C : q \in Path /\ Ancestors(q) \subseteq DOMAIN C
  <2>1. CASE Root \in U
    BY <1>2, <2>1, RootFacts, AncestorsOn
  <2>2. CASE Root \notin U
    BY <1>2, <2>2, AncestorsIn
  <2> QED BY <2>1, <2>2
<1>5. ASSUME NEW q \in K
      PROVE  /\ IsNode(N[q]) /\ NodeOK(N[q]) /\ N[q].backup = {} /\ N[q].label = C[q].label
             /\ q \notin X => N[q] = C[q]
  <2>1. IsNode(C[q]) /\ NodeOK(C[q]) /\ C[q].backup = {} /\ C[q].inconsistent \in BOOLEAN
    BY <1>1, <1>3, SoundKeyed DEF Sound, Nodes, Clean
  <2>2. CASE q \notin X
    BY <1>3, <2>1, <2>2
  <2>3. CASE q \in X
    <3> DEFINE n == C[q]
    <3>1. N[q] = [n EXCEPT !.key = NoKey, !.values = Nothing]
      BY <1>3, <2>3
    <3> HIDE DEF n
    <3>2. N[q] = Rec(NoKey, Nothing, n.label, n.inconsistent, n.backup, n.shares)
      BY <2>1, <3>1, KeyValues DEF n
    <3>3. /\ IsNode(N[q]) /\ N[q].key = NoKey /\ N[q].label = n.label
          /\ N[q].inconsistent = n.inconsistent /\ N[q].backup = n.backup
      BY <3>2, RecFields
    <3> QED BY <2>1, <2>3, <3>3 DEF NodeOK, n
  <2> QED BY <2>2, <2>3
<1>6. Sound(N) /\ Clean(N)
  BY <1>3, <1>5 DEF Sound, Nodes, Clean
<1>7. Root \in K
  <2>1. Ancestors(Root) = {}
    <3>1. \A a : a \notin Ancestors(Root)
      BY RootFacts, AncestorsOn
    <3> QED BY <3>1
  <2> QED BY <1>1, <1>3, <2>1
\* What stays comes with what is above it.
<1>8. ASSUME NEW q \in K, NEW a \in Ancestors(q)
      PROVE  a \in K /\ a \notin X
  <2>1. a \in DOMAIN C /\ q \in DOMAIN C /\ q \in Path
    BY <1>3, <1>4
  <2>2. Ancestors(a) \subseteq Ancestors(q)
    BY <2>1, AncestorsUp
  <2> QED BY <1>3, <2>1, <2>2
<1>9. ASSUME NEW q \in V, NEW b \in Bit
      PROVE  Child(q, b) \notin K
  <2>1. q \in DOMAIN C /\ q \in Path
    BY <1>3, <1>4
  <2>2. CASE q \in U
    BY <1>1, <1>3, <2>2 DEF Closed
  <2>3. CASE q \in X
    <3>1. q \in Ancestors(Child(q, b))
      BY <2>1, AncestorsChild
    <3> QED BY <1>3, <2>3, <3>1
  <2> QED BY <1>3, <2>2, <2>3
<1>10. ASSUME NEW q \in K \ V
       PROVE  q \in DOMAIN C \ U /\ q \notin X /\ N[q] = C[q] /\ (IsLeaf(N, q) <=> IsLeaf(C, q))
  <2>1. q \in DOMAIN C \ U /\ q \notin X /\ N[q] = C[q] /\ q \in Path
    BY <1>3, <1>4, <1>5
  <2>2. Child(q, 0) \in DOMAIN C => Child(q, 0) \in K
    <3> SUFFICES ASSUME Child(q, 0) \in DOMAIN C, NEW o \in X, o \in Ancestors(Child(q, 0)) PROVE FALSE
      BY <1>3
    <3>1. o \in Ancestors(q) \/ o = q
      BY <2>1, AncestorsChild DEF Bit
    <3> QED BY <1>8, <2>1, <3>1
  <2> QED BY <1>3, <2>1, <2>2 DEF IsLeaf
<1>11. Part(N, V)
  <2>1. V \subseteq DOMAIN N /\ \A q \in V, b \in Bit : Child(q, b) \notin DOMAIN N
    BY <1>3, <1>9
  <2>2. Root \in DOMAIN N /\ N[Root].backup = {}
    BY <1>3, <1>5, <1>7
  <2>3. IF Root \in V THEN DOMAIN N = {Root} ELSE Shape(N)
    <3>1. CASE Root \in U
      BY <1>2, <1>3, <1>7, <3>1
    <3>2. CASE Root \notin U /\ X = {Root}
      <4>1. ASSUME NEW q \in K, q # Root PROVE FALSE
        <5>1. q \in Path /\ Size(q) # 0
          BY <1>3, <1>4, <4>1, RootOnly
        <5>2. Root \in Ancestors(q)
          BY <5>1, OnSelf, RootFacts, AncestorsOn
        <5> QED BY <1>8, <3>2, <4>1, <5>2
      <4> QED BY <1>3, <1>7, <3>2, <4>1
    <3>3. CASE Root \notin U /\ \A q \in X : Size(q) > 1
      <4>1. Shape(C)
        BY <1>2, <3>3
      <4>2. Root \notin X
        BY <3>3, RootFacts
      <4>3. \A p \in K : p \in Path /\ Size(p) <= Depth
        BY <1>3, <4>1 DEF Shape
      <4>4. ASSUME NEW b \in Bit PROVE Child(Root, b) \in K
        <5>1. Child(Root, b) \in DOMAIN C
          BY <4>1 DEF Shape
        <5>2. Root \in Path
          BY RootFacts
        <5>3. \A o \in Ancestors(Child(Root, b)) : o = Root
          BY <5>2, AncestorsChild, AncestorsOn, RootFacts
        <5> QED BY <1>3, <4>2, <5>1, <5>3
      <4>5. ASSUME NEW p \in K, NEW a \in Path, On(a, p) PROVE a \in K
        <5>1. p \in Path /\ p \in DOMAIN C
          BY <1>3, <1>4
        <5>2. a = p \/ a \in Ancestors(p)
          <6>1. Size(a) <= Size(p) /\ (Size(a) = Size(p) => a = p)
            BY <4>5, <5>1, OnEqual DEF On
          <6>2. Size(a) < Size(p) => a \in Ancestors(p)
            BY <4>5, <5>1, AncestorsOn
          <6> QED BY <5>1, <6>1, <6>2
        <5> QED BY <1>8, <5>2
      <4>6. ASSUME NEW p \in Path, NEW b \in Bit, NEW c \in Bit, Child(p, b) \in K PROVE Child(p, c) \in K
        <5>1. Child(p, c) \in DOMAIN C
          BY <1>3, <4>1, <4>6 DEF Shape
        <5>2. \A o : o \in Ancestors(Child(p, c)) <=> o \in Ancestors(Child(p, b))
          BY AncestorsChild
        <5>3. Child(p, b) \in DOMAIN C
          BY <1>3, <4>6
        <5> QED BY <1>3, <4>6, <5>1, <5>2, <5>3
      <4>7. Shape(N)
        BY <1>3, <4>3, <4>4, <4>5, <4>6 DEF Shape
      <4>8. Root \notin V
        BY <1>3, <3>3, <4>2
      <4> QED BY <4>7, <4>8
    <3> QED BY <1>3, <3>1, <3>2, <3>3
  <2> QED BY <1>6, <2>1, <2>2, <2>3 DEF Part
<1>12. LeavesOf(N, V, F)
  <2> SUFFICES ASSUME NEW q \in K \ V, IsLeaf(N, q)
      PROVE  IsLeaf(F, q) /\ N[q].key = F[q].key /\ SameAt(N, F, q)
    BY <1>3 DEF LeavesOf
  <2>1. q \in DOMAIN C \ U /\ IsLeaf(C, q) /\ N[q] = C[q]
    BY <1>10
  <2> QED BY <1>1, <2>1 DEF LeavesOf, SameAt
<1>13. Exact(N, V, F)
  <2> SUFFICES ASSUME NEW q \in K \ V PROVE SameAt(N, F, q)
    BY <1>3 DEF Exact
  <2>1. q \in DOMAIN C \ U /\ N[q] = C[q]
    BY <1>10
  <2> QED BY <2>1 DEF Exact, SameAt
<1>14. LabelsOf(N, V, F)
  <2> SUFFICES ASSUME NEW q \in V PROVE N[q].label = F[q].label
    BY DEF LabelsOf
  <2>1. q \in K /\ q \in DOMAIN C /\ N[q].label = C[q].label
    BY <1>3, <1>5
  <2>2. CASE q \in U
    BY <1>1, <2>1, <2>2 DEF LabelsOf
  <2>3. CASE q \notin U
    BY <2>1, <2>3 DEF Exact, SameAt
  <2> QED BY <2>2, <2>3
<1>15. InnerOf(N, V, F, ty)
  BY <1>13 DEF InnerOf, Exact
<1>16. DOMAIN N \subseteq DOMAIN F
  BY <1>1, <1>3
<1> QED BY <1>6, <1>11, <1>12, <1>13, <1>14, <1>15, <1>16 DEF Knows

\* The same, said of Collect.
LEMMA CollectKnows ==
    ASSUME NEW C, NEW U, NEW F, NEW tx, Knows(C, U, F, tx), Exact(C, U, F), Clean(C), NEW S, NEW ty
    PROVE  LET c == Collect(C, U, S) IN Knows(c.tree, c.unknown, F, ty) /\ Clean(c.tree)
<1>1. DOMAIN C \subseteq Path /\ Root \in DOMAIN C
  <2>1. CASE DOMAIN C = {Root}
    BY <2>1, RootFacts
  <2>2. CASE Shape(C)
    BY <2>2, ShapeRoot DEF Shape
  <2> QED BY <2>1, <2>2 DEF Knows, Part
<1> DEFINE N == Collect(C, U, S).tree
           V == Collect(C, U, S).unknown
<1>2. PICK X, K : Collects(C, U, X, K, N, V)
  BY <1>1, CollectForm
<1> HIDE DEF N, V
<1>3. Knows(N, V, F, ty) /\ Clean(N)
  BY <1>2, CollectsKnows
<1> QED BY <1>3 DEF N, V

-----------------------------------------------------------------------------
(* Learning from a proof *)

\* A node of a message holds a key or none.
KeyNode(d) == d.key \in Keys \cup {NoKey}

\* The nodes of a message hold keys or none.
KeysOK(p) ==
    /\ KeyNode(p.root)
    /\ \A n \in DOMAIN p.steps : KeyNode(p.steps[n].left) /\ KeyNode(p.steps[n].right)

\* Whatever D says is true of F, and D has the root, and with a node the
\* nodes above it and the one next to it.
Dumped(D, F) ==
    /\ \A q \in DOMAIN D : q \in DOMAIN F /\ Agrees(D[q], F, q) /\ Tells(D[q], F, q) /\ KeyNode(D[q])
    /\ \A b \in Bit : Child(Root, b) \in DOMAIN D
    /\ Root \in DOMAIN D
    /\ \A q \in DOMAIN D, a \in Path : On(a, q) => a \in DOMAIN D
    /\ \A q \in Path, b \in Bit, c \in Bit : Child(q, b) \in DOMAIN D => Child(q, c) \in DOMAIN D

\* A verified proof of a key is made of nodes of the full tree.
LEMMA DumpsFacts ==
    ASSUME NEW F, Shape(F), \A q \in DOMAIN F : UpToDate(F, q), NEW p, ProofLike(p), KeysOK(p),
           Verified(F, p)
    PROVE  Dumped(Dumps(p), F)
<1> DEFINE P == PathOf[p.key]
           At(n, b) == Child(Prefix(P, n - 1), b)
           D == Dumps(p)
<1>1. \A n \in 0..Len(p.steps) : AgreesTo(p, F, n)
  BY ProofAgrees
<1>2. P \in Path /\ Size(P) = Depth /\ Depth \in Nat
  BY KeyPaths DEF ProofLike
<1>3. Len(p.steps) \in Nat /\ DOMAIN p.steps = 1..Len(p.steps)
  BY DEF ProofLike
<1>4. \A n \in 1..Len(p.steps) : n <= Depth /\ n - 1 \in 0..Size(P) /\ n - 1 \in 0..Size(P) - 1 /\ n \in 0..Len(p.steps)
  BY <1>1, <1>2, <1>3 DEF AgreesTo
<1>5. \A n \in 1..Len(p.steps), b \in Bit :
         /\ Prefix(P, n - 1) \in Path /\ Size(Prefix(P, n - 1)) = n - 1
         /\ At(n, b) \in Path /\ Size(At(n, b)) = n
         /\ Last(At(n, b)) = b /\ Len(At(n, b)) = n
         /\ At(n, b) # Root
  <2> TAKE n \in 1..Len(p.steps), b \in Bit
  <2>1. Prefix(P, n - 1) \in Path /\ Size(Prefix(P, n - 1)) = n - 1
    BY <1>2, <1>4, PrefixFacts
  <2>2. At(n, b) \in Path /\ Size(At(n, b)) = n - 1 + 1 /\ At(n, b)[n - 1 + 1] = b
    BY <2>1, ChildFacts
  <2>3. n - 1 + 1 = n
    BY <1>3
  <2> QED BY <2>1, <2>2, <2>3, RootFacts DEF Last, Size
<1>6. D = [q \in {Root} \cup {At(n, b) : n \in 1..Len(p.steps), b \in Bit} |->
             IF q = Root THEN p.root
             ELSE IF Last(q) = 1 THEN p.steps[Len(q)].right ELSE p.steps[Len(q)].left]
  BY <1>3 DEF Dumps, Bit
<1>7. \A q \in DOMAIN D : q = Root \/ \E n \in 1..Len(p.steps), b \in Bit : q = At(n, b)
  BY <1>6
<1>8. Root \in DOMAIN D /\ D[Root] = p.root
  BY <1>6
<1>9. \A n \in 1..Len(p.steps), b \in Bit :
         At(n, b) \in DOMAIN D /\ D[At(n, b)] = IF b = 1 THEN p.steps[n].right ELSE p.steps[n].left
  BY <1>5, <1>6
<1> HIDE DEF D
<1>10. Root \in DOMAIN F /\ ~IsLeaf(F, Root) /\ Prefix(P, 0) = Root
  BY <1>2, ShapeRoot, PrefixSelf
<1>11. Agrees(p.root, F, Root)
  <2>1. AgreesTo(p, F, 0)
    BY <1>1, <1>3
  <2> QED BY <1>10, <2>1 DEF AgreesTo, Cursor
<1>12. Len(p.steps) >= 1
  <2> SUFFICES ASSUME Len(p.steps) = 0 PROVE FALSE
    BY <1>3
  <2>1. leaf(p.root)
    BY DEF Verified, Consistent, Cursor
  <2>2. Tells(p.root, F, Root)
    BY <1>10, <1>11, AgreeTells
  <2> QED BY <1>10, <2>1, <2>2 DEF Tells
<1>13. ASSUME NEW q \in DOMAIN D
       PROVE  q \in DOMAIN F /\ Agrees(D[q], F, q) /\ Tells(D[q], F, q) /\ KeyNode(D[q])
  <2>1. Agrees(D[q], F, q) /\ KeyNode(D[q])
    <3>1. CASE q = Root
      BY <1>8, <1>11, <3>1 DEF KeysOK
    <3>2. CASE \E n \in 1..Len(p.steps), b \in Bit : q = At(n, b)
      <4>1. PICK n \in 1..Len(p.steps), b \in Bit : q = At(n, b)
        BY <3>2
      <4>2. AgreesTo(p, F, n) /\ n > 0
        BY <1>1, <1>4
      <4>3. Agrees(p.steps[n].left, F, At(n, 0)) /\ Agrees(p.steps[n].right, F, At(n, 1))
        BY <4>2 DEF AgreesTo
      <4>4. KeyNode(p.steps[n].left) /\ KeyNode(p.steps[n].right)
        BY <1>3 DEF KeysOK
      <4>5. b = 0 \/ b = 1
        BY DEF Bit
      <4> QED BY <1>9, <4>1, <4>3, <4>4, <4>5
    <3> QED BY <1>7, <3>1, <3>2
  <2>2. q \in DOMAIN F
    BY <2>1 DEF Agrees
  <2> QED BY <2>1, <2>2, AgreeTells
<1>14. ASSUME NEW b \in Bit PROVE Child(Root, b) \in DOMAIN D
  <2>1. 1 \in 1..Len(p.steps) /\ 1 - 1 = 0
    BY <1>3, <1>12
  <2> QED BY <1>9, <1>10, <2>1
<1>15. ASSUME NEW n \in 0..Len(p.steps) PROVE Prefix(P, n) \in DOMAIN D
  <2>1. CASE n = 0
    BY <1>8, <1>10, <2>1
  <2>2. CASE n # 0
    <3> DEFINE m == n - 1
    <3>1. n \in 1..Len(p.steps) /\ m \in 0..Size(P) - 1 /\ m + 1 = n
      BY <1>3, <1>4, <2>2
    <3> HIDE DEF m
    <3>2. P[m + 1] \in Bit /\ Prefix(P, m + 1) = Child(Prefix(P, m), P[m + 1])
      BY <1>2, <3>1, PrefixStep
    <3>3. Prefix(P, n) = At(n, P[n])
      BY <3>1, <3>2 DEF m
    <3> QED BY <1>9, <3>1, <3>2, <3>3
  <2> QED BY <2>1, <2>2
<1>16. ASSUME NEW q \in DOMAIN D, NEW a \in Path, On(a, q) PROVE a \in DOMAIN D
  <2>1. CASE q = Root
    <3>1. a = Root
      BY <1>16, <2>1, RootFacts, RootOnly DEF On
    <3> QED BY <1>8, <3>1
  <2>2. CASE \E n \in 1..Len(p.steps), b \in Bit : q = At(n, b)
    <3>1. PICK n \in 1..Len(p.steps), b \in Bit : q = At(n, b)
      BY <2>2
    <3>2. a = q \/ On(a, Prefix(P, n - 1))
      BY <1>5, <1>16, <3>1, OnChild
    <3>3. CASE On(a, Prefix(P, n - 1))
      <4>1. On(Prefix(P, n - 1), P)
        BY <1>2, <1>4, OnPrefix
      <4>2. On(a, P)
        BY <1>2, <1>5, <3>3, <4>1, OnTransitive
      <4>3. Size(a) \in 0..Len(p.steps) /\ a = Prefix(P, Size(a))
        BY <1>3, <1>5, <3>3, <4>2 DEF On
      <4> QED BY <1>15, <4>3
    <3> QED BY <3>2, <3>3
  <2> QED BY <1>7, <2>1, <2>2
<1>17. ASSUME NEW q \in Path, NEW b \in Bit, NEW c \in Bit, Child(q, b) \in DOMAIN D
       PROVE  Child(q, c) \in DOMAIN D
  <2>1. Child(q, b) # Root
    BY ChildFacts, RootFacts
  <2>2. PICK n \in 1..Len(p.steps), d \in Bit : Child(q, b) = At(n, d)
    BY <1>7, <1>17, <2>1
  <2>3. q = Prefix(P, n - 1)
    BY <1>5, <2>2, ChildInjective
  <2> QED BY <1>9, <2>3
<1> QED BY <1>8, <1>13, <1>14, <1>16, <1>17 DEF Dumped, D

\* The nodes of D that become known, the new ones below them, and what Learned
\* puts there.
FreshIn(C, U, D) == {q \in DOMAIN D : q \in DOMAIN C => q \in U /\ C[q].label = D[q].label}
\* The unknown nodes below them.
BelowIn(fresh, D) == {Child(q, b) : q \in {q \in fresh : ~leaf(D[q])}, b \in {0, 1}} \ fresh
\* A node that becomes known.
Taught(C, D, q) == IF q \in DOMAIN C THEN [C[q] EXCEPT !.key = D[q].key, !.values = D[q].values]
                   ELSE Node(D[q].key, D[q].values, D[q].label)
\* An unknown node below it: its label is all that the proof tells.
Hinted(D, q) == Node(NoKey, Nothing,
                     IF Last(q) = 1 THEN D[Parent(q)].right ELSE D[Parent(q)].left)

\* N and V are what Learned makes of C and U with the nodes D.
Learns(C, U, D, fresh, below, N, V) ==
    /\ \A q : q \in fresh <=> q \in DOMAIN D /\ (q \in DOMAIN C => q \in U /\ C[q].label = D[q].label)
    /\ \A x : x \in below <=> x \notin fresh /\ \E q \in fresh, b \in Bit : ~leaf(D[q]) /\ x = Child(q, b)
    /\ DOMAIN N = DOMAIN C \cup fresh \cup below
    /\ \A q \in fresh : N[q] = Taught(C, D, q)
    /\ \A q \in below : N[q] = Hinted(D, q)
    /\ \A q \in DOMAIN C : q \notin fresh /\ q \notin below => N[q] = C[q]
    /\ V = (U \ fresh) \cup below

\* Learned is as Learns says.
LEMMA LearnedForm ==
    ASSUME NEW C, NEW U, NEW p
    PROVE  \E fresh, below : Learns(C, U, Dumps(p), fresh, below, Learned(C, U, p).tree, Learned(C, U, p).unknown)
<1> DEFINE D     == Dumps(p)
           fresh == FreshIn(C, U, D)
           below == BelowIn(fresh, D)
           N     == Learned(C, U, p).tree
           V     == Learned(C, U, p).unknown
<1>1. N = [q \in DOMAIN C \cup fresh \cup below |->
             IF q \in fresh THEN Taught(C, D, q) ELSE IF q \in below THEN Hinted(D, q) ELSE C[q]]
  BY DEF Learned, FreshIn, BelowIn, Taught, Hinted
<1>2. V = (U \ fresh) \cup below
  BY DEF Learned, FreshIn, BelowIn, Taught, Hinted
<1> HIDE DEF N, V, D
<1>3. \A q : q \in fresh <=> q \in DOMAIN D /\ (q \in DOMAIN C => q \in U /\ C[q].label = D[q].label)
  BY DEF FreshIn
<1> HIDE DEF fresh
<1>4. \A x : x \in below <=> x \notin fresh /\ \E q \in fresh, b \in Bit : ~leaf(D[q]) /\ x = Child(q, b)
  BY DEF BelowIn, Bit
<1> HIDE DEF below
<1>5. \A x \in below : x \notin fresh
  BY <1>4
<1>6. Learns(C, U, D, fresh, below, N, V)
  BY <1>1, <1>2, <1>3, <1>4, <1>5 DEF Learns
<1> QED BY <1>6 DEF N, V, D

\* The fields of a new node.
LEMMA NodeFields ==
    ASSUME NEW k, NEW v, NEW l
    PROVE  /\ IsNode(Node(k, v, l)) /\ Node(k, v, l).key = k /\ Node(k, v, l).values = v
           /\ Node(k, v, l).label = l /\ Node(k, v, l).backup = {} /\ Node(k, v, l).inconsistent = Unmarked
BY DEF Node, IsNode, Rec, Unmarked

\* The nodes of the tree afterwards: the ones of before, those of the proof
\* and the children of these.
LEMMA LearnsNodes ==
    ASSUME NEW F, Calm(F), NEW C, NEW U, NEW tx, Knows(C, U, F, tx),
           NEW D, Dumped(D, F), NEW fresh, NEW below, NEW N, NEW V, Learns(C, U, D, fresh, below, N, V)
    PROVE  /\ \A q : q \in fresh <=> q \in DOMAIN D /\ (q \in DOMAIN C => q \in U)
           /\ \A q \in DOMAIN D : q \in DOMAIN C \/ q \in fresh
           /\ \A q \in below : q \notin DOMAIN C /\ q \notin DOMAIN D /\ q # Root
           /\ Shape(N)
           /\ Closed(N, V)
           /\ DOMAIN N \subseteq DOMAIN F
           /\ Root \notin V
<1>1. /\ U \subseteq DOMAIN C /\ DOMAIN C \subseteq DOMAIN F /\ LabelsOf(C, U, F) /\ Closed(C, U)
      /\ Root \in DOMAIN C /\ (Root \notin U => Shape(C)) /\ (Root \in U => DOMAIN C = {Root})
  BY PartFacts DEF Knows, Part
<1>2. Shape(F)
  BY DEF Calm, Pure, Regular
<1>3. /\ \A q : q \in fresh <=> q \in DOMAIN D /\ (q \in DOMAIN C => q \in U /\ C[q].label = D[q].label)
      /\ \A x : x \in below <=> x \notin fresh /\ \E q \in fresh, b \in Bit : ~leaf(D[q]) /\ x = Child(q, b)
      /\ DOMAIN N = DOMAIN C \cup fresh \cup below
      /\ V = (U \ fresh) \cup below
  BY DEF Learns
<1>4. /\ \A q \in DOMAIN D : q \in DOMAIN F /\ D[q].label = F[q].label
      /\ \A b \in Bit : Child(Root, b) \in DOMAIN D
      /\ Root \in DOMAIN D
      /\ \A q \in DOMAIN D, a \in Path : On(a, q) => a \in DOMAIN D
      /\ \A q \in Path, b \in Bit, c \in Bit : Child(q, b) \in DOMAIN D => Child(q, c) \in DOMAIN D
  BY DEF Dumped, Agrees
<1>5. \A q \in DOMAIN F : q \in Path /\ Size(q) <= Depth
  BY <1>2 DEF Shape
<1>6. \A q : q \in fresh <=> q \in DOMAIN D /\ (q \in DOMAIN C => q \in U)
  <2>1. \A q \in U : q \in DOMAIN D => C[q].label = D[q].label
    BY <1>1, <1>4 DEF LabelsOf
  <2> QED BY <1>3, <2>1
<1>7. \A q \in DOMAIN D : q \in DOMAIN C \/ q \in fresh
  BY <1>6
\* No node of before is below one that was not known.
<1>8. ASSUME NEW q \in Path, NEW b \in Bit, Child(q, b) \in DOMAIN C
      PROVE  q \in DOMAIN C /\ q \notin U
  <2>1. q \notin U
    BY <1>1, <1>8 DEF Closed
  <2>2. CASE Root \in U
    <3>1. Child(q, b) # Root
      BY ChildFacts, RootFacts
    <3> QED BY <1>1, <1>8, <2>2, <3>1
  <2>3. CASE Root \notin U
    <3>1. On(q, Child(q, b))
      BY OnChild
    <3> QED BY <1>1, <1>8, <2>1, <2>3, <3>1 DEF Shape
  <2> QED BY <2>2, <2>3
<1>9. \A q \in fresh : q \in Path /\ q \in DOMAIN F /\ q \in DOMAIN D
  BY <1>4, <1>5, <1>6
<1>10. ASSUME NEW x \in below
       PROVE  /\ x \notin DOMAIN C /\ x \notin DOMAIN D /\ x # Root
              /\ \E q \in fresh, b \in Bit : ~leaf(D[q]) /\ x = Child(q, b)
  <2>1. PICK q \in fresh, b \in Bit : ~leaf(D[q]) /\ x = Child(q, b)
    BY <1>3
  <2>2. x \notin DOMAIN C
    BY <1>6, <1>8, <1>9, <2>1
  <2>3. x \notin DOMAIN D
    BY <1>3, <1>7, <2>2
  <2> QED BY <1>4, <2>1, <2>2, <2>3
<1>11. \A q \in below : q \in DOMAIN F
  <2> TAKE x \in below
  <2>1. PICK q \in fresh, b \in Bit : ~leaf(D[q]) /\ x = Child(q, b)
    BY <1>10
  <2>2. ~IsLeaf(F, q)
    BY <1>9, <2>1 DEF Dumped, Tells
  <2> QED BY <1>2, <1>9, <2>1, <2>2, ShapeInner
<1>12. DOMAIN N \subseteq DOMAIN F
  BY <1>1, <1>3, <1>9, <1>11
\* What was there, or is in the proof.
<1> DEFINE E == DOMAIN C \cup DOMAIN D
<1>13. DOMAIN N = E \cup below
  BY <1>3, <1>6
<1>14. \A q \in E, a \in Path : On(a, q) => a \in E
  <2> TAKE q \in E, a \in Path
  <2>1. CASE q \in DOMAIN D
    BY <1>4, <2>1
  <2>2. CASE q \in DOMAIN C /\ Root \in U
    <3>1. On(a, q) => a = Root
      BY <1>1, <2>2, RootFacts, RootOnly DEF On
    <3> QED BY <1>4, <3>1
  <2>3. CASE q \in DOMAIN C /\ Root \notin U
    BY <1>1, <2>3 DEF Shape
  <2> QED BY <2>1, <2>2, <2>3
<1>15. \A q \in Path, b \in Bit, c \in Bit : Child(q, b) \in E => Child(q, c) \in E
  <2> TAKE q \in Path, b \in Bit, c \in Bit
  <2>1. CASE Child(q, b) \in DOMAIN D
    BY <1>4, <2>1
  <2>2. CASE Child(q, b) \in DOMAIN C /\ Root \in U
    <3>1. Child(q, b) # Root
      BY ChildFacts, RootFacts
    <3> QED BY <1>1, <2>2, <3>1
  <2>3. CASE Child(q, b) \in DOMAIN C /\ Root \notin U
    BY <1>1, <2>3 DEF Shape
  <2> QED BY <2>1, <2>2, <2>3
<1>16. Shape(N)
  <2>1. \A q \in DOMAIN N : q \in Path /\ Size(q) <= Depth
    BY <1>5, <1>12
  <2>2. \A b \in Bit : Child(Root, b) \in DOMAIN N
    BY <1>4, <1>13
  <2>3. ASSUME NEW q \in DOMAIN N, NEW a \in Path, On(a, q) PROVE a \in DOMAIN N
    <3>1. CASE q \in E
      BY <1>13, <1>14, <2>3, <3>1
    <3>2. CASE q \in below
      <4>1. PICK r \in fresh, b \in Bit : q = Child(r, b)
        BY <1>10, <3>2
      <4>2. On(a, r) \/ a = q
        BY <1>9, <2>3, <4>1, OnChild
      <4> QED BY <1>9, <1>13, <1>14, <3>2, <4>1, <4>2
    <3> QED BY <1>13, <3>1, <3>2
  <2>4. ASSUME NEW q \in Path, NEW b \in Bit, NEW c \in Bit, Child(q, b) \in DOMAIN N
        PROVE  Child(q, c) \in DOMAIN N
    <3>1. CASE Child(q, b) \in E
      BY <1>13, <1>15, <3>1
    <3>2. CASE Child(q, b) \in below
      <4>1. PICK r \in fresh, d \in Bit : ~leaf(D[r]) /\ Child(q, b) = Child(r, d)
        BY <1>10, <3>2
      <4>2. q = r
        BY <1>9, <4>1, ChildInjective
      <4> QED BY <1>3, <4>1, <4>2
    <3> QED BY <1>13, <2>4, <3>1, <3>2
  <2> QED BY <2>1, <2>2, <2>3, <2>4 DEF Shape
<1>17. Closed(N, V)
  <2>1. V \subseteq DOMAIN N
    BY <1>1, <1>3
  <2>2. ASSUME NEW q \in U \ fresh, NEW b \in Bit PROVE Child(q, b) \notin DOMAIN N
    <3>1. q \in Path /\ q \notin DOMAIN D
      BY <1>1, <1>5, <1>6
    <3>2. Child(q, b) \notin DOMAIN C
      BY <1>8, <3>1
    <3>3. On(q, Child(q, b))
      BY <3>1, OnChild
    <3>4. Child(q, b) \notin DOMAIN D
      BY <1>4, <3>1, <3>3
    <3>5. Child(q, b) \notin below
      <4> SUFFICES ASSUME Child(q, b) \in below PROVE FALSE
        OBVIOUS
      <4>1. PICK r \in fresh, d \in Bit : Child(q, b) = Child(r, d)
        BY <1>10
      <4>2. q = r
        BY <1>9, <3>1, <4>1, ChildInjective
      <4> QED BY <2>2, <4>2
    <3> QED BY <1>13, <3>2, <3>4, <3>5
  <2>3. ASSUME NEW q \in below, NEW b \in Bit PROVE Child(q, b) \notin DOMAIN N
    <3>1. q \in Path /\ q \notin DOMAIN D /\ q \notin DOMAIN C /\ q \notin fresh
      BY <1>3, <1>5, <1>10, <1>11
    <3>2. Child(q, b) \notin DOMAIN C
      BY <1>8, <3>1
    <3>3. On(q, Child(q, b))
      BY <3>1, OnChild
    <3>4. Child(q, b) \notin DOMAIN D
      BY <1>4, <3>1, <3>3
    <3>5. Child(q, b) \notin below
      <4> SUFFICES ASSUME Child(q, b) \in below PROVE FALSE
        OBVIOUS
      <4>1. PICK r \in fresh, d \in Bit : Child(q, b) = Child(r, d)
        BY <1>10
      <4>2. q = r
        BY <1>9, <3>1, <4>1, ChildInjective
      <4> QED BY <3>1, <4>2
    <3> QED BY <1>13, <3>2, <3>4, <3>5
  <2> QED BY <1>3, <2>1, <2>2, <2>3 DEF Closed
<1>18. Root \notin V
  <2>1. Root \notin below
    BY <1>10
  <2>2. Root \in U => Root \in fresh
    BY <1>4, <1>6
  <2> QED BY <1>3, <2>1, <2>2
<1> QED BY <1>6, <1>7, <1>10, <1>12, <1>16, <1>17, <1>18

\* What a proof adds is true as well.
LEMMA LearnsKnows ==
    ASSUME NEW F, Calm(F), NEW C, NEW U, NEW tx, Knows(C, U, F, tx), Exact(C, U, F), Clean(C),
           NEW D, Dumped(D, F), NEW fresh, NEW below, NEW N, NEW V, Learns(C, U, D, fresh, below, N, V),
           NEW ty
    PROVE  /\ Knows(N, V, F, ty) /\ Exact(N, V, F) /\ Clean(N)
           /\ N[Root].inconsistent = C[Root].inconsistent
           /\ Root \notin V
<1>1. /\ \A q : q \in fresh <=> q \in DOMAIN D /\ (q \in DOMAIN C => q \in U)
      /\ \A q \in below : q \notin DOMAIN C /\ q \notin DOMAIN D /\ q # Root
      /\ Shape(N)
      /\ Closed(N, V)
      /\ DOMAIN N \subseteq DOMAIN F
      /\ Root \notin V
  BY LearnsNodes
<1>2. /\ DOMAIN N = DOMAIN C \cup fresh \cup below
      /\ V = (U \ fresh) \cup below
      /\ \A q \in DOMAIN C : q \notin fresh /\ q \notin below => N[q] = C[q]
      /\ \A q \in fresh : N[q] = Taught(C, D, q)
      /\ \A q \in below : N[q] = Hinted(D, q)
      /\ \A x \in below : \E q \in fresh, b \in Bit : ~leaf(D[q]) /\ x = Child(q, b)
  BY DEF Learns
<1>3. /\ Sound(C) /\ Nodes(C) /\ U \subseteq DOMAIN C /\ LeavesOf(C, U, F) /\ LabelsOf(C, U, F)
      /\ Root \in DOMAIN C /\ DOMAIN C \subseteq DOMAIN F /\ C[Root].backup = {}
  BY PartFacts
<1>4. \A q \in DOMAIN D : q \in DOMAIN F /\ D[q].label = F[q].label /\ Tells(D[q], F, q) /\ KeyNode(D[q])
  BY DEF Dumped, Agrees
<1>5. \A q \in DOMAIN F : q \in Path
  BY DEF Calm, Pure, Regular, Shape
<1>6. ASSUME NEW q \in fresh
      PROVE  /\ IsNode(N[q]) /\ N[q].key = D[q].key /\ N[q].values = D[q].values
             /\ N[q].label = F[q].label /\ N[q].backup = {} /\ N[q].inconsistent \in BOOLEAN
             /\ q \in DOMAIN C => N[q].inconsistent = C[q].inconsistent
  <2>1. CASE q \in DOMAIN C
    <3>1. q \in U /\ IsNode(C[q]) /\ NodeOK(C[q]) /\ C[q].backup = {} /\ C[q].label = F[q].label
      BY <1>1, <1>3, <2>1 DEF Nodes, Sound, Clean, LabelsOf
    <3>2. N[q] = Rec(D[q].key, D[q].values, C[q].label, C[q].inconsistent, C[q].backup, C[q].shares)
      <4>1. N[q] = [C[q] EXCEPT !.key = D[q].key, !.values = D[q].values]
        BY <1>2, <2>1 DEF Taught
      <4> QED BY <3>1, <4>1, KeyValues
    <3>3. C[q].inconsistent \in BOOLEAN
      BY <3>1 DEF NodeOK
    <3> HIDE DEF Rec
    <3> QED BY <2>1, <3>1, <3>2, <3>3, RecFields
  <2>2. CASE q \notin DOMAIN C
    <3>1. N[q] = Node(D[q].key, D[q].values, D[q].label) /\ D[q].label = F[q].label
      BY <1>1, <1>2, <1>4, <2>2 DEF Taught
    <3>2. Unmarked \in BOOLEAN
      BY DEF Unmarked
    <3> QED BY <2>2, <3>1, <3>2, NodeFields
  <2> QED BY <2>1, <2>2
<1>7. ASSUME NEW q \in below
      PROVE  /\ IsNode(N[q]) /\ N[q].key = NoKey /\ N[q].label = F[q].label
             /\ N[q].backup = {} /\ N[q].inconsistent \in BOOLEAN
  <2>1. PICK r \in fresh, b \in Bit : ~leaf(D[r]) /\ q = Child(r, b)
    BY <1>2
  <2>2. r \in Path /\ r \in DOMAIN F /\ Tells(D[r], F, r)
    BY <1>1, <1>4, <1>5
  <2>3. Parent(q) = r /\ Last(q) = b
    <3>1. Parent(q) = r /\ q[Size(r) + 1] = b /\ Size(q) = Size(r) + 1
      BY <2>1, <2>2, ChildFacts
    <3> QED BY <3>1 DEF Last, Size
  <2>4. D[r].left = F[Child(r, 0)].label /\ D[r].right = F[Child(r, 1)].label
    BY <2>1, <2>2 DEF Tells
  <2>5. (IF Last(q) = 1 THEN D[Parent(q)].right ELSE D[Parent(q)].left) = F[q].label
    <3>1. b = 0 \/ b = 1
      BY DEF Bit
    <3>2. CASE b = 0
      BY <2>1, <2>3, <2>4, <3>2
    <3>3. CASE b = 1
      BY <2>1, <2>3, <2>4, <3>3
    <3> QED BY <3>1, <3>2, <3>3
  <2>6. N[q] = Node(NoKey, Nothing, F[q].label)
    BY <1>2, <2>5 DEF Hinted
  <2>7. Unmarked \in BOOLEAN
    BY DEF Unmarked
  <2> QED BY <2>6, <2>7, NodeFields
<1>8. ASSUME NEW q \in DOMAIN N, q \notin fresh, q \notin below
      PROVE  q \in DOMAIN C /\ N[q] = C[q]
  BY <1>2, <1>8
<1>9. Clean(N)
  <2> SUFFICES ASSUME NEW q \in DOMAIN N PROVE N[q].backup = {}
    BY DEF Clean
  <2> QED BY <1>6, <1>7, <1>8 DEF Clean
<1>10. Sound(N)
  <2>1. ASSUME NEW q \in DOMAIN N PROVE IsNode(N[q]) /\ NodeOK(N[q])
    <3>1. CASE q \in fresh
      <4>1. N[q].key \in Keys \cup {NoKey} /\ N[q].backup = {} /\ N[q].inconsistent \in BOOLEAN
        BY <1>1, <1>4, <1>6, <3>1 DEF KeyNode
      <4> QED BY <1>6, <3>1, <4>1 DEF NodeOK
    <3>2. CASE q \in below
      BY <1>7, <3>2 DEF NodeOK
    <3>3. CASE q \notin fresh /\ q \notin below
      BY <1>3, <1>8, <3>3 DEF Sound, Nodes
    <3> QED BY <3>1, <3>2, <3>3
  <2> QED BY <2>1 DEF Sound, Nodes
<1>11. Root \in DOMAIN N /\ Root \notin below
  BY <1>1, <1>2, <1>3
<1>12. N[Root].inconsistent = C[Root].inconsistent
  BY <1>3, <1>6, <1>8, <1>11
<1>13. Part(N, V)
  BY <1>1, <1>9, <1>10, <1>11 DEF Part, Closed, Clean
<1>14. ASSUME NEW q \in DOMAIN N \ V
       PROVE  \/ q \in fresh
              \/ q \in DOMAIN C \ U /\ N[q] = C[q]
  BY <1>2, <1>8, <1>14
<1>15. Exact(N, V, F)
  <2> SUFFICES ASSUME NEW q \in DOMAIN N \ V PROVE SameAt(N, F, q)
    BY DEF Exact
  <2>1. CASE q \in fresh
    <3>1. D[q].values = F[q].values
      BY <1>1, <1>4, <2>1 DEF Tells
    <3> QED BY <1>6, <2>1, <3>1 DEF SameAt
  <2>2. CASE q \in DOMAIN C \ U /\ N[q] = C[q]
    BY <2>2 DEF Exact, SameAt
  <2> QED BY <1>14, <2>1, <2>2
<1>16. LeavesOf(N, V, F)
  <2> SUFFICES ASSUME NEW q \in DOMAIN N \ V, IsLeaf(N, q)
      PROVE  IsLeaf(F, q) /\ N[q].key = F[q].key /\ SameAt(N, F, q)
    BY DEF LeavesOf
  <2>1. CASE q \in fresh
    <3>1. leaf(D[q])
      <4> SUFFICES ASSUME ~leaf(D[q]) PROVE FALSE
        OBVIOUS
      <4>1. Child(q, 0) \in fresh \/ Child(q, 0) \in below
        BY <2>1 DEF Learns, Bit
      <4> QED BY <1>2, <4>1 DEF IsLeaf
    <3>2. IsLeaf(F, q) /\ D[q].key = F[q].key
      BY <1>1, <1>4, <2>1, <3>1 DEF Tells
    <3> QED BY <1>6, <1>15, <2>1, <3>2 DEF Exact
  <2>2. CASE q \in DOMAIN C \ U /\ N[q] = C[q]
    <3>1. IsLeaf(C, q)
      BY <1>2 DEF IsLeaf
    <3>2. IsLeaf(F, q) /\ C[q].key = F[q].key
      BY <1>3, <2>2, <3>1 DEF LeavesOf
    <3> QED BY <1>15, <2>2, <3>2 DEF Exact
  <2> QED BY <1>14, <2>1, <2>2
<1>17. LabelsOf(N, V, F)
  <2> SUFFICES ASSUME NEW q \in V PROVE N[q].label = F[q].label
    BY DEF LabelsOf
  <2>1. CASE q \in below
    BY <1>7, <2>1
  <2>2. CASE q \in U /\ q \notin fresh /\ q \notin below
    BY <1>2, <1>3, <2>2 DEF LabelsOf
  <2> QED BY <1>2, <2>1, <2>2
<1>18. InnerOf(N, V, F, ty)
  BY <1>15 DEF InnerOf, Exact
<1> QED BY <1>1, <1>9, <1>12, <1>13, <1>15, <1>16, <1>17, <1>18 DEF Knows

\* Verify.
LEMMA LearnedKnows ==
    ASSUME NEW F, Calm(F), NEW C, NEW U, NEW tx, Knows(C, U, F, tx), Exact(C, U, F), Clean(C),
           NEW p, ProofLike(p), KeysOK(p), Verified(C, p), NEW ty
    PROVE  LET l == Learned(C, U, p)
           IN  /\ Knows(l.tree, l.unknown, F, ty) /\ Exact(l.tree, l.unknown, F) /\ Clean(l.tree)
               /\ l.tree[Root].inconsistent = C[Root].inconsistent
               /\ Root \notin l.unknown
               /\ l.tree[Root].label = C[Root].label
<1> DEFINE N == Learned(C, U, p).tree
           V == Learned(C, U, p).unknown
<1>1. Root \in DOMAIN C /\ C[Root].label = F[Root].label
  <2>1. Root \in DOMAIN C /\ LabelsOf(C, U, F)
    BY PartFacts
  <2> QED BY <2>1 DEF LabelsOf, Exact, SameAt
<1>2. Verified(F, p)
  BY <1>1 DEF Verified
<1>3. Shape(F) /\ \A q \in DOMAIN F : UpToDate(F, q)
  BY DEF Calm, Pure, Regular
<1>4. Dumped(Dumps(p), F)
  BY <1>2, <1>3, DumpsFacts
<1>5. PICK fresh, below : Learns(C, U, Dumps(p), fresh, below, N, V)
  BY LearnedForm
<1> HIDE DEF N, V
<1>6. /\ Knows(N, V, F, ty) /\ Exact(N, V, F) /\ Clean(N)
      /\ N[Root].inconsistent = C[Root].inconsistent
      /\ Root \notin V
  BY <1>4, <1>5, LearnsKnows
<1>7. N[Root].label = F[Root].label
  <2>1. Root \in DOMAIN N
    BY <1>6, PartFacts
  <2> QED BY <1>6, <2>1 DEF Exact, SameAt
<1> QED BY <1>1, <1>6, <1>7 DEF N, V

\* Prepare verifies the proofs of a message one by one.
Lessons == INSTANCE Folding WITH Op <- LearnOne

\* What has been learned of F is true; the root has the label and the mark it
\* had in C.
Taken(l, C, F, tx) ==
    /\ l = [tree |-> l.tree, unknown |-> l.unknown]
    /\ Knows(l.tree, l.unknown, F, tx) /\ Exact(l.tree, l.unknown, F) /\ Clean(l.tree)
    /\ l.tree[Root].inconsistent = C[Root].inconsistent
    /\ l.tree[Root].label = C[Root].label

\* A proof that arrived.
Usual(p) == ProofLike(p) /\ KeysOK(p)

\* One verified proof leaves all that is known true.
LEMMA LearnOneTakes ==
    ASSUME NEW F, Calm(F), NEW C, NEW tx, NEW l, Taken(l, C, F, tx), NEW p, Usual(p), Verified(C, p)
    PROVE  Taken(LearnOne(p, l), C, F, tx) /\ Root \notin LearnOne(p, l).unknown
<1> DEFINE T == l.tree
           U == l.unknown
           m == Learned(T, U, p)
<1>1. Knows(T, U, F, tx) /\ Exact(T, U, F) /\ Clean(T) /\ T[Root].label = C[Root].label
      /\ T[Root].inconsistent = C[Root].inconsistent
  BY DEF Taken
<1>2. Verified(T, p)
  BY <1>1 DEF Verified
<1>3. m = [tree |-> m.tree, unknown |-> m.unknown]
  BY DEF Learned
<1> HIDE DEF T, U
<1>4. /\ Knows(m.tree, m.unknown, F, tx) /\ Exact(m.tree, m.unknown, F) /\ Clean(m.tree)
      /\ m.tree[Root].inconsistent = T[Root].inconsistent
      /\ Root \notin m.unknown
      /\ m.tree[Root].label = T[Root].label
  BY <1>1, <1>2, LearnedKnows DEF Usual
<1>5. LearnOne(p, l) = m
  BY DEF LearnOne, T, U
<1> HIDE DEF m
<1> QED BY <1>1, <1>3, <1>4, <1>5 DEF Taken

\* So do the proofs of a message, in whatever order they are verified.
LEMMA LearnedAllTakes ==
    ASSUME NEW F, Calm(F), NEW C, NEW U, NEW tx, Knows(C, U, F, tx), Exact(C, U, F), Clean(C),
           NEW P, IsFiniteSet(P), \A p \in P : Usual(p) /\ Verified(C, p)
    PROVE  /\ Taken(LearnedAll(C, U, P), C, F, tx)
           /\ P # {} => Root \notin LearnedAll(C, U, P).unknown
<1> DEFINE b == [tree |-> C, unknown |-> U]
<1>0. Lessons!IsFiniteSet(P)
  BY Zenon DEF Lessons!IsFiniteSet, IsFiniteSet
<1>1. LearnedAll(C, U, P) = Lessons!FoldOver(b, P)
  BY Zenon DEF LearnedAll, Lessons!FoldOver, FoldSet, Lessons!FoldSet, MapThenFoldSet, Lessons!MapThenFoldSet
<1>2. PICK f : /\ Lessons!FoldOver(b, P) = f[P]
               /\ f[{}] = b
               /\ \A u \in SUBSET P : u # {} =>
                     \E x \in u : f[u] = LearnOne(x, f[u \ {x}])
  BY <1>0, Lessons!FoldSetSteps
<1>3. Taken(b, C, F, tx)
  BY DEF Taken
<1> HIDE DEF b
<1> DEFINE OK(u) == Taken(f[u], C, F, tx) /\ (u # {} => Root \notin f[u].unknown)
           W == {u \in SUBSET P : OK(u)}
<1>4. OK({})
  BY <1>2, <1>3
<1>5. ASSUME NEW u \in SUBSET P, u # {}, \A x \in u : u \ {x} \in W
      PROVE  OK(u)
  <2>1. PICK x \in u : f[u] = LearnOne(x, f[u \ {x}])
    BY <1>2, <1>5
  <2>2. Taken(f[u \ {x}], C, F, tx) /\ Usual(x) /\ Verified(C, x)
    BY <1>5
  <2> QED BY <2>1, <2>2, LearnOneTakes
<1> HIDE DEF OK
<1>6. {} \in W /\ \A u \in SUBSET P : u # {} /\ (\A x \in u : u \ {x} \in W) => u \in W
  BY <1>4, <1>5
<1> HIDE DEF W
<1>7. SUBSET P \subseteq W
  BY <1>0, <1>6, Lessons!SubsetInduction
<1>8. OK(P)
  BY <1>7 DEF W
<1> QED BY <1>1, <1>2, <1>8 DEF OK

-----------------------------------------------------------------------------
(* Messages *)

\* A node of a message, by its fields.
DumpRec(k, v, l, r, h) == [key |-> k, values |-> v, left |-> l, right |-> r, label |-> h]

\* A record that has these fields.
IsDump(d) == d = DumpRec(d.key, d.values, d.left, d.right, d.label)

\* And a key, or none.
DumpOK(d) == IsDump(d) /\ KeyNode(d)

\* A proof as it was sent.
Posted(p) ==
    /\ ProofLike(p) /\ Len(p.steps) >= 1
    /\ p = [key |-> p.key, root |-> p.root, steps |-> p.steps]
    /\ DumpOK(p.root)
    /\ \A n \in DOMAIN p.steps :
          /\ p.steps[n] = [left |-> p.steps[n].left, right |-> p.steps[n].right]
          /\ DumpOK(p.steps[n].left)
          /\ DumpOK(p.steps[n].right)

\* What was sent unspoilt is usual.
LEMMA PostedUsual ==
    ASSUME NEW p, Posted(p)
    PROVE  Usual(p)
BY DEF Posted, Usual, KeysOK, DumpOK

\* dumpNode makes such records.
LEMMA DumpNodeOK ==
    ASSUME NEW T, Shape(T), Keyed(T), NEW q \in DOMAIN T
    PROVE  DumpOK(dumpNode(T, q))
<1> DEFINE d == dumpNode(T, q)
           k == IF IsLeaf(T, q) THEN T[q].key ELSE NoKey
           l == IF IsLeaf(T, q) THEN NoLabel ELSE T[Child(q, 0)].label
           r == IF IsLeaf(T, q) THEN NoLabel ELSE T[Child(q, 1)].label
<1>1. d = DumpRec(k, T[q].values, l, r, T[q].label)
  BY DEF dumpNode, DumpRec
<1>2. k \in Keys \cup {NoKey}
  BY DEF Keyed
<1> HIDE DEF d, k, l, r
<1>3. d.key = k /\ d.values = T[q].values /\ d.left = l /\ d.right = r /\ d.label = T[q].label
  BY <1>1 DEF DumpRec
<1>4. IsDump(d) /\ KeyNode(d)
  BY <1>1, <1>2, <1>3 DEF IsDump, KeyNode
<1> QED BY <1>4 DEF DumpOK, d

\* So Get().Record().Proof() makes such proofs.
LEMMA ProofPosted ==
    ASSUME NEW T, Shape(T), Keyed(T), \A q \in DOMAIN T : UpToDate(T, q), NEW k \in Keys
    PROVE  Posted(Proof(T, k))
<1> DEFINE p == Proof(T, k)
           P == PathOf[k]
           q == Landing(T, k)
           N == Len(q)
           L(n) == dumpNode(T, Child(Prefix(P, n - 1), 0))
           R(n) == dumpNode(T, Child(Prefix(P, n - 1), 1))
<1>1. ProofLike(p) /\ p.key = k /\ p.root = dumpNode(T, Root) /\ Len(p.steps) = N /\ N >= 1
  BY ProofForm
<1>2. /\ q \in DOMAIN T /\ On(q, P) /\ q \in Path /\ N \in 0..Depth /\ N = Size(q)
      /\ P \in Path /\ Size(P) = Depth /\ Depth \in Nat \ {0}
  BY LandingFacts, KeyPaths DEF Shape, Size
<1>3. p = [key |-> p.key, root |-> p.root, steps |-> p.steps]
      /\ p.steps = [n \in 1..N |-> [left |-> L(n), right |-> R(n)]]
  BY DEF Proof
<1>4. ASSUME NEW n \in 1..N
      PROVE  Child(Prefix(P, n - 1), 0) \in DOMAIN T /\ Child(Prefix(P, n - 1), 1) \in DOMAIN T
  <2> DEFINE m == n - 1
  <2>1. n \in 0..N /\ n \in 0..Size(P) /\ m \in 0..Size(P) - 1 /\ m + 1 = n /\ m \in 0..Size(P)
    BY <1>2
  <2>2. Prefix(P, n) \in Path /\ Size(Prefix(P, n)) = n /\ On(Prefix(P, n), P)
    BY <1>2, <2>1, PrefixFacts, OnPrefix
  <2>3. On(Prefix(P, n), q)
    BY <1>2, <2>1, <2>2, OnComparable
  <2>4. Prefix(P, n) \in DOMAIN T
    BY <1>2, <2>2, <2>3 DEF Shape
  <2> HIDE DEF m
  <2>5. P[n] \in Bit /\ Prefix(P, n) = Child(Prefix(P, m), P[n])
    BY <1>2, <2>1, PrefixStep
  <2>6. Prefix(P, m) \in Path
    BY <1>2, <2>1, PrefixFacts
  <2>7. Child(Prefix(P, m), 0) \in DOMAIN T /\ Child(Prefix(P, m), 1) \in DOMAIN T
    BY <2>4, <2>5, <2>6 DEF Shape, Bit
  <2> QED BY <2>7 DEF m
<1>5. \A n \in 1..N : DumpOK(L(n)) /\ DumpOK(R(n))
  BY <1>4, DumpNodeOK
<1>6. DumpOK(dumpNode(T, Root))
  BY ShapeRoot, DumpNodeOK
<1> HIDE DEF p, L, R, N
<1>7. DOMAIN p.steps = 1..N /\ \A n \in 1..N : p.steps[n] = [left |-> L(n), right |-> R(n)]
  BY <1>3
<1> QED BY <1>1, <1>3, <1>5, <1>6, <1>7 DEF Posted, p

\* What becomes of a node on the way.
LEMMA SpoiltKeys ==
    ASSUME NEW d, DumpOK(d), NEW s,
           s = [d EXCEPT !.values = [f \in Fields |-> Damaged]]
              \/ \E c \in Keys \cup {NoKey} : s = [d EXCEPT !.key = c],
           NEW h
    PROVE  KeyNode(s) /\ KeyNode([s EXCEPT !.label = h])
<1>1. d = DumpRec(d.key, d.values, d.left, d.right, d.label) /\ d.key \in Keys \cup {NoKey}
  BY DEF DumpOK, IsDump, KeyNode
<1>2. CASE s = [d EXCEPT !.values = [f \in Fields |-> Damaged]]
  <2>1. s.key = d.key /\ DOMAIN s = DOMAIN d
    BY <1>2
  <2>2. "key" \in DOMAIN d
    BY <1>1 DEF DumpRec
  <2>3. [s EXCEPT !.label = h].key = s.key
    OBVIOUS
  <2> QED BY <1>1, <2>1, <2>2, <2>3 DEF KeyNode
<1>3. CASE \E c \in Keys \cup {NoKey} : s = [d EXCEPT !.key = c]
  <2>1. PICK c \in Keys \cup {NoKey} : s = [d EXCEPT !.key = c]
    BY <1>3
  <2>2. "key" \in DOMAIN d
    BY <1>1 DEF DumpRec
  <2>3. s.key = c
    BY <2>1, <2>2
  <2>4. [s EXCEPT !.label = h].key = s.key
    OBVIOUS
  <2> QED BY <2>3, <2>4 DEF KeyNode
<1> QED BY <1>2, <1>3

\* A spoilt proof still has the form of a proof.
LEMMA ArrivedUsual ==
    ASSUME NEW p, Posted(p), NEW a \in Arriving(p)
    PROVE  Usual(a)
<1> DEFINE N == Len(p.steps)
<1>1. p.key \in Keys /\ N \in Nat /\ DOMAIN p.steps = 1..N /\ N \in 1..N
  BY DEF ProofLike, Posted
<1>2. ProofLike(a)
  BY ArrivingForm DEF Posted
<1>3. KeysOK(p)
  BY PostedUsual DEF Usual
<1>4. p = [key |-> p.key, root |-> p.root, steps |-> p.steps]
  BY DEF Posted
<1> DEFINE relabel(d) == [d EXCEPT !.label = LeafLabel(d.key, d.values)]
           spoilt(d) == {[d EXCEPT !.values = [f \in Fields |-> Damaged]]}
                        \cup {[d EXCEPT !.key = c] : c \in Keys \cup {NoKey}}
           changed(d) == spoilt(d) \cup {relabel(s) : s \in spoilt(d)}
<1>5. ASSUME NEW d, DumpOK(d), NEW s \in changed(d) PROVE KeyNode(s)
  BY <1>5, SpoiltKeys
<1> HIDE DEF changed
<1>6. CASE \E c \in Keys : a = [p EXCEPT !.key = c]
  <2>1. a.root = p.root /\ a.steps = p.steps
    BY <1>6
  <2> QED BY <1>2, <1>3, <2>1 DEF Usual, KeysOK
<1>7. CASE \E n \in 0..N : a = [p EXCEPT !.steps = SubSeq(p.steps, 1, n)]
  <2>1. PICK n \in 0..N : a = [p EXCEPT !.steps = SubSeq(p.steps, 1, n)]
    BY <1>7
  <2>2. a.root = p.root /\ a.steps = SubSeq(p.steps, 1, n)
    BY <1>4, <2>1
  <2>3. SubSeq(p.steps, 1, n) = [i \in 1..n |-> p.steps[i]]
    OBVIOUS
  <2>4. DOMAIN a.steps = 1..n /\ \A i \in 1..n : a.steps[i] = p.steps[i] /\ i \in 1..N
    BY <1>1, <2>2, <2>3
  <2> QED BY <1>1, <1>2, <1>3, <2>2, <2>4 DEF Usual, KeysOK
<1>8. ASSUME NEW s, a = [p EXCEPT !.steps = [p.steps EXCEPT ![N] = s]],
             KeyNode(s.left), KeyNode(s.right)
      PROVE  Usual(a)
  <2>1. a.root = p.root /\ a.steps = [p.steps EXCEPT ![N] = s]
    BY <1>4, <1>8
  <2>2. \A n \in 1..N : a.steps[n] = IF n = N THEN s ELSE p.steps[n]
    BY <1>1, <2>1
  <2>3. DOMAIN a.steps = 1..N
    BY <1>1, <2>1
  <2> QED BY <1>1, <1>2, <1>3, <1>8, <2>1, <2>2, <2>3 DEF Usual, KeysOK
<1> DEFINE s == p.steps[N]
<1>9. s = [left |-> s.left, right |-> s.right] /\ DumpOK(s.left) /\ DumpOK(s.right)
  BY <1>1 DEF Posted
<1>10. CASE \E d \in changed(s.left) : a = [p EXCEPT !.steps[N].left = d]
  <2>1. PICK d \in changed(s.left) : a = [p EXCEPT !.steps[N].left = d]
    BY <1>10
  <2>2. a = [p EXCEPT !.steps = [p.steps EXCEPT ![N] = [s EXCEPT !.left = d]]]
    BY <2>1
  <2> HIDE DEF s, N
  <2>3. [s EXCEPT !.left = d].left = d /\ [s EXCEPT !.left = d].right = s.right
    BY <1>9
  <2> QED BY <1>5, <1>8, <1>9, <2>2, <2>3 DEF DumpOK
<1>11. CASE \E d \in changed(s.right) : a = [p EXCEPT !.steps[N].right = d]
  <2>1. PICK d \in changed(s.right) : a = [p EXCEPT !.steps[N].right = d]
    BY <1>11
  <2>2. a = [p EXCEPT !.steps = [p.steps EXCEPT ![N] = [s EXCEPT !.right = d]]]
    BY <2>1
  <2> HIDE DEF s, N
  <2>3. [s EXCEPT !.right = d].right = d /\ [s EXCEPT !.right = d].left = s.left
    BY <1>9
  <2> QED BY <1>5, <1>8, <1>9, <2>2, <2>3 DEF DumpOK
<1> QED BY <1>6, <1>7, <1>10, <1>11 DEF Arriving, changed

-----------------------------------------------------------------------------
(* The verifier *)

\* A tree that can be read: all that is known of it is true, and there is
\* nothing to undo.
Legible(C, U, D, A, Z) ==
    /\ PartOf(C, U, A, Unmarked)
    /\ Clean(C) /\ DOMAIN D = {} /\ A = Z

\* A name for FALSE.
LEMMA UnmarkedType == Unmarked \in BOOLEAN /\ ~Unmarked
BY DEF Unmarked

\* Of what it is a part, whatever tx.
LEMMA LegibleOf ==
    ASSUME NEW C, NEW U, NEW D, NEW A, NEW Z, Legible(C, U, D, A, Z), NEW tx
    PROVE  \E F : Calm(F) /\ Contents(F) = A /\ Knows(C, U, F, tx) /\ Exact(C, U, F)
<1>1. PICK F : Calm(F) /\ Contents(F) = A /\ Knows(C, U, F, Unmarked)
  BY DEF Legible, PartOf
<1>2. Exact(C, U, F)
  BY <1>1, UnmarkedType, KnowsExact
<1>3. Knows(C, U, F, tx)
  BY <1>1, <1>2, ExactKnows
<1> QED BY <1>1, <1>2, <1>3

\* A transaction that begins, or a call outside one, starts in step.
LEMMA LegibleTracks ==
    ASSUME NEW any \in BOOLEAN, NEW C, NEW U, NEW D, NEW A, NEW Z, Legible(C, U, D, A, Z),
           NEW tx \in BOOLEAN
    PROVE  Tracks(any, State(C, D, U), U, C, A, Z, tx)
<1> DEFINE s == State(C, D, U)
<1>1. PICK F : Calm(F) /\ Contents(F) = A /\ Knows(C, U, F, tx) /\ Exact(C, U, F)
  BY LegibleOf
<1>2. s.tree = C /\ s.detached = D /\ s.unknown = U
  BY StateFields
<1>3. s = State(s.tree, s.detached, U)
  BY <1>2
<1> HIDE DEF s
<1>4. Clean(C) /\ DOMAIN D = {} /\ A = Z
  BY DEF Legible
<1>5. Restorable(any, C, D, U, C)
  BY <1>1, <1>4, UndoneStart
<1>6. PartOf(C, U, A, tx)
  BY <1>1 DEF PartOf
<1>7. Tracks(any, s, U, C, A, Z, tx)
  BY <1>2, <1>3, <1>4, <1>5, <1>6 DEF Tracks
<1> QED BY <1>7 DEF s

\* What Rollback needs during a transaction.
Pending(C, U, D, A, Z) ==
    \E B : /\ Tracks(Unmarked, State(C, D, U), U, B, A, Z, Open)
           /\ Legible(B, U, Nothing, Z, Z)

\* At Begin nothing has changed.
LEMMA LegiblePending ==
    ASSUME NEW C, NEW U, NEW D, NEW A, NEW Z, Legible(C, U, D, A, Z)
    PROVE  Pending(C, U, D, A, Z)
<1>1. Tracks(Unmarked, State(C, D, U), U, C, A, Z, Open)
  BY UnmarkedType, LegibleTracks
<1>2. Legible(C, U, Nothing, Z, Z)
  BY NoneAtAll DEF Legible
<1> QED BY <1>1, <1>2 DEF Pending

\* While the root is not marked the tree can be read.
LEMMA PendingLegible ==
    ASSUME NEW C, NEW U, NEW D, NEW A, NEW Z, Pending(C, U, D, A, Z), ~C[Root].inconsistent
    PROVE  Legible(C, U, D, A, Z)
<1>1. PICK B : Tracks(Unmarked, State(C, D, U), U, B, A, Z, Open)
  BY DEF Pending
<1> DEFINE s == State(C, D, U)
<1>2. s.tree = C /\ s.detached = D
  BY StateFields
<1>3. Tracks(Unmarked, s, U, B, A, Z, Open)
  BY <1>1
<1> HIDE DEF s
<1>4. PartOf(C, U, A, Open) /\ Clean(C) /\ DOMAIN D = {} /\ A = Z
  BY <1>2, <1>3 DEF Tracks
<1>5. PICK F : Calm(F) /\ Contents(F) = A /\ Knows(C, U, F, Open)
  BY <1>4 DEF PartOf
<1>6. Exact(C, U, F)
  BY <1>5, QuietExact
<1>7. Knows(C, U, F, Unmarked)
  BY <1>5, <1>6, ExactKnows
<1> QED BY <1>4, <1>5, <1>7 DEF Legible, PartOf

\* Rollback.
LEMMA PendingRolledBack ==
    ASSUME NEW C, NEW U, NEW D, NEW A, NEW Z, Pending(C, U, D, A, Z)
    PROVE  Legible(RolledBack(C, D), U, Nothing, Z, Z)
<1>1. PICK B : Tracks(Unmarked, State(C, D, U), U, B, A, Z, Open) /\ Legible(B, U, Nothing, Z, Z)
  BY DEF Pending
<1> DEFINE s == State(C, D, U)
<1>2. s.tree = C /\ s.detached = D
  BY StateFields
<1>3. Tracks(Unmarked, s, U, B, A, Z, Open)
  BY <1>1
<1> HIDE DEF s
<1>4. Restorable(Unmarked, C, D, U, B)
  BY <1>2, <1>3 DEF Tracks
<1>5. PICK F : Calm(F) /\ Contents(F) = Z /\ Knows(B, U, F, Open) /\ Exact(B, U, F)
  BY <1>1, LegibleOf
<1> DEFINE L == RolledBack(C, D)
<1>6. Knows(L, U, F, Unmarked) /\ Clean(L)
  BY <1>4, <1>5, UnmarkedType, RolledBackKnows
<1> HIDE DEF L
<1>7. Legible(L, U, Nothing, Z, Z)
  BY <1>5, <1>6, NoneAtAll DEF Legible, PartOf
<1> QED BY <1>7 DEF L

\* confirm, fix and Collect.
LEMMA TracksEnds ==
    ASSUME NEW any \in BOOLEAN, NEW s, NEW U, NEW B, NEW A, NEW Z, Tracks(any, s, U, B, A, Z, Open), NEW S
    PROVE  LET c == Collect(FixedKnown(Confirmed(s.tree), U), U, S)
           IN  Legible(c.tree, c.unknown, Nothing, A, A)
<1> DEFINE C == s.tree
           N == FixedKnown(Confirmed(C), U)
           c == Collect(N, U, S)
<1>1. PICK F : Calm(F) /\ Contents(F) = A /\ Knows(C, U, F, Open)
  BY DEF Tracks, PartOf
<1>2. Reachables(C)
  BY UndoneReaches DEF Tracks
<1>3. Knows(N, U, F, Open) /\ Exact(N, U, F) /\ Clean(N)
  BY <1>1, <1>2, FixedKnows
<1> HIDE DEF N
<1>4. Knows(c.tree, c.unknown, F, Unmarked) /\ Clean(c.tree)
  BY <1>3, CollectKnows
<1> HIDE DEF c
<1>5. Legible(c.tree, c.unknown, Nothing, A, A)
  BY <1>1, <1>4, NoneAtAll DEF Legible, PartOf
<1> QED BY <1>5 DEF c, N

\* A call outside a transaction.
LEMMA TracksSettles ==
    ASSUME NEW any \in BOOLEAN, NEW s, NEW U, NEW B, NEW A, NEW Z, Tracks(any, s, U, B, A, Z, Unmarked), NEW S
    PROVE  LET c == Collect(s.tree, U, S)
           IN  Legible(c.tree, c.unknown, Nothing, A, A)
<1> DEFINE C == s.tree
           c == Collect(C, U, S)
<1>1. PICK F : Calm(F) /\ Contents(F) = A /\ Knows(C, U, F, Unmarked)
  BY DEF Tracks, PartOf
<1>2. Clean(C)
  BY UnmarkedType DEF Tracks
<1>3. Exact(C, U, F)
  BY <1>1, UnmarkedType, KnowsExact
<1> HIDE DEF C
<1>4. Knows(c.tree, c.unknown, F, Unmarked) /\ Clean(c.tree)
  BY <1>1, <1>2, <1>3, CollectKnows
<1> HIDE DEF c
<1>5. Legible(c.tree, c.unknown, Nothing, A, A)
  BY <1>1, <1>4, NoneAtAll DEF Legible, PartOf
<1> QED BY <1>5 DEF c, C

\* Verify and Prepare.
LEMMA LegibleLearns ==
    ASSUME NEW C, NEW U, NEW D, NEW A, NEW Z, Legible(C, U, D, A, Z),
           NEW P, IsFiniteSet(P), \A p \in P : Usual(p) /\ Verified(C, p)
    PROVE  LET l == LearnedAll(C, U, P)
           IN  /\ Legible(l.tree, l.unknown, D, A, Z)
               /\ l.tree[Root].label = C[Root].label
<1> DEFINE l == LearnedAll(C, U, P)
<1>1. PICK F : Calm(F) /\ Contents(F) = A /\ Knows(C, U, F, Unmarked) /\ Exact(C, U, F)
  BY LegibleOf
<1>2. Clean(C) /\ DOMAIN D = {} /\ A = Z
  BY DEF Legible
<1>3. Taken(l, C, F, Unmarked)
  BY <1>1, <1>2, LearnedAllTakes
<1> HIDE DEF l
<1>4. Legible(l.tree, l.unknown, D, A, Z) /\ l.tree[Root].label = C[Root].label
  BY <1>1, <1>2, <1>3 DEF Taken, Legible, PartOf
<1> QED BY <1>4 DEF l

\* Verify of one proof keeps it.
LEMMA LegibleLearnsOne ==
    ASSUME NEW C, NEW U, NEW D, NEW A, NEW Z, Legible(C, U, D, A, Z),
           NEW p, Usual(p), Verified(C, p)
    PROVE  LET l == Learned(C, U, p) IN Legible(l.tree, l.unknown, D, A, Z)
<1> DEFINE l == Learned(C, U, p)
<1>1. PICK F : Calm(F) /\ Contents(F) = A /\ Knows(C, U, F, Unmarked) /\ Exact(C, U, F)
  BY LegibleOf
<1>2. Clean(C) /\ DOMAIN D = {} /\ A = Z
  BY DEF Legible
<1>3. Knows(l.tree, l.unknown, F, Unmarked) /\ Clean(l.tree)
  BY <1>1, <1>2, LearnedKnows DEF Usual
<1> HIDE DEF l
<1>4. Legible(l.tree, l.unknown, D, A, Z)
  BY <1>1, <1>2, <1>3 DEF Legible, PartOf
<1> QED BY <1>4 DEF l

\* What can be read is what the full tree with the same associations has.
LEMMA LegibleTells ==
    ASSUME NEW C, NEW U, NEW D, NEW A, NEW Z, Legible(C, U, D, A, Z)
    PROVE  LET F == Built(A)
           IN  \A q \in DOMAIN C :
                  /\ q \in DOMAIN F
                  /\ C[q].label = F[q].label
                  /\ q \notin U => dumpNode(C, q) = dumpNode(F, q)
<1> DEFINE F == Built(A)
<1>1. PICK G : Calm(G) /\ Contents(G) = A /\ Knows(C, U, G, Unmarked) /\ Exact(C, U, G)
  BY LegibleOf
<1>2. Pure(G) /\ Regular(G) /\ Shape(G)
  BY <1>1 DEF Calm, Pure, Regular
<1>3. DOMAIN A \in SUBSET Keys /\ A = [c \in DOMAIN A |-> A[c]]
  BY <1>1, <1>2, ContentsFacts
<1>4. Pure(F) /\ Contents(F) = A
  BY <1>3, BuiltFacts
<1> HIDE DEF F
<1>5. DOMAIN G = DOMAIN F /\ \A q \in DOMAIN G : G[q].key = F[q].key
  BY <1>1, <1>2, <1>4, SameShape DEF Pure
<1>6. \A q \in DOMAIN G : SameAt(G, F, q)
  BY <1>1, <1>2, <1>4, SameLabels
<1>7. /\ DOMAIN C \subseteq DOMAIN G /\ LeavesOf(C, U, G) /\ LabelsOf(C, U, G)
      /\ Nodes(C) /\ (Root \notin U => Shape(C)) /\ (Root \in U => DOMAIN C = {Root})
  BY <1>1, PartFacts DEF Knows, Part
<1>8. ASSUME NEW q \in DOMAIN C PROVE C[q].label = F[q].label
  BY <1>1, <1>5, <1>6, <1>7 DEF LabelsOf, Exact, SameAt
<1>9. ASSUME NEW q \in DOMAIN C, q \notin U PROVE dumpNode(C, q) = dumpNode(F, q)
  <2>1. q \in DOMAIN F /\ C[q].values = F[q].values /\ C[q].label = F[q].label
    BY <1>1, <1>5, <1>6, <1>7, <1>9 DEF Exact, SameAt
  <2>2. CASE IsLeaf(C, q)
    <3>1. IsLeaf(G, q) /\ C[q].key = G[q].key
      BY <1>7, <1>9, <2>2 DEF LeavesOf
    <3>2. IsLeaf(F, q) /\ C[q].key = F[q].key
      BY <1>5, <2>1, <3>1 DEF IsLeaf
    <3> QED BY <2>1, <2>2, <3>2 DEF dumpNode
  <2>3. CASE ~IsLeaf(C, q)
    <3>1. Shape(C)
      BY <1>7, <1>9
    <3>2. Child(q, 0) \in DOMAIN C /\ Child(q, 1) \in DOMAIN C
      BY <2>3, <3>1, ShapeInner DEF Bit
    <3>3. ~IsLeaf(F, q)
      BY <1>5, <1>7, <3>2 DEF IsLeaf
    <3> QED BY <1>8, <2>1, <2>3, <3>2, <3>3 DEF dumpNode
  <2> QED BY <2>2, <2>3
<1> QED BY <1>5, <1>7, <1>8, <1>9 DEF F

\* A message as Broadcast sends it.
MessageOK(m) ==
    /\ m.update \in Updates
    /\ DOMAIN m.records \subseteq Keys
    /\ \A k \in DOMAIN m.records : Posted(m.records[k])

\* The inductive invariant of the verifier.
VerifierInv ==
    /\ Still(server)
    /\ \A m \in sent : MessageOK(m)
    /\ prepared \subseteq sent
    /\ ongoing \in BOOLEAN
    /\ ongoing => Pending(copy, unknown, detached, stored, atBegin)
    /\ ~ongoing => Legible(copy, unknown, detached, stored, atBegin)

\* Where Verify, Prepare or Begin may be called all that is known is true.
LEMMA UsableLegible ==
    ASSUME VerifierInv, Usable \/ ~ongoing
    PROVE  Legible(copy, unknown, detached, stored, atBegin)
BY PendingLegible DEF VerifierInv, Usable

\* At first the verifier has the label of the root alone.
LEMMA InitLegible ==
    ASSUME Init
    PROVE  VerifierInv
<1> DEFINE F == EmptyTree
           n == Node(NoKey, Nothing, F[Root].label)
<1>1. copy = [q \in {Root} |-> n] /\ unknown = {Root} /\ detached = Nothing
      /\ stored = Nothing /\ atBegin = Nothing /\ ongoing = FALSE /\ prepared = {} /\ sent = {}
  BY DEF Init
<1>2. Calm(F) /\ KeysIn(F) = {} /\ Regular(F) /\ Shape(F)
  BY EmptyTreeFacts DEF Calm, Pure, Regular
<1>3. Contents(F) = Nothing
  <2>1. DOMAIN Contents(F) = {} /\ Contents(F) = [c \in KeysIn(F) |-> Contents(F)[c]]
    BY <1>2, ContentsFacts
  <2> QED BY <1>2, <2>1 DEF Nothing
<1> HIDE DEF F
<1>4. DOMAIN copy = {Root} /\ copy[Root] = n
  BY <1>1
<1>5. /\ IsNode(n) /\ n.key = NoKey /\ n.label = F[Root].label /\ n.backup = {}
      /\ n.inconsistent \in BOOLEAN
  BY NodeFields, UnmarkedType
<1> HIDE DEF n
<1>6. Sound(copy) /\ Clean(copy)
  <2>1. NodeOK(n)
    BY <1>5 DEF NodeOK
  <2> QED BY <1>4, <1>5, <2>1 DEF Sound, Nodes, Clean
<1>7. Part(copy, unknown)
  <2>1. \A b \in Bit : Child(Root, b) # Root
    BY ChildFacts, RootFacts
  <2> QED BY <1>1, <1>4, <1>5, <1>6, <2>1 DEF Part
<1>8. DOMAIN copy \subseteq DOMAIN F
  BY <1>2, <1>4, ShapeRoot
<1>9. Knows(copy, unknown, F, Unmarked)
  BY <1>1, <1>4, <1>5, <1>7, <1>8 DEF Knows, LeavesOf, InnerOf, LabelsOf
<1>10. Legible(copy, unknown, detached, stored, atBegin)
  BY <1>1, <1>2, <1>3, <1>6, <1>9, NoneAtAll DEF Legible, PartOf
<1>11. Still(server)
  BY InitServer
<1> QED BY <1>1, <1>10, <1>11 DEF VerifierInv

\* A message has finitely many proofs.
LEMMA RecordsFinite ==
    ASSUME NEW m, MessageOK(m)
    PROVE  IsFiniteSet(Range(m.records)) /\ \A p \in Range(m.records) : Posted(p)
<1>1. IsFiniteSet(DOMAIN m.records)
  BY KeysFinite, FS_Subset DEF MessageOK
<1> DEFINE f == [k \in DOMAIN m.records |-> m.records[k]]
<1>2. f \in Surjection(DOMAIN m.records, Range(m.records))
  BY DEF Surjection, Range
<1> HIDE DEF f
<1>3. IsFiniteSet(Range(m.records))
  BY <1>1, <1>2, FS_Surjection
<1> QED BY <1>3 DEF MessageOK, Range

\* The proofs that are on their way.
LEMMA ProofsPosted ==
    ASSUME VerifierInv, NEW p \in Proofs
    PROVE  Posted(p)
<1>1. CASE \E k \in Keys : p = Proof(server, k)
  <2>1. Shape(server) /\ Keyed(server) /\ \A q \in DOMAIN server : UpToDate(server, q)
    BY DEF VerifierInv, Still, Pure, Regular
  <2> QED BY <1>1, <2>1, ProofPosted
<1>2. CASE \E m \in sent : p \in Range(m.records)
  <2>1. PICK m \in sent : p \in Range(m.records)
    BY <1>2
  <2> QED BY <2>1, RecordsFinite DEF VerifierInv
<1> QED BY <1>1, <1>2 DEF Proofs

\* The server sends an update with the proofs of its keys.
LEMMA BroadcastInv ==
    ASSUME VerifierInv, NEW u \in Updates, Broadcast(u)
    PROVE  VerifierInv'
<1>1. Still(server')
  <2>1. [Next]_vars
    BY DEF Next
  <2> QED BY <2>1, NextServer DEF VerifierInv
<1> DEFINE m == [update  |-> u,
                 records |-> [k \in DOMAIN u.need |-> Proof(server, k)],
                 after   |-> server'[Root].label,
                 header  |-> GetRoot(server')]
<1>2. sent' = sent \cup {m}
  BY DEF Broadcast
<1>3. DOMAIN u.need \subseteq Keys
  BY UpdateCalls
<1>4. \A k \in Keys : Posted(Proof(server, k))
  <2>1. Shape(server) /\ Keyed(server) /\ \A q \in DOMAIN server : UpToDate(server, q)
    BY DEF VerifierInv, Still, Pure, Regular
  <2> QED BY <2>1, ProofPosted
<1>5. m.update = u /\ m.records = [k \in DOMAIN u.need |-> Proof(server, k)]
  OBVIOUS
<1> HIDE DEF m
<1>6. MessageOK(m)
  BY <1>3, <1>4, <1>5 DEF MessageOK
<1>7. UNCHANGED <<scope, copy, unknown, detached, ongoing, prepared, stored, atBegin, mixed>>
  BY DEF Broadcast, mine
<1> QED BY <1>1, <1>2, <1>6, <1>7 DEF VerifierInv

\* After a step that leaves the messages alone.
LEMMA StepInv ==
    ASSUME VerifierInv, server' = server, sent' = sent, prepared' \subseteq sent, ongoing' \in BOOLEAN,
           \/ Legible(copy', unknown', detached', stored', atBegin')
           \/ ongoing' /\ Pending(copy', unknown', detached', stored', atBegin')
    PROVE  VerifierInv'
BY LegiblePending DEF VerifierInv

\* The invariant after a proof that arrives, spoilt or not.
LEMMA VerifyInv ==
    ASSUME VerifierInv, NEW p \in Proofs, NEW a \in Arriving(p), Verify(a)
    PROVE  VerifierInv'
<1>1. Usual(a)
  BY ProofsPosted, ArrivedUsual
<1>2. Legible(copy, unknown, detached, stored, atBegin)
  BY UsableLegible DEF Verify
<1>3. Legible(Learned(copy, unknown, a).tree, Learned(copy, unknown, a).unknown, detached, stored, atBegin)
  BY <1>1, <1>2, LegibleLearnsOne DEF Verify
<1>4. Legible(copy', unknown', detached', stored', atBegin')
  BY <1>3 DEF Verify
<1> QED BY <1>4, StepInv DEF Verify, VerifierInv

\* After an update is prepared.
LEMMA PrepareInv ==
    ASSUME VerifierInv, NEW m \in sent, Prepare(m)
    PROVE  VerifierInv'
<1> DEFINE P == Range(m.records)
           l == LearnedAll(copy, unknown, P)
<1>1. IsFiniteSet(P) /\ \A p \in P : Posted(p)
  BY RecordsFinite DEF VerifierInv
<1>2. \A p \in P : Usual(p) /\ Verified(copy, p)
  BY <1>1, PostedUsual DEF Prepare
<1>3. Legible(copy, unknown, detached, stored, atBegin)
  BY UsableLegible DEF Prepare
<1>4. Legible(l.tree, l.unknown, detached, stored, atBegin)
  BY <1>1, <1>2, <1>3, LegibleLearns
<1>5. copy' = l.tree /\ unknown' = l.unknown
  BY DEF Prepare
<1> HIDE DEF l
<1>6. Legible(copy', unknown', detached', stored', atBegin')
  BY <1>4, <1>5 DEF Prepare
<1> QED BY <1>6, StepInv DEF Prepare, VerifierInv

\* After calls made outside a transaction.
LEMMA DirectInv ==
    ASSUME VerifierInv, NEW m \in sent, Direct(m)
    PROVE  VerifierInv'
<1> DEFINE op == m.update.ops[1]
           s == Called(Now, op, Unmarked)
           A == Noted(stored, op)
           c == Collect(s.tree, unknown, scope)
<1>1. Legible(copy, unknown, detached, stored, atBegin)
  BY UsableLegible DEF Direct
<1>2. IsCall(op)
  <2>1. AllCalls(m.update.ops)
    BY UpdateCalls DEF VerifierInv, MessageOK
  <2>2. Len(m.update.ops) = 1
    BY DEF Direct
  <2> QED BY <2>1, <2>2 DEF AllCalls
<1>3. Tracks(Whatever, Now, unknown, copy, stored, atBegin, Unmarked)
  BY <1>1, UnmarkedType, LegibleTracks DEF Now
<1>4. Succeeds(Now, op)
  BY DEF Direct
<1>5. A = NoteOf(Now, stored, op)
  BY <1>4 DEF NoteOf
<1>6. copy' = c.tree /\ unknown' = c.unknown /\ detached' = Nothing /\ stored' = A /\ atBegin' = A
  BY DEF Direct, Settle, Unmarked
<1> HIDE DEF op, s, A, c
<1>7. Tracks(Whatever, s, unknown, copy, A, atBegin, Unmarked)
  BY <1>2, <1>3, <1>5, UnmarkedType, CallTracks DEF s
<1>8. Legible(c.tree, c.unknown, Nothing, A, A)
  BY <1>7, TracksSettles DEF c
<1>9. Legible(copy', unknown', detached', stored', atBegin')
  BY <1>6, <1>8
<1> QED BY <1>9, StepInv DEF Direct, VerifierInv

\* After Begin.
LEMMA BeginInv ==
    ASSUME VerifierInv, Begin
    PROVE  VerifierInv'
<1>1. Legible(copy, unknown, detached, stored, atBegin)
  BY UsableLegible DEF Begin
<1>2. Legible(copy', unknown', detached', stored', atBegin')
  BY <1>1 DEF Begin
<1> QED BY <1>2, StepInv DEF Begin, VerifierInv

\* After Rollback.
LEMMA RollbackInv ==
    ASSUME VerifierInv, Rollback
    PROVE  VerifierInv'
<1>1. Pending(copy, unknown, detached, stored, atBegin)
  BY DEF VerifierInv, Rollback
<1>2. Legible(RolledBack(copy, detached), unknown, Nothing, atBegin, atBegin)
  BY <1>1, PendingRolledBack
<1>3. Legible(copy', unknown', detached', stored', atBegin')
  BY <1>2 DEF Rollback
<1> QED BY <1>3, StepInv DEF Rollback, VerifierInv

\* After End, its fix and its Collect.
LEMMA EndInv ==
    ASSUME VerifierInv, End
    PROVE  VerifierInv'
<1>1. Pending(copy, unknown, detached, stored, atBegin)
  BY DEF VerifierInv, End
<1>2. PICK B : Tracks(Unmarked, Now, unknown, B, stored, atBegin, Open)
  BY <1>1 DEF Pending, Now
<1>3. Now.tree = copy
  BY StateFields DEF Now
<1> DEFINE c == Collect(FixedKnown(Confirmed(copy), unknown), unknown, scope)
<1>4. Legible(c.tree, c.unknown, Nothing, stored, stored)
  BY <1>2, <1>3, UnmarkedType, TracksEnds
<1>5. copy' = c.tree /\ unknown' = c.unknown /\ detached' = Nothing /\ stored' = stored /\ atBegin' = stored
  BY DEF End, Settle
<1> HIDE DEF c
<1>6. Legible(copy', unknown', detached', stored', atBegin')
  BY <1>4, <1>5
<1> QED BY <1>6, StepInv DEF End, VerifierInv

\* No Set of an update that is applied in a transaction writes into the
\* values of a node that a Remove of the same transaction unlinked.
SetsUnmoved == \A m \in prepared : ongoing /\ Apply(m) => UnmovedAll(Now, m.update.ops)

\* After Apply, in a transaction or outside one.
LEMMA ApplyInv ==
    ASSUME VerifierInv, NEW m \in prepared, Apply(m), ongoing => UnmovedAll(Now, m.update.ops)
    PROVE  VerifierInv'
<1> DEFINE ops == m.update.ops
           s == Applied(Now, ops)
           A == NotedAll(stored, Now, ops)
<1>1. AllCalls(ops)
  BY UpdateCalls DEF VerifierInv, MessageOK
<1>2. CASE ongoing
  <2>1. Pending(copy, unknown, detached, stored, atBegin)
    BY <1>2 DEF VerifierInv
  <2>2. PICK B : Tracks(Unmarked, Now, unknown, B, stored, atBegin, Open) /\ Legible(B, unknown, Nothing, atBegin, atBegin)
    BY <2>1 DEF Pending, Now
  <2>3. copy' = s.tree /\ detached' = s.detached /\ stored' = A
        /\ UNCHANGED <<unknown, prepared, atBegin, server, sent, scope, ongoing>>
    BY <1>2 DEF Apply
  <2> HIDE DEF s, A, ops
  <2>4. Tracks(Unmarked, s, unknown, B, A, atBegin, Open)
    BY <1>1, <1>2, <2>2, UnmarkedType, AppliedTracks DEF s, A, ops
  <2>5. s = State(s.tree, s.detached, unknown)
    BY <2>4 DEF Tracks
  <2>6. Pending(s.tree, unknown, s.detached, A, atBegin)
    BY <2>2, <2>4, <2>5 DEF Pending
  <2>7. Pending(copy', unknown', detached', stored', atBegin')
    BY <2>3, <2>6
  <2> QED BY <1>2, <2>3, <2>7, StepInv DEF VerifierInv
<1>3. CASE ~ongoing
  <2>1. Tracks(Whatever, Now, unknown, copy, stored, stored, Open)
    <3>1. Legible(copy, unknown, detached, stored, atBegin)
      BY <1>3, UsableLegible
    <3>2. Legible(copy, unknown, detached, stored, stored)
      BY <3>1 DEF Legible
    <3> QED BY <3>2, LegibleTracks DEF Now
  <2> DEFINE c == Collect(FixedKnown(Confirmed(s.tree), unknown), unknown, scope)
  <2>2. /\ copy' = c.tree /\ unknown' = c.unknown /\ detached' = Nothing /\ stored' = A /\ atBegin' = A
        /\ prepared' = {} /\ UNCHANGED <<server, sent, scope, ongoing>>
    BY <1>3 DEF Apply, Settle
  <2> HIDE DEF s, A, ops, c
  <2>3. Tracks(Whatever, s, unknown, copy, A, stored, Open)
    BY <1>1, <2>1, AppliedTracks DEF s, A, ops
  <2>4. Legible(c.tree, c.unknown, Nothing, A, A)
    BY <2>3, TracksEnds DEF c
  <2>5. Legible(copy', unknown', detached', stored', atBegin')
    BY <2>2, <2>4
  <2> QED BY <2>2, <2>5, StepInv DEF VerifierInv
<1> QED BY <1>2, <1>3

\* VerifierInv is inductive, given SetsUnmoved.
LEMMA NextInvVerifier == VerifierInv /\ [Next]_vars /\ [SetsUnmoved]_vars => VerifierInv'
<1> SUFFICES ASSUME VerifierInv, [Next]_vars, [SetsUnmoved]_vars PROVE VerifierInv'
  OBVIOUS
<1>1. CASE UNCHANGED vars
  BY <1>1 DEF vars, VerifierInv
<1>2. CASE Next /\ SetsUnmoved
  <2>1. ASSUME NEW u \in Updates, Broadcast(u) PROVE VerifierInv'
    BY <2>1, BroadcastInv
  <2>2. ASSUME NEW p \in Proofs, NEW a \in Arriving(p), Verify(a) PROVE VerifierInv'
    BY <2>2, VerifyInv
  <2>3. ASSUME NEW m \in sent, Prepare(m) PROVE VerifierInv'
    BY <2>3, PrepareInv
  <2>4. ASSUME NEW m \in sent, Direct(m) PROVE VerifierInv'
    BY <2>4, DirectInv
  <2>5. ASSUME NEW m \in prepared, Apply(m) PROVE VerifierInv'
    <3>1. ongoing => UnmovedAll(Now, m.update.ops)
      BY <1>2, <2>5 DEF SetsUnmoved
    <3> QED BY <2>5, <3>1, ApplyInv
  <2> QED BY <1>2, <2>1, <2>2, <2>3, <2>4, <2>5, BeginInv, RollbackInv, EndInv DEF Next
<1> QED BY <1>1, <1>2

\* What a verifier knows of its tree, through any proofs that arrive, any
\* updates it prepares and applies, stale ones included, any direct calls,
\* rollbacks, and the collecting of End, is what the full tree with the same
\* associations has there, and so is its root label (Verify, Prepare, Apply,
\* Begin, Rollback, End). SetsUnmoved leaves out the transactions in which the
\* code itself does not restore its values (see
\* RollbackRestoresValues of Collection).
THEOREM VerifierKnowsTruth == Spec /\ [][SetsUnmoved]_vars => []KnowsTruth
<1>1. VerifierInv => KnowsTruth
  <2> SUFFICES ASSUME VerifierInv, ~ongoing
      PROVE  LET F == Built(stored)
             IN  \A q \in DOMAIN copy :
                    /\ q \in DOMAIN F
                    /\ copy[q].label = F[q].label
                    /\ q \notin unknown => dumpNode(copy, q) = dumpNode(F, q)
    BY DEF KnowsTruth
  <2>1. Legible(copy, unknown, detached, stored, atBegin)
    BY UsableLegible
  <2> QED BY <2>1, LegibleTells
<1> QED BY <1>1, InitLegible, NextInvVerifier, PTL DEF Spec

-----------------------------------------------------------------------------
(* What the verifier can walk *)

\* No node on the way to k, or next to one on the way, is unknown.
Off(U, k) == Root \notin U /\ \A q \in U : ~On(Parent(q), PathOf[k])

\* Which walks meet known nodes only depends on the unknown nodes alone.
LEMMA WalkableOff ==
    ASSUME NEW C, NEW U, Part(C, U), NEW k \in Keys
    PROVE  Walkable(C, U, k) <=> Off(U, k)
<1> DEFINE P == PathOf[k]
           p == Landing(C, k)
           N == Len(p)
<1>1. P \in Path /\ Size(P) = Depth /\ Depth \in Nat \ {0}
  BY KeyPaths
<1>2. U \subseteq DOMAIN C /\ Closed(C, U) /\ (Root \notin U => Shape(C)) /\ (Root \in U => DOMAIN C = {Root})
  BY DEF Part, Closed
<1>3. ASSUME Root \notin U
      PROVE  p \in DOMAIN C /\ p \in Path /\ IsLeaf(C, p) /\ On(p, P) /\ N = Size(p) /\ N \in 0..Size(P)
  <2>1. p \in DOMAIN C /\ IsLeaf(C, p) /\ On(p, P)
    BY <1>2, <1>3, LandingFacts
  <2>2. p \in Path
    BY <1>2, <1>3, <2>1 DEF Shape
  <2> QED BY <1>1, <2>1, <2>2 DEF On, Size
<1>4. Walkable(C, U, k) <=> \A n \in 0..N : Prefix(P, n) \notin U /\ (n > 0 => Sibling(Prefix(P, n)) \notin U)
  BY DEF Walkable
<1>5. Prefix(P, 0) = Root
  BY <1>1, PrefixSelf
<1>6. ASSUME Root \in U
      PROVE  ~Walkable(C, U, k)
  <2>1. DOMAIN C = {Root} /\ Root \in Path
    BY <1>2, <1>6, RootFacts
  <2>2. Child(Root, 0) # Root
    BY <2>1, ChildFacts, RootFacts DEF Bit
  <2>3. IsLeaf(C, Root)
    BY <2>1, <2>2 DEF IsLeaf
  <2>4. Root = Prefix(P, Len(Root))
    BY <1>5 DEF Root
  <2>5. p \in DOMAIN C
    BY <2>1, <2>3, <2>4 DEF Landing
  <2>6. p = Root
    BY <2>1, <2>5
  <2>7. 0 \in 0..N
    BY <2>6 DEF Root
  <2> QED BY <1>4, <1>5, <1>6, <2>7
<1> HIDE DEF p, P
<1>7. ASSUME Root \notin U, Off(U, k), NEW n \in 0..N
      PROVE  Prefix(P, n) \notin U /\ (n > 0 => Sibling(Prefix(P, n)) \notin U)
  <2> DEFINE q == Prefix(P, n)
  <2>1. q \in Path /\ Size(q) = n /\ n \in Nat /\ n \in 0..Size(P)
    BY <1>1, <1>3, <1>7, PrefixFacts
  <2>2. On(q, P)
    BY <1>1, <2>1, OnPrefix
  <2> HIDE DEF q
  <2>3. CASE n = 0
    <3>1. q = Root
      BY <2>1, <2>3, RootOnly
    <3> QED BY <1>7, <2>3, <3>1 DEF q
  <2>4. CASE n # 0
    <3>1. Parent(q) \in Path /\ q = Child(Parent(q), q[Size(q)]) /\ q[Size(q)] \in Bit
      BY <2>1, <2>4, ParentFacts
    <3>2. On(Parent(q), q)
      BY <3>1, OnChild
    <3>3. On(Parent(q), P)
      BY <1>1, <2>1, <2>2, <3>1, <3>2, OnTransitive
    <3>4. Parent(Sibling(q)) = Parent(q)
      BY <2>1, <2>4, Siblings
    <3>5. q \notin U /\ Sibling(q) \notin U
      BY <1>7, <3>3, <3>4 DEF Off, P
    <3> QED BY <3>5 DEF q
  <2> QED BY <2>3, <2>4
<1>8. ASSUME Walkable(C, U, k), NEW q \in U, On(Parent(q), P)
      PROVE  FALSE
  <2>1. Root \notin U /\ Shape(C) /\ q \in DOMAIN C /\ q # Root
    BY <1>2, <1>6, <1>8
  <2>2. q \in Path
    BY <2>1 DEF Shape
  <2> DEFINE a == Parent(q)
             c == Child(a, P[Size(a) + 1])
  <2>3. Size(q) # 0
    BY <2>1, <2>2, RootOnly
  <2>4. a \in Path /\ q = Child(a, q[Size(q)]) /\ q[Size(q)] \in Bit
    BY <2>2, <2>3, ParentFacts
  <2>5. On(a, q)
    BY <2>4, OnChild
  <2> HIDE DEF a
  <2>6. a \in DOMAIN C
    BY <2>1, <2>4, <2>5 DEF Shape
  <2>7. ~IsLeaf(C, a)
    BY <2>1, <2>4, <2>6, ShapeInner
  <2>8. /\ p \in DOMAIN C /\ p \in Path /\ IsLeaf(C, p) /\ On(p, P) /\ N = Size(p) /\ N \in 0..Size(P)
        /\ On(a, P)
    BY <1>3, <1>8, <2>1 DEF a
  <2>9. Size(a) < N
    <3> SUFFICES ASSUME Size(p) <= Size(a) PROVE FALSE
      BY <2>4, <2>8
    <3>1. On(p, a)
      BY <1>1, <2>4, <2>8, OnComparable
    <3>2. p = a
      BY <2>1, <2>6, <2>8, <3>1, LeafEnds
    <3> QED BY <2>7, <2>8, <3>2
  <2>10. Size(a) \in Nat /\ Size(a) # Size(P)
    BY <1>1, <2>4, <2>8, <2>9
  <2>11. P[Size(a) + 1] \in Bit /\ On(c, P)
    BY <1>1, <2>4, <2>8, <2>10, OnStep
  <2>12. c \in Path /\ Size(c) = Size(a) + 1 /\ Parent(c) = a
    BY <2>4, <2>11, ChildFacts
  <2> HIDE DEF c
  <2>13. c = Prefix(P, Size(c)) /\ Size(c) \in 0..N /\ Size(c) > 0
    BY <2>8, <2>9, <2>10, <2>11, <2>12 DEF On
  <2>14. c \notin U /\ Sibling(c) \notin U
    BY <1>4, <1>8, <2>13
  <2>15. q \in {c, Sibling(c)}
    <3>1. Size(c) # 0
      BY <2>13
    <3> QED BY <2>4, <2>12, <3>1, Siblings
  <2> QED BY <1>8, <2>14, <2>15
<1>9. ASSUME Walkable(C, U, k)
      PROVE  Off(U, k)
  BY <1>6, <1>8, <1>9 DEF Off, P
<1>10. ASSUME Off(U, k)
      PROVE  Walkable(C, U, k)
  BY <1>4, <1>7, <1>10 DEF Off
<1> QED BY <1>9, <1>10

\* What a proof adds is not on the way to a key that could be reached already.
LEMMA OffLearned ==
    ASSUME NEW F, Calm(F), NEW C, NEW U, NEW tx, Knows(C, U, F, tx), Exact(C, U, F),
           NEW p, Usual(p), Verified(C, p), NEW k \in Keys, Off(U, k)
    PROVE  Off(Learned(C, U, p).unknown, k)
<1> DEFINE N == Learned(C, U, p).tree
           V == Learned(C, U, p).unknown
           D == Dumps(p)
           P == PathOf[k]
           l == Landing(C, k)
<1>1. Root \notin U /\ \A q \in U : ~On(Parent(q), P)
  BY DEF Off
<1>2. Shape(C) /\ LeavesOf(C, U, F) /\ LabelsOf(C, U, F) /\ U \subseteq DOMAIN C
  BY <1>1, PartFacts
<1>3. Shape(F) /\ \A q \in DOMAIN F : UpToDate(F, q)
  BY DEF Calm, Pure, Regular
<1>4. C[Root].label = F[Root].label
  BY <1>1, <1>2, ShapeRoot DEF Exact, SameAt
<1>5. Verified(F, p)
  BY <1>4 DEF Verified
<1>6. Dumped(D, F)
  BY <1>3, <1>5, DumpsFacts DEF Usual
<1>7. PICK fresh, below : Learns(C, U, D, fresh, below, N, V)
  BY LearnedForm
<1> HIDE DEF N, V, D, l
<1>8. /\ \A q : q \in fresh <=> q \in DOMAIN D /\ (q \in DOMAIN C => q \in U)
      /\ Root \notin V
  BY <1>6, <1>7, LearnsNodes
<1>9. /\ \A x : x \in below <=> x \notin fresh /\ \E q \in fresh, b \in Bit : ~leaf(D[q]) /\ x = Child(q, b)
      /\ V = (U \ fresh) \cup below
  BY <1>7 DEF Learns
<1>10. P \in Path
  BY KeyPaths
<1>11. /\ l \in DOMAIN C /\ l \in Path /\ IsLeaf(C, l) /\ On(l, P) /\ l # Root
  <2>1. l \in DOMAIN C /\ IsLeaf(C, l) /\ On(l, P)
    BY <1>2, LandingFacts DEF l
  <2> QED BY <1>2, <2>1, ShapeRoot DEF Shape
<1>12. l \in DOMAIN C \ U
  <2>1. Parent(l) \in Path /\ l[Size(l)] \in Bit /\ l = Child(Parent(l), l[Size(l)])
    BY <1>11, RootOnly, ParentFacts
  <2>2. On(Parent(l), l)
    BY <2>1, OnChild
  <2>3. On(Parent(l), P)
    BY <1>10, <1>11, <2>1, <2>2, OnTransitive
  <2> QED BY <1>1, <1>11, <2>3
<1>13. IsLeaf(F, l) /\ l \in DOMAIN F
  <2>1. l \in DOMAIN F
    BY <1>11 DEF Knows
  <2> QED BY <1>2, <1>11, <1>12, <2>1 DEF LeavesOf
<1>14. ASSUME NEW q \in fresh, On(q, P)
       PROVE  FALSE
  <2>1. q \in DOMAIN D /\ q \in DOMAIN F /\ q \in Path
    BY <1>3, <1>6, <1>8 DEF Dumped, Shape
  <2>2. CASE q \in U
    <3>1. q # Root
      BY <1>1, <2>2
    <3>2. Parent(q) \in Path /\ q[Size(q)] \in Bit /\ q = Child(Parent(q), q[Size(q)])
      BY <2>1, <3>1, RootOnly, ParentFacts
    <3>3. On(Parent(q), q)
      BY <3>2, OnChild
    <3>4. On(Parent(q), P)
      BY <1>10, <1>14, <2>1, <3>2, <3>3, OnTransitive
    <3> QED BY <1>1, <2>2, <3>4
  <2>3. CASE q \notin DOMAIN C
    <3>1. CASE Size(q) <= Size(l)
      <4>1. On(q, l)
        BY <1>10, <1>11, <1>14, <2>1, <3>1, OnComparable
      <4> QED BY <1>2, <1>11, <2>1, <2>3, <4>1 DEF Shape
    <3>2. CASE Size(l) <= Size(q)
      <4>1. On(l, q)
        BY <1>10, <1>11, <1>14, <2>1, <3>2, OnComparable
      <4>2. l = q
        BY <1>3, <1>13, <2>1, <4>1, LeafEnds
      <4> QED BY <1>11, <2>3, <4>2
    <3> QED BY <1>11, <2>1, <3>1, <3>2
  <2> QED BY <1>8, <1>14, <2>2, <2>3
<1>15. ASSUME NEW x \in below
       PROVE  ~On(Parent(x), P)
  <2>1. PICK q \in fresh, b \in Bit : x = Child(q, b)
    BY <1>9, <1>15
  <2>2. q \in Path
    BY <1>3, <1>6, <1>8 DEF Dumped, Shape
  <2>3. Parent(x) = q
    BY <2>1, <2>2, ChildFacts
  <2> QED BY <1>14, <2>3
<1>16. Off(V, k)
  BY <1>1, <1>8, <1>9, <1>15 DEF Off, P
<1> QED BY <1>16 DEF V

\* The masks S cover the key k.
InScope(S, k) == \E m \in S : IsPrefix(m, PathOf[k])

\* Nor does Collect drop anything on the way to a key of the scope: a node
\* next to the way has all bits but its last one, and match leaves out two.
LEMMA OffCollected ==
    ASSUME NEW C, NEW U, DOMAIN C \subseteq Path, NEW S, NEW k \in Keys, InScope(S, k), Off(U, k)
    PROVE  Off(Collect(C, U, S).unknown, k)
<1> DEFINE V == Collect(C, U, S).unknown
           P == PathOf[k]
           X == {q \in DOMAIN C \ U : Len(q) > 1 /\ ~match(S, q)}
<1>1. Root \notin U /\ \A q \in U : ~On(Parent(q), P)
  BY DEF Off
<1>2. PICK m \in S : IsPrefix(m, P)
  BY DEF InScope
<1>3. V \subseteq U \cup X
  <2> DEFINE out  == IF Root \in U THEN {}
                     ELSE IF S = {} THEN {Root}
                     ELSE X
             keep == {q \in DOMAIN C : \A o \in out : ~IsStrictPrefix(o, q)}
  <2>1. V = (U \cup out) \cap keep
    BY DEF Collect
  <2>2. out = X
    BY <1>1, <1>2
  <2> HIDE DEF out, keep, V, X
  <2> QED BY <2>1, <2>2
<1>4. P \in Path
  BY KeyPaths
<1>5. \A i \in 1..Len(m) : m[i] = P[i]
  BY <1>2, <1>4 DEF IsPrefix, Path
<1>6. ASSUME NEW q \in X, On(Parent(q), P)
      PROVE  FALSE
  <2>1. q \in Path /\ Size(q) > 1 /\ ~match(S, q) /\ Len(q) = Size(q)
    BY DEF Size
  <2>2. PICK i \in 1..Len(q) - 2 : i <= Len(m) /\ m[i] # q[i]
    BY <2>1 DEF match
  <2>3. Parent(q) \in Path /\ Size(Parent(q)) = Size(q) - 1 /\ Parent(q) = Prefix(q, Size(q) - 1)
    <3>1. Parent(q) \in Path /\ Size(Parent(q)) = Size(q) - 1
      BY <2>1, ParentFacts
    <3>2. Parent(q) = Prefix(q, Size(q) - 1)
      BY <2>1 DEF Parent
    <3> QED BY <3>1, <3>2
  <2>4. i \in 1..Size(q) - 1 /\ Size(q) - 1 \in 0..Size(q) /\ i \in 1..Len(m)
    BY <2>1, <2>2
  <2>5. Parent(q)[i] = q[i]
    BY <2>1, <2>3, <2>4, PrefixFacts
  <2>6. Size(q) - 1 \in 0..Size(P) /\ Parent(q) = Prefix(P, Size(q) - 1)
    BY <1>4, <1>6, <2>1, <2>3 DEF On
  <2>7. Parent(q)[i] = P[i]
    BY <1>4, <2>4, <2>6, PrefixFacts
  <2> QED BY <1>5, <2>2, <2>4, <2>5, <2>7
<1>7. Root \notin X
  <2>1. ASSUME NEW q \in X PROVE Size(q) > 1
    BY DEF Size
  <2> HIDE DEF X
  <2> QED BY <2>1, RootFacts
<1> HIDE DEF X, V
<1>8. Off(V, k)
  BY <1>1, <1>3, <1>6, <1>7 DEF Off, P
<1> QED BY <1>8 DEF V

\* What a verifier has, in a transaction or outside one, is a part of a tree.
LEMMA CopyPart ==
    ASSUME VerifierInv
    PROVE  Part(copy, unknown)
<1>1. CASE ongoing
  <2>1. PICK B : Tracks(Unmarked, Now, unknown, B, stored, atBegin, Open)
    BY <1>1 DEF VerifierInv, Pending, Now
  <2>2. Now.tree = copy
    BY StateFields DEF Now
  <2>3. PartOf(copy, unknown, stored, Open)
    BY <2>1, <2>2 DEF Tracks
  <2> QED BY <2>3 DEF PartOf, Knows
<1>2. CASE ~ongoing
  <2>1. Legible(copy, unknown, detached, stored, atBegin)
    BY <1>2, UsableLegible
  <2> QED BY <2>1 DEF Legible, PartOf, Knows
<1> QED BY <1>1, <1>2

\* The nodes of a part are paths.
LEMMA PartPaths ==
    ASSUME NEW C, NEW U, Part(C, U)
    PROVE  DOMAIN C \subseteq Path
BY RootFacts DEF Part, Shape

\* Verify of a proof leaves what could be reached within reach.
LEMMA OffVerify ==
    ASSUME VerifierInv, NEW p \in Proofs, NEW a \in Arriving(p), Verify(a), NEW k \in Keys, Off(unknown, k)
    PROVE  Off(unknown', k)
<1>1. Usual(a)
  BY ProofsPosted, ArrivedUsual
<1>2. Legible(copy, unknown, detached, stored, atBegin)
  BY UsableLegible DEF Verify
<1>3. PICK F : Calm(F) /\ Knows(copy, unknown, F, Unmarked) /\ Exact(copy, unknown, F)
  BY <1>2, LegibleOf
<1>4. Off(Learned(copy, unknown, a).unknown, k)
  BY <1>1, <1>3, OffLearned DEF Verify
<1> QED BY <1>4 DEF Verify

\* The steps of a proof end at the leaf where the tree has the key.
LEMMA ProofEnds ==
    ASSUME NEW T, Shape(T), \A q \in DOMAIN T : UpToDate(T, q), NEW p, ProofLike(p), Verified(T, p)
    PROVE  LET P == PathOf[p.key]
               N == Len(p.steps)
           IN  N \in 1..Depth /\ Prefix(P, N) \in DOMAIN T /\ IsLeaf(T, Prefix(P, N))
<1> DEFINE P == PathOf[p.key]
           N == Len(p.steps)
           d == Cursor(p, N)
           q == Prefix(P, N)
<1>1. P \in Path /\ Size(P) = Depth /\ Depth \in Nat \ {0} /\ N \in Nat
  BY KeyPaths DEF ProofLike
<1>2. N <= Depth /\ Agrees(d, T, q)
  <2>1. AgreesTo(p, T, N)
    BY <1>1, ProofAgrees
  <2> QED BY <2>1 DEF AgreesTo
<1>3. leaf(d)
  BY DEF Verified, Consistent
<1>4. q \in DOMAIN T /\ Tells(d, T, q)
  BY <1>2, AgreeTells DEF Agrees
<1>5. IsLeaf(T, q)
  BY <1>3, <1>4 DEF Tells
<1>6. N # 0
  <2>1. Prefix(P, 0) = Root
    BY <1>1, PrefixSelf
  <2> QED BY <1>5, <2>1, ShapeRoot
<1> QED BY <1>1, <1>2, <1>4, <1>5, <1>6

\* A proof makes all known that a call on its key looks at.
LEMMA OffProved ==
    ASSUME NEW F, Calm(F), NEW C, NEW U, NEW tx, Knows(C, U, F, tx), Exact(C, U, F),
           NEW p, Usual(p), Verified(C, p)
    PROVE  Off(Learned(C, U, p).unknown, p.key)
<1> DEFINE N == Learned(C, U, p).tree
           V == Learned(C, U, p).unknown
           D == Dumps(p)
           P == PathOf[p.key]
           M == Len(p.steps)
           e == Prefix(P, M)
<1>1. U \subseteq DOMAIN C /\ DOMAIN C \subseteq DOMAIN F /\ Root \in DOMAIN C /\ LabelsOf(C, U, F)
  BY PartFacts
<1>2. Shape(F) /\ \A q \in DOMAIN F : UpToDate(F, q)
  BY DEF Calm, Pure, Regular
<1>3. C[Root].label = F[Root].label
  BY <1>1 DEF Exact, SameAt, LabelsOf
<1>4. Verified(F, p)
  BY <1>3 DEF Verified
<1>5. Dumped(D, F)
  BY <1>2, <1>4, DumpsFacts DEF Usual
<1>6. M \in 1..Depth /\ e \in DOMAIN F /\ IsLeaf(F, e)
  BY <1>2, <1>4, ProofEnds DEF Usual
<1>7. P \in Path /\ Size(P) = Depth /\ Depth \in Nat \ {0} /\ DOMAIN p.steps = 1..M
  BY KeyPaths DEF Usual, ProofLike
<1>8. e \in Path /\ Size(e) = M /\ On(e, P)
  BY <1>6, <1>7, PrefixFacts, OnPrefix
<1>9. ASSUME NEW a \in Path, On(a, P), Size(a) < M, NEW b \in Bit
      PROVE  Child(a, b) \in DOMAIN D
  <2>1. a = Prefix(P, Size(a))
    BY <1>9 DEF On
  <2> DEFINE n == Size(a) + 1
  <2>2. n \in 1..M /\ n - 1 = Size(a)
    BY <1>6, <1>9
  <2>3. Child(a, b) = Child(Prefix(P, n - 1), b) /\ b \in {0, 1}
    BY <2>1, <2>2 DEF Bit
  <2> HIDE DEF n
  <2> QED BY <1>7, <2>2, <2>3 DEF Dumps
<1>10. PICK fresh, below : Learns(C, U, D, fresh, below, N, V)
  BY LearnedForm
<1> HIDE DEF N, V, D, M, e, P
<1>11. /\ \A q : q \in fresh <=> q \in DOMAIN D /\ (q \in DOMAIN C => q \in U)
       /\ \A q \in below : q \notin DOMAIN D
       /\ Root \notin V
  BY <1>5, <1>10, LearnsNodes
<1>12. /\ \A x \in below : \E q \in fresh, b \in Bit : ~leaf(D[q]) /\ x = Child(q, b)
       /\ V = (U \ fresh) \cup below
  BY <1>10 DEF Learns
<1>13. ASSUME NEW a \in DOMAIN F, On(a, P), ~IsLeaf(F, a)
       PROVE  a \in Path /\ Size(a) < M
  <2>1. a \in Path
    BY <1>2 DEF Shape
  <2>2. ASSUME M <= Size(a) PROVE FALSE
    <3>1. On(e, a)
      BY <1>7, <1>8, <1>13, <2>1, <2>2, OnComparable
    <3> QED BY <1>2, <1>6, <1>13, <3>1, LeafEnds
  <2> QED BY <1>6, <2>1, <2>2
<1>14. ASSUME NEW q \in U \ fresh, On(Parent(q), P), q # Root
       PROVE  FALSE
  <2>1. q \in DOMAIN F /\ q \in Path
    BY <1>1, <1>2 DEF Shape
  <2>2. Parent(q) \in Path /\ q[Size(q)] \in Bit /\ q = Child(Parent(q), q[Size(q)])
    BY <1>14, <2>1, RootOnly, ParentFacts
  <2>3. On(Parent(q), q)
    BY <2>2, OnChild
  <2>4. Parent(q) \in DOMAIN F
    BY <1>2, <2>1, <2>2, <2>3 DEF Shape
  <2>5. ~IsLeaf(F, Parent(q))
    BY <1>2, <2>1, <2>2, <2>4, ShapeInner
  <2>6. q \in DOMAIN D
    BY <1>9, <1>13, <1>14, <2>2, <2>4, <2>5
  <2> QED BY <1>11, <1>14, <2>6
<1>15. ASSUME NEW x \in below, On(Parent(x), P)
       PROVE  FALSE
  <2>1. PICK q \in fresh, b \in Bit : ~leaf(D[q]) /\ x = Child(q, b)
    BY <1>12
  <2>2. q \in DOMAIN D /\ q \in DOMAIN F /\ Tells(D[q], F, q)
    BY <1>5, <1>11 DEF Dumped
  <2>3. q \in Path
    BY <1>2, <2>2 DEF Shape
  <2>4. Parent(x) = q
    BY <2>1, <2>3, ChildFacts
  <2>5. ~IsLeaf(F, q)
    BY <2>1, <2>2 DEF Tells
  <2>6. x \in DOMAIN D
    BY <1>9, <1>13, <1>15, <2>1, <2>2, <2>3, <2>4, <2>5
  <2> QED BY <1>11, <2>6
<1>16. Off(V, p.key)
  BY <1>11, <1>12, <1>14, <1>15 DEF Off, P
<1> QED BY <1>16 DEF V

\* So do the proofs of a message, in whatever order they are verified, and
\* what could be reached before still can.
LEMMA OffLearnedAll ==
    ASSUME NEW F, Calm(F), NEW C, NEW U, NEW tx, Knows(C, U, F, tx), Exact(C, U, F), Clean(C),
           NEW P, IsFiniteSet(P), \A p \in P : Usual(p) /\ Verified(C, p)
    PROVE  LET V == LearnedAll(C, U, P).unknown
           IN  /\ \A k \in Keys : Off(U, k) => Off(V, k)
               /\ \A p \in P : Off(V, p.key)
<1> DEFINE b == [tree |-> C, unknown |-> U]
<1>0. Lessons!IsFiniteSet(P)
  BY Zenon DEF Lessons!IsFiniteSet, IsFiniteSet
<1>1. LearnedAll(C, U, P) = Lessons!FoldOver(b, P)
  BY Zenon DEF LearnedAll, Lessons!FoldOver, FoldSet, Lessons!FoldSet, MapThenFoldSet, Lessons!MapThenFoldSet
<1>2. PICK f : /\ Lessons!FoldOver(b, P) = f[P]
               /\ f[{}] = b
               /\ \A u \in SUBSET P : u # {} =>
                     \E x \in u : f[u] = LearnOne(x, f[u \ {x}])
  BY <1>0, Lessons!FoldSetSteps
<1>3. Taken(b, C, F, tx) /\ b.unknown = U
  BY DEF Taken
<1> HIDE DEF b
<1> DEFINE Apart(u) == /\ \A k \in Keys : Off(U, k) => Off(f[u].unknown, k)
                       /\ \A p \in u : Off(f[u].unknown, p.key)
           OK(u) == Taken(f[u], C, F, tx) /\ Apart(u)
           W == {u \in SUBSET P : OK(u)}
<1>4. OK({})
  BY <1>2, <1>3
<1>5. ASSUME NEW u \in SUBSET P, u # {}, \A x \in u : u \ {x} \in W
      PROVE  OK(u)
  <2>1. PICK x \in u : f[u] = LearnOne(x, f[u \ {x}])
    BY <1>2, <1>5
  <2>2. Taken(f[u \ {x}], C, F, tx) /\ Apart(u \ {x}) /\ Usual(x) /\ Verified(C, x)
    BY <1>5
  <2> DEFINE l == f[u \ {x}]
             T == l.tree
             Y == l.unknown
  <2>3. Taken(f[u], C, F, tx)
    BY <2>1, <2>2, LearnOneTakes
  <2>4. Knows(T, Y, F, tx) /\ Exact(T, Y, F) /\ T[Root].label = C[Root].label
    BY <2>2 DEF Taken
  <2>5. f[u].unknown = Learned(T, Y, x).unknown
    BY <2>1 DEF LearnOne
  <2>6. Verified(T, x)
    BY <2>2, <2>4 DEF Verified
  <2> HIDE DEF T, Y, Apart
  <2>7. \A k \in Keys : Off(Y, k) => Off(f[u].unknown, k)
    BY <2>2, <2>4, <2>5, <2>6, OffLearned
  <2>8. Off(f[u].unknown, x.key)
    BY <2>2, <2>4, <2>5, <2>6, OffProved
  <2>9. /\ \A k \in Keys : Off(U, k) => Off(Y, k)
        /\ \A p \in u \ {x} : Off(Y, p.key)
    BY <2>2 DEF Apart, Y
  <2>10. \A p \in u : p.key \in Keys
    BY DEF Usual, ProofLike
  <2>11. Apart(u)
    BY <2>7, <2>8, <2>9, <2>10 DEF Apart
  <2> QED BY <2>3, <2>11
<1> HIDE DEF OK
<1>6. {} \in W /\ \A u \in SUBSET P : u # {} /\ (\A x \in u : u \ {x} \in W) => u \in W
  BY <1>4, <1>5
<1> HIDE DEF W
<1>7. SUBSET P \subseteq W
  BY <1>0, <1>6, Lessons!SubsetInduction
<1>8. OK(P)
  BY <1>7 DEF W
<1> QED BY <1>1, <1>2, <1>8 DEF OK

\* The nodes of a tree that the calls leave are paths.
LEMMA TracksPaths ==
    ASSUME NEW any, NEW s, NEW U, NEW B, NEW A, NEW Z, NEW tx, Tracks(any, s, U, B, A, Z, tx)
    PROVE  DOMAIN s.tree \subseteq Path
BY PartPaths DEF Tracks, PartOf, Knows

\* Collecting at the end of a call or of a transaction.
LEMMA OffSettled ==
    ASSUME NEW T, DOMAIN T \subseteq Path, NEW A, Settle(T, A), NEW k \in Keys, InScope(scope, k), Off(unknown, k)
    PROVE  Off(unknown', k)
BY OffCollected DEF Settle

\* Prepare.
LEMMA OffPrepare ==
    ASSUME VerifierInv, NEW m \in sent, Prepare(m), NEW k \in Keys, Off(unknown, k)
    PROVE  Off(unknown', k)
<1> DEFINE P == Range(m.records)
<1>1. Legible(copy, unknown, detached, stored, atBegin)
  BY UsableLegible DEF Prepare
<1>2. PICK F : Calm(F) /\ Knows(copy, unknown, F, Unmarked) /\ Exact(copy, unknown, F)
  BY <1>1, LegibleOf
<1>3. MessageOK(m)
  BY DEF VerifierInv
<1>4. IsFiniteSet(P)
  BY <1>3, RecordsFinite
<1>5. \A p \in P : Usual(p) /\ Verified(copy, p)
  BY <1>3, PostedUsual DEF Prepare, MessageOK, Range
<1>6. Clean(copy)
  BY <1>1 DEF Legible
<1>7. unknown' = LearnedAll(copy, unknown, P).unknown
  BY DEF Prepare
<1> HIDE DEF P
<1> QED BY <1>2, <1>4, <1>5, <1>6, <1>7, OffLearnedAll

\* Direct.
LEMMA OffDirect ==
    ASSUME VerifierInv, NEW m \in sent, Direct(m), NEW k \in Keys, InScope(scope, k), Off(unknown, k)
    PROVE  Off(unknown', k)
<1> DEFINE op == m.update.ops[1]
           s == Called(Now, op, Unmarked)
<1>1. Legible(copy, unknown, detached, stored, atBegin)
  BY UsableLegible DEF Direct
<1>2. IsCall(op)
  <2>1. AllCalls(m.update.ops)
    BY UpdateCalls DEF VerifierInv, MessageOK
  <2>2. Len(m.update.ops) = 1
    BY DEF Direct
  <2> QED BY <2>1, <2>2 DEF AllCalls
<1>3. Tracks(Whatever, Now, unknown, copy, stored, atBegin, Unmarked)
  BY <1>1, UnmarkedType, LegibleTracks DEF Now
<1>4. Settle(s.tree, Noted(stored, op))
  BY DEF Direct, Unmarked
<1> HIDE DEF op, s
<1>5. Tracks(Whatever, s, unknown, copy, NoteOf(Now, stored, op), atBegin, Unmarked)
  BY <1>2, <1>3, UnmarkedType, CallTracks DEF s
<1>6. DOMAIN s.tree \subseteq Path
  BY <1>5, TracksPaths
<1> QED BY <1>4, <1>6, OffSettled

\* What fix leaves, at the end of a transaction, has the nodes it had.
LEMMA OffEnded ==
    ASSUME NEW s, DOMAIN s.tree \subseteq Path, NEW A, Settle(FixedKnown(Confirmed(s.tree), unknown), A),
           NEW k \in Keys, InScope(scope, k), Off(unknown, k)
    PROVE  Off(unknown', k)
<1> DEFINE T == FixedKnown(Confirmed(s.tree), unknown)
<1>1. DOMAIN T \subseteq Path
  BY DEF FixedKnown, Confirmed
<1> HIDE DEF T
<1> QED BY <1>1, OffSettled DEF T

\* Apply.
LEMMA OffApply ==
    ASSUME VerifierInv, NEW m \in prepared, Apply(m), NEW k \in Keys, InScope(scope, k), Off(unknown, k)
    PROVE  Off(unknown', k)
<1>1. CASE ongoing
  BY <1>1 DEF Apply
<1>2. CASE ~ongoing
  <2> DEFINE ops == m.update.ops
             s == Applied(Now, ops)
             A == NotedAll(stored, Now, ops)
  <2>1. AllCalls(ops)
    BY UpdateCalls DEF VerifierInv, MessageOK
  <2>2. Tracks(Whatever, Now, unknown, copy, stored, stored, Open)
    <3>1. Legible(copy, unknown, detached, stored, stored)
      BY <1>2 DEF VerifierInv, Legible
    <3> QED BY <3>1, LegibleTracks DEF Now
  <2>3. Settle(FixedKnown(Confirmed(s.tree), unknown), A)
    BY <1>2 DEF Apply
  <2> HIDE DEF s, A, ops
  <2>4. Tracks(Whatever, s, unknown, copy, A, stored, Open)
    BY <2>1, <2>2, AppliedTracks DEF s, A, ops
  <2>5. DOMAIN s.tree \subseteq Path
    BY <2>4, TracksPaths
  <2> QED BY <2>3, <2>5, OffEnded
<1> QED BY <1>1, <1>2

\* End.
LEMMA OffEnd ==
    ASSUME VerifierInv, End, NEW k \in Keys, InScope(scope, k), Off(unknown, k)
    PROVE  Off(unknown', k)
<1>1. Now.tree = copy
  BY StateFields DEF Now
<1>2. DOMAIN Now.tree \subseteq Path
  BY <1>1, CopyPart, PartPaths
<1>3. Settle(FixedKnown(Confirmed(Now.tree), unknown), stored)
  BY <1>1 DEF End
<1> HIDE DEF Now
<1> QED BY <1>2, <1>3, OffEnded

\* A step takes no key of the scope out of reach.
LEMMA NextScope ==
    ASSUME VerifierInv, VerifierInv', [Next]_vars, NEW k \in Keys, InScope(scope, k), Walkable(copy, unknown, k)
    PROVE  Walkable(copy', unknown', k)
<1>1. Off(unknown, k)
  BY CopyPart, WalkableOff
<1>2. Part(copy', unknown')
  <2>1. (VerifierInv => Part(copy, unknown))'
    BY CopyPart, PTL
  <2> QED BY <2>1
<1>3. Off(unknown', k)
  <2>1. CASE UNCHANGED vars
    BY <1>1, <2>1 DEF vars
  <2>2. CASE Next
    <3>1. ASSUME NEW u \in Updates, Broadcast(u) PROVE Off(unknown', k)
      BY <1>1, <3>1 DEF Broadcast, mine
    <3>2. ASSUME NEW p \in Proofs, NEW a \in Arriving(p), Verify(a) PROVE Off(unknown', k)
      BY <1>1, <3>2, OffVerify
    <3>3. ASSUME NEW m \in sent, Prepare(m) PROVE Off(unknown', k)
      BY <1>1, <3>3, OffPrepare
    <3>4. ASSUME NEW m \in sent, Direct(m) PROVE Off(unknown', k)
      BY <1>1, <3>4, OffDirect
    <3>5. ASSUME NEW m \in prepared, Apply(m) PROVE Off(unknown', k)
      BY <1>1, <3>5, OffApply
    <3>6. ASSUME Begin PROVE Off(unknown', k)
      BY <1>1, <3>6 DEF Begin
    <3>7. ASSUME Rollback PROVE Off(unknown', k)
      BY <1>1, <3>7 DEF Rollback
    <3>8. ASSUME End PROVE Off(unknown', k)
      BY <1>1, <3>8, OffEnd
    <3> QED BY <2>2, <3>1, <3>2, <3>3, <3>4, <3>5, <3>6, <3>7, <3>8 DEF Next
  <2> QED BY <2>1, <2>2
<1> QED BY <1>2, <1>3, WalkableOff

\* Once a verifier can make a call on a key of its scope without a proof, it
\* always can: no proof that arrives (Verify, Prepare), no call and no Collect
\* of End, Apply or a direct call takes a node away that the walk to such a key
\* meets, since match compares all bits of a path but the last two and so also
\* keeps the siblings next to the way.
THEOREM VerifierScopeKept == Spec /\ [][SetsUnmoved]_vars => ScopeKept
<1> DEFINE ReachKept == \A k \in Keys :
          /\ \E m \in scope : IsPrefix(m, PathOf[k])
          /\ Walkable(copy, unknown, k)
          => Walkable(copy', unknown', k)
<1>1. VerifierInv /\ VerifierInv' /\ [Next]_vars => [ReachKept]_vars
  <2> SUFFICES ASSUME VerifierInv, VerifierInv', [Next]_vars PROVE ReachKept
    OBVIOUS
  <2> QED BY NextScope DEF InScope
<1>2. Spec /\ [][SetsUnmoved]_vars => [][ReachKept]_vars
  <2> HIDE DEF ReachKept
  <2> QED BY <1>1, InitLegible, NextInvVerifier, PTL DEF Spec
<1> QED BY <1>2 DEF ScopeKept


-----------------------------------------------------------------------------
(* Following the server *)

\* Where the labels of two trees agree at the root, they agree everywhere.
LEMMA SameRootNodes ==
    ASSUME NEW T, Pure(T), NEW B, Pure(B), T[Root].label = B[Root].label
    PROVE  \A q \in DOMAIN T : q \in DOMAIN B /\ T[q].label = B[q].label
<1> DEFINE X == {n \in Nat : \A q \in DOMAIN T : Size(q) = n => q \in DOMAIN B /\ T[q].label = B[q].label}
<1>1. /\ Shape(T) /\ \A q \in DOMAIN T : UpToDate(T, q)
      /\ Shape(B) /\ \A q \in DOMAIN B : UpToDate(B, q)
  BY DEF Pure, Regular
<1>2. 0 \in X
  <2>1. \A q \in DOMAIN T : Size(q) = 0 => q = Root
    BY <1>1, RootOnly DEF Shape
  <2>2. Root \in DOMAIN B
    BY <1>1, ShapeRoot
  <2> QED BY <2>1, <2>2
<1>3. ASSUME NEW n \in X
      PROVE  n + 1 \in X
  <2> SUFFICES ASSUME NEW q \in DOMAIN T, Size(q) = n + 1
      PROVE  q \in DOMAIN B /\ T[q].label = B[q].label
    OBVIOUS
  <2> DEFINE a == Parent(q)
             b == q[Size(q)]
             d == dumpNode(T, a)
  <2>1. q \in Path /\ n \in Nat /\ Size(q) # 0
    BY <1>1 DEF Shape
  <2>2. a \in Path /\ Size(a) = n /\ b \in Bit /\ q = Child(a, b)
    <3>1. a \in Path /\ Size(a) = Size(q) - 1 /\ b \in Bit /\ q = Child(a, b)
      BY <2>1, ParentFacts
    <3> HIDE DEF a, b
    <3> QED BY <2>1, <3>1
  <2> HIDE DEF a, b
  <2>3. On(a, q)
    BY <2>2, OnChild
  <2>4. a \in DOMAIN T
    BY <1>1, <2>2, <2>3 DEF Shape
  <2>5. a \in DOMAIN B /\ T[a].label = B[a].label
    BY <1>3, <2>2, <2>4
  <2>6. consistent(d) /\ d.label = T[a].label
    BY <1>1, <2>4, DumpConsistent
  <2>7. Tells(d, T, a) /\ Tells(d, B, a)
    BY <1>1, <2>4, <2>5, <2>6, AgreeTells DEF Agrees
  <2> HIDE DEF d
  <2>8. ~IsLeaf(T, a)
    BY <1>1, <2>2, <2>4, ShapeInner
  <2>9. ~IsLeaf(B, a)
    BY <2>7, <2>8 DEF Tells
  <2>10. q \in DOMAIN B
    BY <1>1, <2>2, <2>5, <2>9, ShapeInner
  <2>11. T[q].label = B[q].label
    BY <2>2, <2>7, <2>8, <2>9 DEF Tells, Bit
  <2> QED BY <2>10, <2>11
<1>4. X \in SUBSET Nat
  OBVIOUS
<1> HIDE DEF X
<1>5. X = Nat
  BY <1>2, <1>3, <1>4, Ind!SetInduction
<1>6. \A q \in DOMAIN T : Size(q) \in Nat
  BY <1>1 DEF Shape
<1> QED BY <1>5, <1>6 DEF X

\* So they have the same associations.
LEMMA SameRoot ==
    ASSUME NEW T, Pure(T), NEW B, Pure(B), T[Root].label = B[Root].label
    PROVE  Contents(T) = Contents(B)
<1>1. DOMAIN B = DOMAIN T /\ \A q \in DOMAIN T : T[q].label = B[q].label
  <2>1. \A q \in DOMAIN T : q \in DOMAIN B /\ T[q].label = B[q].label
    BY SameRootNodes
  <2>2. \A q \in DOMAIN B : q \in DOMAIN T /\ B[q].label = T[q].label
    BY SameRootNodes
  <2> QED BY <2>1, <2>2
<1>2. /\ Shape(T) /\ \A q \in DOMAIN T : UpToDate(T, q)
      /\ Shape(B) /\ \A q \in DOMAIN B : UpToDate(B, q)
      /\ Regular(T) /\ Regular(B)
  BY DEF Pure, Regular
<1>3. ASSUME NEW q \in DOMAIN T
      PROVE  B[q].key = T[q].key /\ (IsLeaf(T, q) => B[q].values = T[q].values)
  <2> DEFINE d == dumpNode(T, q)
  <2>1. consistent(d) /\ d.label = T[q].label
    BY <1>2, DumpConsistent
  <2>2. Tells(d, T, q) /\ Tells(d, B, q)
    BY <1>1, <1>2, <2>1, AgreeTells DEF Agrees
  <2> HIDE DEF d
  <2>3. CASE IsLeaf(T, q)
    BY <2>2, <2>3 DEF Tells
  <2>4. CASE ~IsLeaf(T, q)
    <3>1. ~IsLeaf(B, q)
      BY <1>1, <2>4 DEF IsLeaf
    <3>2. T[q].key = NoKey /\ B[q].key = NoKey
      BY <1>1, <1>2, <2>4, <3>1 DEF Regular
    <3> QED BY <2>4, <3>2
  <2> QED BY <2>3, <2>4
<1> QED BY <1>1, <1>2, <1>3, SameContents

\* The associations are those of a tree, and the root has the label of the
\* full tree with them.
LEMMA LegibleRoot ==
    ASSUME NEW C, NEW U, NEW D, NEW A, NEW Z, Legible(C, U, D, A, Z)
    PROVE  /\ Pure(Built(A)) /\ Contents(Built(A)) = A
           /\ C[Root].label = Built(A)[Root].label
<1>1. PICK G : Calm(G) /\ Contents(G) = A /\ Knows(C, U, G, Unmarked)
  BY DEF Legible, PartOf
<1>2. DOMAIN A \in SUBSET Keys /\ A = [c \in DOMAIN A |-> A[c]]
  <2>1. Regular(G)
    BY <1>1 DEF Calm, Pure
  <2> QED BY <1>1, <2>1, ContentsFacts
<1>3. Root \in DOMAIN C
  BY <1>1, PartFacts
<1>4. C[Root].label = Built(A)[Root].label
  BY <1>3, LegibleTells
<1> QED BY <1>2, <1>4, BuiltFacts

\* A full tree knows itself.
LEMMA StillLegible ==
    ASSUME NEW T, Still(T)
    PROVE  Legible(T, {}, Nothing, Contents(T), Contents(T))
<1>1. Calm(T) /\ Shape(T) /\ Clean(T) /\ Sound(T)
  BY DEF Still, Calm, Pure, Regular
<1>2. Root \in DOMAIN T
  BY <1>1, ShapeRoot
<1>3. Part(T, {})
  BY <1>1, <1>2 DEF Part, Clean
<1>4. Knows(T, {}, T, Unmarked)
  BY <1>3 DEF Knows, LeavesOf, InnerOf, LabelsOf, SameAt
<1> QED BY <1>1, <1>4, NoneAtAll DEF Legible, PartOf

\* What a call does to the associations when its walk meets known nodes only.
PlainNote(A, op) == IF (op.name = "Add") # (op.key \in DOMAIN A) THEN Noted(A, op) ELSE A

\* The same for the calls of an update, in turn.
PlainAll(A, ops) == FoldLeft(PlainNote, A, ops)

\* PlainAll as a fold, for its steps.
Plainly == INSTANCE Folding WITH Op <- PlainNote

\* PlainAll goes call by call.
LEMMA PlainSteps ==
    ASSUME NEW A, NEW S, NEW ops \in Seq(S), NEW n \in 0..Len(ops) - 1
    PROVE  PlainAll(A, SubSeq(ops, 1, n + 1)) = PlainNote(PlainAll(A, SubSeq(ops, 1, n)), ops[n + 1])
<1> DEFINE m == n + 1
<1>1. m \in 1..Len(ops) /\ m - 1 = n
  OBVIOUS
<1>2. \A o : PlainAll(A, o) = Plainly!Fold(A, o)
  BY Zenon DEF PlainAll, Plainly!Fold, Plainly!FoldLeft, FoldLeft, Plainly!MapThenFoldSet, MapThenFoldSet, Plainly!Max, Max
<1> HIDE DEF m
<1>3. Plainly!Fold(A, SubSeq(ops, 1, m)) = PlainNote(Plainly!Fold(A, SubSeq(ops, 1, m - 1)), ops[m])
  BY <1>1, Plainly!FoldStep
<1>4. PlainAll(A, SubSeq(ops, 1, m)) = PlainNote(PlainAll(A, SubSeq(ops, 1, n)), ops[m])
  BY <1>1, <1>2, <1>3
<1> QED BY <1>4 DEF m

\* No call changes nothing.
LEMMA PlainNone ==
    ASSUME NEW A
    PROVE  PlainAll(A, << >>) = A
<1>1. PlainAll(A, << >>) = Plainly!Fold(A, << >>)
  BY Zenon DEF PlainAll, Plainly!Fold, Plainly!FoldLeft, FoldLeft, Plainly!MapThenFoldSet, MapThenFoldSet, Plainly!Max, Max
<1>2. Plainly!Fold(A, << >>) = A
  BY Plainly!FoldEmpty
<1> QED BY <1>1, <1>2

\* What the walk to a key that can be reached says of the associations.
LEMMA WalkTells ==
    ASSUME NEW C, NEW U, NEW F, Calm(F), NEW tx, Knows(C, U, F, tx), NEW k \in Keys, Off(U, k)
    PROVE  /\ Walkable(C, U, k)
           /\ C[Landing(C, k)].key = k <=> k \in DOMAIN Contents(F)
<1>1. Shape(F) /\ Regular(F)
  BY DEF Calm, Pure, Regular
<1>2. Walkable(C, U, k)
  BY WalkableOff DEF Knows
<1>3. Walked(C, U, F, k, Landing(C, k))
  BY <1>1, <1>2, WalkEnds
<1>4. C[Landing(C, k)].key = F[Landing(F, k)].key
  BY <1>3 DEF Walked
<1>5. Found(F, k) <=> F[Landing(F, k)].key = k
  BY <1>1, FoundIs
<1>6. k \in DOMAIN Contents(F) <=> Found(F, k)
  BY DEF Contents, Stored
<1> QED BY <1>2, <1>4, <1>5, <1>6

\* So it does in a partial tree what it does in a full one.
LEMMA PlainSucceeds ==
    ASSUME NEW C, NEW U, NEW A, NEW s, NEW op, NEW tx \in BOOLEAN,
           C = s.tree, PartOf(C, U, A, tx), s.unknown = U, IsCall(op), Off(U, op.key)
    PROVE  NoteOf(s, A, op) = PlainNote(A, op)
<1> DEFINE k == op.key
<1>1. PICK F : Calm(F) /\ Contents(F) = A /\ Knows(C, U, F, tx)
  BY DEF PartOf
<1>2. k \in Keys
  BY DEF IsCall
<1>3. Walkable(C, U, k) /\ (C[Landing(C, k)].key = k <=> k \in DOMAIN A)
  BY <1>1, <1>2, WalkTells
<1>4. Succeeds(s, op) <=> ((op.name = "Add") # (k \in DOMAIN A))
  BY <1>3 DEF Succeeds
<1> QED BY <1>4 DEF NoteOf, PlainNote

\* The tree between the calls is a part of a full one.
LEMMA TracksPart ==
    ASSUME NEW any, NEW s, NEW U, NEW B, NEW A, NEW Z, NEW tx, Tracks(any, s, U, B, A, Z, tx)
    PROVE  PartOf(s.tree, U, A, tx) /\ s.unknown = U
<1> DEFINE C == s.tree
           D == s.detached
<1>1. s = State(C, D, U) /\ PartOf(C, U, A, tx)
  BY DEF Tracks
<1> HIDE DEF C, D
<1>2. s.unknown = U
  BY <1>1, StateFields
<1> QED BY <1>1, <1>2 DEF C

\* Every key of an update can be reached.
AllOff(U, ops) == \A n \in DOMAIN ops : Off(U, ops[n].key)

\* Of the calls on these keys succeed those that would in the full tree.
NotesPlainly(any, s, U, B, A, Z, tx, ops) == NotedAll(A, s, ops) = PlainAll(A, ops)

\* An update of which all keys can be reached does what it does in a full tree.
LEMMA NotedPlain ==
    ASSUME NEW any \in BOOLEAN, NEW s, NEW U, NEW B, NEW A, NEW Z, NEW tx \in BOOLEAN, tx,
           Tracks(any, s, U, B, A, Z, tx), NEW ops, AllCalls(ops), any \/ UnmovedAll(s, ops),
           AllOff(U, ops)
    PROVE  NotesPlainly(any, s, U, B, A, Z, tx, ops)
<1>0. tx = Open
  BY DEF Open
<1>1. PICK S : ops \in Seq(S) /\ \A op \in S : IsCall(op)
  BY DEF AllCalls
<1> DEFINE M == Len(ops)
           T(n) == NotedBoth(A, s, SubSeq(ops, 1, n))
           OK(n) == T(n).assoc = PlainAll(A, SubSeq(ops, 1, n))
           W == {n \in 0..M : OK(n)}
<1>2. M \in Nat /\ SubSeq(ops, 1, M) = ops /\ SubSeq(ops, 1, 0) = << >>
  BY <1>1, WholeSeq
<1>3. 0 \in W
  <2>1. T(0).assoc = A
    BY <1>2, NotedNone
  <2>2. PlainAll(A, SubSeq(ops, 1, 0)) = A
    BY <1>2, PlainNone
  <2> HIDE DEF T
  <2> QED BY <1>2, <2>1, <2>2
<1>4. ASSUME NEW n \in 0..M - 1, n \in W
      PROVE  n + 1 \in W
  <2> DEFINE a == T(n).state
             C == T(n).assoc
             op == ops[n + 1]
  <2>1. n + 1 \in 0..M /\ n + 1 \in DOMAIN ops /\ n \in 0..M
    BY <1>1, <1>2, <1>4
  <2>2. Tracks(any, a, U, B, C, Z, Open)
    BY <1>0, <2>1, PrefixTracks
  <2>3. IsCall(op) /\ Off(U, op.key)
    BY <1>1, <2>1 DEF AllOff
  <2>4. T(n + 1) = NoteOne(T(n), op)
    BY <1>1, NotedSteps
  <2>5. PlainAll(A, SubSeq(ops, 1, n + 1)) = PlainNote(PlainAll(A, SubSeq(ops, 1, n)), op)
    BY <1>1, PlainSteps
  <2>6. T(n + 1).assoc = NoteOf(a, C, op)
    <3> HIDE DEF op
    <3> QED BY <2>4 DEF NoteOne, NoteOf
  <2>7. C = PlainAll(A, SubSeq(ops, 1, n))
    BY <1>4
  <2> HIDE DEF a, C, op, T
  <2>8. NoteOf(a, C, op) = PlainNote(C, op)
    <3>1. PartOf(a.tree, U, C, Open) /\ a.unknown = U
      BY <2>2, TracksPart
    <3>2. tx \in BOOLEAN /\ PartOf(a.tree, U, C, tx) /\ a.unknown = U
      BY <1>0, <3>1
    <3> QED BY ONLY <2>3, <3>2, PlainSucceeds
  <2> QED BY <2>1, <2>5, <2>6, <2>7, <2>8
<1> HIDE DEF W
<1>5. 0..M \subseteq W
  BY <1>2, <1>3, <1>4, Ind!BoundedInduction
<1>6. OK(M)
  <2>1. M \in W
    BY <1>2, <1>5
  <2> HIDE DEF OK
  <2> QED BY <2>1 DEF W
<1>7. T(M) = NotedBoth(A, s, ops) /\ NotedAll(A, s, ops) = NotedBoth(A, s, ops).assoc
  BY <1>2, NotedFold
<1>8. NotedAll(A, s, ops) = PlainAll(A, ops)
  BY <1>2, <1>6, <1>7
<1> HIDE DEF T, OK, M
<1> QED BY ONLY <1>8 DEF NotesPlainly

\* An update changes the label of the root as it changes the associations.
LEMMA EndedLabel ==
    ASSUME NEW C, NEW U, NEW A, NEW Z, Legible(C, U, Nothing, A, Z), NEW ops, AllCalls(ops),
           AllOff(U, ops), NEW S
    PROVE  LET s == Applied(State(C, Nothing, U), ops)
               K == PlainAll(A, ops)
           IN  /\ Ended(s, S).tree[Root].label = Built(K)[Root].label
               /\ Contents(Built(K)) = K
<1> DEFINE b == State(C, Nothing, U)
           s == Applied(b, ops)
           K == PlainAll(A, ops)
           c == Collect(FixedKnown(Confirmed(s.tree), U), U, S)
<1>1. Tracks(Whatever, b, U, C, A, Z, Open)
  BY LegibleTracks
<1>2. NotedAll(A, b, ops) = K
  <2> HIDE DEF b
  <2>1. NotesPlainly(Whatever, b, U, C, A, Z, Open, ops)
    BY <1>1, NotedPlain
  <2> QED BY <2>1 DEF NotesPlainly
<1>3. Tracks(Whatever, s, U, C, K, Z, Open)
  BY <1>1, <1>2, AppliedTracks
<1> HIDE DEF b, s, K
<1>4. s.unknown = U
  <2> DEFINE T == s.tree
             D == s.detached
  <2>1. s = State(T, D, U)
    BY <1>3 DEF Tracks
  <2> HIDE DEF T, D
  <2> QED BY <2>1, StateFields
<1>5. Ended(s, S) = c
  BY <1>4 DEF Ended
<1>6. Legible(c.tree, c.unknown, Nothing, K, K)
  BY <1>3, TracksEnds
<1> HIDE DEF c
<1>7. Contents(Built(K)) = K /\ c.tree[Root].label = Built(K)[Root].label
  BY <1>6, LegibleRoot
<1>8. Ended(s, S).tree[Root].label = Built(K)[Root].label /\ Contents(Built(K)) = K
  BY <1>5, <1>7
<1> QED BY <1>8 DEF s, b, K

\* How Broadcast makes a message, with S as the tree of the server.
SentFrom(m, S) ==
    /\ Still(S)
    /\ m.update \in Updates
    /\ Check(S, {}, m.update)
    /\ m.records = [k \in DOMAIN m.update.need |-> Proof(S, k)]
    /\ m.after = Ended(Applied(State(S, Nothing, {}), m.update.ops), {<< >>}).tree[Root].label

\* The keys of an update are those of its records.
LEMMA SentKeys ==
    ASSUME NEW m, NEW S, SentFrom(m, S)
    PROVE  /\ DOMAIN m.records = DOMAIN m.update.need /\ DOMAIN m.records \subseteq Keys
           /\ AllCalls(m.update.ops)
           /\ \A n \in DOMAIN m.update.ops : m.update.ops[n].key \in DOMAIN m.records
<1> DEFINE u == m.update
<1>1. u \in Updates /\ DOMAIN m.records = DOMAIN u.need
  BY DEF SentFrom
<1>2. /\ DOMAIN u.need \subseteq Keys
      /\ u.ops \in Seq([name   : {"Add", "Set", "Remove"},
                        key    : DOMAIN u.need,
                        values : [Fields -> Values]])
  BY <1>1, UpdateAssumption
<1>3. AllCalls(u.ops)
  BY <1>1, UpdateCalls
<1>4. \A n \in DOMAIN u.ops : u.ops[n].key \in DOMAIN u.need
  <2> DEFINE R == [name   : {"Add", "Set", "Remove"},
                   key    : DOMAIN u.need,
                   values : [Fields -> Values]]
  <2>1. \A r \in R : r.key \in DOMAIN u.need
    OBVIOUS
  <2>2. u.ops \in Seq(R)
    BY <1>2
  <2> HIDE DEF R, u
  <2>3. \A n \in DOMAIN u.ops : u.ops[n] \in R
    BY <2>2
  <2> QED BY <2>1, <2>3
<1> QED BY <1>1, <1>2, <1>3, <1>4

\* The state a message leads to.
LEMMA SentAfter ==
    ASSUME NEW m, NEW S, SentFrom(m, S)
    PROVE  m.after = Built(PlainAll(Contents(S), m.update.ops))[Root].label
<1>1. Legible(S, {}, Nothing, Contents(S), Contents(S))
  BY StillLegible DEF SentFrom
<1>2. AllOff({}, m.update.ops)
  BY DEF Off, AllOff
<1>3. AllCalls(m.update.ops)
  BY SentKeys
<1> QED BY <1>1, <1>2, <1>3, EndedLabel DEF SentFrom

\* The state a message starts from: whoever has the label of its proofs has
\* the associations the server had.
LEMMA SentStart ==
    ASSUME NEW m, NEW S, SentFrom(m, S), NEW k \in DOMAIN m.records,
           NEW C, NEW U, NEW D, NEW A, NEW Z, Legible(C, U, D, A, Z),
           m.records[k].root.label = C[Root].label
    PROVE  A = Contents(S)
<1>1. Pure(S) /\ Shape(S) /\ \A q \in DOMAIN S : UpToDate(S, q)
  BY DEF SentFrom, Still, Pure, Regular
<1>2. k \in Keys /\ m.records[k] = Proof(S, k)
  BY SentKeys DEF SentFrom
<1>3. Proof(S, k).root = dumpNode(S, Root)
  BY <1>1, <1>2, ProofForm
<1>4. Proof(S, k).root.label = S[Root].label
  BY <1>3 DEF dumpNode
<1>5. Pure(Built(A)) /\ Contents(Built(A)) = A /\ C[Root].label = Built(A)[Root].label
  BY LegibleRoot
<1>6. Built(A)[Root].label = S[Root].label
  BY <1>2, <1>4, <1>5
<1> QED BY <1>1, <1>5, <1>6, SameRoot

\* proxy.Get tells of a key that can be reached whether it is there.
LEMMA GetTells ==
    ASSUME NEW C, NEW U, NEW D, NEW A, NEW Z, Legible(C, U, D, A, Z), NEW k \in Keys, Off(U, k)
    PROVE  Get(C, U, k) = (k \in DOMAIN A)
<1>1. PICK F : Calm(F) /\ Contents(F) = A /\ Knows(C, U, F, Unmarked)
  BY DEF Legible, PartOf
<1>2. Walkable(C, U, k) /\ (C[Landing(C, k)].key = k <=> k \in DOMAIN A)
  BY <1>1, WalkTells
<1>3. Known(C, U, k)
  BY <1>2 DEF Walkable, Known
<1>4. Get(C, U, k) <=> C[Landing(C, k)].key = k
  BY <1>3 DEF Get
<1> QED BY <1>2, <1>4 DEF Get

\* A message that starts from the state of the verifier is accepted, and
\* takes it where it took the server.
LEMMA Transfers ==
    ASSUME VerifierInv, Usable \/ ~ongoing, NEW m \in sent, NEW S, SentFrom(m, S), DOMAIN m.records # {}, Fresh(m)
    PROVE  LET l == LearnedAll(copy, unknown, Range(m.records))
           IN  /\ \A k \in DOMAIN m.records : Verified(copy, m.records[k])
               /\ Check(l.tree, l.unknown, m.update)
               /\ Ended(Applied(State(l.tree, Nothing, l.unknown), m.update.ops), scope)
                     .tree[Root].label = m.after
<1> DEFINE P == Range(m.records)
           l == LearnedAll(copy, unknown, P)
           L == l.tree
           V == l.unknown
<1>1. Legible(copy, unknown, detached, stored, atBegin)
  BY UsableLegible
<1>2. Pure(S) /\ Shape(S) /\ \A q \in DOMAIN S : UpToDate(S, q)
  BY DEF SentFrom, Still, Pure, Regular
<1>3. /\ DOMAIN m.records = DOMAIN m.update.need /\ DOMAIN m.records \subseteq Keys
      /\ AllCalls(m.update.ops)
      /\ \A n \in DOMAIN m.update.ops : m.update.ops[n].key \in DOMAIN m.records
  BY SentKeys
<1>4. ASSUME NEW k \in DOMAIN m.records
      PROVE  Verified(copy, m.records[k]) /\ m.records[k].key = k
  <2>1. m.records[k] = Proof(S, k) /\ k \in Keys
    BY <1>3 DEF SentFrom
  <2>2. Consistent(Proof(S, k)) /\ Proof(S, k).key = k
    BY <1>2, <2>1, ProofForm
  <2>3. m.records[k].root.label = copy[Root].label
    BY DEF Fresh
  <2> QED BY <2>1, <2>2, <2>3 DEF Verified
<1>5. stored = Contents(S)
  <2>1. PICK k \in DOMAIN m.records : TRUE
    OBVIOUS
  <2>2. m.records[k].root.label = copy[Root].label
    BY DEF Fresh
  <2> QED BY <1>1, <2>1, <2>2, SentStart
<1>6. IsFiniteSet(P) /\ \A p \in P : Usual(p) /\ Verified(copy, p)
  <2>1. MessageOK(m)
    BY DEF VerifierInv
  <2>2. IsFiniteSet(P) /\ \A p \in P : Posted(p)
    BY <2>1, RecordsFinite
  <2>3. \A p \in P : Verified(copy, p)
    BY <1>4 DEF Range
  <2> QED BY <2>2, <2>3, PostedUsual
<1>7. Legible(L, V, detached, stored, atBegin)
  BY <1>1, <1>6, LegibleLearns
<1>8. Legible(L, V, Nothing, stored, stored)
  BY <1>7, NoneAtAll DEF Legible
<1>9. \A k \in DOMAIN m.records : Off(V, k)
  <2>1. PICK F : Calm(F) /\ Knows(copy, unknown, F, Unmarked) /\ Exact(copy, unknown, F)
    BY <1>1, LegibleOf
  <2>2. Clean(copy)
    BY <1>1 DEF Legible
  <2>3. \A p \in P : Off(V, p.key)
    BY <1>6, <2>1, <2>2, OffLearnedAll
  <2>4. \A k \in DOMAIN m.records : m.records[k] \in P
    BY DEF Range
  <2> HIDE DEF P, V
  <2> QED BY <1>4, <2>3, <2>4
<1> HIDE DEF L, V, P
<1>10. Check(L, V, m.update)
  <2> SUFFICES ASSUME NEW k \in DOMAIN m.update.need PROVE Get(L, V, k) = m.update.need[k]
    BY DEF Check
  <2>1. k \in Keys /\ Off(V, k)
    BY <1>3, <1>9
  <2>2. Get(L, V, k) = (k \in DOMAIN stored)
    BY <1>8, <2>1, GetTells
  <2>3. Legible(S, {}, Nothing, Contents(S), Contents(S))
    BY StillLegible DEF SentFrom
  <2>4. Off({}, k)
    BY DEF Off
  <2>5. Get(S, {}, k) = (k \in DOMAIN Contents(S))
    BY <2>1, <2>3, <2>4, GetTells
  <2>6. Get(S, {}, k) = m.update.need[k]
    BY DEF SentFrom, Check
  <2> QED BY <1>5, <2>2, <2>5, <2>6
<1>11. Ended(Applied(State(L, Nothing, V), m.update.ops), scope).tree[Root].label = m.after
  <2>1. AllOff(V, m.update.ops)
    BY <1>3, <1>9 DEF AllOff
  <2>2. Ended(Applied(State(L, Nothing, V), m.update.ops), scope).tree[Root].label
          = Built(PlainAll(stored, m.update.ops))[Root].label
    BY <1>3, <1>8, <2>1, EndedLabel
  <2> QED BY <1>5, <2>2, SentAfter
<1> QED BY <1>4, <1>10, <1>11 DEF L, V, P

\* Each message was made by Broadcast, from a tree the server had.
SentOK == \A m \in sent : \E S : SentFrom(m, S)

\* So it stays: what is broadcast is never changed.
LEMMA NextSent ==
    ASSUME Still(server), SentOK, [Next]_vars
    PROVE  SentOK'
<1>1. CASE sent' = sent
  BY <1>1 DEF SentOK
<1>2. ASSUME NEW u \in Updates, Broadcast(u)
      PROVE  SentOK'
  <2> DEFINE a == server'[Root].label
             m == [update  |-> u,
                   records |-> [k \in DOMAIN u.need |-> Proof(server, k)],
                   after   |-> a,
                   header  |-> GetRoot(server')]
  <2>1. sent' = sent \cup {m} /\ Check(server, {}, u)
    BY <1>2 DEF Broadcast
  <2>2. m.update = u /\ m.records = [k \in DOMAIN u.need |-> Proof(server, k)] /\ m.after = a
    OBVIOUS
  <2>3. a = Ended(Applied(State(server, Nothing, {}), u.ops), {<< >>}).tree[Root].label
    BY <1>2 DEF Broadcast
  <2> HIDE DEF m, a
  <2>4. SentFrom(m, server)
    BY <2>1, <2>2, <2>3 DEF SentFrom
  <2> QED BY <2>1, <2>4 DEF SentOK
<1> QED BY <1>1, <1>2, ServerSteps

\* A broadcast update that starts from the state of the verifier is accepted
\* with its proofs alone (Prepare: Verify of each, then Check through
\* proxy.Get), and its calls, fix and Collect (Apply, End) lead to the label
\* that the server broadcast (Broadcast).  SetsUnmoved is the condition of
\* VerifierKnowsTruth.
THEOREM VerifierUpdatesTransfer == Spec /\ [][SetsUnmoved]_vars => []UpdatesTransfer
<1>1. VerifierInv /\ SentOK => UpdatesTransfer
  <2> SUFFICES ASSUME VerifierInv, SentOK, ~ongoing, Usable, NEW m \in sent, DOMAIN m.records # {}, Fresh(m)
      PROVE  LET l == LearnedAll(copy, unknown, Range(m.records))
             IN  /\ \A k \in DOMAIN m.records : Verified(copy, m.records[k])
                 /\ Check(l.tree, l.unknown, m.update)
                 /\ Ended(Applied(State(l.tree, Nothing, l.unknown), m.update.ops), scope)
                       .tree[Root].label = m.after
    BY DEF UpdatesTransfer
  <2>1. PICK S : SentFrom(m, S)
    BY DEF SentOK
  <2> QED BY <2>1, Transfers
<1>2. Init => SentOK
  BY DEF Init, SentOK
<1>3. VerifierInv /\ SentOK /\ [Next]_vars => SentOK'
  BY NextSent DEF VerifierInv
<1> QED BY <1>1, <1>2, <1>3, InitLegible, NextInvVerifier, PTL DEF Spec

\* The verifier still shows the state of Begin.
Shows(C, U, D, A, Z) ==
    \E B : /\ Tracks(Unmarked, State(C, D, U), U, B, A, Z, Open)
           /\ Legible(B, U, Nothing, Z, Z)
           /\ C[Root].label = B[Root].label

\* So it does throughout a transaction.
LEMMA PendingRoot ==
    ASSUME NEW C, NEW U, NEW D, NEW A, NEW Z, Pending(C, U, D, A, Z)
    PROVE  Shows(C, U, D, A, Z)
<1>1. PICK B : Tracks(Unmarked, State(C, D, U), U, B, A, Z, Open) /\ Legible(B, U, Nothing, Z, Z)
  BY DEF Pending
<1> DEFINE s == State(C, D, U)
<1>2. s.tree = C /\ s.detached = D
  BY StateFields
<1>3. Tracks(Unmarked, s, U, B, A, Z, Open)
  BY <1>1
<1> HIDE DEF s
<1>4. Restorable(Unmarked, C, D, U, B) /\ PartOf(C, U, A, Open)
  BY <1>2, <1>3 DEF Tracks
<1>5. Root \in DOMAIN C /\ C[Root].backup = {}
  BY <1>4 DEF PartOf, Knows, Part
<1>6. C[Root].label = B[Root].label
  BY <1>4, <1>5, UnmarkedType, UndoneRoot
<1> QED BY <1>1, <1>6 DEF Shows

\* The full tree with the associations A has the label of a state the server
\* was in, M being what it has broadcast.
Follows(M, A) == Built(A)[Root].label \in {EmptyTree[Root].label} \cup {m.after : m \in M}

\* An update all of which is done takes what has the label of its proofs to
\* the state the server reached.
LEMMA FreshFollows ==
    ASSUME NEW M, NEW m \in M, NEW S, SentFrom(m, S),
           NEW C, NEW U, NEW D, NEW A, NEW Z, Legible(C, U, D, A, Z),
           \A k \in DOMAIN m.records : m.records[k].root.label = C[Root].label, Follows(M, A)
    PROVE  Follows(M, PlainAll(A, m.update.ops))
<1> DEFINE ops == m.update.ops
<1>1. AllCalls(ops) /\ \A n \in DOMAIN ops : ops[n].key \in DOMAIN m.records
  BY SentKeys
<1>2. CASE DOMAIN m.records = {}
  <2>1. PICK X : ops \in Seq(X)
    BY <1>1 DEF AllCalls
  <2>2. ops = << >>
    <3>1. DOMAIN ops = {}
      BY <1>1, <1>2
    <3> HIDE DEF ops
    <3> QED BY <2>1, <3>1
  <2>3. PlainAll(A, ops) = A
    BY <2>2, PlainNone
  <2> QED BY <2>3
<1>3. ASSUME NEW k \in DOMAIN m.records
      PROVE  Follows(M, PlainAll(A, ops))
  <2>1. A = Contents(S)
    BY <1>3, SentStart
  <2>2. m.after = Built(PlainAll(A, ops))[Root].label
    BY <2>1, SentAfter
  <2> QED BY <2>2 DEF Follows
<1> QED BY <1>2, <1>3

\* What Prepare learned is within reach.
LEMMA ReadyOff ==
    ASSUME VerifierInv, NEW m, NEW S, SentFrom(m, S), Ready(m)
    PROVE  AllOff(unknown, m.update.ops)
<1>1. /\ DOMAIN m.records = DOMAIN m.update.need /\ DOMAIN m.records \subseteq Keys
      /\ \A n \in DOMAIN m.update.ops : m.update.ops[n].key \in DOMAIN m.records
  BY SentKeys
<1>2. Part(copy, unknown)
  BY CopyPart
<1>3. ASSUME NEW k \in DOMAIN m.update.need
      PROVE  Off(unknown, k)
  <2>1. k \in Keys /\ Walkable(copy, unknown, k)
    BY <1>1 DEF Ready
  <2> QED BY <1>2, <2>1, WalkableOff
<1> QED BY <1>1, <1>3 DEF AllOff

\* The associations of the verifier, and those it has at Begin, are of such a
\* state, unless a prepared update was applied where it was not made for.
FollowInv == ~mixed => Follows(sent, stored) /\ Follows(sent, atBegin)

\* After Apply, in a transaction or outside one.
LEMMA FollowApply ==
    ASSUME VerifierInv, SentOK, FollowInv, NEW m \in prepared, Apply(m),
           ongoing => UnmovedAll(Now, m.update.ops)
    PROVE  FollowInv'
<1> DEFINE ops == m.update.ops
           A == NotedAll(stored, Now, ops)
<1>0. SUFFICES ASSUME ~mixed' PROVE Follows(sent', stored') /\ Follows(sent', atBegin')
  BY DEF FollowInv
<1>1. /\ ~mixed /\ Fresh(m) /\ Ready(m) /\ ~(ongoing /\ stored # atBegin)
      /\ sent' = sent /\ stored' = A
      /\ ((ongoing /\ atBegin' = atBegin) \/ (~ongoing /\ atBegin' = A))
  <2>1. ~mixed /\ Fresh(m) /\ Ready(m) /\ ~(ongoing /\ stored # atBegin) /\ sent' = sent
    BY <1>0 DEF Apply
  <2>2. CASE ongoing
    <3>1. stored' = A /\ atBegin' = atBegin
      BY <2>2 DEF Apply
    <3> QED BY <2>1, <2>2, <3>1
  <2>3. CASE ~ongoing
    <3>1. stored' = A /\ atBegin' = A
      BY <2>3 DEF Apply, Settle
    <3> QED BY <2>1, <2>3, <3>1
  <2> QED BY <2>2, <2>3
<1>2. m \in sent
  BY DEF VerifierInv
<1>3. PICK S : SentFrom(m, S)
  BY <1>2 DEF SentOK
<1>4. AllOff(unknown, ops) /\ AllCalls(ops)
  BY <1>1, <1>3, ReadyOff, SentKeys
<1>5. Follows(sent, stored) /\ Follows(sent, atBegin)
  BY <1>1 DEF FollowInv
<1>6. \A k \in DOMAIN m.records : m.records[k].root.label = copy[Root].label
  BY <1>1 DEF Fresh
<1> HIDE DEF A, ops
<1>7. Follows(sent, A)
  <2>1. CASE ongoing
    <3>1. stored = atBegin
      BY <1>1, <2>1
    <3>2. Pending(copy, unknown, detached, stored, atBegin)
      BY <2>1 DEF VerifierInv
    <3>7. Shows(copy, unknown, detached, stored, atBegin)
      BY <3>2, PendingRoot
    <3>3. PICK B : /\ Tracks(Unmarked, State(copy, detached, unknown), unknown, B, stored, atBegin, Open)
                   /\ Legible(B, unknown, Nothing, atBegin, atBegin)
                   /\ copy[Root].label = B[Root].label
      BY ONLY <3>7 DEF Shows
    <3>4. Follows(sent, PlainAll(atBegin, m.update.ops))
      BY <1>2, <1>3, <1>5, <1>6, <3>3, FreshFollows
    <3>5. NotesPlainly(Unmarked, Now, unknown, B, stored, atBegin, Open, ops)
      BY <1>4, <2>1, <3>3, UnmarkedType, NotedPlain DEF Now, ops
    <3>6. A = PlainAll(atBegin, ops)
      BY <3>1, <3>5 DEF NotesPlainly, A
    <3> QED BY <3>4, <3>6 DEF ops
  <2>2. CASE ~ongoing
    <3>1. Legible(copy, unknown, detached, stored, atBegin)
      BY <2>2, UsableLegible
    <3>2. Tracks(Whatever, Now, unknown, copy, stored, atBegin, Open)
      BY <3>1, LegibleTracks DEF Now
    <3>3. Follows(sent, PlainAll(stored, m.update.ops))
      BY <1>2, <1>3, <1>5, <1>6, <3>1, FreshFollows
    <3>4. NotesPlainly(Whatever, Now, unknown, copy, stored, atBegin, Open, ops)
      BY <1>4, <3>2, NotedPlain
    <3>5. A = PlainAll(stored, ops)
      BY <3>4 DEF NotesPlainly, A
    <3> QED BY <3>3, <3>5 DEF ops
  <2> QED BY <2>1, <2>2
<1> QED BY <1>1, <1>5, <1>7

\* After a call outside a transaction.
LEMMA FollowDirect ==
    ASSUME VerifierInv, SentOK, FollowInv, NEW m \in sent, Direct(m)
    PROVE  FollowInv'
<1> DEFINE ops == m.update.ops
           op == ops[1]
<1>0. SUFFICES ASSUME ~mixed' PROVE Follows(sent', stored') /\ Follows(sent', atBegin')
  BY DEF FollowInv
<1>1. /\ ~mixed /\ Fresh(m) /\ ~ongoing /\ Len(ops) = 1 /\ Succeeds(Now, op)
      /\ sent' = sent /\ stored' = Noted(stored, op) /\ atBegin' = Noted(stored, op)
  BY <1>0 DEF Direct, Settle
<1>2. Legible(copy, unknown, detached, stored, atBegin)
  BY <1>1, UsableLegible
<1>3. PICK S : SentFrom(m, S)
  BY DEF SentOK
<1>4. PICK X : ops \in Seq(X) /\ \A o \in X : IsCall(o)
  BY <1>3, SentKeys DEF AllCalls
<1>5. \A k \in DOMAIN m.records : m.records[k].root.label = copy[Root].label
  BY <1>1 DEF Fresh
<1>6. Follows(sent, PlainAll(stored, ops))
  <2>1. Follows(sent, stored)
    BY <1>1 DEF FollowInv
  <2> QED BY <1>2, <1>3, <1>5, <2>1, FreshFollows
<1>7. PlainAll(stored, ops) = PlainNote(stored, op)
  <2>1. SubSeq(ops, 1, 1) = ops /\ SubSeq(ops, 1, 0) = << >>
    BY <1>1, <1>4, WholeSeq
  <2>2. PlainAll(stored, SubSeq(ops, 1, 1)) = PlainNote(PlainAll(stored, SubSeq(ops, 1, 0)), ops[1])
    <3> DEFINE n == 0
    <3>1. n \in 0..Len(ops) - 1 /\ n + 1 = 1 /\ n = 0
      BY <1>1
    <3> HIDE DEF ops, n
    <3>2. PlainAll(stored, SubSeq(ops, 1, n + 1)) = PlainNote(PlainAll(stored, SubSeq(ops, 1, n)), ops[n + 1])
      BY ONLY <1>4, <3>1, PlainSteps
    <3> QED BY <3>1, <3>2
  <2>3. PlainAll(stored, << >>) = stored
    BY PlainNone
  <2> HIDE DEF ops
  <2> QED BY <2>1, <2>2, <2>3
<1>8. PlainNote(stored, op) = Noted(stored, op)
  <2>1. IsCall(op)
    BY <1>1, <1>4
  <2> HIDE DEF op, ops
  <2>2. Now.tree = copy /\ Now.unknown = unknown
    BY StateFields DEF Now
  <2>3. Off(unknown, op.key)
    <3>1. op.key \in Keys /\ Walkable(copy, unknown, op.key)
      BY <1>1, <2>1, <2>2 DEF IsCall, Succeeds
    <3> QED BY <3>1, CopyPart, WalkableOff
  <2>4. PartOf(copy, unknown, stored, Unmarked)
    BY <1>2 DEF Legible
  <2>5. NoteOf(Now, stored, op) = PlainNote(stored, op)
    <3> DEFINE tx == Unmarked
    <3>1. tx \in BOOLEAN /\ PartOf(copy, unknown, stored, tx)
      BY <2>4, UnmarkedType
    <3> HIDE DEF tx
    <3>2. copy = Now.tree /\ Now.unknown = unknown
      BY <2>2
    <3> QED BY ONLY <2>1, <2>3, <3>1, <3>2, PlainSucceeds
  <2> QED BY <1>1, <2>5 DEF NoteOf
<1> QED BY <1>1, <1>6, <1>7, <1>8

\* At first the verifier has the label of the empty tree.
LEMMA FollowInit ==
    ASSUME Init
    PROVE  FollowInv
<1>1. stored = Nothing /\ atBegin = Nothing /\ ~ongoing
      /\ copy = [q \in {Root} |-> Node(NoKey, Nothing, EmptyTree[Root].label)]
  BY DEF Init
<1>2. Legible(copy, unknown, detached, stored, atBegin)
  BY <1>1, InitLegible, UsableLegible
<1>3. copy[Root].label = Built(stored)[Root].label
  BY <1>2, LegibleRoot
<1>4. copy[Root].label = EmptyTree[Root].label
  BY <1>1, NodeFields
<1> QED BY <1>1, <1>3, <1>4 DEF FollowInv, Follows

\* FollowInv is inductive together with VerifierInv and SentOK.
LEMMA NextFollow ==
    ASSUME VerifierInv, SentOK, FollowInv, [Next]_vars, [SetsUnmoved]_vars
    PROVE  FollowInv'
<1>1. CASE UNCHANGED vars
  BY <1>1 DEF vars, FollowInv, Follows
<1>2. CASE Next /\ SetsUnmoved
  <2>1. ASSUME NEW u \in Updates, Broadcast(u) PROVE FollowInv'
    <3>1. sent \subseteq sent' /\ stored' = stored /\ atBegin' = atBegin /\ mixed' = mixed
      BY <2>1 DEF Broadcast, mine
    <3>2. \A A : Follows(sent, A) => Follows(sent', A)
      BY <3>1 DEF Follows
    <3> QED BY <3>1, <3>2 DEF FollowInv
  <2>2. ASSUME NEW p \in Proofs, NEW a \in Arriving(p), Verify(a) PROVE FollowInv'
    BY <2>2 DEF Verify, FollowInv, Follows
  <2>3. ASSUME NEW m \in sent, Prepare(m) PROVE FollowInv'
    BY <2>3 DEF Prepare, FollowInv, Follows
  <2>4. ASSUME NEW m \in sent, Direct(m) PROVE FollowInv'
    BY <2>4, FollowDirect
  <2>5. ASSUME NEW m \in prepared, Apply(m) PROVE FollowInv'
    <3>1. ongoing => UnmovedAll(Now, m.update.ops)
      BY <1>2, <2>5 DEF SetsUnmoved
    <3> QED BY <2>5, <3>1, FollowApply
  <2>6. ASSUME Begin PROVE FollowInv'
    BY <2>6 DEF Begin, FollowInv, Follows
  <2>7. ASSUME Rollback PROVE FollowInv'
    BY <2>7 DEF Rollback, FollowInv, Follows
  <2>8. ASSUME End PROVE FollowInv'
    BY <2>8 DEF End, Settle, FollowInv, Follows
  <2> QED BY <1>2, <2>1, <2>2, <2>3, <2>4, <2>5, <2>6, <2>7, <2>8 DEF Next
<1> QED BY <1>1, <1>2

\* In whatever order, how late and how often messages arrive, between its
\* transactions the verifier has the label of a state the server was in, unless
\* a prepared update was applied to another state than its own or after what
\* its proofs told had been collected (Prepare, Apply, the calls outside a
\* transaction, Begin, Rollback, End).
THEOREM VerifierFollowsServer == Spec /\ [][SetsUnmoved]_vars => []FollowsServer
<1>1. VerifierInv /\ FollowInv => FollowsServer
  <2> SUFFICES ASSUME VerifierInv, FollowInv, ~ongoing, ~mixed
      PROVE  copy[Root].label \in {EmptyTree[Root].label} \cup {m.after : m \in sent}
    BY DEF FollowsServer
  <2>1. Legible(copy, unknown, detached, stored, atBegin)
    BY UsableLegible
  <2>2. copy[Root].label = Built(stored)[Root].label
    BY <2>1, LegibleRoot
  <2> QED BY <2>2 DEF FollowInv, Follows
<1>2. Init => SentOK
  BY DEF Init, SentOK
<1>3. VerifierInv /\ SentOK /\ [Next]_vars => SentOK'
  BY NextSent DEF VerifierInv
<1> QED BY <1>1, <1>2, <1>3, InitLegible, FollowInit, NextInvVerifier, NextFollow, PTL DEF Spec

=============================================================================
