--------------------------- MODULE MerkleTreeProofs ---------------------------
(***************************************************************************)
(* What the operations of the tree do to its nodes, for keys and values of *)
(* any kind and paths of any depth: a well-formed tree has one leaf on the *)
(* way of every key, and Add, Set and Remove keep it well-formed.          *)
(***************************************************************************)
EXTENDS MerkleTree, FiniteSetTheorems, TLAPS

\* Only the induction lemmas are used.
Ind == INSTANCE Folding WITH Op <- Prefix

-----------------------------------------------------------------------------
(* Paths *)

Bit == {0, 1}

Path == Seq(Bit)

Size(p) == Len(p)

LEMMA PathSize == \A p \in Path : Size(p) \in Nat
BY DEF Path, Size

USE PathSize

\* The walk to q passes p or ends there.
On(p, q) == Size(p) <= Size(q) /\ p = Prefix(q, Size(p))

LEMMA PrefixFacts ==
    ASSUME NEW p \in Path, NEW n \in 0..Size(p)
    PROVE  /\ Prefix(p, n) \in Path
           /\ Size(Prefix(p, n)) = n
           /\ \A m \in 0..n : Prefix(Prefix(p, n), m) = Prefix(p, m)
           /\ \A i \in 1..n : Prefix(p, n)[i] = p[i]
<1>1. Prefix(p, n) \in Path /\ Size(Prefix(p, n)) = n /\ \A i \in 1..n : Prefix(p, n)[i] = p[i]
  BY DEF Prefix, Path, Size
<1>2. ASSUME NEW m \in 0..n PROVE Prefix(Prefix(p, n), m) = Prefix(p, m)
  BY <1>1 DEF Prefix, Path, Size
<1> QED BY <1>1, <1>2

LEMMA RootFacts == Root \in Path /\ Size(Root) = 0
BY DEF Root, Path, Size

LEMMA PrefixSelf ==
    ASSUME NEW p \in Path
    PROVE  Prefix(p, Size(p)) = p /\ Prefix(p, 0) = Root /\ Size(Root) = 0 /\ Root \in Path
BY DEF Prefix, Root, Path, Size

LEMMA RootOnly ==
    ASSUME NEW p \in Path, Size(p) = 0
    PROVE  p = Root
BY PrefixSelf

LEMMA ChildFacts ==
    ASSUME NEW p \in Path, NEW b \in Bit
    PROVE  /\ Child(p, b) \in Path
           /\ Size(Child(p, b)) = Size(p) + 1
           /\ Child(p, b)[Size(p) + 1] = b
           /\ \A n \in 0..Size(p) : Prefix(Child(p, b), n) = Prefix(p, n)
           /\ Parent(Child(p, b)) = p
<1>1. /\ Child(p, b) \in Path
      /\ Size(Child(p, b)) = Size(p) + 1
      /\ Child(p, b)[Size(p) + 1] = b
  BY DEF Child, Path, Size
<1>2. \A n \in 0..Size(p) : Prefix(Child(p, b), n) = Prefix(p, n)
  BY DEF Child, Prefix, Path, Size
<1>3. Parent(Child(p, b)) = Prefix(p, Size(p))
  BY <1>1, <1>2 DEF Parent, Size
<1> QED BY <1>1, <1>2, <1>3, PrefixSelf

LEMMA PrefixStep ==
    ASSUME NEW p \in Path, NEW n \in 0..Size(p) - 1
    PROVE  p[n + 1] \in Bit /\ Prefix(p, n + 1) = Child(Prefix(p, n), p[n + 1])
BY DEF Prefix, Child, Path, Size

LEMMA ParentFacts ==
    ASSUME NEW p \in Path, Size(p) # 0
    PROVE  /\ Parent(p) \in Path
           /\ Size(Parent(p)) = Size(p) - 1
           /\ p[Size(p)] \in Bit
           /\ p = Child(Parent(p), p[Size(p)])
<1>1. Size(p) - 1 \in 0..Size(p) - 1 /\ Size(p) - 1 \in 0..Size(p) /\ (Size(p) - 1) + 1 = Size(p)
  OBVIOUS
<1>2. p[Size(p)] \in Bit /\ Prefix(p, Size(p)) = Child(Prefix(p, Size(p) - 1), p[Size(p)])
  BY <1>1, PrefixStep
<1> QED BY <1>1, <1>2, PrefixFacts, PrefixSelf DEF Parent, Size

\* A child of p is p with one of two bits.
LEMMA Siblings ==
    ASSUME NEW p \in Path, Size(p) # 0
    PROVE  /\ Sibling(p) \in Path
           /\ Size(Sibling(p)) = Size(p)
           /\ Parent(Sibling(p)) = Parent(p)
           /\ Sibling(p) # p
           /\ \A b \in Bit : Child(Parent(p), b) \in {p, Sibling(p)}
<1>1. /\ Parent(p) \in Path
      /\ Size(Parent(p)) = Size(p) - 1
      /\ p[Size(p)] \in Bit
      /\ p = Child(Parent(p), p[Size(p)])
  BY ParentFacts
<1> DEFINE b == 1 - p[Size(p)]
<1>2. b \in Bit /\ b # p[Size(p)]
  BY <1>1 DEF Bit
<1>3. Sibling(p) = Child(Parent(p), b)
  BY DEF Sibling, Size
<1> HIDE DEF b
<1>4. /\ Sibling(p) \in Path
      /\ Size(Sibling(p)) = Size(p)
      /\ Parent(Sibling(p)) = Parent(p)
      /\ Sibling(p)[Size(p)] = b
  <2>1. Size(Parent(p)) + 1 = Size(p)
    BY <1>1
  <2>2. Child(Parent(p), b)[Size(Parent(p)) + 1] = b
    BY <1>1, <1>2, ChildFacts
  <2>3. /\ Child(Parent(p), b) \in Path
        /\ Size(Child(Parent(p), b)) = Size(Parent(p)) + 1
        /\ Parent(Child(Parent(p), b)) = Parent(p)
    BY <1>1, <1>2, ChildFacts
  <2> QED BY <1>3, <2>1, <2>2, <2>3
<1>5. \A x \in Bit : x = p[Size(p)] \/ x = b
  BY <1>1, <1>2 DEF Bit
<1> QED BY <1>1, <1>2, <1>3, <1>4, <1>5

LEMMA ChildInjective ==
    ASSUME NEW p \in Path, NEW q \in Path, NEW b \in Bit, NEW c \in Bit, Child(p, b) = Child(q, c)
    PROVE  p = q /\ b = c
BY ChildFacts

LEMMA OnPrefix ==
    ASSUME NEW q \in Path, NEW n \in 0..Size(q)
    PROVE  On(Prefix(q, n), q)
BY PrefixFacts DEF On

LEMMA OnSelf ==
    ASSUME NEW q \in Path
    PROVE  On(q, q) /\ On(Root, q)
BY PrefixSelf DEF On

LEMMA OnTransitive ==
    ASSUME NEW p \in Path, NEW q \in Path, NEW r \in Path, On(p, q), On(q, r)
    PROVE  On(p, r)
<1>1. Size(p) \in 0..Size(q) /\ Size(q) \in 0..Size(r)
  BY DEF On
<1>2. Prefix(Prefix(r, Size(q)), Size(p)) = Prefix(r, Size(p))
  BY <1>1, PrefixFacts
<1> QED BY <1>1, <1>2 DEF On

\* Of two nodes on one way the shorter is on the way to the longer.
LEMMA OnComparable ==
    ASSUME NEW p \in Path, NEW q \in Path, NEW r \in Path, On(p, r), On(q, r), Size(p) <= Size(q)
    PROVE  On(p, q)
<1>1. Size(p) \in 0..Size(q) /\ Size(q) \in 0..Size(r)
  BY DEF On
<1>2. Prefix(Prefix(r, Size(q)), Size(p)) = Prefix(r, Size(p))
  BY <1>1, PrefixFacts
<1> QED BY <1>1, <1>2 DEF On

LEMMA OnEqual ==
    ASSUME NEW p \in Path, NEW q \in Path, On(p, q), Size(p) = Size(q)
    PROVE  p = q
BY PrefixSelf DEF On

\* The next node on the way.
LEMMA OnStep ==
    ASSUME NEW p \in Path, NEW q \in Path, On(p, q), Size(p) # Size(q)
    PROVE  q[Size(p) + 1] \in Bit /\ On(Child(p, q[Size(p) + 1]), q)
<1>1. Size(p) \in 0..Size(q) - 1 /\ Size(p) + 1 \in 0..Size(q)
  BY DEF On
<1>2. q[Size(p) + 1] \in Bit /\ Prefix(q, Size(p) + 1) = Child(Prefix(q, Size(p)), q[Size(p) + 1])
  BY <1>1, PrefixStep
<1>3. On(Prefix(q, Size(p) + 1), q)
  BY <1>1, OnPrefix
<1> QED BY <1>2, <1>3 DEF On

LEMMA OnChild ==
    ASSUME NEW p \in Path, NEW q \in Path, NEW b \in Bit
    PROVE  /\ On(p, Child(p, b))
           /\ On(q, Child(p, b)) <=> On(q, p) \/ q = Child(p, b)
           /\ On(Child(p, b), q) => On(p, q)
<1>1. /\ Child(p, b) \in Path
      /\ Size(Child(p, b)) = Size(p) + 1
      /\ \A n \in 0..Size(p) : Prefix(Child(p, b), n) = Prefix(p, n)
  BY ChildFacts
<1>2. On(p, Child(p, b))
  BY <1>1, PrefixSelf DEF On
<1>3. ASSUME On(q, Child(p, b)) PROVE On(q, p) \/ q = Child(p, b)
  <2>1. CASE Size(q) = Size(p) + 1
    BY <1>1, <1>3, <2>1, OnEqual
  <2>2. CASE Size(q) # Size(p) + 1
    <3>1. Size(q) \in 0..Size(p)
      BY <1>1, <1>3, <2>2 DEF On
    <3> QED BY <1>1, <1>3, <3>1 DEF On
  <2> QED BY <2>1, <2>2
<1>4. ASSUME On(q, p) PROVE On(q, Child(p, b))
  BY <1>1, <1>2, <1>4, OnTransitive
<1>5. On(Child(p, b), Child(p, b))
  BY <1>1, OnSelf
<1>6. ASSUME On(Child(p, b), q) PROVE On(p, q)
  BY <1>1, <1>2, <1>6, OnTransitive
<1> QED BY <1>2, <1>3, <1>4, <1>5, <1>6

\* Two children of a node are not on one way.
LEMMA ChildrenPart ==
    ASSUME NEW p \in Path, NEW q \in Path, NEW b \in Bit, NEW c \in Bit,
           On(Child(p, b), q), On(Child(p, c), q)
    PROVE  b = c
<1>1. /\ Child(p, b) \in Path /\ Size(Child(p, b)) = Size(p) + 1
      /\ Child(p, c) \in Path /\ Size(Child(p, c)) = Size(p) + 1
  BY ChildFacts
<1>2. Child(p, b) = Child(p, c)
  BY <1>1 DEF On
<1> QED BY <1>2, ChildInjective

LEMMA AncestorsOn ==
    ASSUME NEW p \in Path
    PROVE  \A a : a \in Ancestors(p) <=> a \in Path /\ On(a, p) /\ Size(a) < Size(p)
<1>1. ASSUME NEW a \in Ancestors(p) PROVE a \in Path /\ On(a, p) /\ Size(a) < Size(p)
  <2>1. PICK n \in 0..Size(p) - 1 : a = Prefix(p, n)
    BY DEF Ancestors, Size
  <2>2. n \in 0..Size(p)
    OBVIOUS
  <2> QED BY <2>1, <2>2, PrefixFacts DEF On
<1>2. ASSUME NEW a \in Path, On(a, p), Size(a) < Size(p) PROVE a \in Ancestors(p)
  <2>1. Size(a) \in 0..Size(p) - 1 /\ a = Prefix(p, Size(a))
    BY <1>2 DEF On
  <2> QED BY <2>1 DEF Ancestors, Size
<1> QED BY <1>1, <1>2

LEMMA AncestorsChild ==
    ASSUME NEW p \in Path, NEW b \in Bit
    PROVE  \A a : a \in Ancestors(Child(p, b)) <=> a \in Ancestors(p) \/ a = p
<1>1. Child(p, b) \in Path /\ Size(Child(p, b)) = Size(p) + 1
  BY ChildFacts
<1>2. ASSUME NEW a \in Ancestors(Child(p, b)) PROVE a \in Ancestors(p) \/ a = p
  <2>1. a \in Path /\ On(a, Child(p, b)) /\ Size(a) < Size(p) + 1
    BY <1>1, AncestorsOn
  <2>2. On(a, p)
    BY <1>1, <2>1, OnChild
  <2> QED BY <2>1, <2>2, AncestorsOn, OnEqual
<1>3. ASSUME NEW a, a \in Ancestors(p) \/ a = p PROVE a \in Ancestors(Child(p, b))
  <2>1. a \in Path /\ On(a, p) /\ Size(a) < Size(p) + 1
    BY <1>3, AncestorsOn, OnSelf
  <2> QED BY <1>1, <2>1, AncestorsOn, OnChild
<1> QED BY <1>2, <1>3

-----------------------------------------------------------------------------
(* The shape of a tree *)

LEMMA KeyPaths ==
    ASSUME NEW k \in Keys \cup {NoKey}
    PROVE  PathOf[k] \in Path /\ Size(PathOf[k]) = Depth /\ Depth \in Nat \ {0}
<1>1. PathOf[k] \in [1..Depth -> {0, 1}] /\ Depth \in Nat
  BY PathAssumption, KeyAssumption
<1>2. PathOf[k] \in Seq({0, 1})
  BY <1>1
<1> QED BY <1>1, <1>2, KeyAssumption DEF Bit, Path, Size

\* Two of the keys are below p.
Crowd(p, S) == \E k, c \in S : k # c /\ On(p, PathOf[k]) /\ On(p, PathOf[c])

LEMMA CrowdShort ==
    ASSUME NEW S \in SUBSET Keys, NEW p \in Path, Crowd(p, S)
    PROVE  Size(p) < Depth
<1>1. PICK k \in S, c \in S : k # c /\ On(p, PathOf[k]) /\ On(p, PathOf[c])
  BY DEF Crowd
<1>2. /\ PathOf[k] \in Path /\ Size(PathOf[k]) = Depth
      /\ PathOf[c] \in Path /\ Size(PathOf[c]) = Depth
  BY KeyPaths
<1>3. ASSUME Size(p) = Depth PROVE FALSE
  <2>1. p = PathOf[k] /\ p = PathOf[c]
    BY <1>1, <1>2, <1>3, OnEqual
  <2> QED BY <1>1, <2>1, PathAssumption
<1> QED BY <1>1, <1>2, <1>3 DEF On

LEMMA CrowdUp ==
    ASSUME NEW S \in SUBSET Keys, NEW p \in Path, NEW q \in Path, On(p, q), Crowd(q, S)
    PROVE  Crowd(p, S)
<1>1. PICK k \in S, c \in S : k # c /\ On(q, PathOf[k]) /\ On(q, PathOf[c])
  BY DEF Crowd
<1>2. PathOf[k] \in Path /\ PathOf[c] \in Path
  BY KeyPaths
<1>3. On(p, PathOf[k]) /\ On(p, PathOf[c])
  BY <1>1, <1>2, OnTransitive
<1> QED BY <1>1, <1>3 DEF Crowd

\* What belongs to the canonical tree of some keys.
Canonical(q, S) == Size(q) <= 1 \/ Crowd(Parent(q), S)

LEMMA CanonicalMember ==
    ASSUME NEW S \in SUBSET Keys
    PROVE  \A q : q \in CanonicalPaths(S) <=> q \in Path /\ Canonical(q, S)
<1>0. Depth \in Nat \ {0}
  BY KeyAssumption
<1>1. ASSUME NEW q \in CanonicalPaths(S) PROVE q \in Path /\ Canonical(q, S)
  <2>1. CASE q \in {Root, Child(Root, 0), Child(Root, 1)}
    <3>1. 0 \in Bit /\ 1 \in Bit /\ Root \in Path /\ Size(Root) = 0
      BY RootFacts DEF Bit
    <3>2. /\ Child(Root, 0) \in Path /\ Size(Child(Root, 0)) = 1
          /\ Child(Root, 1) \in Path /\ Size(Child(Root, 1)) = 1
      BY <3>1, ChildFacts
    <3> QED BY <2>1, <3>1, <3>2 DEF Canonical
  <2>2. CASE q \notin {Root, Child(Root, 0), Child(Root, 1)}
    <3>1. PICK k \in S, n \in 1..Depth - 1, b \in {0, 1} :
             q = Child(Prefix(PathOf[k], n), b) /\ Crowded(Parent(q), S)
      BY <1>1, <2>2 DEF CanonicalPaths, Steps
    <3>2. PathOf[k] \in Path /\ Size(PathOf[k]) = Depth /\ n \in 0..Depth /\ b \in Bit
      BY <1>0, KeyPaths DEF Bit
    <3>3. Prefix(PathOf[k], n) \in Path /\ Size(Prefix(PathOf[k], n)) = n
      BY <3>2, PrefixFacts
    <3>4. q \in Path /\ Parent(q) = Prefix(PathOf[k], n)
      BY <3>1, <3>2, <3>3, ChildFacts
    <3>5. PICK x \in S, y \in S : /\ x # y
                                  /\ Parent(q) = Prefix(PathOf[x], Size(Parent(q)))
                                  /\ Parent(q) = Prefix(PathOf[y], Size(Parent(q)))
      BY <3>1 DEF Crowded, Size
    <3>6. Size(PathOf[x]) = Depth /\ Size(PathOf[y]) = Depth /\ Size(Parent(q)) <= Depth
      BY <3>2, <3>3, <3>4, KeyPaths
    <3>7. On(Parent(q), PathOf[x]) /\ On(Parent(q), PathOf[y])
      BY <3>5, <3>6 DEF On
    <3> QED BY <3>4, <3>5, <3>7 DEF Canonical, Crowd
  <2> QED BY <2>1, <2>2
<1>2. ASSUME NEW q \in Path, Canonical(q, S) PROVE q \in CanonicalPaths(S)
  <2>1. CASE Size(q) = 0
    BY <2>1, RootOnly DEF CanonicalPaths
  <2>2. CASE Size(q) = 1
    <3>1. Size(Parent(q)) = 0 /\ Parent(q) \in Path /\ q[1] \in Bit /\ q = Child(Parent(q), q[1])
      BY <2>2, ParentFacts
    <3>2. Parent(q) = Root
      BY <3>1, RootOnly
    <3>3. q = Child(Root, 0) \/ q = Child(Root, 1)
      BY <3>1, <3>2 DEF Bit
    <3> QED BY <3>3 DEF CanonicalPaths
  <2>3. CASE Size(q) > 1
    <3>1. PICK k \in S, c \in S : k # c /\ On(Parent(q), PathOf[k]) /\ On(Parent(q), PathOf[c])
      BY <1>2, <2>3 DEF Canonical, Crowd
    <3>2. /\ Parent(q) \in Path
          /\ Size(Parent(q)) = Size(q) - 1
          /\ q[Size(q)] \in Bit
          /\ q = Child(Parent(q), q[Size(q)])
      BY <2>3, ParentFacts
    <3>3. Size(Parent(q)) < Depth
      BY <3>1, <3>2, CrowdShort DEF Crowd
    <3>4. Parent(q) = Prefix(PathOf[k], Size(q) - 1) /\ Crowded(Parent(q), S)
      BY <3>1, <3>2 DEF On, Crowded, Size
    <3>5. Size(q) - 1 \in 1..Depth - 1
      BY <1>0, <2>3, <3>2, <3>3
    <3>6. q = Child(Prefix(PathOf[k], Size(q) - 1), q[Size(q)])
      BY <3>2, <3>4
    <3>7. q \in Steps(k)
      BY <3>2, <3>5, <3>6 DEF Bit, Steps
    <3> QED BY <3>4, <3>7 DEF CanonicalPaths
  <2>4. Size(q) = 0 \/ Size(q) = 1 \/ Size(q) > 1
    OBVIOUS
  <2> QED BY <2>1, <2>2, <2>3, <2>4
<1> QED BY <1>1, <1>2

\* The nodes of a tree with its root: a node comes with its ancestors and its
\* sibling, and no path is longer than that of a key.
Shape(T) ==
    /\ \A p \in DOMAIN T : p \in Path /\ Size(p) <= Depth
    /\ \A b \in Bit : Child(Root, b) \in DOMAIN T
    /\ \A p \in DOMAIN T, a \in Path : On(a, p) => a \in DOMAIN T
    /\ \A p \in Path, b \in Bit, c \in Bit : Child(p, b) \in DOMAIN T => Child(p, c) \in DOMAIN T

LEMMA CanonicalShape ==
    ASSUME NEW T, NEW S \in SUBSET Keys, DOMAIN T = CanonicalPaths(S)
    PROVE  Shape(T)
<1>1. \A q : q \in DOMAIN T <=> q \in Path /\ Canonical(q, S)
  BY CanonicalMember
<1>2. ASSUME NEW p \in DOMAIN T PROVE p \in Path /\ Size(p) <= Depth
  <2>1. p \in Path /\ Canonical(p, S) /\ Depth \in Nat \ {0}
    BY <1>1, KeyAssumption
  <2>2. CASE Size(p) <= 1
    BY <2>1, <2>2
  <2>3. CASE ~(Size(p) <= 1)
    <3>1. Parent(p) \in Path /\ Size(Parent(p)) = Size(p) - 1
      BY <2>1, <2>3, ParentFacts
    <3>2. Size(Parent(p)) < Depth
      BY <2>1, <2>3, <3>1, CrowdShort DEF Canonical
    <3> QED BY <2>1, <3>1, <3>2
  <2> QED BY <2>2, <2>3
<1>3. ASSUME NEW b \in Bit PROVE Child(Root, b) \in DOMAIN T
  BY <1>1, RootFacts, ChildFacts DEF Canonical
<1>4. ASSUME NEW p \in DOMAIN T, NEW a \in Path, On(a, p) PROVE a \in DOMAIN T
  <2>1. p \in Path /\ Canonical(p, S) /\ Size(a) <= Size(p)
    BY <1>1, <1>4 DEF On
  <2>2. CASE Size(a) <= 1
    BY <1>1, <2>2 DEF Canonical
  <2>3. CASE a = p
    BY <2>3
  <2>4. CASE Size(a) > 1 /\ a # p
    <3>1. Size(a) # Size(p)
      BY <1>4, <2>1, <2>4, OnEqual
    <3>2. /\ Parent(p) \in Path /\ Size(Parent(p)) = Size(p) - 1 /\ p[Len(p)] \in Bit
          /\ p = Child(Parent(p), p[Len(p)])
      BY <2>1, <2>4, ParentFacts DEF Size
    <3>3. /\ Parent(a) \in Path /\ Size(Parent(a)) = Size(a) - 1 /\ a[Len(a)] \in Bit
          /\ a = Child(Parent(a), a[Len(a)])
      BY <2>4, ParentFacts DEF Size
    <3>4. Crowd(Parent(p), S)
      BY <2>1, <2>4 DEF Canonical
    <3>5. On(a, Parent(p))
      BY <1>4, <2>4, <3>2, OnChild
    <3>6. On(Parent(a), a)
      BY <3>3, OnChild
    <3>7. On(Parent(a), Parent(p))
      BY <3>2, <3>3, <3>5, <3>6, OnTransitive
    <3>8. Crowd(Parent(a), S)
      BY <3>2, <3>3, <3>4, <3>7, CrowdUp
    <3> QED BY <1>1, <3>8 DEF Canonical
  <2> QED BY <2>1, <2>2, <2>3, <2>4
<1>5. ASSUME NEW p \in Path, NEW b \in Bit, NEW c \in Bit, Child(p, b) \in DOMAIN T
      PROVE  Child(p, c) \in DOMAIN T
  <2>1. /\ Child(p, b) \in Path /\ Size(Child(p, b)) = Size(p) + 1 /\ Parent(Child(p, b)) = p
        /\ Child(p, c) \in Path /\ Size(Child(p, c)) = Size(p) + 1 /\ Parent(Child(p, c)) = p
    BY ChildFacts
  <2> QED BY <1>1, <1>5, <2>1 DEF Canonical
<1> QED BY <1>2, <1>3, <1>4, <1>5 DEF Shape

LEMMA ShapeRoot ==
    ASSUME NEW T, Shape(T)
    PROVE  Root \in DOMAIN T /\ ~IsLeaf(T, Root)
<1>1. 0 \in Bit /\ Child(Root, 0) \in DOMAIN T /\ On(Root, Child(Root, 0))
  BY RootFacts, OnChild DEF Shape, Bit
<1> QED BY <1>1, RootFacts DEF Shape, IsLeaf

LEMMA ShapeInner ==
    ASSUME NEW T, Shape(T), NEW p \in DOMAIN T, NEW b \in Bit
    PROVE  p \in Path /\ (~IsLeaf(T, p) <=> Child(p, b) \in DOMAIN T)
BY DEF Shape, IsLeaf, Bit

\* Nothing is below a leaf.
LEMMA LeafEnds ==
    ASSUME NEW T, Shape(T), NEW p \in DOMAIN T, IsLeaf(T, p), NEW q \in DOMAIN T, On(p, q)
    PROVE  p = q
<1>1. p \in Path /\ q \in Path
  BY DEF Shape
<1>2. CASE Size(p) = Size(q)
  BY <1>1, <1>2, OnEqual
<1>3. CASE Size(p) # Size(q)
  <2>1. q[Size(p) + 1] \in Bit /\ On(Child(p, q[Size(p) + 1]), q)
    BY <1>1, <1>3, OnStep
  <2>2. Child(p, q[Size(p) + 1]) \in Path
    BY <1>1, <2>1, ChildFacts
  <2>3. Child(p, q[Size(p) + 1]) \in DOMAIN T
    BY <2>1, <2>2 DEF Shape
  <2> QED BY <1>1, <2>1, <2>3, ShapeInner
<1> QED BY <1>2, <1>3

LEMMA LeavesPart ==
    ASSUME NEW T, Shape(T), NEW p \in DOMAIN T, IsLeaf(T, p), NEW q \in DOMAIN T, IsLeaf(T, q),
           NEW r \in Path, On(p, r), On(q, r)
    PROVE  p = q
<1>1. p \in Path /\ q \in Path
  BY DEF Shape
<1>2. Size(p) <= Size(q) \/ Size(q) <= Size(p)
  BY <1>1
<1>3. On(p, q) \/ On(q, p)
  BY <1>1, <1>2, OnComparable
<1> QED BY <1>3, LeafEnds

\* The walk of Add, Set, Remove and Record along the bits of a key ends at
\* one leaf.
LEMMA LandingFacts ==
    ASSUME NEW T, Shape(T), NEW k \in Keys \cup {NoKey}
    PROVE  /\ Landing(T, k) \in DOMAIN T
           /\ IsLeaf(T, Landing(T, k))
           /\ On(Landing(T, k), PathOf[k])
<1> DEFINE P == PathOf[k]
           U == {n \in Nat : Prefix(P, n) \in DOMAIN T}
<1>1. P \in Path /\ Size(P) = Depth /\ Depth \in Nat \ {0}
  BY KeyPaths DEF Size
<1> HIDE DEF P
<1>2. \E p \in DOMAIN T : IsLeaf(T, p) /\ On(p, P)
  <2> SUFFICES ASSUME \A p \in DOMAIN T : On(p, P) => ~IsLeaf(T, p) PROVE FALSE
    OBVIOUS
  <2>1. 0 \in U
    BY <1>1, ShapeRoot, PrefixSelf
  <2>2. ASSUME NEW n \in 0..Depth - 1, n \in U PROVE n + 1 \in U
    <3>1. n \in 0..Depth /\ n \in Nat /\ n + 1 \in Nat /\ n \in 0..Size(P)
      BY <1>1
    <3>2. On(Prefix(P, n), P) /\ Prefix(P, n) \in DOMAIN T
      BY <1>1, <2>2, <3>1, OnPrefix
    <3>3. P[n + 1] \in Bit /\ Prefix(P, n + 1) = Child(Prefix(P, n), P[n + 1])
      BY <1>1, <2>2, PrefixStep
    <3>4. Prefix(P, n + 1) \in DOMAIN T
      BY <3>2, <3>3, ShapeInner
    <3> QED BY <3>1, <3>4
  <2>3. 0..Depth \subseteq U
    <3> HIDE DEF U
    <3> QED BY <1>1, <2>1, <2>2, Ind!BoundedInduction
  <2>4. P \in DOMAIN T
    BY <1>1, <2>3, PrefixSelf
  <2>5. Child(P, 0) \in DOMAIN T /\ 0 \in Bit
    BY <1>1, <2>4, OnSelf DEF IsLeaf, Bit
  <2>6. Size(Child(P, 0)) = Depth + 1
    BY <1>1, <2>5, ChildFacts
  <2> QED BY <1>1, <2>5, <2>6 DEF Shape
<1>3. \A p \in DOMAIN T : On(p, P) => p = Prefix(P, Len(p))
  BY DEF On, Size
<1>4. \A p \in DOMAIN T : p = Prefix(P, Len(p)) => On(p, P)
  BY <1>1 DEF On, Size, Shape
<1>5. Landing(T, k) = CHOOSE p \in DOMAIN T : IsLeaf(T, p) /\ p = Prefix(P, Len(p))
  BY DEF Landing, P
<1>6. /\ Landing(T, k) \in DOMAIN T
      /\ IsLeaf(T, Landing(T, k))
      /\ Landing(T, k) = Prefix(P, Len(Landing(T, k)))
  BY <1>2, <1>3, <1>5
<1> QED BY <1>4, <1>6 DEF P

LEMMA LandingUnique ==
    ASSUME NEW T, Shape(T), NEW k \in Keys \cup {NoKey},
           NEW p \in DOMAIN T, IsLeaf(T, p), On(p, PathOf[k])
    PROVE  Landing(T, k) = p
BY KeyPaths, LandingFacts, LeavesPart

-----------------------------------------------------------------------------
(* Nodes *)

Rec(k, v, l, i, b, s) ==
    [key |-> k, values |-> v, label |-> l, inconsistent |-> i, backup |-> b, shares |-> s]

IsNode(n) == n = Rec(n.key, n.values, n.label, n.inconsistent, n.backup, n.shares)

LEMMA RecFields ==
    ASSUME NEW k, NEW v, NEW l, NEW i, NEW b, NEW s
    PROVE  /\ IsNode(Rec(k, v, l, i, b, s))
           /\ Rec(k, v, l, i, b, s).key = k
           /\ Rec(k, v, l, i, b, s).values = v
           /\ Rec(k, v, l, i, b, s).label = l
           /\ Rec(k, v, l, i, b, s).inconsistent = i
           /\ Rec(k, v, l, i, b, s).backup = b
           /\ Rec(k, v, l, i, b, s).shares = s
BY DEF Rec, IsNode

\* A node with one field replaced.
LEMMA OneField ==
    ASSUME NEW n, IsNode(n), NEW x
    PROVE  /\ [n EXCEPT !.key = x] = Rec(x, n.values, n.label, n.inconsistent, n.backup, n.shares)
           /\ [n EXCEPT !.values = x] = Rec(n.key, x, n.label, n.inconsistent, n.backup, n.shares)
           /\ [n EXCEPT !.label = x] = Rec(n.key, n.values, x, n.inconsistent, n.backup, n.shares)
           /\ [n EXCEPT !.inconsistent = x] = Rec(n.key, n.values, n.label, x, n.backup, n.shares)
           /\ [n EXCEPT !.backup = x] = Rec(n.key, n.values, n.label, n.inconsistent, x, n.shares)
           /\ [n EXCEPT !.shares = x] = Rec(n.key, n.values, n.label, n.inconsistent, n.backup, x)
<1>1. [n EXCEPT !.key = x] = Rec(x, n.values, n.label, n.inconsistent, n.backup, n.shares)
  BY DEF IsNode, Rec
<1>2. [n EXCEPT !.values = x] = Rec(n.key, x, n.label, n.inconsistent, n.backup, n.shares)
  BY DEF IsNode, Rec
<1>3. [n EXCEPT !.label = x] = Rec(n.key, n.values, x, n.inconsistent, n.backup, n.shares)
  BY DEF IsNode, Rec
<1>4. [n EXCEPT !.inconsistent = x] = Rec(n.key, n.values, n.label, x, n.backup, n.shares)
  BY DEF IsNode, Rec
<1>5. [n EXCEPT !.backup = x] = Rec(n.key, n.values, n.label, n.inconsistent, x, n.shares)
  BY DEF IsNode, Rec
<1>6. [n EXCEPT !.shares = x] = Rec(n.key, n.values, n.label, n.inconsistent, n.backup, x)
  BY DEF IsNode, Rec
<1> QED BY <1>1, <1>2, <1>3, <1>4, <1>5, <1>6

LEMMA ValuesLabel ==
    ASSUME NEW n, IsNode(n), NEW x, NEW y
    PROVE  [n EXCEPT !.values = x, !.label = y] =
              Rec(n.key, x, y, n.inconsistent, n.backup, n.shares)
<1> DEFINE m == [n EXCEPT !.values = x]
<1>1. m = Rec(n.key, x, n.label, n.inconsistent, n.backup, n.shares)
  BY OneField
<1>2. IsNode(m) /\ m.key = n.key /\ m.values = x
      /\ m.label = n.label /\ m.inconsistent = n.inconsistent /\ m.backup = n.backup /\ m.shares = n.shares
  BY <1>1, RecFields
<1> HIDE DEF m
<1>3. [m EXCEPT !.label = y] = Rec(m.key, m.values, y, m.inconsistent, m.backup, m.shares)
  BY <1>2, OneField
<1>4. [m EXCEPT !.label = y] = Rec(n.key, x, y, n.inconsistent, n.backup, n.shares)
  BY <1>3, <1>2
<1> QED BY <1>4 DEF m

LEMMA InconsistentBackup ==
    ASSUME NEW n, IsNode(n), NEW x, NEW y
    PROVE  [n EXCEPT !.inconsistent = x, !.backup = y] =
              Rec(n.key, n.values, n.label, x, y, n.shares)
<1> DEFINE m == [n EXCEPT !.inconsistent = x]
<1>1. m = Rec(n.key, n.values, n.label, x, n.backup, n.shares)
  BY OneField
<1>2. IsNode(m) /\ m.key = n.key /\ m.values = n.values
      /\ m.label = n.label /\ m.inconsistent = x /\ m.backup = n.backup /\ m.shares = n.shares
  BY <1>1, RecFields
<1> HIDE DEF m
<1>3. [m EXCEPT !.backup = y] = Rec(m.key, m.values, m.label, m.inconsistent, y, m.shares)
  BY <1>2, OneField
<1>4. [m EXCEPT !.backup = y] = Rec(n.key, n.values, n.label, x, y, n.shares)
  BY <1>3, <1>2
<1> QED BY <1>4 DEF m

LEMMA LabelShares ==
    ASSUME NEW n, IsNode(n), NEW x, NEW y
    PROVE  [n EXCEPT !.label = x, !.shares = y] =
              Rec(n.key, n.values, x, n.inconsistent, n.backup, y)
<1> DEFINE m == [n EXCEPT !.label = x]
<1>1. m = Rec(n.key, n.values, x, n.inconsistent, n.backup, n.shares)
  BY OneField
<1>2. IsNode(m) /\ m.key = n.key /\ m.values = n.values
      /\ m.label = x /\ m.inconsistent = n.inconsistent /\ m.backup = n.backup /\ m.shares = n.shares
  BY <1>1, RecFields
<1> HIDE DEF m
<1>3. [m EXCEPT !.shares = y] = Rec(m.key, m.values, m.label, m.inconsistent, m.backup, y)
  BY <1>2, OneField
<1>4. [m EXCEPT !.shares = y] = Rec(n.key, n.values, x, n.inconsistent, n.backup, y)
  BY <1>3, <1>2
<1> QED BY <1>4 DEF m

LEMMA KeyShares ==
    ASSUME NEW n, IsNode(n), NEW x, NEW y
    PROVE  [n EXCEPT !.key = x, !.shares = y] =
              Rec(x, n.values, n.label, n.inconsistent, n.backup, y)
<1> DEFINE m == [n EXCEPT !.key = x]
<1>1. m = Rec(x, n.values, n.label, n.inconsistent, n.backup, n.shares)
  BY OneField
<1>2. IsNode(m) /\ m.key = x /\ m.values = n.values
      /\ m.label = n.label /\ m.inconsistent = n.inconsistent /\ m.backup = n.backup /\ m.shares = n.shares
  BY <1>1, RecFields
<1> HIDE DEF m
<1>3. [m EXCEPT !.shares = y] = Rec(m.key, m.values, m.label, m.inconsistent, m.backup, y)
  BY <1>2, OneField
<1>4. [m EXCEPT !.shares = y] = Rec(x, n.values, n.label, n.inconsistent, n.backup, y)
  BY <1>3, <1>2
<1> QED BY <1>4 DEF m

LEMMA BackupShares ==
    ASSUME NEW n, IsNode(n), NEW x, NEW y
    PROVE  [n EXCEPT !.backup = x, !.shares = y] =
              Rec(n.key, n.values, n.label, n.inconsistent, x, y)
<1> DEFINE m == [n EXCEPT !.backup = x]
<1>1. m = Rec(n.key, n.values, n.label, n.inconsistent, x, n.shares)
  BY OneField
<1>2. IsNode(m) /\ m.key = n.key /\ m.values = n.values
      /\ m.label = n.label /\ m.inconsistent = n.inconsistent /\ m.backup = x /\ m.shares = n.shares
  BY <1>1, RecFields
<1> HIDE DEF m
<1>3. [m EXCEPT !.shares = y] = Rec(m.key, m.values, m.label, m.inconsistent, m.backup, y)
  BY <1>2, OneField
<1>4. [m EXCEPT !.shares = y] = Rec(n.key, n.values, n.label, n.inconsistent, x, y)
  BY <1>3, <1>2
<1> QED BY <1>4 DEF m

LEMMA KeySharesBackup ==
    ASSUME NEW n, IsNode(n), NEW x, NEW y, NEW z
    PROVE  [n EXCEPT !.key = x, !.shares = y, !.backup = z] =
              Rec(x, n.values, n.label, n.inconsistent, z, y)
<1> DEFINE m == [n EXCEPT !.key = x, !.shares = y]
<1>1. m = Rec(x, n.values, n.label, n.inconsistent, n.backup, y)
  BY KeyShares
<1>2. IsNode(m) /\ m.key = x /\ m.values = n.values
      /\ m.label = n.label /\ m.inconsistent = n.inconsistent /\ m.backup = n.backup /\ m.shares = y
  BY <1>1, RecFields
<1> HIDE DEF m
<1>3. [m EXCEPT !.backup = z] = Rec(m.key, m.values, m.label, m.inconsistent, z, m.shares)
  BY <1>2, OneField
<1>4. [m EXCEPT !.backup = z] = Rec(x, n.values, n.label, n.inconsistent, z, y)
  BY <1>3, <1>2
<1> QED BY <1>4 DEF m

LEMMA ValuesLabelBackup ==
    ASSUME NEW n, IsNode(n), NEW x, NEW y, NEW z
    PROVE  [n EXCEPT !.values = x, !.label = y, !.backup = z] =
              Rec(n.key, x, y, n.inconsistent, z, n.shares)
<1> DEFINE m == [n EXCEPT !.values = x, !.label = y]
<1>1. m = Rec(n.key, x, y, n.inconsistent, n.backup, n.shares)
  BY ValuesLabel
<1>2. IsNode(m) /\ m.key = n.key /\ m.values = x
      /\ m.label = y /\ m.inconsistent = n.inconsistent /\ m.backup = n.backup /\ m.shares = n.shares
  BY <1>1, RecFields
<1> HIDE DEF m
<1>3. [m EXCEPT !.backup = z] = Rec(m.key, m.values, m.label, m.inconsistent, z, m.shares)
  BY <1>2, OneField
<1>4. [m EXCEPT !.backup = z] = Rec(n.key, x, y, n.inconsistent, z, n.shares)
  BY <1>3, <1>2
<1> QED BY <1>4 DEF m

Unmarked == FALSE

LEMMA LeafNodeRec ==
    ASSUME NEW k, NEW v
    PROVE  LeafNode(k, v) = Rec(k, v, LeafLabel(k, v), Unmarked, {}, {})
BY DEF LeafNode, Node, Rec, Unmarked

LEMMA LeafNodeFields ==
    ASSUME NEW k, NEW v
    PROVE  LET n == LeafNode(k, v)
           IN  /\ IsNode(n) /\ n.key = k /\ n.values = v /\ n.label = LeafLabel(k, v)
               /\ n.inconsistent = Unmarked /\ n.backup = {} /\ n.shares = {}
BY LeafNodeRec, RecFields

-----------------------------------------------------------------------------
(* The recomputation of labels *)

\* What the loop of Updated leaves at p when the children are in g.
Turn(T, S, g, p) == IF p \in S THEN update(T, g, p) ELSE T[p]

LEMMA UpdateLocal ==
    ASSUME NEW T, NEW g, NEW h, NEW p,
           ~IsLeaf(T, p) => g[Child(p, 0)] = h[Child(p, 0)] /\ g[Child(p, 1)] = h[Child(p, 1)]
    PROVE  update(T, g, p) = update(T, h, p)
<1>1. CASE IsLeaf(T, p)
  BY <1>1 DEF update
<1>2. CASE ~IsLeaf(T, p)
  BY <1>2 DEF update
<1> QED BY <1>1, <1>2

\* g is what Updated computes on the nodes deeper than Depth - n.
Reaches(T, S, n, g) ==
    /\ DOMAIN g = DOMAIN T
    /\ \A p \in DOMAIN T : Size(p) + n > Depth => g[p] = Turn(T, S, g, p)

LEMMA ReachesStep ==
    ASSUME NEW T, Shape(T), NEW S, NEW n \in Nat, NEW g, Reaches(T, S, n, g)
    PROVE  Reaches(T, S, n + 1, [p \in DOMAIN T |-> Turn(T, S, g, p)])
<1> DEFINE h == [p \in DOMAIN T |-> Turn(T, S, g, p)]
<1>1. DOMAIN h = DOMAIN T /\ \A p \in DOMAIN T : h[p] = Turn(T, S, g, p)
  OBVIOUS
<1> HIDE DEF h
<1>2. ASSUME NEW p \in DOMAIN T, Size(p) + (n + 1) > Depth
      PROVE  h[p] = Turn(T, S, h, p)
  <2>1. p \in Path /\ Depth \in Nat /\ Size(p) \in Nat
    BY KeyAssumption DEF Shape
  <2>2. ASSUME NEW b \in Bit, ~IsLeaf(T, p)
        PROVE  g[Child(p, b)] = h[Child(p, b)]
    <3>1. Child(p, b) \in DOMAIN T /\ Size(Child(p, b)) = Size(p) + 1
      BY <2>1, <2>2, ShapeInner, ChildFacts
    <3>2. Size(Child(p, b)) + n > Depth
      BY <1>2, <2>1, <3>1
    <3> QED BY <1>1, <3>1, <3>2 DEF Reaches
  <2>3. update(T, g, p) = update(T, h, p)
    BY <2>2, UpdateLocal DEF Bit
  <2> QED BY <1>1, <2>3 DEF Turn
<1> QED BY <1>1, <1>2 DEF Reaches, h

\* Whether some function is.
Reachable(T, S, n) == \E g : Reaches(T, S, n, g)

LEMMA ReachesAll ==
    ASSUME NEW T, Shape(T), NEW S
    PROVE  \E g : g = [p \in DOMAIN T |-> Turn(T, S, g, p)]
<1> DEFINE U == {n \in Nat : Reachable(T, S, n)}
           D == Depth + 1
<1>0. Depth \in Nat /\ D \in Nat
  BY KeyAssumption
<1>1. 0 \in U
  <2> DEFINE g == [p \in DOMAIN T |-> T[p]]
  <2>1. \A p \in DOMAIN T : Size(p) \in Nat /\ Size(p) <= Depth
    BY DEF Shape
  <2>2. \A p \in DOMAIN T : ~(Size(p) + 0 > Depth)
    BY <1>0, <2>1
  <2>3. Reaches(T, S, 0, g)
    BY <2>2 DEF Reaches
  <2> QED BY <2>3 DEF Reachable
<1>2. ASSUME NEW n \in U
      PROVE  n + 1 \in U
  <2>1. n \in Nat /\ Reachable(T, S, n)
    OBVIOUS
  <2>2. PICK g : Reaches(T, S, n, g)
    BY <2>1 DEF Reachable
  <2>3. Reaches(T, S, n + 1, [p \in DOMAIN T |-> Turn(T, S, g, p)])
    BY <2>1, <2>2, ReachesStep
  <2>4. Reachable(T, S, n + 1)
    BY <2>3 DEF Reachable
  <2> QED BY <2>1, <2>4
<1>3. U \in SUBSET Nat
  OBVIOUS
<1> HIDE DEF U
<1>4. U = Nat
  BY <1>1, <1>2, <1>3, Ind!SetInduction
<1>5. D \in U
  BY <1>0, <1>4
<1>6. PICK g : Reaches(T, S, D, g)
  BY <1>5 DEF U, Reachable
<1>7. \A p \in DOMAIN T : Size(p) \in Nat /\ Size(p) + D > Depth
  BY <1>0 DEF Shape
<1> DEFINE h == [p \in DOMAIN T |-> Turn(T, S, g, p)]
<1>8. \A p \in DOMAIN T : g[p] = h[p]
  BY <1>6, <1>7 DEF Reaches
<1>9. DOMAIN h = DOMAIN T /\ \A p \in DOMAIN T : Turn(T, S, h, p) = h[p]
  <2>1. \A p \in DOMAIN T : h[p] = Turn(T, S, g, p) 
    OBVIOUS
  <2>2. DOMAIN h = DOMAIN T
    OBVIOUS
  <2> HIDE DEF h
  <2>3. ASSUME NEW p \in DOMAIN T
        PROVE  update(T, g, p) = update(T, h, p)
    <3>1. ~IsLeaf(T, p) => Child(p, 0) \in DOMAIN T /\ Child(p, 1) \in DOMAIN T
      BY ShapeInner DEF Bit
    <3> QED BY <1>8, <3>1, UpdateLocal
  <2> QED BY <2>1, <2>2, <2>3 DEF Turn
<1>10. h = [p \in DOMAIN T |-> Turn(T, S, h, p)]
  <2>1. h = [p \in DOMAIN T |-> h[p]]
    OBVIOUS
  <2> HIDE DEF h
  <2> QED BY <1>9, <2>1
<1> QED BY <1>10

LEMMA UpdatedTurn ==
    ASSUME NEW T, Shape(T), NEW S
    PROVE  /\ DOMAIN Updated(T, S) = DOMAIN T
           /\ \A p \in DOMAIN T : Updated(T, S)[p] = Turn(T, S, Updated(T, S), p)
<1> DEFINE N == CHOOSE g : g = [p \in DOMAIN T |-> Turn(T, S, g, p)]
<1>1. N = [p \in DOMAIN T |-> Turn(T, S, N, p)]
  BY ReachesAll
<1>2. Updated(T, S) = N
  BY Zenon DEF Updated, Turn
<1> HIDE DEF N
<1> QED BY <1>1, <1>2

LEMMA UpdatedFunction ==
    ASSUME NEW T, Shape(T), NEW S
    PROVE  Updated(T, S) = [p \in DOMAIN Updated(T, S) |-> Updated(T, S)[p]]
<1> DEFINE N == CHOOSE g : g = [p \in DOMAIN T |-> Turn(T, S, g, p)]
<1>1. N = [p \in DOMAIN T |-> Turn(T, S, N, p)]
  BY ReachesAll
<1>2. Updated(T, S) = N
  BY Zenon DEF Updated, Turn
<1> HIDE DEF N
<1>3. N = [p \in DOMAIN N |-> N[p]]
  BY <1>1
<1> QED BY <1>2, <1>3

Nodes(T) == \A p \in DOMAIN T : IsNode(T[p])

\* All that changes from n to m are the values and the label.
SameRest(n, m) ==
    /\ m.key = n.key
    /\ m.inconsistent = n.inconsistent
    /\ m.backup = n.backup
    /\ m.shares = n.shares

\* The node u is what update makes of the node p of T, its children in g.
Renewed(T, g, p, u) ==
    /\ IsNode(u)
    /\ SameRest(T[p], u)
    /\ IsLeaf(T, p) => /\ u.values = T[p].values
                       /\ u.label = LeafLabel(T[p].key, T[p].values)
    /\ ~IsLeaf(T, p) =>
          LET l == g[Child(p, 0)]
              r == g[Child(p, 1)]
          IN  /\ u.values = [f \in Fields |-> ParentValue(l.values[f], r.values[f])]
              /\ u.label = NodeLabel(u.values, l.label, r.label)

LEMMA UpdateFields ==
    ASSUME NEW T, NEW p, IsNode(T[p]), NEW g
    PROVE  Renewed(T, g, p, update(T, g, p))
<1> DEFINE l == g[Child(p, 0)]
           r == g[Child(p, 1)]
           v == [f \in Fields |-> ParentValue(l.values[f], r.values[f])]
           n == T[p]
           u == update(T, g, p)
<1>1. CASE IsLeaf(T, p)
  <2>1. u = [n EXCEPT !.label = LeafLabel(n.key, n.values)]
    BY <1>1 DEF update
  <2> HIDE DEF u, n
  <2>2. u = Rec(n.key, n.values, LeafLabel(n.key, n.values), n.inconsistent, n.backup, n.shares)
    BY <2>1, OneField DEF n
  <2>3. IsNode(u) /\ SameRest(n, u) /\ u.values = n.values /\ u.label = LeafLabel(n.key, n.values)
    BY <2>2, RecFields DEF SameRest
  <2> QED BY <1>1, <2>3 DEF u, n, Renewed
<1>2. CASE ~IsLeaf(T, p)
  <2> DEFINE x == NodeLabel(v, l.label, r.label)
  <2>1. u = [n EXCEPT !.values = v, !.label = x] /\ IsNode(n)
    BY <1>2 DEF update
  <2> HIDE DEF u, n, v, l, r, x
  <2>2. u = Rec(n.key, v, x, n.inconsistent, n.backup, n.shares)
    BY <2>1, ValuesLabel
  <2>3. IsNode(u) /\ SameRest(n, u) /\ u.values = v /\ u.label = x
    BY <2>2, RecFields DEF SameRest
  <2> QED BY <1>2, <2>3 DEF u, n, v, l, r, x, Renewed
<1> QED BY <1>1, <1>2

\* Updated changes the values and labels of the nodes of S only, and leaves
\* them as their children give them.
LEMMA UpdatedFacts ==
    ASSUME NEW T, Shape(T), Nodes(T), NEW S
    PROVE  LET N == Updated(T, S)
           IN  /\ DOMAIN N = DOMAIN T
               /\ \A p \in DOMAIN T :
                     /\ IsNode(N[p])
                     /\ SameRest(T[p], N[p])
                     /\ p \notin S => N[p] = T[p]
                     /\ p \in S => UpToDate(N, p)
                     /\ IsLeaf(T, p) => N[p].values = T[p].values
<1> DEFINE N == Updated(T, S)
<1>1. DOMAIN N = DOMAIN T /\ \A p \in DOMAIN T : N[p] = Turn(T, S, N, p)
  BY UpdatedTurn
<1> HIDE DEF N
<1>2. ASSUME NEW p \in DOMAIN T
      PROVE  /\ IsNode(N[p])
             /\ SameRest(T[p], N[p])
             /\ p \notin S => N[p] = T[p]
             /\ p \in S => UpToDate(N, p)
             /\ IsLeaf(T, p) => N[p].values = T[p].values
  <2>1. IsNode(T[p]) /\ N[p] = Turn(T, S, N, p) /\ (IsLeaf(N, p) <=> IsLeaf(T, p))
    BY <1>1 DEF Nodes, IsLeaf
  <2>2. CASE p \notin S
    BY <2>1, <2>2 DEF Turn, SameRest
  <2>3. CASE p \in S
    <3>1. N[p] = update(T, N, p)
      BY <2>1, <2>3 DEF Turn
    <3>2. Renewed(T, N, p, N[p])
      BY <2>1, <3>1, UpdateFields
    <3>3. CASE IsLeaf(T, p)
      BY <2>1, <2>3, <3>2, <3>3 DEF UpToDate, SameRest, Renewed
    <3>4. CASE ~IsLeaf(T, p)
      BY <2>1, <2>3, <3>2, <3>4 DEF UpToDate, Renewed
    <3> QED BY <3>3, <3>4
  <2> QED BY <2>2, <2>3
<1> QED BY <1>1, <1>2 DEF N

\* A node whose children do not change stays as up to date as it was.
LEMMA UpToDateSame ==
    ASSUME NEW T, NEW N, Shape(T), DOMAIN N = DOMAIN T, NEW p \in DOMAIN T, N[p] = T[p],
           \A b \in Bit : Child(p, b) \in DOMAIN T => N[Child(p, b)] = T[Child(p, b)]
    PROVE  UpToDate(N, p) <=> UpToDate(T, p)
<1>1. IsLeaf(N, p) <=> IsLeaf(T, p)
  BY DEF IsLeaf
<1>2. ~IsLeaf(T, p) => N[Child(p, 0)] = T[Child(p, 0)] /\ N[Child(p, 1)] = T[Child(p, 1)]
  BY ShapeInner DEF Bit
<1> QED BY <1>1, <1>2 DEF UpToDate

\* N is S after the upward loop from r: inside a transaction the ancestors of
\* r are marked, outside they are recomputed; nothing else changes.
Lifted(S, N, r, tx) ==
    /\ DOMAIN N = DOMAIN S
    /\ Nodes(N)
    /\ \A q \in DOMAIN S :
          /\ N[q].key = S[q].key
          /\ N[q].backup = S[q].backup
          /\ N[q].shares = S[q].shares
          /\ q \notin Ancestors(r) => N[q] = S[q]
          /\ q \in Ancestors(r) /\ tx =>
                N[q].values = S[q].values /\ N[q].label = S[q].label /\ N[q].inconsistent
          /\ q \in Ancestors(r) /\ ~tx =>
                N[q].inconsistent = S[q].inconsistent /\ UpToDate(N, q)

LEMMA PropagateLifts ==
    ASSUME NEW S, Shape(S), Nodes(S), NEW r \in Path, NEW tx \in BOOLEAN
    PROVE  Lifted(S, Propagate(S, r, tx), r, tx)
<1> DEFINE N == Propagate(S, r, tx)
           A == Ancestors(r)
<1>1. CASE tx
  <2> DEFINE m(q) == [S[q] EXCEPT !.inconsistent = TRUE]
  <2>1. N = [q \in DOMAIN S |-> IF q \in A THEN m(q) ELSE S[q]]
    BY <1>1 DEF Propagate
  <2>2. ASSUME NEW q \in DOMAIN S
        PROVE  /\ IsNode(m(q))
               /\ m(q).key = S[q].key
               /\ m(q).values = S[q].values
               /\ m(q).label = S[q].label
               /\ m(q).inconsistent = TRUE
               /\ m(q).backup = S[q].backup
               /\ m(q).shares = S[q].shares
    <3> DEFINE n == S[q]
               o == m(q)
    <3>1. IsNode(n) /\ o = [n EXCEPT !.inconsistent = TRUE]
      BY DEF Nodes
    <3> HIDE DEF n, o
    <3> DEFINE x == TRUE
    <3>0. o = [n EXCEPT !.inconsistent = x]
      BY <3>1
    <3> HIDE DEF x
    <3>2. o = Rec(n.key, n.values, n.label, x, n.backup, n.shares)
      BY <3>0, <3>1, OneField
    <3>3. /\ IsNode(o)
          /\ o.key = n.key
          /\ o.values = n.values
          /\ o.label = n.label
          /\ o.inconsistent = x
          /\ o.backup = n.backup
          /\ o.shares = n.shares
      BY <3>2, RecFields
    <3> QED BY <3>3 DEF n, o, x
  <2> HIDE DEF N, A, m
  <2>3. DOMAIN N = DOMAIN S /\ \A q \in DOMAIN S : N[q] = IF q \in A THEN m(q) ELSE S[q]
    BY <2>1
  <2>4. Nodes(N)
    BY <2>2, <2>3 DEF Nodes
  <2> QED BY <1>1, <2>2, <2>3, <2>4 DEF Lifted, N, A
<1>2. CASE ~tx
  <2>1. N = Updated(S, A)
    BY <1>2 DEF Propagate
  <2> HIDE DEF N, A
  <2>2. /\ DOMAIN N = DOMAIN S
        /\ \A q \in DOMAIN S :
              /\ IsNode(N[q])
              /\ SameRest(S[q], N[q])
              /\ q \notin A => N[q] = S[q]
              /\ q \in A => UpToDate(N, q)
    BY <2>1, UpdatedFacts
  <2> QED BY <1>2, <2>2 DEF Lifted, SameRest, Nodes, N, A
<1> QED BY <1>1, <1>2

LEMMA AncestorsUp ==
    ASSUME NEW r \in Path, NEW q \in Ancestors(r)
    PROVE  q \in Path /\ Ancestors(q) \subseteq Ancestors(r)
<1>1. q \in Path /\ On(q, r) /\ Size(q) < Size(r)
  BY AncestorsOn
<1>2. ASSUME NEW a \in Ancestors(q)
      PROVE  a \in Ancestors(r)
  <2>1. a \in Path /\ On(a, q) /\ Size(a) < Size(q)
    BY <1>1, AncestorsOn
  <2>2. On(a, r) /\ Size(a) < Size(r)
    BY <1>1, <2>1, OnTransitive
  <2> QED BY <2>1, <2>2, AncestorsOn
<1> QED BY <1>1, <1>2

\* The nodes above q, and q, are marked.
Marks(T, q) == \A a \in Ancestors(q) \cup {q} : T[a].inconsistent

\* What is out of date is marked, and End can reach it; outside a transaction
\* nothing is out of date.
Marked(T, tx) == \A q \in DOMAIN T : ~UpToDate(T, q) => tx /\ Marks(T, q)

LEMMA LiftedMarks ==
    ASSUME NEW S, Shape(S), NEW N, NEW r \in DOMAIN S, NEW tx \in BOOLEAN, Lifted(S, N, r, tx),
           NEW q \in DOMAIN S, Marks(S, q)
    PROVE  tx => Marks(N, q)
<1> HAVE tx
<1>1. q \in Path
  BY DEF Shape
<1>2. ASSUME NEW a \in Ancestors(q) \cup {q}
      PROVE  N[a].inconsistent
  <2>1. S[a].inconsistent
    BY DEF Marks
  <2>2. a \in DOMAIN S
    BY <1>1, AncestorsOn DEF Shape
  <2> QED BY <2>1, <2>2 DEF Lifted
<1> QED BY <1>2 DEF Marks

\* If all that is out of date off the way to r is marked, the loop leaves
\* everything that is out of date marked.
LEMMA LiftedMarked ==
    ASSUME NEW S, Shape(S), NEW N, NEW r \in DOMAIN S, NEW tx \in BOOLEAN, Lifted(S, N, r, tx),
           \A q \in DOMAIN S \ Ancestors(r) : ~UpToDate(S, q) => tx /\ Marks(S, q)
    PROVE  Marked(N, tx)
<1>1. r \in Path /\ DOMAIN N = DOMAIN S
  BY DEF Shape, Lifted
<1>2. SUFFICES ASSUME NEW q \in DOMAIN S, ~UpToDate(N, q)
               PROVE  tx /\ Marks(N, q)
  BY <1>1 DEF Marked
<1>3. q \in Path
  BY DEF Shape
<1>4. CASE q \in Ancestors(r)
  <2>1. tx
    BY <1>2, <1>4 DEF Lifted
  <2>2. ASSUME NEW a \in Ancestors(q) \cup {q}
        PROVE  N[a].inconsistent
    <3>1. a \in Ancestors(r)
      BY <1>1, <1>4, AncestorsUp
    <3>2. a \in DOMAIN S
      BY <1>1, <3>1, AncestorsOn DEF Shape
    <3> QED BY <2>1, <3>1, <3>2 DEF Lifted
  <2> QED BY <2>1, <2>2 DEF Marks
<1>5. CASE q \notin Ancestors(r)
  <2>1. ASSUME NEW b \in Bit, Child(q, b) \in DOMAIN S
        PROVE  N[Child(q, b)] = S[Child(q, b)]
    <3>1. q \in Ancestors(Child(q, b)) /\ Child(q, b) \in Path
      BY <1>3, AncestorsChild, ChildFacts
    <3>2. Child(q, b) \notin Ancestors(r)
      BY <1>1, <1>5, <3>1, AncestorsUp
    <3> QED BY <2>1, <3>2 DEF Lifted
  <2>2. N[q] = S[q]
    BY <1>5 DEF Lifted
  <2>3. ~UpToDate(S, q)
    BY <1>1, <1>2, <2>1, <2>2, UpToDateSame
  <2>4. tx /\ Marks(S, q)
    BY <1>5, <2>3
  <2> QED BY <2>4, LiftedMarks
<1> QED BY <1>4, <1>5

-----------------------------------------------------------------------------
(* The rules of a tree *)

Keyed(T) == \A p \in DOMAIN T : T[p].key \in Keys \cup {NoKey}

\* The rules as the proofs use them.
Regular(T) ==
    /\ Shape(T)
    /\ Keyed(T)
    /\ \A p \in DOMAIN T : T[p].key # NoKey => IsLeaf(T, p) /\ On(p, PathOf[T[p].key])
    /\ \A q \in Path : q \in DOMAIN T <=> Canonical(q, KeysIn(T))

LEMMA KeysInKeys ==
    ASSUME NEW T, Keyed(T)
    PROVE  KeysIn(T) \in SUBSET Keys
BY DEF Keyed, KeysIn

LEMMA WellFormedRegular ==
    ASSUME NEW T, Keyed(T), WellFormed(T)
    PROVE  Regular(T)
<1>1. KeysIn(T) \in SUBSET Keys /\ DOMAIN T = CanonicalPaths(KeysIn(T))
  BY KeysInKeys DEF WellFormed
<1>2. Shape(T)
  BY <1>1, CanonicalShape
<1>3. \A q \in Path : q \in DOMAIN T <=> Canonical(q, KeysIn(T))
  BY <1>1, CanonicalMember
<1>4. ASSUME NEW p \in DOMAIN T, T[p].key # NoKey
      PROVE  IsLeaf(T, p) /\ On(p, PathOf[T[p].key])
  <2>1. IsLeaf(T, p) /\ p = Prefix(PathOf[T[p].key], Size(p))
    BY <1>4 DEF WellFormed, Size
  <2>2. p \in Path /\ Size(p) <= Depth
    BY <1>2 DEF Shape
  <2>3. Size(PathOf[T[p].key]) = Depth
    BY KeyPaths DEF Keyed
  <2> QED BY <2>1, <2>2, <2>3 DEF On
<1> QED BY <1>2, <1>3, <1>4 DEF Regular

LEMMA RegularWellFormed ==
    ASSUME NEW T, Regular(T)
    PROVE  WellFormed(T)
<1>1. Shape(T) /\ Keyed(T) /\ KeysIn(T) \in SUBSET Keys
  BY KeysInKeys DEF Regular
<1>2. ASSUME NEW p \in DOMAIN T, NEW q \in DOMAIN T, T[p].key = T[q].key, T[p].key # NoKey
      PROVE  p = q
  <2>1. IsLeaf(T, p) /\ IsLeaf(T, q) /\ On(p, PathOf[T[p].key]) /\ On(q, PathOf[T[p].key])
    BY <1>2 DEF Regular
  <2>2. PathOf[T[p].key] \in Path
    BY <1>1, KeyPaths DEF Keyed
  <2> QED BY <1>1, <2>1, <2>2, LeavesPart
<1>3. ASSUME NEW p \in DOMAIN T, T[p].key # NoKey
      PROVE  IsLeaf(T, p) /\ p = Prefix(PathOf[T[p].key], Len(p))
  BY <1>3 DEF Regular, On, Size
<1>4. \A q : q \in DOMAIN T <=> q \in CanonicalPaths(KeysIn(T))
  BY <1>1, CanonicalMember DEF Regular, Shape
<1>5. DOMAIN T = CanonicalPaths(KeysIn(T))
  BY <1>4
<1> QED BY <1>2, <1>3, <1>5 DEF WellFormed

\* The rules are about paths and keys only.
LEMMA SameKeysRegular ==
    ASSUME NEW T, Regular(T), NEW N, DOMAIN N = DOMAIN T, \A q \in DOMAIN T : N[q].key = T[q].key
    PROVE  Regular(N) /\ KeysIn(N) = KeysIn(T)
<1>1. KeysIn(N) = KeysIn(T)
  BY DEF KeysIn
<1>2. Shape(N)
  BY DEF Shape, Regular
<1>3. \A p \in DOMAIN T : IsLeaf(N, p) <=> IsLeaf(T, p)
  BY DEF IsLeaf
<1> QED BY <1>1, <1>2, <1>3 DEF Regular, Keyed

\* A key of the tree is found where its walk ends.
LEMMA HomeOf ==
    ASSUME NEW T, Regular(T), NEW k \in Keys
    PROVE  k \in KeysIn(T) <=> T[Landing(T, k)].key = k
<1>1. Shape(T) /\ k # NoKey
  BY KeyAssumption DEF Regular
<1>2. Landing(T, k) \in DOMAIN T
  BY <1>1, LandingFacts
<1>3. ASSUME k \in KeysIn(T)
      PROVE  T[Landing(T, k)].key = k
  <2>1. PICK p \in DOMAIN T : T[p].key = k
    BY <1>3 DEF KeysIn
  <2>2. IsLeaf(T, p) /\ On(p, PathOf[k])
    BY <1>1, <2>1 DEF Regular
  <2>3. Landing(T, k) = p
    BY <1>1, <2>2, LandingUnique
  <2> QED BY <2>1, <2>3
<1>4. ASSUME T[Landing(T, k)].key = k
      PROVE  k \in KeysIn(T)
  BY <1>1, <1>2, <1>4 DEF KeysIn
<1> QED BY <1>3, <1>4

\* The keys below a leaf: at most the one it holds.
LEMMA BelowLeaf ==
    ASSUME NEW T, Regular(T), NEW p \in DOMAIN T, IsLeaf(T, p),
           NEW d \in KeysIn(T), On(p, PathOf[d])
    PROVE  T[p].key = d
<1>1. d \in Keys /\ Shape(T)
  BY KeysInKeys DEF Regular
<1>2. Landing(T, d) = p
  BY <1>1, LandingUnique
<1> QED BY <1>1, <1>2, HomeOf

LEMMA CrowdMore ==
    ASSUME NEW S, NEW R, S \subseteq R, NEW p, Canonical(p, S)
    PROVE  Canonical(p, R)
BY DEF Canonical, Crowd

\* Filling the placeholder where the walk of a new key ends.
LEMMA FillRegular ==
    ASSUME NEW T, Regular(T), NEW k \in Keys, k \notin KeysIn(T), NEW p \in DOMAIN T,
           IsLeaf(T, p), T[p].key = NoKey, On(p, PathOf[k]),
           NEW N, DOMAIN N = DOMAIN T, N[p].key = k,
           \A q \in DOMAIN T : q # p => N[q].key = T[q].key
    PROVE  Regular(N) /\ KeysIn(N) = KeysIn(T) \cup {k}
<1> DEFINE K == KeysIn(T)
           L == K \cup {k}
<1>1. KeysIn(N) = L
  BY KeyAssumption DEF KeysIn
<1>2. /\ Shape(N) /\ Shape(T) /\ Keyed(N)
      /\ p \in Path /\ PathOf[k] \in Path
      /\ K \in SUBSET Keys /\ L \in SUBSET Keys
  BY KeysInKeys, KeyPaths DEF Shape, Regular, Keyed
<1>3. \A q \in DOMAIN T : N[q].key # NoKey => IsLeaf(N, q) /\ On(q, PathOf[N[q].key])
  BY DEF IsLeaf, Regular
<1> HIDE DEF K, L
<1>4. ASSUME NEW q \in Path, Canonical(q, L)
      PROVE  q \in DOMAIN T
  <2>1. CASE Size(q) <= 1
    BY <2>1 DEF Regular, Canonical
  <2>2. CASE Size(q) > 1
    <3> DEFINE a == Parent(q)
    <3>1. a \in Path /\ Size(a) # 0 /\ q[Size(q)] \in Bit /\ q = Child(a, q[Size(q)])
      BY <2>2, ParentFacts
    <3> HIDE DEF a
    <3>2. Crowd(a, L)
      BY <1>4, <2>2 DEF Canonical, a
    <3>3. CASE Crowd(a, K)
      BY <3>3 DEF Regular, Canonical, K, a
    <3>4. CASE ~Crowd(a, K)
      <4>1. PICK d \in K : On(a, PathOf[k]) /\ On(a, PathOf[d])
        BY <3>2, <3>4 DEF Crowd, L
      <4>2. ~On(p, a)
        <5>1. SUFFICES ASSUME On(p, a) PROVE FALSE
          OBVIOUS
        <5>2. On(p, PathOf[d])
          BY <1>2, <3>1, <4>1, <5>1, OnTransitive, KeyPaths
        <5>3. T[p].key = d
          BY <5>2, BelowLeaf DEF K
        <5> QED BY <1>2, <5>3, KeyAssumption
      <4>3. On(a, p) /\ Size(a) # Size(p)
        BY <1>2, <3>1, <4>1, <4>2, OnComparable, OnSelf, OnEqual
      <4>4. p[Size(a) + 1] \in Bit /\ On(Child(a, p[Size(a) + 1]), p)
        BY <1>2, <3>1, <4>3, OnStep
      <4>5. Child(a, p[Size(a) + 1]) \in DOMAIN T
        BY <1>2, <3>1, <4>4, ChildFacts DEF Shape
      <4> QED BY <1>2, <3>1, <4>4, <4>5 DEF Shape
    <3> QED BY <3>3, <3>4
  <2> QED BY <2>1, <2>2
<1>5. ASSUME NEW q \in Path, q \in DOMAIN T
      PROVE  Canonical(q, L)
  <2>1. Canonical(q, K)
    BY <1>5 DEF Regular, K
  <2> QED BY <2>1, CrowdMore DEF L
<1>6. \A q \in Path : q \in DOMAIN N <=> Canonical(q, KeysIn(N))
  BY <1>1, <1>4, <1>5
<1> QED BY <1>1, <1>2, <1>3, <1>6 DEF Regular, L, K

-----------------------------------------------------------------------------
(* Add on a leaf that holds another key *)

LEMMA KeyBits ==
    ASSUME NEW k \in Keys
    PROVE  PathOf[k] \in [1..Depth -> Bit]
BY PathAssumption DEF Bit

LEMMA CommonFacts ==
    ASSUME NEW k \in Keys, NEW c \in Keys, k # c
    PROVE  /\ CommonBits(k, c) \in 0..Depth - 1
           /\ \A i \in 1..CommonBits(k, c) : PathOf[k][i] = PathOf[c][i]
           /\ PathOf[k][CommonBits(k, c) + 1] # PathOf[c][CommonBits(k, c) + 1]
<1> DEFINE P == PathOf[k]
           C == PathOf[c]
           U == {i \in 1..Depth : P[i] # C[i]}
<1>1. P # C /\ P \in [1..Depth -> Bit] /\ C \in [1..Depth -> Bit] /\ Depth \in Nat
  BY PathAssumption, KeyBits, KeyAssumption
<1> HIDE DEF P, C
<1>2. U # {} /\ U \in SUBSET Nat /\ U \subseteq 1..Depth
  BY <1>1
<1> HIDE DEF U
<1>3. PICK m \in U : \A n \in U : m <= n
  BY <1>2, Ind!LeastNat
<1>4. m \in 1..Depth /\ P[m] # C[m] /\ \A i \in 1..Depth : i < m => P[i] = C[i]
  BY <1>1, <1>2, <1>3 DEF U
<1> DEFINE n == m - 1
<1>5. n \in 0..Depth - 1 /\ n + 1 = m /\ \A i \in 1..n : i \in 1..Depth /\ i < m
  BY <1>1, <1>4
<1> HIDE DEF n
<1>6. /\ n \in 0..Depth - 1
      /\ \A i \in 1..n : P[i] = C[i]
      /\ P[n + 1] # C[n + 1]
  BY <1>4, <1>5
<1>7. CommonBits(k, c) = CHOOSE x \in 0..Depth - 1 :
          /\ \A i \in 1..x : P[i] = C[i]
          /\ P[x + 1] # C[x + 1]
  BY DEF CommonBits, P, C
<1>8. LET x == CommonBits(k, c)
      IN  x \in 0..Depth - 1 /\ (\A i \in 1..x : P[i] = C[i]) /\ P[x + 1] # C[x + 1]
  BY <1>6, <1>7
<1> QED BY <1>8 DEF P, C

\* The bits two keys share are a node, and the last one that lies on the way
\* of both.
LEMMA CommonPath ==
    ASSUME NEW k \in Keys, NEW c \in Keys, k # c
    PROVE  /\ \A m \in 0..CommonBits(k, c) : Prefix(PathOf[k], m) = Prefix(PathOf[c], m)
           /\ \A a \in Path : On(a, PathOf[k]) /\ On(a, PathOf[c]) => Size(a) <= CommonBits(k, c)
<1> DEFINE P == PathOf[k]
           C == PathOf[c]
           n == CommonBits(k, c)
<1>1. /\ n \in 0..Depth - 1
      /\ \A i \in 1..n : P[i] = C[i]
      /\ P[n + 1] # C[n + 1]
      /\ P \in [1..Depth -> Bit] /\ C \in [1..Depth -> Bit]
      /\ P \in Path /\ C \in Path /\ Size(P) = Depth /\ Size(C) = Depth /\ Depth \in Nat
  BY CommonFacts, KeyBits, KeyPaths
<1> HIDE DEF P, C, n
<1>2. ASSUME NEW m \in 0..n
      PROVE  Prefix(P, m) = Prefix(C, m)
  <2>1. m \in Nat /\ \A i \in 1..m : P[i] = C[i]
    BY <1>1
  <2>2. Prefix(P, m) = [i \in 1..m |-> P[i]] /\ Prefix(C, m) = [i \in 1..m |-> C[i]]
    BY <2>1 DEF Prefix
  <2> QED BY <2>1, <2>2
<1>3. ASSUME NEW a \in Path, On(a, P), On(a, C)
      PROVE  Size(a) <= n
  <2>1. SUFFICES ASSUME Size(a) > n PROVE FALSE
    BY <1>1
  <2>2. Size(a) \in 0..Depth /\ a = Prefix(P, Size(a)) /\ a = Prefix(C, Size(a))
    BY <1>1, <1>3 DEF On
  <2> DEFINE s == Size(a)
             j == n + 1
  <2>3. j \in 1..s /\ s \in 0..Size(P) /\ s \in 0..Size(C)
    BY <1>1, <2>1, <2>2
  <2> HIDE DEF s, j
  <2>4. Prefix(P, s)[j] = P[j] /\ Prefix(C, s)[j] = C[j]
    BY <1>1, <2>3, PrefixFacts
  <2> QED BY <1>1, <2>2, <2>4 DEF s, j
<1> QED BY <1>2, <1>3 DEF P, C, n

\* The children of the nodes Split makes internal, and the one that receives
\* a key.
Below(p, k, c) == Children(Inner(p, k, c))

NewHome(k, c) == Prefix(PathOf[k], CommonBits(k, c) + 1)

Forks(p, k, c) ==
    /\ k # c /\ p \in Path
    /\ On(p, PathOf[k]) /\ On(p, PathOf[c])

LEMMA InnerMember ==
    ASSUME NEW k \in Keys, NEW c \in Keys, NEW p, Forks(p, k, c)
    PROVE  \A a : a \in Inner(p, k, c) <=>
                  a \in Path /\ On(p, a) /\ On(a, PathOf[k]) /\ On(a, PathOf[c])
<1> DEFINE P == PathOf[k]
           C == PathOf[c]
           n == CommonBits(k, c)
<1>1. /\ n \in 0..Depth - 1
      /\ \A m \in 0..n : Prefix(P, m) = Prefix(C, m)
      /\ \A a \in Path : On(a, P) /\ On(a, C) => Size(a) <= n
      /\ P \in Path /\ C \in Path /\ Size(P) = Depth /\ Size(C) = Depth /\ Depth \in Nat
      /\ k # c /\ p \in Path /\ On(p, P) /\ On(p, C)
  BY CommonFacts, CommonPath, KeyPaths DEF Forks
<1>0. \A a : a \in Inner(p, k, c) <=> \E m \in Size(p)..n : a = Prefix(P, m)
  BY DEF Inner, Size
<1> HIDE DEF P, C, n
<1>2. ASSUME NEW m \in Size(p)..n
      PROVE  LET a == Prefix(P, m)
             IN  a \in Path /\ On(p, a) /\ On(a, P) /\ On(a, C)
  <2> DEFINE a == Prefix(P, m)
  <2>1. m \in 0..Size(P) /\ m \in 0..Size(C) /\ m \in 0..n /\ Size(p) <= m
    BY <1>1
  <2>2. a \in Path /\ Size(a) = m /\ On(a, P) /\ a = Prefix(C, m)
    BY <1>1, <2>1, PrefixFacts, OnPrefix
  <2>3. On(a, C)
    BY <1>1, <2>1, <2>2, OnPrefix
  <2> HIDE DEF a
  <2>4. On(p, a)
    BY <1>1, <2>1, <2>2, OnComparable
  <2> QED BY <2>2, <2>3, <2>4 DEF a
<1>3. ASSUME NEW a \in Path, On(p, a), On(a, P), On(a, C)
      PROVE  Size(a) \in Size(p)..n /\ a = Prefix(P, Size(a))
  BY <1>1, <1>3 DEF On
<1>4. ASSUME NEW a
      PROVE  a \in Inner(p, k, c) <=> a \in Path /\ On(p, a) /\ On(a, P) /\ On(a, C)
  BY <1>0, <1>2, <1>3
<1> QED BY <1>4 DEF P, C

LEMMA HomeFacts ==
    ASSUME NEW k \in Keys, NEW c \in Keys, NEW p, Forks(p, k, c)
    PROVE  /\ NewHome(k, c) \in Below(p, k, c) \ Inner(p, k, c)
           /\ NewHome(c, k) \in Below(p, k, c) \ Inner(p, k, c)
           /\ Prefix(PathOf[c], CommonBits(k, c) + 1) = NewHome(c, k)
           /\ NewHome(k, c) # NewHome(c, k)
           /\ On(NewHome(k, c), PathOf[k]) /\ On(NewHome(c, k), PathOf[c])
           /\ Ancestors(NewHome(k, c)) = Ancestors(p) \cup Inner(p, k, c)
<1> DEFINE P == PathOf[k]
           C == PathOf[c]
           n == CommonBits(k, c)
           m == n + 1
           q == Prefix(P, n)
           h == NewHome(k, c)
           o == Prefix(C, m)
<1>1. /\ n \in 0..Depth - 1
      /\ \A i \in 0..n : Prefix(P, i) = Prefix(C, i)
      /\ \A i \in 1..n : P[i] = C[i]
      /\ P[n + 1] # C[n + 1]
      /\ \A a \in Path : On(a, P) /\ On(a, C) => Size(a) <= n
      /\ P \in Path /\ C \in Path /\ Size(P) = Depth /\ Size(C) = Depth /\ Depth \in Nat
      /\ k # c /\ p \in Path /\ On(p, P) /\ On(p, C)
  BY CommonFacts, CommonPath, KeyPaths DEF Forks
<1>2. CommonBits(c, k) = n
  <2>1. CommonBits(c, k) \in 0..Depth - 1
    BY <1>1, CommonFacts
  <2>2. /\ \A i \in 1..CommonBits(c, k) : C[i] = P[i]
        /\ C[CommonBits(c, k) + 1] # P[CommonBits(c, k) + 1]
    BY <1>1, CommonFacts
  <2> DEFINE x == CommonBits(c, k)
  <2> HIDE DEF x, n, P, C
  <2>3. x \in Nat /\ n \in Nat
    BY <1>1, <2>1 DEF x
  <2>4. ~(x < n) /\ ~(n < x)
    <3>1. x < n => x + 1 \in 1..n
      BY <2>3
    <3>2. n < x => n + 1 \in 1..x
      BY <2>3
    <3> QED BY <1>1, <2>2, <3>1, <3>2 DEF x
  <2> QED BY <2>3, <2>4 DEF x
<1>3. o = NewHome(c, k) /\ h = Prefix(P, m) /\ m \in 1..Depth /\ m = n + 1 /\ m - 1 = n
  BY <1>1, <1>2 DEF NewHome
<1> HIDE DEF h, o, m, n, P, C
<1>4. /\ q \in Path /\ Size(q) = n /\ On(q, P) /\ On(q, C) /\ On(p, q)
      /\ P[m] \in Bit /\ C[m] \in Bit
      /\ h = Child(q, P[m]) /\ o = Child(q, C[m])
  <2>1. n \in 0..Size(P) /\ n \in 0..Size(C) /\ n \in 0..Size(P) - 1 /\ n \in 0..Size(C) - 1 /\ n \in 0..n
    BY <1>1
  <2>2. q \in Path /\ Size(q) = n /\ On(q, P) /\ q = Prefix(C, n)
    BY <1>1, <2>1, PrefixFacts, OnPrefix
  <2>3. On(q, C)
    BY <1>1, <2>1, <2>2, OnPrefix
  <2>4. On(p, q)
    <3>1. Size(p) <= n
      BY <1>1
    <3> QED BY <1>1, <2>2, <3>1, OnComparable
  <2>5. /\ P[n + 1] \in Bit /\ Prefix(P, n + 1) = Child(q, P[n + 1])
        /\ C[n + 1] \in Bit /\ Prefix(C, n + 1) = Child(q, C[n + 1])
    BY <1>1, <2>1, <2>2, PrefixStep
  <2> QED BY <1>3, <2>2, <2>3, <2>4, <2>5 DEF o
<1> HIDE DEF q
<1>5. q \in Inner(p, k, c)
  BY <1>4, InnerMember DEF P, C
<1>6. h \in Below(p, k, c) /\ o \in Below(p, k, c)
  BY <1>4, <1>5 DEF Below, Bit, Children
<1>7. h \in Path /\ Size(h) = m /\ o \in Path /\ Size(o) = m /\ On(h, P) /\ On(o, C)
  <2>1. h \in Path /\ Size(h) = n + 1 /\ o \in Path /\ Size(o) = n + 1
    BY <1>4, ChildFacts
  <2> QED BY <1>1, <1>3, <2>1, OnPrefix DEF o
<1>8. h \notin Inner(p, k, c) /\ o \notin Inner(p, k, c)
  <2>1. ~(m <= n)
    BY <1>1, <1>3
  <2> QED BY <1>1, <1>7, <2>1, InnerMember DEF P, C
<1>9. h # o
  BY <1>1, <1>3, <1>4, ChildInjective
<1>10. \A a : a \in Ancestors(h) <=> a \in Ancestors(p) \cup Inner(p, k, c)
  <2>1. ASSUME NEW a
        PROVE  a \in Ancestors(h) <=> a \in Ancestors(q) \/ a = q
    BY <1>4, AncestorsChild
  <2>2. ASSUME NEW a, a \in Ancestors(q) \/ a = q
        PROVE  a \in Ancestors(p) \/ a \in Inner(p, k, c)
    <3>1. a \in Path /\ On(a, q)
      BY <1>4, <2>2, AncestorsOn, OnSelf
    <3>2. CASE Size(a) < Size(p)
      BY <1>1, <1>4, <3>1, <3>2, OnComparable, AncestorsOn
    <3>3. CASE ~(Size(a) < Size(p))
      <4>1. On(p, a) /\ On(a, P) /\ On(a, C)
        BY <1>1, <1>4, <3>1, <3>3, OnComparable, OnTransitive
      <4> QED BY <3>1, <4>1, InnerMember DEF P, C
    <3> QED BY <3>2, <3>3
  <2>3. ASSUME NEW a, a \in Ancestors(p) \/ a \in Inner(p, k, c)
        PROVE  a \in Ancestors(q) \/ a = q
    <3>1. CASE a \in Ancestors(p)
      <4>1. a \in Path /\ On(a, p) /\ Size(a) < Size(p)
        BY <1>1, <3>1, AncestorsOn
      <4>2. On(a, q) /\ Size(a) < Size(q)
        BY <1>1, <1>4, <4>1, OnTransitive DEF On
      <4> QED BY <1>4, <4>1, <4>2, AncestorsOn
    <3>2. CASE a \in Inner(p, k, c)
      <4>1. a \in Path /\ On(a, P) /\ On(a, C)
        BY <3>2, InnerMember DEF P, C
      <4>2. Size(a) <= n
        BY <1>1, <4>1
      <4>3. On(a, q)
        BY <1>1, <1>4, <4>1, <4>2, OnComparable
      <4> QED BY <1>4, <4>1, <4>2, <4>3, OnEqual, AncestorsOn
    <3> QED BY <2>3, <3>1, <3>2
  <2> QED BY <2>1, <2>2, <2>3
<1> QED BY <1>3, <1>6, <1>7, <1>8, <1>9, <1>10 DEF h, o, m, n, P, C

\* The leaf that holds c once it is pushed down.
Moved(n) == Rec(n.key, n.values, n.label, Unmarked, {}, n.shares)

\* N is T after k was added at the leaf p of another key.
Pushed(T, N, p, k, v, tx) ==
    LET c == T[p].key
        I == Inner(p, k, c)
        B == Below(p, k, c)
    IN  /\ DOMAIN N = DOMAIN T \cup B
        /\ Nodes(N)
        /\ \A q \in DOMAIN T \ {p} : N[q] = T[q]
        /\ N[p].key = NoKey /\ N[p].inconsistent = T[p].inconsistent
        /\ N[p].backup = Backup(T[p], tx)
        /\ \A q \in I \ {p} : N[q].key = NoKey /\ N[q].inconsistent = Unmarked
                              /\ N[q].backup = Backup(Moved(T[p]), tx)
        /\ \A q \in B \ I : q # NewHome(k, c) /\ q # NewHome(c, k) =>
                               N[q] = LeafNode(NoKey, PlaceholderValues)
        /\ N[NewHome(c, k)] = Moved(T[p])
        /\ N[NewHome(k, c)] = Rec(k, v, LeafLabel(k, v), Unmarked,
                                  Backup(LeafNode(NoKey, PlaceholderValues), tx), {})

LEMMA FillRec ==
    ASSUME NEW T, NEW p, NEW k, NEW v, NEW tx
    PROVE  Fill(T, p, k, v, tx) =
              [T EXCEPT ![p] = Rec(k, v, LeafLabel(k, v), T[p].inconsistent, Backup(T[p], tx), {})]
<1> DEFINE n == LeafNode(k, v)
           i == T[p].inconsistent
           b == Backup(T[p], tx)
           l == LeafLabel(k, v)
           e == [n EXCEPT !.inconsistent = i, !.backup = b]
           no == Unmarked
           none == {}
<1>1. Fill(T, p, k, v, tx) = [T EXCEPT ![p] = e]
  BY DEF Fill
<1>2. n = Rec(k, v, l, no, none, none)
  BY LeafNodeRec
<1> HIDE DEF n, l, no, none
<1>3. IsNode(n) /\ n.key = k /\ n.values = v /\ n.label = l /\ n.shares = none
  BY <1>2, RecFields
<1> HIDE DEF i, b
<1>4. e = Rec(n.key, n.values, n.label, i, b, n.shares)
  BY <1>3, InconsistentBackup
<1>5. e = Rec(k, v, l, i, b, {})
  BY <1>3, <1>4 DEF none
<1> HIDE DEF e
<1> QED BY <1>1, <1>5 DEF i, b, l

\* The nodes of Split before the new pair is stored.
Opened(n, m, tx) == Rec(NoKey, n.values, n.label, n.inconsistent, Backup(n, tx), m)

SplitNode(T, p, k, tx, q) ==
    LET c == T[p].key
    IN  IF q = Prefix(PathOf[c], CommonBits(k, c) + 1) THEN Moved(T[p])
        ELSE IF q = p THEN Opened(T[p], {}, tx)
        ELSE IF q \in Inner(p, k, c) THEN Opened(Moved(T[p]), {}, tx)
        ELSE IF q \in Below(p, k, c) THEN LeafNode(NoKey, PlaceholderValues)
        ELSE T[q]

SplitNodes(T, p, k, tx) ==
    [q \in DOMAIN T \cup Below(p, k, T[p].key) |-> SplitNode(T, p, k, tx, q)]

LEMMA OpenedRec ==
    ASSUME NEW n, IsNode(n), NEW tx
    PROVE  [n EXCEPT !.key = NoKey, !.shares = {}, !.backup = Backup(n, tx)] = Opened(n, {}, tx)
<1> DEFINE x == NoKey
           y == {}
           z == Backup(n, tx)
<1> HIDE DEF x, y, z
<1>1. [n EXCEPT !.key = x, !.shares = y, !.backup = z] =
         Rec(x, n.values, n.label, n.inconsistent, z, y)
  BY KeySharesBackup
<1> QED BY <1>1 DEF x, y, z, Opened

LEMMA MovedRec ==
    ASSUME NEW n, IsNode(n)
    PROVE  /\ [LeafNode(n.key, n.values) EXCEPT !.label = n.label, !.shares = n.shares] = Moved(n)
           /\ IsNode(Moved(n))
<1> DEFINE m == LeafNode(n.key, n.values)
           x == n.label
           y == n.shares
           k == n.key
           v == n.values
           l == LeafLabel(k, v)
           no == Unmarked
           none == {}
<1>1. m = Rec(k, v, l, no, none, none)
  BY LeafNodeRec
<1> HIDE DEF m, x, y, k, v, l, no, none
<1>2. IsNode(m) /\ m.key = k /\ m.values = v /\ m.inconsistent = no /\ m.backup = none
  BY <1>1, RecFields
<1>3. [m EXCEPT !.label = x, !.shares = y] = Rec(m.key, m.values, x, m.inconsistent, m.backup, y)
  BY <1>2, LabelShares
<1>4. [m EXCEPT !.label = x, !.shares = y] = Rec(k, v, x, no, none, y)
  BY <1>2, <1>3
<1>5. IsNode(Rec(k, v, x, no, none, y))
  BY RecFields
<1> QED BY <1>4, <1>5 DEF m, x, y, k, v, no, none, Moved

LEMMA MovedFields ==
    ASSUME NEW n
    PROVE  LET m == Moved(n)
           IN  /\ IsNode(m) /\ m.key = n.key /\ m.values = n.values /\ m.label = n.label
               /\ m.inconsistent = Unmarked /\ m.backup = {}
BY RecFields DEF Moved

LEMMA SplitForm ==
    ASSUME NEW T, NEW p, IsNode(T[p]), NEW k, NEW v, NEW tx
    PROVE  Split(T, p, k, v, tx) =
              Fill(SplitNodes(T, p, k, tx), NewHome(k, T[p].key), k, v, tx)
<1> DEFINE n == T[p]
           c == T[p].key
           moved == [LeafNode(c, n.values) EXCEPT !.label = n.label, !.shares = n.shares]
           open(m) == [m EXCEPT !.key = NoKey, !.shares = {}, !.backup = Backup(m, tx)]
           I == Inner(p, k, c)
           B == Below(p, k, c)
           split == [q \in DOMAIN T \cup B |->
                      IF q = Prefix(PathOf[c], CommonBits(k, c) + 1) THEN moved
                      ELSE IF q = p THEN open(n)
                      ELSE IF q \in I THEN open(moved)
                      ELSE IF q \in B THEN LeafNode(NoKey, PlaceholderValues)
                      ELSE T[q]]
<1>1. Split(T, p, k, v, tx) = Fill(split, NewHome(k, c), k, v, tx)
  BY Zenon DEF Split, Inner, Below, NewHome
<1>2. moved = Moved(n) /\ IsNode(moved)
  BY MovedRec
<1>3. open(n) = Opened(n, {}, tx)
  BY OpenedRec
<1>4. open(moved) = Opened(Moved(n), {}, tx)
  BY <1>2, OpenedRec
<1> HIDE DEF moved, open, B, I
<1>5. split = SplitNodes(T, p, k, tx)
  BY <1>2, <1>3, <1>4, Zenon DEF SplitNodes, SplitNode, I, B
<1> QED BY <1>1, <1>5

LEMMA BelowMember ==
    ASSUME NEW k \in Keys, NEW c \in Keys, NEW p, Forks(p, k, c), NEW q \in Below(p, k, c)
    PROVE  /\ q \in Path /\ On(p, q) /\ q # p
           /\ Parent(q) \in Inner(p, k, c) /\ Size(q) # 0
<1>1. PICK a \in Inner(p, k, c), b \in Bit : q = Child(a, b)
  BY DEF Below, Children, Bit
<1>2. p \in Path /\ a \in Path /\ On(p, a)
  BY InnerMember DEF Forks
<1>3. q \in Path /\ Size(q) = Size(a) + 1 /\ Parent(q) = a
  BY <1>1, <1>2, ChildFacts
<1>4. On(p, q) /\ Size(p) <= Size(a)
  BY <1>1, <1>2, <1>3, OnChild, OnTransitive DEF On
<1> QED BY <1>1, <1>2, <1>3, <1>4

LEMMA SplitPushed ==
    ASSUME NEW T, Shape(T), Nodes(T), NEW p \in DOMAIN T, IsLeaf(T, p), NEW k \in Keys,
           T[p].key \in Keys, Forks(p, k, T[p].key), NEW v, NEW tx \in BOOLEAN
    PROVE  Pushed(T, Split(T, p, k, v, tx), p, k, v, tx)
<1> DEFINE n == T[p]
           c == n.key
           I == Inner(p, k, c)
           B == Below(p, k, c)
           h == NewHome(k, c)
           o == NewHome(c, k)
           M == SplitNodes(T, p, k, tx)
           N == Split(T, p, k, v, tx)
           e == LeafNode(NoKey, PlaceholderValues)
           hn == Rec(k, v, LeafLabel(k, v), M[h].inconsistent, Backup(M[h], tx), {})
<1>1. /\ h \in B \ I /\ o \in B \ I /\ h # o
      /\ Prefix(PathOf[c], CommonBits(k, c) + 1) = o
  BY HomeFacts
<1>2. ASSUME NEW q \in B
      PROVE  q \notin DOMAIN T /\ q # p
  <2>1. q \in Path /\ On(p, q) /\ q # p
    BY BelowMember
  <2> QED BY <2>1, LeafEnds
<1>3. ASSUME NEW q \in I
      PROVE  (q \in DOMAIN T => q = p) /\ (q = p \/ q \in B)
  <2>1. q \in Path /\ On(p, q) /\ p \in Path /\ On(q, PathOf[k]) /\ On(q, PathOf[c])
    BY InnerMember DEF Forks
  <2>2. q \in DOMAIN T => q = p
    BY <2>1, LeafEnds
  <2>3. ASSUME q # p
        PROVE  q \in B
    <3>1. Size(q) # 0 /\ Size(q) # Size(p) /\ Size(p) <= Size(q)
      BY <2>1, <2>3, RootOnly, OnEqual DEF On
    <3>2. /\ Parent(q) \in Path /\ Size(Parent(q)) = Size(q) - 1 /\ q[Size(q)] \in Bit
          /\ q = Child(Parent(q), q[Size(q)])
      BY <2>1, <3>1, ParentFacts
    <3>3. On(Parent(q), q) /\ Size(p) <= Size(Parent(q))
      BY <2>1, <3>1, <3>2, OnChild
    <3>4. On(p, Parent(q))
      BY <2>1, <3>2, <3>3, OnComparable
    <3>5. On(Parent(q), PathOf[k]) /\ On(Parent(q), PathOf[c])
      BY <2>1, <3>2, <3>3, OnTransitive, KeyPaths
    <3>6. Parent(q) \in I
      BY <3>2, <3>4, <3>5, InnerMember
    <3> QED BY <3>2, <3>6 DEF Below, Children, Bit
  <2> QED BY <2>2, <2>3
<1>4. p \in I
  BY InnerMember, OnSelf DEF Forks
<1>5. /\ DOMAIN M = DOMAIN T \cup B
      /\ \A q \in DOMAIN T \cup B : M[q] = SplitNode(T, p, k, tx, q)
  BY DEF SplitNodes
<1>6. IsNode(n) /\ N = Fill(M, h, k, v, tx)
  BY SplitForm DEF Nodes
<1>7. N = [M EXCEPT ![h] = hn]
  BY <1>6, FillRec
<1> HIDE DEF N, M, I, B, h, o, c, e
<1>8. DOMAIN N = DOMAIN T \cup B /\ N[h] = hn /\ \A q \in DOMAIN T \cup B : q # h => N[q] = M[q]
  BY <1>1, <1>5, <1>7
<1>9. \A q \in DOMAIN T \ {p} : SplitNode(T, p, k, tx, q) = T[q]
  BY <1>1, <1>2, <1>3 DEF SplitNode, I, B, c
<1>10. SplitNode(T, p, k, tx, o) = Moved(n)
  BY <1>1 DEF SplitNode, I, B, c
<1>11. SplitNode(T, p, k, tx, p) = Opened(n, {}, tx)
  BY <1>1, <1>4 DEF SplitNode, I, B, c
<1>12. \A q \in I \ {p} : SplitNode(T, p, k, tx, q) = Opened(Moved(n), {}, tx)
  BY <1>1 DEF SplitNode, I, B, c
<1>13. \A q \in B \ I : q # o => SplitNode(T, p, k, tx, q) = e
  BY <1>1, <1>2 DEF SplitNode, I, B, c, e
<1>14. IsNode(e) /\ e.inconsistent = Unmarked
  BY LeafNodeFields DEF e
<1>15. M[h] = e
  BY <1>1, <1>5, <1>13
<1>16. N[h] = Rec(k, v, LeafLabel(k, v), Unmarked, Backup(e, tx), {}) /\ IsNode(N[h])
  <2>1. IsNode(hn)
    BY RecFields
  <2> QED BY <1>8, <1>14, <1>15, <2>1
<1>17. ASSUME NEW m, NEW y, NEW q, N[q] = Opened(m, y, tx)
       PROVE  /\ IsNode(N[q]) /\ N[q].key = NoKey
              /\ N[q].inconsistent = m.inconsistent /\ N[q].backup = Backup(m, tx)
  <2> DEFINE x == Backup(m, tx)
             r == N[q]
  <2>1. r = Rec(NoKey, m.values, m.label, m.inconsistent, x, y)
    BY <1>17 DEF Opened
  <2> HIDE DEF x, r
  <2>2. IsNode(r) /\ r.key = NoKey /\ r.inconsistent = m.inconsistent /\ r.backup = x
    BY <2>1, RecFields
  <2> QED BY <2>2 DEF x, r
<1>18. Moved(n).inconsistent = Unmarked /\ IsNode(Moved(n))
  BY MovedFields
<1>19. N[p] = Opened(n, {}, tx)
  BY <1>1, <1>4, <1>5, <1>8, <1>11
<1>20. /\ IsNode(N[p]) /\ N[p].key = NoKey
       /\ N[p].inconsistent = T[p].inconsistent /\ N[p].backup = Backup(T[p], tx)
  BY <1>17, <1>19
<1>21. ASSUME NEW q \in I \ {p}
       PROVE  /\ IsNode(N[q]) /\ N[q].key = NoKey
              /\ N[q].inconsistent = Unmarked /\ N[q].backup = Backup(Moved(T[p]), tx)
  <2>1. N[q] = Opened(Moved(n), {}, tx)
    BY <1>1, <1>3, <1>5, <1>8, <1>12
  <2> QED BY <1>17, <1>18, <2>1
<1>22. \A q \in B \ I : q # h /\ q # o => N[q] = e
  BY <1>5, <1>8, <1>13
<1>23. N[o] = Moved(n)
  BY <1>1, <1>5, <1>8, <1>10
<1>24. \A q \in DOMAIN T \ {p} : N[q] = T[q]
  BY <1>1, <1>2, <1>5, <1>8, <1>9
<1>25. ASSUME NEW q \in DOMAIN N
       PROVE  IsNode(N[q])
  <2>1. CASE q \in DOMAIN T \ {p}
    BY <1>24, <2>1 DEF Nodes
  <2>2. CASE q \in I
    BY <1>20, <1>21, <2>2
  <2>3. CASE q \in B \ I
    BY <1>14, <1>16, <1>18, <1>22, <1>23, <2>3
  <2> QED BY <1>4, <1>8, <2>1, <2>2, <2>3
<1>26. Nodes(N)
  BY <1>25 DEF Nodes
<1> QED BY <1>8, <1>16, <1>20, <1>21, <1>22, <1>23, <1>24, <1>26 DEF Pushed, N, I, B, h, o, c, e

\* The keys of N, which Propagate does not change.
PushedKeys(T, N, p, k) ==
    LET c == T[p].key
        B == Below(p, k, c)
    IN  /\ DOMAIN N = DOMAIN T \cup B
        /\ \A q \in DOMAIN T \ {p} : N[q].key = T[q].key
        /\ \A q \in B \cup {p} : q # NewHome(k, c) /\ q # NewHome(c, k) => N[q].key = NoKey
        /\ N[NewHome(c, k)].key = c
        /\ N[NewHome(k, c)].key = k

LEMMA PushedHasKeys ==
    ASSUME NEW T, NEW S, NEW p \in DOMAIN T, NEW k \in Keys, NEW v, NEW tx, T[p].key \in Keys,
           Forks(p, k, T[p].key), Pushed(T, S, p, k, v, tx),
           NEW N, DOMAIN N = DOMAIN S, \A q \in DOMAIN S : N[q].key = S[q].key
    PROVE  PushedKeys(T, N, p, k)
<1> DEFINE c == T[p].key
           I == Inner(p, k, c)
           B == Below(p, k, c)
           h == NewHome(k, c)
           o == NewHome(c, k)
<1>1. h \in B \ I /\ o \in B \ I /\ p \in I
  BY HomeFacts, InnerMember, OnSelf DEF Forks
<1>2. LeafNode(NoKey, PlaceholderValues).key = NoKey
  BY LeafNodeFields
<1>3. Moved(T[p]).key = c
  BY MovedFields
<1>4. \A l, b, s : Rec(k, v, l, Unmarked, b, s).key = k
  BY RecFields
<1> QED BY <1>1, <1>2, <1>3, <1>4 DEF PushedKeys, Pushed

LEMMA PushedShape ==
    ASSUME NEW T, Shape(T), NEW p \in DOMAIN T, NEW k \in Keys, NEW c \in Keys, Forks(p, k, c),
           NEW N, DOMAIN N = DOMAIN T \cup Below(p, k, c)
    PROVE  Shape(N)
<1> DEFINE I == Inner(p, k, c)
           B == Below(p, k, c)
<1>1. /\ p \in Path /\ PathOf[k] \in Path /\ Size(PathOf[k]) = Depth
      /\ PathOf[c] \in Path /\ Size(PathOf[c]) = Depth /\ k # c
  BY KeyPaths DEF Forks
<1>2. ASSUME NEW a
      PROVE  a \in I <=> a \in Path /\ On(p, a) /\ On(a, PathOf[k]) /\ On(a, PathOf[c])
  BY InnerMember
<1>3. ASSUME NEW q \in B
      PROVE  /\ q \in Path /\ Parent(q) \in I /\ Size(q) # 0 /\ q[Size(q)] \in Bit
             /\ q = Child(Parent(q), q[Size(q)]) /\ Size(q) = Size(Parent(q)) + 1
  <2>1. q \in Path /\ Parent(q) \in I /\ Size(q) # 0
    BY BelowMember
  <2> QED BY <2>1, ParentFacts, ChildFacts
<1>4. ASSUME NEW a \in Path, NEW b \in Bit
      PROVE  Child(a, b) \in B <=> a \in I
  <2>1. Parent(Child(a, b)) = a
    BY ChildFacts
  <2>2. a \in I => Child(a, b) \in B
    BY DEF Below, Children, Bit
  <2> QED BY <1>3, <2>1, <2>2
<1>5. ASSUME NEW a \in I
      PROVE  a \in DOMAIN T \/ a \in B
  <2>1. a \in Path /\ On(p, a) /\ On(a, PathOf[k]) /\ On(a, PathOf[c])
    BY <1>2
  <2>2. CASE a = p
    BY <2>2
  <2>3. CASE a # p
    <3>1. Size(a) # 0 /\ Size(p) < Size(a) /\ Size(p) \in Nat /\ Size(a) \in Nat
      BY <1>1, <2>1, <2>3, OnEqual, PathSize DEF On
    <3> DEFINE e == Parent(a)
    <3>2. e \in Path /\ Size(e) = Size(a) - 1 /\ a[Size(a)] \in Bit /\ a = Child(e, a[Size(a)])
      BY <2>1, <3>1, ParentFacts
    <3>3. On(e, a)
      BY <3>2, OnChild
    <3> HIDE DEF e
    <3>4. Size(p) <= Size(e)
      BY <3>1, <3>2
    <3>5. On(p, e)
      BY <1>1, <2>1, <3>2, <3>3, <3>4, OnComparable
    <3>6. On(e, PathOf[k]) /\ On(e, PathOf[c])
      BY <1>1, <2>1, <3>2, <3>3, OnTransitive
    <3>7. e \in I
      BY <1>2, <3>2, <3>5, <3>6
    <3> QED BY <1>4, <3>2, <3>7
  <2> QED BY <2>2, <2>3
<1> HIDE DEF I, B
<1>6. ASSUME NEW q \in DOMAIN N
      PROVE  q \in Path /\ Size(q) <= Depth
  <2>1. CASE q \in DOMAIN T
    BY <2>1 DEF Shape
  <2>2. CASE q \in B
    <3>1. q \in Path /\ Parent(q) \in I /\ Size(q) = Size(Parent(q)) + 1
      BY <1>3, <2>2
    <3> DEFINE a == Parent(q)
    <3>2. a \in Path /\ On(p, a) /\ On(a, PathOf[k]) /\ On(a, PathOf[c])
      BY <1>2, <3>1
    <3> HIDE DEF a
    <3>3. Size(a) <= CommonBits(k, c) /\ CommonBits(k, c) \in 0..Depth - 1
      BY <1>1, <3>2, CommonFacts, CommonPath
    <3>4. Size(a) \in Nat /\ Depth \in Nat
      BY <3>2, PathSize, KeyAssumption
    <3> QED BY <3>1, <3>3, <3>4 DEF a
  <2> QED BY <2>1, <2>2 DEF B
<1>7. ASSUME NEW q \in DOMAIN N, NEW a \in Path, On(a, q)
      PROVE  a \in DOMAIN N
  <2>1. CASE q \in DOMAIN T
    BY <1>7, <2>1 DEF Shape
  <2>2. CASE q \in B
    <3> DEFINE e == Parent(q)
    <3>1. q \in Path /\ e \in I /\ q[Size(q)] \in Bit /\ q = Child(e, q[Size(q)])
      BY <1>3, <2>2
    <3>2. e \in Path /\ On(p, e) /\ On(e, PathOf[k]) /\ On(e, PathOf[c])
      BY <1>2, <3>1
    <3> HIDE DEF e
    <3>3. a = q \/ On(a, e)
      <4>1. Size(q) = Size(e) + 1 /\ On(e, q) /\ Size(a) \in Nat /\ Size(e) \in Nat /\ Size(a) <= Size(q)
        BY <1>7, <3>1, <3>2, ChildFacts, OnChild, PathSize DEF On
      <4>2. Size(a) = Size(q) \/ Size(a) <= Size(e)
        BY <4>1
      <4>3. CASE Size(a) = Size(q)
        BY <1>7, <3>1, <4>3, OnEqual
      <4>4. CASE Size(a) <= Size(e)
        BY <1>7, <3>1, <3>2, <4>1, <4>4, OnComparable
      <4> QED BY <4>2, <4>3, <4>4
    <3>4. CASE On(a, e)
      <4>1. CASE On(p, a)
        <5>1. On(a, PathOf[k]) /\ On(a, PathOf[c])
          BY <1>1, <3>2, <3>4, OnTransitive
        <5>2. a \in I
          BY <1>2, <4>1, <5>1
        <5> QED BY <1>5, <5>2 DEF B
      <4>2. CASE ~On(p, a)
        <5>1. On(a, p)
          BY <1>1, <3>2, <3>4, <4>2, OnComparable
        <5> QED BY <5>1 DEF Shape
      <4> QED BY <4>1, <4>2
    <3> QED BY <1>7, <3>3, <3>4
  <2> QED BY <2>1, <2>2 DEF B
<1>8. ASSUME NEW q \in Path, NEW b \in Bit, NEW d \in Bit, Child(q, b) \in DOMAIN N
      PROVE  Child(q, d) \in DOMAIN N
  <2>1. CASE Child(q, b) \in DOMAIN T
    BY <2>1 DEF Shape
  <2>2. CASE Child(q, b) \in B
    BY <1>4, <2>2 DEF B
  <2> QED BY <1>8, <2>1, <2>2 DEF B
<1>9. \A b \in Bit : Child(Root, b) \in DOMAIN N
  BY DEF Shape
<1> QED BY <1>6, <1>7, <1>8, <1>9 DEF Shape

LEMMA PushedRegular ==
    ASSUME NEW T, Regular(T), NEW p \in DOMAIN T, IsLeaf(T, p), T[p].key \in Keys,
           NEW k \in Keys, k \notin KeysIn(T), On(p, PathOf[k]), NEW N, PushedKeys(T, N, p, k)
    PROVE  /\ Forks(p, k, T[p].key)
           /\ Regular(N) /\ KeysIn(N) = KeysIn(T) \cup {k}
<1> DEFINE c == T[p].key
           K == KeysIn(T)
           L == K \cup {k}
           I == Inner(p, k, c)
           B == Below(p, k, c)
           h == NewHome(k, c)
           o == NewHome(c, k)
<1>1. /\ Shape(T) /\ Keyed(T) /\ p \in Path /\ c \in K /\ K \in SUBSET Keys
      /\ L \in SUBSET Keys /\ c # k /\ c # NoKey /\ k # NoKey
      /\ On(p, PathOf[c]) /\ PathOf[k] \in Path /\ PathOf[c] \in Path
  BY KeysInKeys, KeyPaths, KeyAssumption DEF Regular, Shape, KeysIn
<1>2. Forks(p, k, c)
  BY <1>1 DEF Forks
<1>3. /\ h \in B \ I /\ o \in B \ I /\ h # o
      /\ On(h, PathOf[k]) /\ On(o, PathOf[c])
  BY <1>2, HomeFacts
<1>4. ASSUME NEW q \in B
      PROVE  q \in Path /\ On(p, q) /\ q # p /\ Parent(q) \in I /\ Size(q) # 0 /\ q \notin DOMAIN T
  <2>1. q \in Path /\ On(p, q) /\ q # p /\ Parent(q) \in I /\ Size(q) # 0
    BY <1>2, BelowMember
  <2> QED BY <1>1, <2>1, LeafEnds
<1>5. ASSUME NEW a
      PROVE  a \in I <=> a \in Path /\ On(p, a) /\ On(a, PathOf[k]) /\ On(a, PathOf[c])
  BY <1>2, InnerMember
<1>6. ASSUME NEW a \in Path, NEW b \in Bit
      PROVE  Child(a, b) \in B <=> a \in I
  <2>1. Parent(Child(a, b)) = a
    BY ChildFacts
  <2>2. a \in I => Child(a, b) \in B
    BY DEF Below, Children, Bit
  <2> QED BY <1>4, <2>1, <2>2
<1>7. /\ DOMAIN N = DOMAIN T \cup B
      /\ \A q \in DOMAIN T \ {p} : N[q].key = T[q].key
      /\ \A q \in B \cup {p} : q # h /\ q # o => N[q].key = NoKey
      /\ N[o].key = c /\ N[h].key = k
  BY DEF PushedKeys
<1> HIDE DEF c, K, L, I, B, h, o
<1>8. KeysIn(N) = L
  <2>1. \A x \in L : \E q \in DOMAIN N : N[q].key = x
    <3>1. SUFFICES ASSUME NEW x \in L PROVE \E q \in DOMAIN N : N[q].key = x
      OBVIOUS
    <3>2. CASE x = k
      BY <1>3, <1>7, <3>2
    <3>3. CASE x = c
      BY <1>3, <1>7, <3>3
    <3>4. CASE x # k /\ x # c
      <4>1. PICK q \in DOMAIN T : T[q].key = x
        BY <3>4 DEF L, K, KeysIn
      <4> QED BY <1>7, <3>4, <4>1 DEF c
    <3> QED BY <3>2, <3>3, <3>4
  <2>2. \A q \in DOMAIN N : N[q].key \in L \cup {NoKey}
    <3>1. SUFFICES ASSUME NEW q \in DOMAIN N PROVE N[q].key \in L \cup {NoKey}
      OBVIOUS
    <3>2. CASE q \in DOMAIN T \ {p}
      BY <1>7, <3>2 DEF L, K, KeysIn
    <3>3. CASE q \in B \cup {p}
      BY <1>1, <1>7, <3>3 DEF L
    <3> QED BY <1>7, <3>2, <3>3
  <2>3. NoKey \notin L
    BY <1>1, KeyAssumption
  <2> QED BY <2>1, <2>2, <2>3 DEF KeysIn
<1>9. Keyed(N)
  <2>1. SUFFICES ASSUME NEW q \in DOMAIN N PROVE N[q].key \in Keys \cup {NoKey}
    BY DEF Keyed
  <2>2. CASE q \in DOMAIN T \ {p}
    BY <1>1, <1>7, <2>2 DEF Keyed
  <2>3. CASE q \in B \cup {p}
    BY <1>1, <1>7, <2>3
  <2> QED BY <1>7, <2>2, <2>3
<1>10. ASSUME NEW q \in Path, Canonical(q, L)
       PROVE  q \in DOMAIN N
  <2>1. CASE Size(q) <= 1
    BY <1>7, <2>1 DEF Regular, Canonical
  <2>2. CASE Size(q) > 1
    <3> DEFINE a == Parent(q)
    <3>1. a \in Path /\ Size(a) # 0 /\ q[Size(q)] \in Bit /\ q = Child(a, q[Size(q)])
      BY <2>2, ParentFacts
    <3> HIDE DEF a
    <3>2. Crowd(a, L)
      BY <1>10, <2>2 DEF Canonical, a
    <3>3. CASE Crowd(a, K)
      BY <1>7, <3>3 DEF Regular, Canonical, K, a
    <3>4. CASE ~Crowd(a, K)
      <4>1. PICK d \in K : On(a, PathOf[k]) /\ On(a, PathOf[d])
        BY <3>2, <3>4 DEF Crowd, L
      <4>2. CASE On(p, a)
        <5>1. On(p, PathOf[d])
          BY <1>1, <3>1, <4>1, <4>2, OnTransitive, KeyPaths
        <5>2. c = d
          BY <5>1, BelowLeaf DEF K, c
        <5>3. a \in I
          BY <1>5, <3>1, <4>1, <4>2, <5>2
        <5> QED BY <1>6, <1>7, <3>1, <5>3
      <4>3. CASE ~On(p, a)
        <5>1. On(a, p) /\ Size(a) # Size(p)
          BY <1>1, <3>1, <4>1, <4>3, OnComparable, OnSelf, OnEqual
        <5>2. p[Size(a) + 1] \in Bit /\ On(Child(a, p[Size(a) + 1]), p)
          BY <1>1, <3>1, <5>1, OnStep
        <5>3. Child(a, p[Size(a) + 1]) \in DOMAIN T
          BY <1>1, <3>1, <5>2, ChildFacts DEF Shape
        <5>4. q \in DOMAIN T
          BY <1>1, <3>1, <5>2, <5>3 DEF Shape
        <5> QED BY <1>7, <5>4
      <4> QED BY <4>2, <4>3
    <3> QED BY <3>3, <3>4
  <2> QED BY <2>1, <2>2
<1>11. ASSUME NEW q \in DOMAIN N
       PROVE  q \in Path /\ Canonical(q, L)
  <2>1. CASE q \in DOMAIN T
    <3>1. q \in Path /\ Canonical(q, K)
      BY <1>1, <2>1 DEF Regular, K, Shape
    <3> QED BY <3>1, CrowdMore DEF L
  <2>2. CASE q \in B
    <3>1. q \in Path /\ Parent(q) \in I
      BY <1>4, <2>2
    <3>2. Crowd(Parent(q), L)
      BY <1>1, <1>5, <3>1 DEF Crowd, L
    <3> QED BY <3>1, <3>2 DEF Canonical
  <2> QED BY <1>7, <2>1, <2>2
<1>12. DOMAIN N = CanonicalPaths(L)
  <2>1. \A q : q \in CanonicalPaths(L) <=> q \in Path /\ Canonical(q, L)
    BY <1>1, CanonicalMember
  <2> QED BY <1>10, <1>11, <2>1
<1>13. Shape(N)
  BY <1>1, <1>12, CanonicalShape
<1>14. ASSUME NEW q \in DOMAIN N, N[q].key # NoKey
       PROVE  IsLeaf(N, q) /\ On(q, PathOf[N[q].key])
  <2>0. q \in Path /\ 0 \in Bit
    BY <1>11 DEF Bit
  <2>1. CASE q \in DOMAIN T \ {p}
    <3>1. IsLeaf(T, q) /\ On(q, PathOf[N[q].key])
      BY <1>7, <1>14, <2>1 DEF Regular
    <3>2. q \notin I
      BY <1>1, <1>5, <2>1, LeafEnds
    <3> QED BY <1>6, <1>7, <2>0, <3>1, <3>2 DEF IsLeaf
  <2>2. CASE q \in B \cup {p}
    <3>1. q = h \/ q = o
      BY <1>7, <1>14, <2>2
    <3>2. On(q, PathOf[N[q].key])
      BY <1>3, <1>7, <3>1
    <3>3. q \notin I /\ On(p, q) /\ q # p
      BY <1>3, <1>4, <3>1
    <3>4. Child(q, 0) \notin DOMAIN T
      <4>1. SUFFICES ASSUME Child(q, 0) \in DOMAIN T PROVE FALSE
        OBVIOUS
      <4>2. q \in DOMAIN T
        BY <1>1, <2>0, <4>1, OnChild DEF Shape
      <4> QED BY <1>1, <3>3, <4>2, LeafEnds
    <3> QED BY <1>6, <1>7, <2>0, <3>2, <3>3, <3>4 DEF IsLeaf
  <2> QED BY <1>7, <2>1, <2>2
<1>15. \A q \in Path : q \in DOMAIN N <=> Canonical(q, KeysIn(N))
  BY <1>8, <1>10, <1>11
<1>16. Regular(N)
  BY <1>9, <1>13, <1>14, <1>15 DEF Regular
<1> QED BY <1>2, <1>8, <1>16 DEF L, K, c

-----------------------------------------------------------------------------
(* Remove *)

\* Where the way to q leaves the way to p.
LEMMA Diverge ==
    ASSUME NEW p \in Path, NEW q \in Path, ~On(p, q), ~On(q, p),
           NEW a \in Path, On(a, p), On(a, q)
    PROVE  \E j \in Size(a) + 1..Size(p) : On(Sibling(Prefix(p, j)), q)
<1> DEFINE U == {j \in 0..Size(p) : ~On(Prefix(p, j), q)}
<1>1. Size(p) \in U /\ U \in SUBSET Nat
  BY PrefixSelf
<1> HIDE DEF U
<1>2. PICK j \in U : \A i \in U : j <= i
  BY <1>1, Ind!LeastNat
<1>3. j \in 0..Size(p) /\ ~On(Prefix(p, j), q)
  BY <1>2 DEF U
<1>4. Size(a) + 1 <= j
  <2>1. SUFFICES ASSUME j <= Size(a) PROVE FALSE
    BY <1>3
  <2>2. Size(a) \in 0..Size(p) /\ a = Prefix(p, Size(a))
    BY DEF On
  <2>3. Prefix(a, j) = Prefix(p, j)
    BY <1>3, <2>1, <2>2, PrefixFacts
  <2>4. On(Prefix(a, j), a) /\ Prefix(a, j) \in Path
    BY <1>3, <2>1, OnPrefix, PrefixFacts
  <2>5. On(Prefix(a, j), q)
    BY <2>4, OnTransitive
  <2> QED BY <1>3, <2>3, <2>5
<1> DEFINE i == j - 1
<1>5. i \in 0..Size(p) - 1 /\ i \in 0..Size(p) /\ i + 1 = j /\ i \in Nat /\ ~(j <= i)
  BY <1>3, <1>4
<1> HIDE DEF i
<1> DEFINE b == Prefix(p, i)
           e == Prefix(p, j)
<1>6. On(b, q) /\ b \in Path /\ Size(b) = i /\ On(b, p)
  BY <1>2, <1>5, PrefixFacts, OnPrefix DEF U
<1>7. e = Child(b, p[j]) /\ p[j] \in Bit
  BY <1>5, PrefixStep
<1>8. e \in Path /\ Size(e) = j /\ Parent(e) = b
  BY <1>6, <1>7, ChildFacts, PrefixFacts, <1>3
<1> HIDE DEF b, e
<1>9. Size(b) # Size(q)
  BY <1>6, OnEqual
<1>10. q[Size(b) + 1] \in Bit /\ On(Child(b, q[Size(b) + 1]), q)
  BY <1>6, <1>9, OnStep
<1>11. Child(b, q[Size(b) + 1]) \in {e, Sibling(e)}
  BY <1>4, <1>8, <1>10, Siblings
<1>12. On(Sibling(e), q)
  BY <1>3, <1>10, <1>11 DEF e
<1> QED BY <1>3, <1>4, <1>12 DEF e

\* What Remove does to a tree T with the leaf p: U are the nodes that
\* collapse, t is the topmost of them.
Stem(T, p, U, t) ==
    /\ Size(p) >= 2
    /\ Sibling(p) \in DOMAIN T /\ IsLeaf(T, Sibling(p))
    /\ t \in U /\ Size(t) >= 1
    /\ \A a : a \in U <=> a \in Ancestors(p) /\ On(t, a)
    /\ \A q \in DOMAIN T : On(t, q) /\ q # t =>
          /\ Parent(q) \in U
          /\ q \in U \/ q = p \/ q = Sibling(p) \/ IsPlaceholder(T, q)
    /\ Size(t) >= 2 => ~IsPlaceholder(T, Sibling(t))

LEMMA SiblingIn ==
    ASSUME NEW T, Shape(T), NEW p \in DOMAIN T, Size(p) # 0
    PROVE  Sibling(p) \in DOMAIN T /\ Parent(p) \in DOMAIN T
<1>1. p \in Path
  BY DEF Shape
<1>2. /\ Parent(p) \in Path /\ Size(Parent(p)) = Size(p) - 1 /\ p[Size(p)] \in Bit
      /\ p = Child(Parent(p), p[Size(p)])
  BY <1>1, ParentFacts
<1>3. 1 - p[Size(p)] \in Bit /\ Sibling(p) = Child(Parent(p), 1 - p[Size(p)])
  BY <1>2 DEF Bit, Sibling, Size
<1>4. On(Parent(p), p)
  BY <1>2, OnChild
<1> QED BY <1>2, <1>3, <1>4, <1>1 DEF Shape

LEMMA CollapseNone ==
    ASSUME NEW C, NEW p \in Path
    PROVE  /\ Collapsing(C, p) = {} <=> Size(p) < 2 \/ ~IsLeaf(C, Sibling(p))
           /\ Collapsing(C, p) = {} => Top(C, p) = p
<1> DEFINE n == Size(p) - 1
           M == {m \in 1..n : \A j \in m + 1..n : IsPlaceholder(C, Sibling(Prefix(p, j)))}
<1>1. CASE Size(p) < 2 \/ ~IsLeaf(C, Sibling(p))
  BY <1>1 DEF Collapsing, Top, Size
<1>2. CASE ~(Size(p) < 2 \/ ~IsLeaf(C, Sibling(p)))
  <2>1. Collapsing(C, p) = {Prefix(p, m) : m \in M}
    BY <1>2 DEF Collapsing, Size
  <2>2. n \in 1..n /\ n + 1..n = {}
    BY <1>2
  <2>3. n \in M
    BY <2>2
  <2> QED BY <1>2, <2>1, <2>3
<1> QED BY <1>1, <1>2

LEMMA CollapseStem ==
    ASSUME NEW T, Shape(T), NEW p \in DOMAIN T, IsLeaf(T, p),
           NEW C, DOMAIN C = DOMAIN T, \A q \in DOMAIN T : q # p => C[q].key = T[q].key,
           Collapsing(C, p) # {}
    PROVE  Stem(T, p, Collapsing(C, p), Top(C, p))
<1> DEFINE n == Size(p) - 1
           s == Sibling(p)
           W(j) == Sibling(Prefix(p, j))
           M == {m \in 1..n : \A j \in m + 1..n : IsPlaceholder(C, W(j))}
           U == Collapsing(C, p)
           t == Top(C, p)
<1>1. p \in Path /\ Size(p) \in Nat /\ Size(p) >= 2 /\ IsLeaf(C, s)
  BY CollapseNone DEF Shape
<1>2. U = {Prefix(p, m) : m \in M}
  BY <1>1 DEF Collapsing, Size
<1>3. t = CHOOSE q \in U \cup {p} : \A o \in U : Size(q) <= Size(o)
  BY DEF Top, Size
<1>4. s \in DOMAIN T /\ IsLeaf(T, s) /\ s \in Path
  BY <1>1, SiblingIn, Siblings DEF IsLeaf
<1>5. ASSUME NEW j \in 1..Size(p)
      PROVE  /\ Prefix(p, j) \in DOMAIN T /\ Prefix(p, j) \in Path /\ Size(Prefix(p, j)) = j
             /\ W(j) \in DOMAIN T /\ W(j) \in Path /\ Size(W(j)) = j
             /\ Parent(W(j)) = Prefix(p, j - 1)
  <2>1. Prefix(p, j) \in Path /\ Size(Prefix(p, j)) = j /\ On(Prefix(p, j), p)
    BY <1>1, PrefixFacts, OnPrefix
  <2>2. Prefix(p, j) \in DOMAIN T
    BY <2>1 DEF Shape
  <2>3. W(j) \in DOMAIN T /\ W(j) \in Path /\ Size(W(j)) = j /\ Parent(W(j)) = Parent(Prefix(p, j))
    BY <2>1, <2>2, SiblingIn, Siblings
  <2>4. Parent(Prefix(p, j)) = Prefix(p, j - 1)
    <3>1. j - 1 \in 0..j /\ j \in 0..Size(p)
      BY <1>1
    <3>2. Prefix(Prefix(p, j), j - 1) = Prefix(p, j - 1)
      BY <1>1, <3>1, PrefixFacts
    <3> QED BY <2>1, <3>2 DEF Parent, Size
  <2> QED BY <2>1, <2>2, <2>3, <2>4
<1>6. ASSUME NEW j \in 1..n
      PROVE  IsPlaceholder(C, W(j)) <=> IsPlaceholder(T, W(j))
  <2>1. j \in 1..Size(p) /\ j # Size(p)
    BY <1>1
  <2>2. W(j) \in DOMAIN T /\ W(j) # p
    BY <1>5, <2>1
  <2> QED BY <2>2 DEF IsPlaceholder, IsLeaf
<1> HIDE DEF W, U, t
<1>7. PICK x \in M : \A m \in M : x <= m
  <2>1. M \in SUBSET Nat /\ M # {}
    BY <1>1, <1>2 DEF U
  <2> HIDE DEF M
  <2> QED BY <2>1, Ind!LeastNat
<1>8. x \in 1..n /\ x \in 1..Size(p) /\ x < Size(p) /\ \A j \in x + 1..n : IsPlaceholder(C, W(j))
  BY <1>1, <1>7
<1>9. ASSUME NEW m \in 1..n
      PROVE  m \in M <=> x <= m
  <2>1. m \in M => x <= m
    BY <1>7
  <2>2. ASSUME x <= m
        PROVE  m \in M
    <3>1. \A j \in m + 1..n : j \in x + 1..n
      BY <1>8, <2>2
    <3> QED BY <1>8, <3>1
  <2> QED BY <2>1, <2>2
<1>10. M \subseteq 1..n /\ \A m \in M : m \in 1..Size(p) /\ m < Size(p) /\ m \in Nat
  BY <1>1
<1> HIDE DEF M
<1>11. t = Prefix(p, x)
  <2> DEFINE y == Prefix(p, x)
  <2>1. y \in U /\ Size(y) = x
    BY <1>2, <1>5, <1>7, <1>8
  <2>2. \A o \in U : Size(y) <= Size(o)
    BY <1>2, <1>5, <1>7, <1>10, <2>1
  <2> HIDE DEF y
  <2>3. \E q \in U \cup {p} : \A o \in U : Size(q) <= Size(o)
    BY <2>1, <2>2
  <2>4. t \in U \cup {p} /\ \A o \in U : Size(t) <= Size(o)
    BY <1>3, <2>3
  <2>5. Size(t) <= x
    BY <2>1, <2>4
  <2>6. t # p
    BY <1>1, <1>8, <2>5
  <2>7. PICK m \in M : t = Prefix(p, m)
    BY <1>2, <2>4, <2>6
  <2>8. Size(t) = m
    BY <1>5, <1>10, <2>7
  <2>9. m = x
    BY <1>7, <1>8, <1>10, <2>5, <2>7, <2>8
  <2> QED BY <2>7, <2>9
<1>12. t \in U /\ Size(t) = x /\ t \in Path /\ On(t, p)
  BY <1>1, <1>2, <1>5, <1>7, <1>8, <1>11, OnPrefix
<1>13. ASSUME NEW a
       PROVE  a \in U <=> a \in Ancestors(p) /\ On(t, a)
  <2>1. ASSUME NEW m \in M, a = Prefix(p, m)
        PROVE  a \in Ancestors(p) /\ On(t, a)
    <3>1. m \in 0..Size(p) /\ m < Size(p) /\ x <= m
      BY <1>1, <1>7, <1>10
    <3>2. a \in Path /\ Size(a) = m /\ On(a, p)
      BY <1>1, <2>1, <3>1, PrefixFacts, OnPrefix
    <3> QED BY <1>1, <1>12, <3>1, <3>2, AncestorsOn, OnComparable
  <2>2. ASSUME a \in Ancestors(p), On(t, a)
        PROVE  Size(a) \in M /\ a = Prefix(p, Size(a))
    <3>1. a \in Path /\ On(a, p) /\ Size(a) < Size(p)
      BY <1>1, <2>2, AncestorsOn
    <3>2. x <= Size(a) /\ a = Prefix(p, Size(a))
      BY <1>12, <2>2, <3>1 DEF On
    <3>3. Size(a) \in 1..n
      BY <1>1, <1>8, <3>1, <3>2
    <3> QED BY <1>9, <3>2, <3>3
  <2> QED BY <1>2, <2>1, <2>2
<1>14. ASSUME NEW q \in DOMAIN T, On(t, q), q # t
       PROVE  /\ Parent(q) \in U
              /\ q \in U \/ q = p \/ q = s \/ IsPlaceholder(T, q)
  <2>1. q \in Path
    BY DEF Shape
  <2>2. CASE On(q, p)
    <3>1. Size(q) \in 1..Size(p) /\ x < Size(q) /\ q = Prefix(p, Size(q))
      BY <1>1, <1>8, <1>12, <1>14, <2>1, <2>2, OnEqual DEF On
    <3>2. /\ Parent(q) \in Path /\ Size(Parent(q)) = Size(q) - 1
          /\ q[Size(q)] \in Bit /\ q = Child(Parent(q), q[Size(q)])
      BY <1>8, <2>1, <3>1, ParentFacts
    <3>a. x <= Size(Parent(q)) /\ Size(Parent(q)) < Size(p)
      BY <1>1, <1>8, <3>1, <3>2
    <3>b. On(Parent(q), q)
      BY <3>2, OnChild
    <3>3. On(Parent(q), q) /\ x <= Size(Parent(q)) /\ Size(Parent(q)) < Size(p)
      BY <3>a, <3>b
    <3>4. On(Parent(q), p) /\ On(t, Parent(q))
      BY <1>1, <1>12, <1>14, <2>1, <2>2, <3>2, <3>3, OnTransitive, OnComparable
    <3>5. Parent(q) \in U
      BY <1>1, <1>13, <3>2, <3>3, <3>4, AncestorsOn
    <3>6. CASE Size(q) = Size(p)
      BY <1>1, <2>1, <2>2, <3>5, <3>6, OnEqual
    <3>7. CASE Size(q) # Size(p)
      <4>1. q \in Ancestors(p)
        BY <1>1, <2>1, <2>2, <3>1, <3>7, AncestorsOn
      <4> QED BY <1>13, <1>14, <3>5, <4>1
    <3> QED BY <3>6, <3>7
  <2>3. CASE ~On(q, p)
    <3>1. ~On(p, q)
      BY <1>1, <2>1, <2>3, LeafEnds, OnSelf
    <3>2. PICK j \in x + 1..Size(p) : On(W(j), q)
      BY <1>1, <1>12, <1>14, <2>1, <2>3, <3>1, Diverge DEF W
    <3> DEFINE i == j - 1
    <3>3. j \in 1..Size(p) /\ i \in 1..n /\ x <= i
      BY <1>1, <1>8, <3>2
    <3>4. W(j) \in DOMAIN T /\ Parent(W(j)) = Prefix(p, i)
      BY <1>5, <3>3
    <3> HIDE DEF i
    <3>5. Prefix(p, i) \in U
      BY <1>2, <1>9, <3>3
    <3>6. CASE j = Size(p)
      <4>1. W(j) = s
        BY <1>1, <3>6, PrefixSelf DEF W
      <4>2. q = s
        BY <1>4, <3>2, <4>1, LeafEnds
      <4> QED BY <3>4, <3>5, <4>1, <4>2
    <3>7. CASE j # Size(p)
      <4>1. j \in x + 1..n /\ j \in 1..n
        BY <1>1, <1>8, <3>2, <3>7
      <4>2. IsPlaceholder(T, W(j))
        BY <1>6, <1>8, <4>1
      <4>3. q = W(j)
        BY <3>2, <3>4, <4>2, LeafEnds DEF IsPlaceholder
      <4> QED BY <3>4, <3>5, <4>2, <4>3
    <3> QED BY <3>6, <3>7
  <2> QED BY <2>2, <2>3
<1>15. ASSUME Size(t) >= 2, IsPlaceholder(T, Sibling(t))
       PROVE  FALSE
  <2> DEFINE i == x - 1
  <2>1. i \in 1..n /\ i < x /\ x \in 1..n /\ \A j \in i + 1..n : j = x \/ j \in x + 1..n
    BY <1>1, <1>8, <1>12, <1>15
  <2>2. IsPlaceholder(C, W(x))
    BY <1>6, <1>11, <1>15, <2>1 DEF W
  <2>3. \A j \in i + 1..n : IsPlaceholder(C, W(j))
    BY <1>8, <2>1, <2>2
  <2>4. i \in M
    BY <2>1, <2>3 DEF M
  <2> QED BY <1>7, <1>8, <2>1, <2>4
<1> QED BY <1>1, <1>4, <1>8, <1>12, <1>13, <1>14, <1>15 DEF Stem, U, t

LEMMA SiblingApart ==
    ASSUME NEW p \in Path, Size(p) # 0, NEW r \in Path, On(p, r)
    PROVE  ~On(Sibling(p), r)
BY Siblings DEF On

LEMMA InnerCrowd ==
    ASSUME NEW T, Regular(T), NEW a \in DOMAIN T, ~IsLeaf(T, a), Size(a) >= 1
    PROVE  Crowd(a, KeysIn(T))
<1>1. Shape(T) /\ a \in Path /\ 0 \in Bit
  BY DEF Regular, Shape, Bit
<1>2. Child(a, 0) \in DOMAIN T
  BY DEF IsLeaf
<1>3. Child(a, 0) \in Path /\ Size(Child(a, 0)) = Size(a) + 1 /\ Parent(Child(a, 0)) = a
  BY <1>1, ChildFacts
<1>4. Canonical(Child(a, 0), KeysIn(T))
  BY <1>2, <1>3 DEF Regular
<1>5. ~(Size(Child(a, 0)) <= 1)
  BY <1>1, <1>3
<1> QED BY <1>3, <1>4, <1>5 DEF Canonical

\* Two leaves with one parent, other than the root, both hold a key.
LEMMA LeafPair ==
    ASSUME NEW T, Regular(T), NEW p \in DOMAIN T, IsLeaf(T, p), Size(p) >= 2, IsLeaf(T, Sibling(p))
    PROVE  /\ T[p].key # NoKey /\ T[Sibling(p)].key # NoKey
           /\ T[p].key # T[Sibling(p)].key
<1> DEFINE s == Sibling(p)
           K == KeysIn(T)
           a == Parent(p)
<1>1. Shape(T) /\ p \in Path /\ K \in SUBSET Keys /\ Size(p) # 0 /\ Size(p) \in Nat
  BY KeysInKeys DEF Regular, Shape
<1>2. /\ s \in DOMAIN T /\ s \in Path /\ s # p /\ Size(s) = Size(p)
      /\ \A b \in Bit : Child(a, b) \in {p, s}
  BY <1>1, SiblingIn, Siblings
<1>3. a \in Path /\ Size(a) = Size(p) - 1
  BY <1>1, ParentFacts
<1> HIDE DEF s, a, K
<1>4. PICK d, e \in K : d # e /\ On(a, PathOf[d]) /\ On(a, PathOf[e])
  <2>1. Canonical(p, K) /\ ~(Size(p) <= 1)
    BY <1>1 DEF Regular, K
  <2> QED BY <2>1 DEF Canonical, Crowd, a
<1>5. ASSUME NEW x \in K, On(a, PathOf[x])
      PROVE  T[p].key = x \/ T[s].key = x
  <2>1. PathOf[x] \in Path /\ Size(PathOf[x]) = Depth /\ x \in Keys
    BY <1>1, KeyPaths
  <2>2. Size(a) # Depth
    BY <1>1, <1>3 DEF Shape
  <2>3. PathOf[x][Size(a) + 1] \in Bit /\ On(Child(a, PathOf[x][Size(a) + 1]), PathOf[x])
    BY <1>3, <1>5, <2>1, <2>2, OnStep
  <2>4. On(p, PathOf[x]) \/ On(s, PathOf[x])
    BY <1>2, <2>3
  <2> QED BY <1>2, <2>4, BelowLeaf DEF K, s
<1>6. d # NoKey /\ e # NoKey
  BY <1>1, KeyAssumption
<1>7. {T[p].key, T[s].key} = {d, e}
  BY <1>4, <1>5
<1> QED BY <1>4, <1>6, <1>7 DEF s

\* Two keys below a sibling of the way of k remain when k goes.
LEMMA CrowdWithout ==
    ASSUME NEW K \in SUBSET Keys, NEW k \in Keys \cup {NoKey}, NEW s \in Path, Crowd(s, K),
           ~On(s, PathOf[k]), NEW a \in Path, On(a, s)
    PROVE  Crowd(a, K \ {k})
<1>1. PICK d, e \in K : d # e /\ On(s, PathOf[d]) /\ On(s, PathOf[e])
  BY DEF Crowd
<1>2. PathOf[d] \in Path /\ PathOf[e] \in Path
  BY KeyPaths
<1>3. d # k /\ e # k
  BY <1>1
<1>4. On(a, PathOf[d]) /\ On(a, PathOf[e])
  BY <1>1, <1>2, OnTransitive
<1> QED BY <1>1, <1>3, <1>4 DEF Crowd

\* Clearing a leaf when nothing collapses.
LEMMA ClearRegular ==
    ASSUME NEW T, Regular(T), NEW p \in DOMAIN T, IsLeaf(T, p),
           Size(p) < 2 \/ ~IsLeaf(T, Sibling(p)),
           NEW N, DOMAIN N = DOMAIN T, N[p].key = NoKey,
           \A q \in DOMAIN T : q # p => N[q].key = T[q].key
    PROVE  Regular(N) /\ KeysIn(N) = KeysIn(T) \ {T[p].key}
<1> DEFINE K == KeysIn(T)
           k == T[p].key
           L == K \ {k}
<1>1. /\ Shape(T) /\ Keyed(T) /\ p \in Path /\ K \in SUBSET Keys
      /\ k \in Keys \cup {NoKey} /\ Size(p) \in Nat
  BY KeysInKeys DEF Regular, Shape, Keyed
<1>2. CASE k = NoKey
  <2>1. \A q \in DOMAIN T : N[q].key = T[q].key
    BY <1>2
  <2>2. Regular(N) /\ KeysIn(N) = K
    BY <2>1, SameKeysRegular
  <2> QED BY <1>1, <1>2, <2>2, KeyAssumption
<1>3. CASE k # NoKey
  <2>1. k \in Keys /\ On(p, PathOf[k]) /\ PathOf[k] \in Path
    BY <1>1, <1>3, KeyPaths DEF Regular
  <2>2. \A q \in DOMAIN T : T[q].key = k => q = p
    <3>1. WellFormed(T)
      BY RegularWellFormed
    <3> QED BY <1>3, <3>1 DEF WellFormed
  <2>3. KeysIn(N) = L
    BY <2>2 DEF KeysIn
  <2>4. Shape(N) /\ Keyed(N)
    BY <1>1 DEF Shape, Keyed
  <2>5. \A q \in DOMAIN N : N[q].key # NoKey => IsLeaf(N, q) /\ On(q, PathOf[N[q].key])
    BY DEF Regular, IsLeaf
  <2> HIDE DEF K, L, k
  <2>6. ASSUME NEW q \in Path, Canonical(q, L)
        PROVE  q \in DOMAIN T
    <3>1. Canonical(q, K)
      BY <2>6, CrowdMore DEF L
    <3> QED BY <3>1 DEF Regular, K
  <2>7. ASSUME NEW q \in DOMAIN T
        PROVE  Canonical(q, L)
    <3>1. q \in Path /\ Canonical(q, K)
      BY <1>1 DEF Regular, K, Shape
    <3>2. CASE Size(q) <= 1
      BY <3>2 DEF Canonical
    <3>3. CASE ~(Size(q) <= 1)
      <4> DEFINE a == Parent(q)
      <4>1. a \in Path /\ Size(a) >= 1 /\ Crowd(a, K) /\ q[Size(q)] \in Bit /\ q = Child(a, q[Size(q)])
        BY <3>1, <3>3, ParentFacts DEF Canonical
      <4> HIDE DEF a
      <4>2. CASE ~On(a, PathOf[k])
        BY <1>1, <4>1, <4>2, OnSelf, CrowdWithout DEF Canonical, L, a
      <4>3. CASE On(a, PathOf[k])
        <5>1. a \in DOMAIN T /\ ~IsLeaf(T, a)
          <6>1. a \in DOMAIN T
            BY <1>1, <4>1, OnChild DEF Shape
          <6> QED BY <1>1, <4>1, <6>1, ShapeInner
        <5>2. ~On(p, a)
          BY <1>1, <5>1, LeafEnds
        <5>3. On(a, p) /\ Size(a) < Size(p)
          BY <1>1, <2>1, <4>1, <4>3, <5>2, OnComparable, OnSelf, OnEqual DEF On
        <5> DEFINE s == Sibling(p)
        <5>4. Size(p) >= 2 /\ Size(p) # 0
          BY <1>1, <4>1, <5>3
        <5>5. s \in DOMAIN T /\ s \in Path /\ Size(s) = Size(p) /\ ~IsLeaf(T, s)
          BY <1>1, <5>4, SiblingIn, Siblings
        <5>6. Parent(p) \in Path /\ Size(Parent(p)) = Size(p) - 1 /\ On(Parent(p), p) /\ On(Parent(p), s)
          <6>1. /\ Parent(p) \in Path /\ Size(Parent(p)) = Size(p) - 1
                /\ p[Size(p)] \in Bit /\ p = Child(Parent(p), p[Size(p)])
            BY <1>1, <5>4, ParentFacts
          <6>2. s[Size(s)] \in Bit /\ s = Child(Parent(p), s[Size(s)])
            BY <1>1, <5>4, <5>5, ParentFacts, Siblings
          <6> QED BY <6>1, <6>2, OnChild
        <5> HIDE DEF s
        <5>7. Crowd(s, K)
          BY <5>4, <5>5, InnerCrowd DEF K
        <5>8. ~On(s, PathOf[k])
          BY <1>1, <2>1, <5>4, SiblingApart DEF s
        <5>9. On(a, Parent(p))
          BY <1>1, <4>1, <5>3, <5>6, OnComparable
        <5>10. On(a, s)
          BY <4>1, <5>5, <5>6, <5>9, OnTransitive
        <5>11. Crowd(a, L)
          BY <1>1, <4>1, <5>5, <5>7, <5>8, <5>10, CrowdWithout DEF L
        <5> QED BY <5>11 DEF Canonical, a
      <4> QED BY <4>2, <4>3
    <3> QED BY <3>2, <3>3
  <2>8. \A q \in Path : q \in DOMAIN N <=> Canonical(q, KeysIn(N))
    BY <2>3, <2>6, <2>7
  <2> QED BY <2>3, <2>4, <2>5, <2>8 DEF Regular, L, K, k
<1> QED BY <1>2, <1>3

\* Some facts about the nodes below the one that takes the sibling's place.
StemNodes(T, p, U, t) ==
    LET s == Sibling(p)
    IN  /\ p \in Path /\ s \in DOMAIN T /\ s \in Path /\ IsLeaf(T, s)
        /\ t \in DOMAIN T /\ t \in Path /\ On(t, p) /\ On(t, s) /\ t \in Ancestors(p)
        /\ t # p /\ t # s /\ ~IsLeaf(T, t)
        /\ Parent(p) \in U /\ Parent(s) \in U
        /\ \A a \in U : a \in DOMAIN T /\ a \in Path /\ ~IsLeaf(T, a) /\ On(t, a)

LEMMA StemShape ==
    ASSUME NEW T, Shape(T), NEW p \in DOMAIN T, IsLeaf(T, p), NEW U, NEW t, Stem(T, p, U, t)
    PROVE  StemNodes(T, p, U, t)
<1> DEFINE s == Sibling(p)
<1>1. p \in Path /\ Size(p) \in Nat /\ Size(p) >= 2 /\ Size(p) # 0
  BY DEF Shape, Stem
<1>2. /\ s \in DOMAIN T /\ s \in Path /\ IsLeaf(T, s) /\ Size(s) = Size(p) /\ Parent(s) = Parent(p)
  BY <1>1, Siblings DEF Stem
<1>3. ASSUME NEW a \in U
      PROVE  /\ a \in DOMAIN T /\ a \in Path /\ ~IsLeaf(T, a) /\ On(t, a)
             /\ On(a, p) /\ a # p /\ Size(a) < Size(p) /\ a \in Ancestors(p)
  <2>1. a \in Ancestors(p) /\ On(t, a)
    BY DEF Stem
  <2>2. a \in Path /\ On(a, p) /\ Size(a) < Size(p)
    BY <1>1, <2>1, AncestorsOn
  <2>3. a \in DOMAIN T
    BY <1>1, <2>2 DEF Shape
  <2>4. ~IsLeaf(T, a)
    BY <1>1, <2>2, <2>3, LeafEnds
  <2> QED BY <2>1, <2>2, <2>3, <2>4
<1>4. t \in U
  BY DEF Stem
<1>5. /\ Parent(p) \in Path /\ Size(Parent(p)) = Size(p) - 1
      /\ On(Parent(p), p) /\ On(Parent(p), s)
  <2>1. /\ Parent(p) \in Path /\ Size(Parent(p)) = Size(p) - 1
        /\ p[Size(p)] \in Bit /\ p = Child(Parent(p), p[Size(p)])
    BY <1>1, ParentFacts
  <2>2. s[Size(s)] \in Bit /\ s = Child(Parent(p), s[Size(s)])
    BY <1>1, <1>2, ParentFacts
  <2> QED BY <2>1, <2>2, OnChild
<1>6. On(t, Parent(p))
  BY <1>1, <1>3, <1>4, <1>5, OnComparable
<1>7. Parent(p) \in U
  BY <1>1, <1>5, <1>6, AncestorsOn DEF Stem
<1>8. On(t, s)
  BY <1>2, <1>3, <1>4, <1>5, <1>6, OnTransitive
<1>9. t # s
  BY <1>2, <1>3, <1>4
<1> QED BY <1>1, <1>2, <1>3, <1>4, <1>7, <1>8, <1>9 DEF StemNodes

LEMMA StemFacts ==
    ASSUME NEW T, Regular(T), NEW p \in DOMAIN T, IsLeaf(T, p), NEW U, NEW t, Stem(T, p, U, t)
    PROVE  LET s == Sibling(p)
           IN  /\ p \in Path /\ s \in DOMAIN T /\ s \in Path /\ IsLeaf(T, s)
               /\ t \in DOMAIN T /\ t \in Path /\ On(t, p) /\ On(t, s) /\ t \in Ancestors(p)
               /\ t # p /\ t # s /\ ~IsLeaf(T, t)
               /\ Parent(p) \in U /\ Parent(s) \in U
               /\ \A a \in U : a \in DOMAIN T /\ a \in Path /\ ~IsLeaf(T, a) /\ On(t, a)
               /\ T[p].key \in Keys /\ T[s].key \in Keys /\ T[p].key # T[s].key
               /\ On(p, PathOf[T[p].key]) /\ On(s, PathOf[T[s].key])
               /\ \A q \in DOMAIN T : On(t, q) /\ T[q].key # NoKey => q \in {p, s}
<1> DEFINE s == Sibling(p)
<1>1. Shape(T) /\ Keyed(T) /\ Size(p) >= 2
  BY DEF Regular, Stem
<1>2. StemNodes(T, p, U, t)
  BY <1>1, StemShape
<1>3. /\ p \in Path /\ s \in DOMAIN T /\ s \in Path /\ IsLeaf(T, s)
      /\ t \in DOMAIN T /\ t \in Path /\ On(t, p) /\ On(t, s) /\ t \in Ancestors(p)
      /\ t # p /\ t # s /\ ~IsLeaf(T, t)
      /\ Parent(p) \in U /\ Parent(s) \in U
      /\ \A a \in U : a \in DOMAIN T /\ a \in Path /\ ~IsLeaf(T, a) /\ On(t, a)
  BY <1>2 DEF StemNodes
<1>4. t \in U
  BY DEF Stem
<1>10. T[p].key # NoKey /\ T[s].key # NoKey /\ T[p].key # T[s].key
  BY <1>1, <1>3, LeafPair
<1>11. /\ T[p].key \in Keys /\ T[s].key \in Keys
       /\ On(p, PathOf[T[p].key]) /\ On(s, PathOf[T[s].key])
  BY <1>1, <1>3, <1>10 DEF Keyed, Regular
<1>12. ASSUME NEW q \in DOMAIN T, On(t, q), T[q].key # NoKey
       PROVE  q \in {p, s}
  <2>1. IsLeaf(T, q)
    BY <1>12 DEF Regular
  <2>2. q # t /\ q \notin U
    BY <1>3, <1>4, <2>1
  <2> QED BY <1>12, <2>2 DEF Stem, IsPlaceholder
<1> QED BY <1>3, <1>10, <1>11, <1>12

\* What is left of a tree when the nodes below t go.
LEMMA PrunedShape ==
    ASSUME NEW T, Shape(T), NEW t \in DOMAIN T, Size(t) >= 1,
           NEW N, \A q : q \in DOMAIN N <=> q \in DOMAIN T /\ t \notin Ancestors(q)
    PROVE  Shape(N)
<1>1. t \in Path /\ \A q \in DOMAIN T : q \in Path
  BY DEF Shape
<1>2. ASSUME NEW q \in DOMAIN T
      PROVE  t \in Ancestors(q) <=> On(t, q) /\ Size(t) < Size(q)
  BY <1>1, AncestorsOn
<1>3. ASSUME NEW b \in Bit
      PROVE  Child(Root, b) \in DOMAIN N
  <2>1. Child(Root, b) \in DOMAIN T
    BY DEF Shape
  <2>2. Size(Child(Root, b)) = 1
    BY RootFacts, ChildFacts
  <2>3. t \notin Ancestors(Child(Root, b))
    BY <1>1, <1>2, <2>1, <2>2, PathSize
  <2> QED BY <2>1, <2>3
<1>4. ASSUME NEW q \in DOMAIN N, NEW a \in Path, On(a, q)
      PROVE  a \in DOMAIN N
  <2>1. q \in DOMAIN T /\ q \in Path /\ t \notin Ancestors(q)
    BY <1>1
  <2>2. a \in DOMAIN T
    BY <1>4, <2>1 DEF Shape
  <2>3. ASSUME On(t, a), Size(t) < Size(a)
        PROVE  FALSE
    <3>1. On(t, q)
      BY <1>1, <1>4, <2>1, <2>3, OnTransitive
    <3>2. Size(t) < Size(q)
      BY <1>1, <1>4, <2>1, <2>3, PathSize DEF On
    <3> QED BY <1>2, <2>1, <3>1, <3>2
  <2> QED BY <1>2, <2>2, <2>3
<1>5. ASSUME NEW q \in Path, NEW b \in Bit, NEW c \in Bit, Child(q, b) \in DOMAIN N
      PROVE  Child(q, c) \in DOMAIN N
  <2>1. Child(q, c) \in DOMAIN T
    BY <1>5 DEF Shape
  <2>2. \A d \in Bit : t \in Ancestors(Child(q, d)) <=> t \in Ancestors(q) \/ t = q
    BY AncestorsChild
  <2> QED BY <1>5, <2>1, <2>2
<1> QED BY <1>1, <1>3, <1>4, <1>5 DEF Shape

\* Removing a leaf when the nodes U above it collapse.
LEMMA CollapseRegular ==
    ASSUME NEW T, Regular(T), NEW p \in DOMAIN T, IsLeaf(T, p), NEW U, NEW t, Stem(T, p, U, t),
           NEW N, \A q : q \in DOMAIN N <=> q \in DOMAIN T /\ t \notin Ancestors(q),
           N[t].key = T[Sibling(p)].key, \A q \in DOMAIN N : q # t => N[q].key = T[q].key
    PROVE  Regular(N) /\ KeysIn(N) = KeysIn(T) \ {T[p].key}
<1> DEFINE K == KeysIn(T)
           k == T[p].key
           s == Sibling(p)
           d == T[s].key
           L == K \ {k}
<1>1. /\ Shape(T) /\ Keyed(T) /\ K \in SUBSET Keys /\ WellFormed(T)
      /\ p \in Path /\ s \in DOMAIN T /\ s \in Path /\ IsLeaf(T, s)
      /\ t \in DOMAIN T /\ t \in Path /\ On(t, p) /\ On(t, s) /\ t # p /\ t # s /\ ~IsLeaf(T, t)
      /\ k \in Keys /\ d \in Keys /\ k # d /\ On(p, PathOf[k]) /\ On(s, PathOf[d])
      /\ PathOf[k] \in Path /\ PathOf[d] \in Path /\ k # NoKey /\ d # NoKey
      /\ d \in K /\ k \in K
  <2>1. /\ p \in Path /\ s \in DOMAIN T /\ s \in Path /\ IsLeaf(T, s)
        /\ t \in DOMAIN T /\ t \in Path /\ On(t, p) /\ On(t, s) /\ t # p /\ t # s /\ ~IsLeaf(T, t)
        /\ k \in Keys /\ d \in Keys /\ k # d /\ On(p, PathOf[k]) /\ On(s, PathOf[d])
    BY StemFacts
  <2>2. Shape(T) /\ Keyed(T) /\ K \in SUBSET Keys /\ WellFormed(T)
    BY KeysInKeys, RegularWellFormed DEF Regular
  <2>3. PathOf[k] \in Path /\ PathOf[d] \in Path /\ k # NoKey /\ d # NoKey
    BY <2>1, KeyPaths, KeyAssumption
  <2>4. d \in K /\ k \in K
    BY <2>1, <2>3 DEF KeysIn
  <2> QED BY <2>1, <2>2, <2>3, <2>4
<1>2. \A q \in DOMAIN T : On(t, q) /\ T[q].key # NoKey => q \in {p, s}
  BY StemFacts
<1> HIDE DEF K, k, s, d, L
<1>3. ASSUME NEW q \in DOMAIN T
      PROVE  q \in DOMAIN N <=> ~On(t, q) \/ q = t
  <2>1. q \in Path
    BY <1>1 DEF Shape
  <2>2. t \in Ancestors(q) <=> On(t, q) /\ Size(t) < Size(q)
    BY <1>1, <2>1, AncestorsOn
  <2>3. On(t, q) /\ q # t => Size(t) < Size(q)
    BY <1>1, <2>1, OnEqual DEF On
  <2> QED BY <1>1, <2>1, <2>2, <2>3
<1>4. t \in DOMAIN N /\ DOMAIN N \subseteq DOMAIN T
  BY <1>1, <1>3
<1>5. L = KeysIn(N)
  <2>1. ASSUME NEW x \in L
        PROVE  \E q \in DOMAIN N : N[q].key = x
    <3>1. PICK q \in DOMAIN T : T[q].key = x
      BY DEF L, K, KeysIn
    <3>2. x # k /\ x # NoKey
      BY DEF L, K, KeysIn
    <3>3. CASE x = d
      BY <1>4, <3>3 DEF d, s
    <3>4. CASE x # d
      <4>1. q # p /\ q # s
        BY <3>1, <3>2, <3>4 DEF k, d
      <4>2. ~On(t, q)
        BY <1>2, <3>1, <3>2, <4>1
      <4>3. q # t
        BY <1>1, <4>2, OnSelf
      <4> QED BY <1>3, <3>1, <4>2, <4>3
    <3> QED BY <3>3, <3>4
  <2>2. ASSUME NEW q \in DOMAIN N
        PROVE  N[q].key \in L \cup {NoKey}
    <3>1. CASE q = t
      BY <1>1, <3>1 DEF L, d, s
    <3>2. CASE q # t
      <4>1. ~On(t, q) /\ q \in DOMAIN T
        BY <1>3, <1>4, <3>2
      <4>2. q # p
        BY <1>1, <4>1
      <4>3. T[q].key # k
        BY <1>1, <4>1, <4>2 DEF WellFormed, k
      <4> QED BY <3>2, <4>1, <4>3 DEF L, K, KeysIn
    <3> QED BY <3>1, <3>2
  <2>3. NoKey \notin L
    BY <1>1, KeyAssumption DEF L
  <2> QED BY <2>1, <2>2, <2>3 DEF KeysIn
<1>6. Keyed(N)
  BY <1>1, <1>4 DEF Keyed, d, s
<1>7. L \in SUBSET Keys
  BY <1>1 DEF L
<1>8. ASSUME NEW q \in Path, Canonical(q, L)
      PROVE  q \in DOMAIN N
  <2>1. q \in DOMAIN T
    <3>1. Canonical(q, K)
      BY <1>8, CrowdMore DEF L
    <3> QED BY <3>1 DEF Regular, K
  <2>2. ~On(t, q) \/ q = t
    <3>1. SUFFICES ASSUME On(t, q), q # t PROVE FALSE
      OBVIOUS
    <3>2. Size(t) >= 1 /\ Size(q) > Size(t) /\ Size(q) \in Nat /\ Size(t) \in Nat
      BY <1>1, <3>1, OnEqual DEF On, Stem
    <3> DEFINE a == Parent(q)
    <3>3. a \in Path /\ Size(a) = Size(q) - 1 /\ q[Size(q)] \in Bit /\ q = Child(a, q[Size(q)])
      BY <3>2, ParentFacts
    <3>4. ~(Size(q) <= 1) /\ Size(t) <= Size(a) /\ On(a, q)
      BY <3>2, <3>3, OnChild
    <3>5. PICK e, f \in L : e # f /\ On(a, PathOf[e]) /\ On(a, PathOf[f])
      BY <1>8, <3>4 DEF Canonical, Crowd
    <3> HIDE DEF a
    <3>6. On(t, a)
      BY <1>1, <3>1, <3>3, <3>4, OnComparable
    <3>7. ASSUME NEW x \in L, On(a, PathOf[x])
          PROVE  x = d
      <4>1. PICK r \in DOMAIN T : T[r].key = x
        BY DEF L, K, KeysIn
      <4>2. x # NoKey /\ x # k /\ PathOf[x] \in Path /\ r \in Path
        BY <1>1, <1>7, KeyPaths DEF L, K, KeysIn, Shape
      <4>3. IsLeaf(T, r) /\ On(r, PathOf[x])
        BY <4>1, <4>2 DEF Regular
      <4>4. On(t, PathOf[x])
        BY <1>1, <3>3, <3>6, <3>7, <4>2, OnTransitive
      <4>5. ~On(r, t)
        BY <1>1, <4>3, LeafEnds
      <4>6. On(t, r)
        BY <1>1, <4>2, <4>3, <4>4, <4>5, OnComparable
      <4> QED BY <1>2, <4>1, <4>2, <4>6 DEF d, k
    <3> QED BY <3>5, <3>7
  <2> QED BY <1>3, <2>1, <2>2
<1>9. ASSUME NEW q \in DOMAIN N
      PROVE  q \in Path /\ Canonical(q, L)
  <2>1. q \in DOMAIN T /\ q \in Path /\ Canonical(q, K)
    BY <1>1, <1>4 DEF Regular, Shape, K
  <2>2. CASE Size(q) <= 1
    BY <2>1, <2>2 DEF Canonical
  <2>3. CASE ~(Size(q) <= 1)
    <3> DEFINE a == Parent(q)
    <3>1. a \in Path /\ Size(a) >= 1 /\ Crowd(a, K) /\ q[Size(q)] \in Bit /\ q = Child(a, q[Size(q)])
      BY <2>1, <2>3, ParentFacts DEF Canonical
    <3>2. On(a, q) /\ Size(a) < Size(q)
      BY <2>1, <2>3, <3>1, ParentFacts, OnChild
    <3> HIDE DEF a
    <3>3. CASE ~On(a, PathOf[k])
      BY <1>1, <2>1, <3>1, <3>3, OnSelf, CrowdWithout DEF Canonical, L, a
    <3>4. CASE On(a, PathOf[k])
      <4>1. a \in DOMAIN T
        BY <1>1, <2>1, <3>1, <3>2 DEF Shape
      <4>2. ~On(t, a)
        <5>1. On(t, a) => On(t, q)
          BY <1>1, <2>1, <3>1, <3>2, OnTransitive
        <5>2. On(t, a) => q # t
          BY <1>1, <2>1, <3>1, <3>2 DEF On
        <5> QED BY <1>3, <1>9, <2>1, <5>1, <5>2
      <4>3. On(t, PathOf[k])
        BY <1>1, OnTransitive
      <4>4. On(a, t) /\ Size(a) < Size(t)
        BY <1>1, <3>1, <3>4, <4>2, <4>3, OnComparable, OnSelf, OnEqual DEF On
      <4> DEFINE o == Sibling(t)
      <4>5. Size(t) >= 2 /\ Size(t) # 0 /\ Size(t) \in Nat
        BY <1>1, <3>1, <4>4
      <4>6. /\ o \in DOMAIN T /\ o \in Path /\ Size(o) = Size(t) /\ ~IsPlaceholder(T, o)
            /\ o # t /\ ~On(o, PathOf[k])
        BY <1>1, <4>3, <4>5, SiblingIn, Siblings, SiblingApart DEF Stem
      <4>7. On(a, o) /\ On(a, t)
        <5>1. /\ Parent(t) \in Path /\ Size(Parent(t)) = Size(t) - 1
              /\ t[Size(t)] \in Bit /\ t = Child(Parent(t), t[Size(t)])
          BY <1>1, <4>5, ParentFacts
        <5>2. o[Size(o)] \in Bit /\ o = Child(Parent(t), o[Size(o)])
          BY <1>1, <4>5, <4>6, ParentFacts, Siblings
        <5>a. Size(a) <= Size(Parent(t))
          BY <3>1, <4>4, <4>5, <5>1
        <5>b. On(Parent(t), t) /\ On(Parent(t), o)
          BY <5>1, <5>2, OnChild
        <5>3. On(Parent(t), t) /\ On(Parent(t), o) /\ Size(a) <= Size(Parent(t))
          BY <5>a, <5>b
        <5>4. On(a, Parent(t))
          BY <1>1, <3>1, <4>4, <5>1, <5>3, OnComparable
        <5> QED BY <3>1, <4>4, <4>6, <5>1, <5>3, <5>4, OnTransitive
      <4> HIDE DEF o
      <4>8. CASE ~IsLeaf(T, o)
        <5>1. Crowd(o, K)
          BY <4>5, <4>6, <4>8, InnerCrowd DEF K
        <5>2. Crowd(a, L)
          BY <1>1, <3>1, <4>6, <4>7, <5>1, CrowdWithout DEF L
        <5> QED BY <2>1, <5>2 DEF Canonical, a
      <4>9. CASE IsLeaf(T, o)
        <5> DEFINE e == T[o].key
        <5>1. e # NoKey /\ e \in K /\ e \in Keys
          BY <1>1, <4>6, <4>9 DEF IsPlaceholder, K, KeysIn, Keyed
        <5>2. On(o, PathOf[e]) /\ PathOf[e] \in Path
          BY <4>6, <5>1, KeyPaths DEF Regular
        <5> HIDE DEF e
        <5>3. ~On(t, o)
          BY <1>1, <4>6, OnEqual
        <5>4. e # k /\ e # d
          <6>1. o # p /\ o # s
            BY <1>1, <5>3
          <6> QED BY <1>1, <4>6, <5>1, <6>1 DEF WellFormed, e, k, d
        <5>5. On(a, PathOf[e])
          BY <3>1, <4>6, <4>7, <5>2, OnTransitive
        <5>6. On(a, PathOf[d])
          BY <1>1, <3>1, <4>7, OnTransitive
        <5>7. Crowd(a, L)
          BY <1>1, <5>1, <5>4, <5>5, <5>6 DEF Crowd, L
        <5> QED BY <2>1, <5>7 DEF Canonical, a
      <4> QED BY <4>8, <4>9
    <3> QED BY <3>3, <3>4
  <2> QED BY <2>2, <2>3
<1>10. DOMAIN N = CanonicalPaths(L)
  <2>1. \A q : q \in CanonicalPaths(L) <=> q \in Path /\ Canonical(q, L)
    BY <1>7, CanonicalMember
  <2> QED BY <1>8, <1>9, <2>1
<1>11. Shape(N)
  BY <1>7, <1>10, CanonicalShape
<1>12. ASSUME NEW q \in DOMAIN N, N[q].key # NoKey
       PROVE  IsLeaf(N, q) /\ On(q, PathOf[N[q].key])
  <2>1. CASE q = t
    <3>1. Child(t, 0) \notin DOMAIN N
      <4>1. t \in Ancestors(Child(t, 0))
        BY <1>1, AncestorsChild DEF Bit
      <4> QED BY <4>1
    <3>2. On(t, PathOf[d])
      BY <1>1, OnTransitive
    <3> QED BY <2>1, <3>1, <3>2 DEF IsLeaf, d, s
  <2>2. CASE q # t
    BY <1>4, <1>12, <2>2 DEF Regular, IsLeaf
  <2> QED BY <2>1, <2>2
<1>13. \A q \in Path : q \in DOMAIN N <=> Canonical(q, KeysIn(N))
  BY <1>5, <1>8, <1>9
<1> QED BY <1>5, <1>6, <1>11, <1>12, <1>13 DEF Regular, L, K, k

-----------------------------------------------------------------------------
(* The calls, before the loop upwards *)

\* S is T with the pair (k, v) in the leaf p.
Rewrites(T, S, p, k, v, tx) ==
    /\ DOMAIN S = DOMAIN T
    /\ Nodes(S)
    /\ \A q \in DOMAIN T \ {p} : S[q] = T[q]
    /\ S[p].key = k /\ S[p].values = v /\ S[p].label = LeafLabel(k, v)
    /\ S[p].inconsistent = T[p].inconsistent /\ S[p].backup = Backup(T[p], tx)

LEMMA FillRewrites ==
    ASSUME NEW T, Nodes(T), NEW p \in DOMAIN T, NEW k, NEW v, NEW tx
    PROVE  Rewrites(T, Fill(T, p, k, v, tx), p, k, v, tx)
<1> DEFINE l == LeafLabel(k, v)
           b == Backup(T[p], tx)
           i == T[p].inconsistent
           n == Rec(k, v, l, i, b, {})
           S == Fill(T, p, k, v, tx)
<1>1. S = [T EXCEPT ![p] = n]
  BY FillRec
<1>2. /\ IsNode(n) /\ n.key = k /\ n.values = v /\ n.label = l
      /\ n.inconsistent = i /\ n.backup = b
  BY RecFields
<1> HIDE DEF n, l, b, i, S
<1>3. DOMAIN S = DOMAIN T /\ S[p] = n /\ \A q \in DOMAIN T \ {p} : S[q] = T[q]
  BY <1>1
<1>4. Nodes(S)
  BY <1>2, <1>3 DEF Nodes
<1> QED BY <1>2, <1>3, <1>4 DEF Rewrites, l, b, i, S

\* What Set writes into the leaf p.
SetNode(T, p, v, tx) ==
    [T EXCEPT ![p] = [T[p] EXCEPT !.values = v, !.label = LeafLabel(T[p].key, v),
                                  !.backup = Backup(T[p], tx)]]

LEMMA SetRewrites ==
    ASSUME NEW T, Nodes(T), NEW p \in DOMAIN T, NEW v, NEW tx
    PROVE  Rewrites(T, SetNode(T, p, v, tx), p, T[p].key, v, tx)
<1> DEFINE l == LeafLabel(T[p].key, v)
           b == Backup(T[p], tx)
           m == T[p]
           n == [m EXCEPT !.values = v, !.label = l, !.backup = b]
           S == SetNode(T, p, v, tx)
<1>1. S = [T EXCEPT ![p] = n] /\ IsNode(m)
  BY DEF SetNode, Nodes
<1> HIDE DEF l, b, S
<1>2. n = Rec(m.key, v, l, m.inconsistent, b, m.shares)
  BY <1>1, ValuesLabelBackup
<1> HIDE DEF n, m
<1>3. /\ IsNode(n) /\ n.key = m.key /\ n.values = v /\ n.label = l
      /\ n.inconsistent = m.inconsistent /\ n.backup = b
  BY <1>2, RecFields
<1>4. DOMAIN S = DOMAIN T /\ S[p] = n /\ \A q \in DOMAIN T \ {p} : S[q] = T[q]
  BY <1>1
<1>5. Nodes(S)
  BY <1>3, <1>4 DEF Nodes
<1> QED BY <1>3, <1>4, <1>5 DEF Rewrites, l, b, S, m

LEMMA WrittenForm ==
    ASSUME NEW T, NEW k, NEW upd, NEW tx
    PROVE  LET p == Landing(T, k)
           IN  Written(T, k, upd, tx) =
                  Propagate(SetNode(T, p, Overwrite(T[p].values, upd), tx), p, tx)
BY DEF Written, SetNode

LEMMA CollapseFields ==
    ASSUME NEW T, NEW q, IsNode(T[q]), NEW s, NEW held, NEW tx
    PROVE  LET n == Collapse(T, q, s, held, tx)
           IN  /\ IsNode(n) /\ n.key = T[s].key /\ n.values = T[s].values /\ n.label = T[s].label
               /\ n.inconsistent = T[q].inconsistent /\ n.backup = Backup(T[q], tx)
<1> DEFINE m == T[q]
           k == T[s].key
           v == T[s].values
           l == T[s].label
           b == Backup(m, tx)
           h == (T[s].shares \cup {s}) \cap held
           m1 == [m EXCEPT !.key = k]
           m2 == [m1 EXCEPT !.values = v, !.label = l, !.backup = b]
           n == [m2 EXCEPT !.shares = h]
<1>1. Collapse(T, q, s, held, tx) = n
  BY DEF Collapse
<1> HIDE DEF k, v, l, b, h, m
<1>2. m1 = Rec(k, m.values, m.label, m.inconsistent, m.backup, m.shares)
  BY OneField DEF m
<1> HIDE DEF m1
<1>3. IsNode(m1) /\ m1.key = k /\ m1.inconsistent = m.inconsistent /\ m1.shares = m.shares
  BY <1>2, RecFields
<1>4. m2 = Rec(m1.key, v, l, m1.inconsistent, b, m1.shares)
  BY <1>3, ValuesLabelBackup
<1> HIDE DEF m2
<1>5. /\ IsNode(m2) /\ m2.key = k /\ m2.values = v /\ m2.label = l
      /\ m2.inconsistent = m.inconsistent /\ m2.backup = b
  BY <1>3, <1>4, RecFields
<1>6. n = Rec(m2.key, m2.values, m2.label, m2.inconsistent, m2.backup, h)
  BY <1>5, OneField
<1> HIDE DEF n
<1>7. /\ IsNode(n) /\ n.key = k /\ n.values = v /\ n.label = l
      /\ n.inconsistent = m.inconsistent /\ n.backup = b
  BY <1>5, <1>6, RecFields
<1> QED BY <1>1, <1>7 DEF k, v, l, b, m

\* The nodes Remove keeps, before the loop upwards.
Kept(T, D, p, tx) ==
    LET C    == Cleared(T, p, tx)
        up   == Collapsing(C, p)
        held == Unlinked(C, p, tx) \cup DOMAIN D
    IN  [q \in {q \in DOMAIN C : up = {} \/ Top(C, p) \notin Ancestors(q)} |->
            IF q \in up THEN Collapse(C, q, Sibling(p), held, tx) ELSE C[q]]

LEMMA RemovedForm ==
    ASSUME NEW T, NEW D, NEW k, NEW tx
    PROVE  LET p == Landing(T, k)
           IN  Removed(T, D, k, tx).tree =
                  Propagate(Kept(T, D, p, tx), Top(Cleared(T, p, tx), p), tx)
<1> DEFINE p    == Landing(T, k)
           C    == Cleared(T, p, tx)
           up   == Collapsing(C, p)
           top  == Top(C, p)
           gone == Unlinked(C, p, tx)
           held == gone \cup DOMAIN D
           S    == [q \in DOMAIN C |-> IF q \in up
                                    THEN Collapse(C, q, Sibling(p), held, tx) ELSE C[q]]
           live == {q \in DOMAIN C : up = {} \/ top \notin Ancestors(q)}
<1>1. Removed(T, D, k, tx).tree = Propagate([q \in live |-> S[q]], top, tx)
  BY DEF Removed
<1>2. [q \in live |-> S[q]] =
      [q \in live |-> IF q \in up THEN Collapse(C, q, Sibling(p), held, tx) ELSE C[q]]
  <2>1. \A q \in live : S[q] = IF q \in up THEN Collapse(C, q, Sibling(p), held, tx) ELSE C[q]
    <3>1. live \subseteq DOMAIN C
      OBVIOUS
    <3> HIDE DEF live, C, up, held
    <3> QED BY <3>1
  <2> HIDE DEF live, S, C, up, held, p
  <2> QED BY <2>1
<1>3. Kept(T, D, p, tx) =
      [q \in live |-> IF q \in up THEN Collapse(C, q, Sibling(p), held, tx) ELSE C[q]]
  BY DEF Kept
<1> HIDE DEF p, C, up, top, gone, held, S, live
<1>4. Removed(T, D, k, tx).tree = Propagate(Kept(T, D, p, tx), top, tx)
  BY <1>1, <1>2, <1>3
<1> QED BY <1>4 DEF top, C, p

\* R is T after the nodes U above p collapsed into t, which took the place of
\* the sibling of p.
Pruned(T, R, p, t, tx) ==
    LET s == Sibling(p)
    IN  /\ \A q : q \in DOMAIN R <=> q \in DOMAIN T /\ t \notin Ancestors(q)
        /\ Nodes(R)
        /\ \A q \in DOMAIN R \ {t} : R[q] = T[q]
        /\ R[t].key = T[s].key /\ R[t].values = T[s].values /\ R[t].label = T[s].label
        /\ R[t].inconsistent = T[t].inconsistent /\ R[t].backup = Backup(T[t], tx)

\* The nodes that a backup taken now holds, and what they hold: E are the
\* unlinked nodes after the call, D before.
Gone(T, U, tx) == Children({a \in U : tx /\ T[a].backup = {}})

Released(T, D, E, p, U, tx) ==
    /\ DOMAIN E = Gone(T, U, tx) \cup DOMAIN D
    /\ \A q \in DOMAIN D \ Gone(T, U, tx) : E[q] = D[q]
    /\ \A q \in Gone(T, U, tx) :
          /\ IsNode(E[q]) /\ E[q].inconsistent = T[q].inconsistent
          /\ q \in U \cup {p} => /\ E[q].key \in {NoKey, T[Sibling(p)].key}
                                 /\ E[q].backup = Backup(T[q], tx)
          /\ q \notin U \cup {p} => E[q] = T[q]

LEMMA ClearedFacts ==
    ASSUME NEW T, Nodes(T), NEW p \in DOMAIN T, NEW tx
    PROVE  Rewrites(T, Cleared(T, p, tx), p, NoKey, PlaceholderValues, tx)
BY FillRewrites DEF Cleared

Detaches(D, E, C, p, G, tx) ==
    /\ DOMAIN E = G \cup DOMAIN D
    /\ \A q \in DOMAIN D \ G : E[q] = D[q]
    /\ \A q \in G : E[q] = IF q \in Collapsing(C, p)
                           THEN Collapse(C, q, Sibling(p), G \cup DOMAIN D, tx) ELSE C[q]

LEMMA RemovedDetached ==
    ASSUME NEW T, NEW D, NEW k, NEW tx, NEW p, p = Landing(T, k), NEW C, C = Cleared(T, p, tx),
           NEW G, G = Unlinked(C, p, tx), G \subseteq DOMAIN C
    PROVE  Detaches(D, Removed(T, D, k, tx).detached, C, p, G, tx)
<1> DEFINE E == Removed(T, D, k, tx).detached
           held == G \cup DOMAIN D
           X(q) == IF q \in Collapsing(C, p) THEN Collapse(C, q, Sibling(p), held, tx) ELSE C[q]
           S == [q \in DOMAIN C |-> X(q)]
<1>1. E = [q \in held |-> IF q \in G THEN S[q] ELSE D[q]]
  BY DEF Removed
<1>2. \A q \in G : S[q] = X(q)
  BY Zenon
<1> HIDE DEF S, X, E
<1>3. /\ DOMAIN E = held
      /\ \A q \in held : E[q] = IF q \in G THEN S[q] ELSE D[q]
  BY <1>1
<1>4. \A q \in G : E[q] = X(q)
  BY <1>2, <1>3
<1>5. \A q \in DOMAIN D \ G : E[q] = D[q]
  BY <1>3
<1> QED BY <1>3, <1>4, <1>5 DEF X, E, Detaches

\* Nothing collapses.
LEMMA RemoveClears ==
    ASSUME NEW T, Nodes(T), NEW k, NEW p \in DOMAIN T, p = Landing(T, k), NEW tx, NEW D,
           Collapsing(Cleared(T, p, tx), p) = {}
    PROVE  /\ Rewrites(T, Kept(T, D, p, tx), p, NoKey, PlaceholderValues, tx)
           /\ DOMAIN Removed(T, D, k, tx).detached = DOMAIN D
           /\ \A q \in DOMAIN D : Removed(T, D, k, tx).detached[q] = D[q]
<1> DEFINE C == Cleared(T, p, tx)
           R == Kept(T, D, p, tx)
           G == Unlinked(C, p, tx)
<1>1. Rewrites(T, C, p, NoKey, PlaceholderValues, tx)
  BY ClearedFacts
<1>2. G = {}
  BY DEF Unlinked, Children
<1>3. R = [q \in {q \in DOMAIN C : TRUE} |-> C[q]]
  BY Zenon DEF Kept
<1> HIDE DEF C, R, G
<1>4. DOMAIN R = DOMAIN C /\ \A q \in DOMAIN C : R[q] = C[q]
  BY <1>3
<1>5. Rewrites(T, R, p, NoKey, PlaceholderValues, tx)
  BY <1>1, <1>4 DEF Rewrites, Nodes
<1>6. G \subseteq DOMAIN C
  BY <1>2
<1> DEFINE E == Removed(T, D, k, tx).detached
<1>a. C = Cleared(T, p, tx) /\ G = Unlinked(C, p, tx)
  BY DEF C, G
<1>b. Detaches(D, E, C, p, G, tx)
  BY <1>6, <1>a, RemovedDetached
<1> HIDE DEF E
<1>7. DOMAIN E = G \cup DOMAIN D /\ \A q \in DOMAIN D \ G : E[q] = D[q]
  BY <1>b DEF Detaches
<1>8. DOMAIN E = DOMAIN D /\ \A q \in DOMAIN D : E[q] = D[q]
  BY <1>2, <1>7
<1> QED BY <1>5, <1>8 DEF R, E

\* The nodes from t down to the parent of p collapse.
LEMMA RemoveCollapses ==
    ASSUME NEW T, Shape(T), Nodes(T), NEW k, NEW p \in DOMAIN T, p = Landing(T, k), IsLeaf(T, p),
           NEW tx \in BOOLEAN, NEW D,
           NEW U, U = Collapsing(Cleared(T, p, tx), p), U # {},
           NEW t, t = Top(Cleared(T, p, tx), p)
    PROVE  /\ Stem(T, p, U, t)
           /\ Pruned(T, Kept(T, D, p, tx), p, t, tx)
           /\ Released(T, D, Removed(T, D, k, tx).detached, p, U, tx)
<1> DEFINE C == Cleared(T, p, tx)
           R == Kept(T, D, p, tx)
           G == Gone(T, U, tx)
           s == Sibling(p)
           E == Removed(T, D, k, tx).detached
           held == Unlinked(C, p, tx) \cup DOMAIN D
<1>1. Rewrites(T, C, p, NoKey, PlaceholderValues, tx)
  BY ClearedFacts
<1>2. Shape(T)
  OBVIOUS
<1>3. DOMAIN C = DOMAIN T /\ \A q \in DOMAIN T : q # p => C[q] = T[q]
  BY <1>1 DEF Rewrites
<1>4. Stem(T, p, U, t)
  BY <1>2, <1>3, CollapseStem
<1>5. /\ p \in Path /\ s \in DOMAIN T /\ s \in Path
      /\ t \in DOMAIN T /\ t \in Path /\ t \in Ancestors(p) /\ t # p /\ t # s
      /\ \A a \in U : a \in DOMAIN T /\ a \in Path /\ ~IsLeaf(T, a) /\ On(t, a)
      /\ t \in U /\ s # p
  <2>1. s # p
    BY <1>2, <1>4, Siblings DEF Stem, Shape
  <2>2. t \in U
    BY <1>4 DEF Stem
  <2>3. StemNodes(T, p, U, t)
    BY <1>2, <1>4, StemShape
  <2> QED BY <2>1, <2>2, <2>3 DEF StemNodes
<1>6. p \notin U
  BY <1>5
<1>7. Unlinked(C, p, tx) = G
  <2>1. {a \in U : tx /\ C[a].backup = {}} = {a \in U : tx /\ T[a].backup = {}}
    BY <1>3, <1>5, <1>6
  <2>2. Unlinked(C, p, tx) = Children({a \in U : tx /\ C[a].backup = {}})
    BY DEF Unlinked
  <2> QED BY <2>1, <2>2 DEF Gone
<1> DEFINE live == {q \in DOMAIN C : t \notin Ancestors(q)}
           X(q) == Collapse(C, q, s, held, tx)
<1>8. R = [q \in live |-> IF q \in U THEN X(q) ELSE C[q]]
  BY DEF Kept
<1>9. ASSUME NEW q \in U
      PROVE  LET n == X(q)
             IN  /\ IsNode(n) /\ n.key = T[s].key /\ n.values = T[s].values /\ n.label = T[s].label
                 /\ n.inconsistent = T[q].inconsistent /\ n.backup = Backup(T[q], tx)
  <2>1. C[q] = T[q] /\ C[s] = T[s] /\ IsNode(C[q])
    BY <1>3, <1>5, <1>6 DEF Nodes
  <2> HIDE DEF C, held
  <2> QED BY <2>1, CollapseFields
<1> HIDE DEF R, X, C
<1>10. DOMAIN R = live /\ \A q \in live : R[q] = IF q \in U THEN X(q) ELSE C[q]
  BY <1>8
<1>11. \A q : q \in live <=> q \in DOMAIN T /\ t \notin Ancestors(q)
  BY <1>3
<1>12. ASSUME NEW q \in live
       PROVE  (q \in U <=> q = t) /\ q # p
  <2>1. q \in U => q = t
    <3>1. SUFFICES ASSUME q \in U, q # t PROVE FALSE
      OBVIOUS
    <3>2. q \in Path /\ On(t, q)
      BY <1>5, <3>1
    <3>3. Size(t) < Size(q)
      BY <1>5, <3>1, <3>2, OnEqual DEF On
    <3> QED BY <1>5, <1>11, <3>2, <3>3, AncestorsOn
  <2> QED BY <1>5, <1>11, <2>1
<1> HIDE DEF live
<1>13. Pruned(T, R, p, t, tx)
  <2>1. t \in live
    <3>1. t \notin Ancestors(t)
      BY <1>5, AncestorsOn
    <3> QED BY <1>5, <1>11, <3>1
  <2>2. R[t] = X(t)
    BY <1>5, <1>10, <2>1
  <2>3. \A q \in live \ {t} : R[q] = T[q]
    BY <1>3, <1>10, <1>11, <1>12
  <2>4. IsNode(R[t])
    BY <1>5, <1>9, <2>2
  <2>5. Nodes(R)
    BY <1>10, <1>11, <2>3, <2>4 DEF Nodes
  <2>6. /\ R[t].key = T[s].key /\ R[t].values = T[s].values /\ R[t].label = T[s].label
        /\ R[t].inconsistent = T[t].inconsistent /\ R[t].backup = Backup(T[t], tx)
    BY <1>5, <1>9, <2>2
  <2> QED BY <1>10, <1>11, <2>3, <2>5, <2>6 DEF Pruned
<1>14. G \subseteq DOMAIN T
  <2>1. SUFFICES ASSUME NEW q \in G PROVE q \in DOMAIN T
    OBVIOUS
  <2>2. PICK a \in U, b \in Bit : q = Child(a, b)
    BY DEF Gone, Children, Bit
  <2> QED BY <1>2, <1>5, <2>2, ShapeInner
<1>15. G \subseteq DOMAIN C
  BY <1>3, <1>14
<1>16. /\ DOMAIN E = G \cup DOMAIN D
       /\ \A q \in DOMAIN D \ G : E[q] = D[q]
       /\ \A q \in G : E[q] = IF q \in U THEN X(q) ELSE C[q]
  <2>1. G = Unlinked(C, p, tx)
    BY <1>7
  <2>2. C = Cleared(T, p, tx) /\ U = Collapsing(C, p)
    BY DEF C
  <2> HIDE DEF G
  <2>3. Detaches(D, E, C, p, G, tx)
    BY <1>15, <2>1, <2>2, RemovedDetached
  <2>4. held = G \cup DOMAIN D
    BY <2>1
  <2> HIDE DEF E, held
  <2> QED BY <2>2, <2>3, <2>4 DEF X, Detaches
<1> HIDE DEF E, G, held
<1>17. ASSUME NEW q \in G
       PROVE  /\ IsNode(E[q]) /\ E[q].inconsistent = T[q].inconsistent
              /\ q \in U \cup {p} => /\ E[q].key \in {NoKey, T[s].key}
                                     /\ E[q].backup = Backup(T[q], tx)
              /\ q \notin U \cup {p} => E[q] = T[q]
  <2>1. CASE q \in U
    BY <1>9, <1>16, <2>1
  <2>2. CASE q = p
    <3>1. E[q] = C[p]
      BY <1>6, <1>16, <2>2
    <3> QED BY <1>1, <2>2, <3>1 DEF Rewrites, Nodes
  <2>3. CASE q \notin U \cup {p}
    <3>1. E[q] = T[q]
      BY <1>3, <1>14, <1>16, <2>3
    <3> QED BY <1>14, <2>3, <3>1 DEF Nodes
  <2> QED BY <2>1, <2>2, <2>3
<1>18. Released(T, D, E, p, U, tx)
  BY <1>16, <1>17 DEF Released, G
<1> QED BY <1>4, <1>13, <1>18 DEF R, E

-----------------------------------------------------------------------------
(* What a call makes of a tree *)

\* Fill and Set: the pair in the leaf p changes.
Rewritten(T, N, p, k, v, tx) == \E S : Rewrites(T, S, p, k, v, tx) /\ Lifted(S, N, p, tx)

\* Add at the leaf p of another key.
Divided(T, N, p, k, v, tx) ==
    \E S : Pushed(T, S, p, k, v, tx) /\ Shape(S) /\ Lifted(S, N, NewHome(k, T[p].key), tx)

\* Remove of the leaf p, whose sibling moves up to t.
Merged(T, N, p, t, tx) == \E R : Pruned(T, R, p, t, tx) /\ Shape(R) /\ Lifted(R, N, t, tx)

LEMMA ShapeSame ==
    ASSUME NEW T, Shape(T), NEW S, DOMAIN S = DOMAIN T
    PROVE  Shape(S)
BY DEF Shape

LEMMA RewriteStep ==
    ASSUME NEW T, Shape(T), NEW S, NEW p \in DOMAIN T, NEW k, NEW v, NEW tx \in BOOLEAN,
           Rewrites(T, S, p, k, v, tx)
    PROVE  Rewritten(T, Propagate(S, p, tx), p, k, v, tx)
<1>1. DOMAIN S = DOMAIN T /\ Nodes(S) /\ p \in Path
  BY DEF Rewrites, Shape
<1>2. Shape(S)
  BY <1>1, ShapeSame
<1>3. Lifted(S, Propagate(S, p, tx), p, tx)
  BY <1>1, <1>2, PropagateLifts
<1> QED BY <1>3 DEF Rewritten

\* Add on a placeholder, and on a leaf with another key.
AddMakes(T, N, p, k, v, tx) ==
    \/ T[p].key = NoKey /\ Rewritten(T, N, p, k, v, tx)
    \/ T[p].key \in Keys /\ Forks(p, k, T[p].key) /\ Divided(T, N, p, k, v, tx)

LEMMA AddStep ==
    ASSUME NEW T, Shape(T), Nodes(T), NEW k \in Keys, NEW p \in DOMAIN T, p = Landing(T, k),
           IsLeaf(T, p), On(p, PathOf[k]), T[p].key \in Keys \cup {NoKey}, T[p].key # k,
           T[p].key # NoKey => On(p, PathOf[T[p].key]), NEW v, NEW tx \in BOOLEAN
    PROVE  AddMakes(T, Added(T, k, v, tx), p, k, v, tx)
<1> DEFINE c == T[p].key
           N == Added(T, k, v, tx)
<1>1. p \in Path
  BY DEF Shape
<1>2. CASE c = NoKey
  <2> DEFINE S == Fill(T, p, k, v, tx)
  <2>1. N = Propagate(S, p, tx)
    BY <1>2 DEF Added, AddedAt
  <2>2. Rewrites(T, S, p, k, v, tx)
    BY FillRewrites
  <2> HIDE DEF S, N, c
  <2>3. Rewritten(T, N, p, k, v, tx)
    BY <2>1, <2>2, RewriteStep
  <2> QED BY <1>2, <2>3 DEF N, c, AddMakes
<1>3. CASE c # NoKey
  <2> DEFINE S == Split(T, p, k, v, tx)
             h == NewHome(k, c)
  <2>1. N = Propagate(S, h, tx)
    BY <1>3 DEF Added, AddedAt, NewHome
  <2>2. c \in Keys /\ c # k
    BY <1>3
  <2>3. Forks(p, k, c)
    BY <1>1, <1>3, <2>2 DEF Forks
  <2>4. Pushed(T, S, p, k, v, tx)
    BY <2>2, <2>3, SplitPushed
  <2>5. h \in Path
    BY <2>2, <2>3, HomeFacts, BelowMember
  <2>6. DOMAIN S = DOMAIN T \cup Below(p, k, c) /\ Nodes(S)
    BY <2>4 DEF Pushed
  <2> HIDE DEF S, N, c, h
  <2>7. Shape(S)
    BY <2>2, <2>3, <2>6, PushedShape
  <2>8. Lifted(S, N, h, tx)
    BY <2>1, <2>5, <2>6, <2>7, PropagateLifts
  <2>9. Divided(T, N, p, k, v, tx)
    BY <2>4, <2>7, <2>8 DEF Divided, h, c
  <2> QED BY <2>2, <2>3, <2>9 DEF N, c, AddMakes
<1> QED BY <1>2, <1>3

LEMMA AddedStep ==
    ASSUME NEW T, Regular(T), Nodes(T), NEW k \in Keys, T[Landing(T, k)].key # k,
           NEW v, NEW tx \in BOOLEAN
    PROVE  LET p == Landing(T, k)
               N == Added(T, k, v, tx)
           IN  /\ p \in DOMAIN T /\ IsLeaf(T, p) /\ On(p, PathOf[k]) /\ k \notin KeysIn(T)
               /\ \/ T[p].key = NoKey /\ Rewritten(T, N, p, k, v, tx)
                  \/ /\ T[p].key \in Keys /\ Forks(p, k, T[p].key)
                     /\ Divided(T, N, p, k, v, tx)
               /\ Regular(N) /\ KeysIn(N) = KeysIn(T) \cup {k}
<1> DEFINE p == Landing(T, k)
           c == T[p].key
           N == Added(T, k, v, tx)
<1>1. /\ Shape(T) /\ p \in DOMAIN T /\ IsLeaf(T, p) /\ On(p, PathOf[k])
      /\ k \notin KeysIn(T) /\ c \in Keys \cup {NoKey} /\ p \in Path
  BY LandingFacts, HomeOf DEF Regular, Keyed, Shape
<1>2. AddMakes(T, N, p, k, v, tx)
  <2>1. c # NoKey => On(p, PathOf[c])
    BY <1>1 DEF Regular
  <2> QED BY <1>1, <2>1, AddStep
<1> HIDE DEF p, N, c
<1>3. CASE c = NoKey /\ Rewritten(T, N, p, k, v, tx)
  <2>1. PICK Q : Rewrites(T, Q, p, k, v, tx) /\ Lifted(Q, N, p, tx)
    BY <1>3 DEF Rewritten
  <2>2. DOMAIN N = DOMAIN T /\ N[p].key = k /\ \A q \in DOMAIN T : q # p => N[q].key = T[q].key
    BY <1>1, <2>1 DEF Rewrites, Lifted
  <2>3. Regular(N) /\ KeysIn(N) = KeysIn(T) \cup {k}
    BY <1>1, <1>3, <2>2, FillRegular DEF c
  <2> QED BY <1>1, <1>3, <2>3 DEF p, N, c
<1>4. CASE c \in Keys /\ Forks(p, k, c) /\ Divided(T, N, p, k, v, tx)
  <2>1. PICK S : Pushed(T, S, p, k, v, tx) /\ Lifted(S, N, NewHome(k, c), tx)
    BY <1>4 DEF Divided, c
  <2>2. DOMAIN N = DOMAIN S /\ \A q \in DOMAIN S : N[q].key = S[q].key
    BY <2>1 DEF Lifted
  <2>3. PushedKeys(T, N, p, k)
    BY <1>1, <1>4, <2>1, <2>2, PushedHasKeys DEF c
  <2>4. Regular(N) /\ KeysIn(N) = KeysIn(T) \cup {k}
    BY <1>1, <1>4, <2>3, PushedRegular DEF c
  <2> QED BY <1>1, <1>4, <2>4 DEF p, N, c
<1> QED BY <1>2, <1>3, <1>4 DEF AddMakes, c

LEMMA SetStep ==
    ASSUME NEW T, Shape(T), Nodes(T), NEW k, NEW p \in DOMAIN T, p = Landing(T, k), T[p].key = k,
           NEW upd, NEW tx \in BOOLEAN
    PROVE  Rewritten(T, Written(T, k, upd, tx), p, k, Overwrite(T[p].values, upd), tx)
<1> DEFINE v == Overwrite(T[p].values, upd)
           S == SetNode(T, p, v, tx)
           N == Written(T, k, upd, tx)
<1>1. N = Propagate(S, p, tx)
  BY WrittenForm
<1> HIDE DEF v, S, N
<1>2. Rewrites(T, S, p, k, v, tx)
  BY SetRewrites DEF S
<1> QED BY <1>1, <1>2, RewriteStep DEF v, N

LEMMA WrittenStep ==
    ASSUME NEW T, Regular(T), Nodes(T), NEW k \in Keys \cup {NoKey}, T[Landing(T, k)].key = k,
           NEW upd, NEW tx \in BOOLEAN
    PROVE  LET p == Landing(T, k)
               N == Written(T, k, upd, tx)
           IN  /\ p \in DOMAIN T /\ IsLeaf(T, p)
               /\ Rewritten(T, N, p, k, Overwrite(T[p].values, upd), tx)
               /\ Regular(N) /\ KeysIn(N) = KeysIn(T)
<1> DEFINE p == Landing(T, k)
           v == Overwrite(T[p].values, upd)
           N == Written(T, k, upd, tx)
<1>1. Shape(T) /\ p \in DOMAIN T /\ IsLeaf(T, p) /\ T[p].key = k
  BY LandingFacts DEF Regular
<1> HIDE DEF p, v, N
<1>4. Rewritten(T, N, p, k, v, tx)
  BY <1>1, SetStep DEF p, v, N
<1>5. PICK Q : Rewrites(T, Q, p, k, v, tx) /\ Lifted(Q, N, p, tx)
  BY <1>4 DEF Rewritten
<1>6. DOMAIN N = DOMAIN T /\ \A q \in DOMAIN T : N[q].key = T[q].key
  BY <1>1, <1>5 DEF Rewrites, Lifted
<1>7. Regular(N) /\ KeysIn(N) = KeysIn(T)
  BY <1>6, SameKeysRegular
<1> QED BY <1>1, <1>4, <1>7 DEF p, N, v

\* Remove: either the leaf is just cleared, or the nodes U above it collapse.
Cuts(T, D, N, E, p, tx) ==
    \/ /\ Rewritten(T, N, p, NoKey, PlaceholderValues, tx)
       /\ Size(p) < 2 \/ ~IsLeaf(T, Sibling(p))
       /\ DOMAIN E = DOMAIN D /\ \A q \in DOMAIN D : E[q] = D[q]
    \/ \E U, t : /\ Stem(T, p, U, t)
                 /\ Merged(T, N, p, t, tx)
                 /\ Released(T, D, E, p, U, tx)

LEMMA RemoveStep ==
    ASSUME NEW T, Shape(T), Nodes(T), NEW D, NEW k, NEW p \in DOMAIN T, p = Landing(T, k),
           IsLeaf(T, p), NEW tx \in BOOLEAN
    PROVE  Cuts(T, D, Removed(T, D, k, tx).tree, Removed(T, D, k, tx).detached, p, tx)
<1> DEFINE R == Kept(T, D, p, tx)
           U == Collapsing(Cleared(T, p, tx), p)
           t == Top(Cleared(T, p, tx), p)
           N == Removed(T, D, k, tx).tree
           E == Removed(T, D, k, tx).detached
<1>1. p \in Path
  BY DEF Shape
<1>2. N = Propagate(R, t, tx)
  BY RemovedForm
<1>3. CASE U = {}
  <2>1. t = p
    BY <1>1, <1>3, CollapseNone
  <2>2. /\ Rewrites(T, R, p, NoKey, PlaceholderValues, tx)
        /\ DOMAIN E = DOMAIN D /\ \A q \in DOMAIN D : E[q] = D[q]
    BY <1>3, RemoveClears
  <2>3. Size(p) < 2 \/ ~IsLeaf(Cleared(T, p, tx), Sibling(p))
    BY <1>1, <1>3, CollapseNone
  <2>4. Size(p) < 2 \/ ~IsLeaf(T, Sibling(p))
    <3>1. DOMAIN Cleared(T, p, tx) = DOMAIN T
      BY ClearedFacts DEF Rewrites
    <3> QED BY <2>3, <3>1 DEF IsLeaf
  <2> HIDE DEF R, U, t, N, E
  <2>5. Rewritten(T, N, p, NoKey, PlaceholderValues, tx)
    BY <1>2, <2>1, <2>2, RewriteStep
  <2> QED BY <2>2, <2>4, <2>5 DEF Cuts, N, E
<1>4. CASE U # {}
  <2>1. Stem(T, p, U, t) /\ Pruned(T, R, p, t, tx) /\ Released(T, D, E, p, U, tx)
    BY <1>4, RemoveCollapses
  <2> HIDE DEF R, U, t, N, E
  <2>2. (\A q : q \in DOMAIN R <=> q \in DOMAIN T /\ t \notin Ancestors(q)) /\ Nodes(R)
    BY <2>1 DEF Pruned
  <2>3. t \in Path /\ t \in DOMAIN T /\ Size(t) >= 1
    BY <2>1, StemShape DEF StemNodes, Stem
  <2>4. Shape(R)
    BY <2>2, <2>3, PrunedShape
  <2>5. Lifted(R, N, t, tx)
    BY <1>2, <2>2, <2>3, <2>4, PropagateLifts
  <2>6. Merged(T, N, p, t, tx)
    BY <2>1, <2>4, <2>5 DEF Merged
  <2> QED BY <2>1, <2>6 DEF Cuts, N, E
<1> QED BY <1>3, <1>4

LEMMA RemovedStep ==
    ASSUME NEW T, Regular(T), Nodes(T), NEW D, NEW k \in Keys \cup {NoKey},
           T[Landing(T, k)].key = k, NEW tx \in BOOLEAN
    PROVE  LET p == Landing(T, k)
               N == Removed(T, D, k, tx).tree
               E == Removed(T, D, k, tx).detached
           IN  /\ p \in DOMAIN T /\ IsLeaf(T, p)
               /\ Cuts(T, D, N, E, p, tx)
               /\ Regular(N) /\ KeysIn(N) = KeysIn(T) \ {k}
<1> DEFINE p == Landing(T, k)
           N == Removed(T, D, k, tx).tree
           E == Removed(T, D, k, tx).detached
<1>1. Shape(T) /\ p \in DOMAIN T /\ IsLeaf(T, p) /\ T[p].key = k
  BY LandingFacts DEF Regular
<1>2. Cuts(T, D, N, E, p, tx)
  BY <1>1, RemoveStep
<1> HIDE DEF p, N, E
<1>3. CASE Rewritten(T, N, p, NoKey, PlaceholderValues, tx) /\ (Size(p) < 2 \/ ~IsLeaf(T, Sibling(p)))
  <2>1. PICK Q : Rewrites(T, Q, p, NoKey, PlaceholderValues, tx) /\ Lifted(Q, N, p, tx)
    BY <1>3 DEF Rewritten
  <2>2. DOMAIN N = DOMAIN T /\ N[p].key = NoKey /\ \A q \in DOMAIN T : q # p => N[q].key = T[q].key
    BY <1>1, <2>1 DEF Rewrites, Lifted
  <2>3. Regular(N) /\ KeysIn(N) = KeysIn(T) \ {k}
    BY <1>1, <1>3, <2>2, ClearRegular
  <2> QED BY <1>1, <1>2, <2>3 DEF p, N, E
<1>4. ASSUME NEW U, NEW t, Stem(T, p, U, t), Merged(T, N, p, t, tx)
      PROVE  Regular(N) /\ KeysIn(N) = KeysIn(T) \ {k}
  <2>1. PICK R : Pruned(T, R, p, t, tx) /\ Lifted(R, N, t, tx)
    BY <1>4 DEF Merged
  <2>2. /\ \A q : q \in DOMAIN R <=> q \in DOMAIN T /\ t \notin Ancestors(q)
        /\ R[t].key = T[Sibling(p)].key /\ \A q \in DOMAIN R : q # t => R[q].key = T[q].key
    BY <2>1 DEF Pruned
  <2>3. Regular(R) /\ KeysIn(R) = KeysIn(T) \ {k}
    BY <1>1, <1>4, <2>2, CollapseRegular
  <2>4. DOMAIN N = DOMAIN R /\ \A q \in DOMAIN R : N[q].key = R[q].key
    BY <2>1 DEF Lifted
  <2> QED BY <2>3, <2>4, SameKeysRegular
<1> QED BY <1>1, <1>2, <1>3, <1>4 DEF Cuts, p, N, E

-----------------------------------------------------------------------------
(* Backups *)

AnyOf(S) == CHOOSE b \in S : TRUE

\* The node, or its backup when it has one: what Rollback brings back.
OldNode(n) == IF n.backup = {} THEN n ELSE AnyOf(n.backup)

\* m still knows what n knew of the node at Begin.
Keeps(any, n, m) ==
    /\ OldNode(m).key = OldNode(n).key
    /\ OldNode(m).label = OldNode(n).label
    /\ ~any => OldNode(m).values = OldNode(n).values
    /\ n.backup # {} => m.backup # {}
    /\ n.inconsistent => m.inconsistent

Copy(n) == [key |-> n.key, values |-> n.values, label |-> n.label, inconsistent |-> n.inconsistent]

LEMMA CopyFields ==
    ASSUME NEW n
    PROVE  /\ Copy(n).key = n.key /\ Copy(n).values = n.values
           /\ Copy(n).label = n.label /\ Copy(n).inconsistent = n.inconsistent
BY DEF Copy

LEMMA BackupIs ==
    ASSUME NEW n, NEW tx \in BOOLEAN
    PROVE  Backup(n, tx) = IF tx /\ n.backup = {} THEN {Copy(n)} ELSE n.backup
BY DEF Backup, Copy

LEMMA BackupKeeps ==
    ASSUME NEW any \in BOOLEAN, NEW n, NEW m, NEW tx \in BOOLEAN, tx, m.backup = Backup(n, tx),
           m.inconsistent = n.inconsistent
    PROVE  m.backup # {} /\ Keeps(any, n, m)
<1> DEFINE x == Copy(n)
<1>1. Backup(n, tx) = IF n.backup = {} THEN {x} ELSE n.backup
  BY BackupIs
<1>2. x.key = n.key /\ x.values = n.values /\ x.label = n.label
  BY CopyFields
<1> HIDE DEF x
<1>3. CASE n.backup = {}
  <2>1. m.backup = {x} /\ m.backup # {}
    BY <1>1, <1>3
  <2>2. OldNode(m) = x /\ OldNode(n) = n
    BY <1>3, <2>1 DEF OldNode, AnyOf
  <2> QED BY <1>2, <1>3, <2>1, <2>2 DEF Keeps
<1>4. CASE n.backup # {}
  <2>1. m.backup = n.backup
    BY <1>1, <1>4
  <2>2. OldNode(m) = OldNode(n)
    BY <1>4, <2>1 DEF OldNode
  <2> QED BY <1>4, <2>1, <2>2 DEF Keeps
<1> QED BY <1>3, <1>4

LEMMA BackupOK ==
    ASSUME NEW n, NodeOK(n), NEW tx \in BOOLEAN, NEW m, m.backup = Backup(n, tx),
           m.key \in Keys \cup {NoKey}, m.inconsistent \in BOOLEAN
    PROVE  NodeOK(m)
<1> DEFINE x == Copy(n)
<1>1. m.backup = {x} \/ m.backup = n.backup
  BY BackupIs
<1>2. x.key \in Keys \cup {NoKey} /\ x.inconsistent \in BOOLEAN
  BY CopyFields DEF NodeOK
<1> HIDE DEF x
<1>3. \A b \in m.backup : b.key \in Keys \cup {NoKey} /\ b.inconsistent \in BOOLEAN /\ m.backup = {b}
  BY <1>1, <1>2 DEF NodeOK
<1> QED BY <1>3 DEF NodeOK

LEMMA SameKeeps ==
    ASSUME NEW any \in BOOLEAN,
           NEW n, NEW m, m.key = n.key, m.values = n.values, m.label = n.label,
           m.backup = n.backup, n.inconsistent => m.inconsistent
    PROVE  Keeps(any, n, m)
<1>1. CASE n.backup = {}
  BY <1>1 DEF Keeps, OldNode
<1>2. CASE n.backup # {}
  BY <1>2 DEF Keeps, OldNode
<1> QED BY <1>1, <1>2

LEMMA KeepsSelf ==
    ASSUME NEW any \in BOOLEAN, NEW n
    PROVE  Keeps(any, n, n)
BY DEF Keeps

LEMMA KeepsTransitive ==
    ASSUME NEW any \in BOOLEAN, NEW n, NEW m, NEW o, Keeps(any, n, m), Keeps(any, m, o)
    PROVE  Keeps(any, n, o)
BY DEF Keeps

LEMMA KeepsTouched ==
    ASSUME NEW any \in BOOLEAN, NEW n, NEW m, Keeps(any, n, m), Touched(n)
    PROVE  Touched(m)
BY DEF Keeps, Touched

Sound(T) == Nodes(T) /\ \A q \in DOMAIN T : NodeOK(T[q])

LEMMA SoundKeyed ==
    ASSUME NEW T, Sound(T)
    PROVE  Keyed(T) /\ Nodes(T) /\ \A q \in DOMAIN T : T[q].inconsistent \in BOOLEAN
BY DEF Sound, Keyed, NodeOK

\* The loop upwards inside a transaction.
LEMMA LiftedKeeps ==
    ASSUME NEW any \in BOOLEAN,
           NEW S, Sound(S), NEW r, NEW N, NEW tx \in BOOLEAN, Lifted(S, N, r, tx)
    PROVE  /\ Sound(N)
           /\ tx => \A q \in DOMAIN S : Keeps(any, S[q], N[q])
<1>1. ASSUME NEW q \in DOMAIN S
      PROVE  NodeOK(N[q]) /\ (tx => Keeps(any, S[q], N[q]))
  <2>1. NodeOK(S[q]) /\ S[q].inconsistent \in BOOLEAN
    BY SoundKeyed DEF Sound
  <2>2. CASE q \notin Ancestors(r)
    BY <2>1, <2>2, KeepsSelf DEF Lifted
  <2>3. CASE q \in Ancestors(r)
    <3>1. /\ N[q].key = S[q].key /\ N[q].backup = S[q].backup
          /\ tx => N[q].values = S[q].values /\ N[q].label = S[q].label /\ N[q].inconsistent
          /\ ~tx => N[q].inconsistent = S[q].inconsistent
      BY <2>3 DEF Lifted
    <3>2. N[q].inconsistent \in BOOLEAN
      BY <2>1, <3>1
    <3>3. NodeOK(N[q])
      BY <2>1, <3>1, <3>2 DEF NodeOK
    <3> QED BY <3>1, <3>3, SameKeeps
  <2> QED BY <2>2, <2>3
<1> QED BY <1>1 DEF Sound, Lifted

-----------------------------------------------------------------------------
(* What Rollback needs *)

\* No node above q has a backup: q was there at Begin.
Free(T, q) == \A a \in Ancestors(q) : T[a].backup = {}

Before(T, D) == DOMAIN D \cup {q \in DOMAIN T : Free(T, q)}

\* An internal node below a backup has one itself: it was made in this
\* transaction.
BackupsClosed(T) == \A q \in DOMAIN T : ~IsLeaf(T, q) /\ ~Free(T, q) => T[q].backup # {}

Reachables(T) ==
    \A q \in DOMAIN T : T[q].backup # {} => \A a \in Ancestors(q) : Touched(T[a])

\* A node made where one was unlinked lies below a backup.
Covered(T, D) == \A q \in DOMAIN D : q \in DOMAIN T => ~Free(T, q)

\* Rollback reaches the unlinked nodes.
DetachedReached(T, D) ==
    \A q \in DOMAIN D : \A a \in Ancestors(q) : Touched(Held(T, D, a))

\* The nodes and backups are those of the tree at Begin.
Remembers(any, T, D, B) ==
    /\ Before(T, D) = DOMAIN B
    /\ \A q \in DOMAIN B :
          LET o == OldNode(Held(T, D, q))
          IN  o.key = B[q].key /\ o.label = B[q].label /\ (~any => o.values = B[q].values)

Undo(any, T, D, B) ==
    /\ Shape(T) /\ Sound(T)
    /\ Sound(D)
    /\ Shape(B) /\ Sound(B)
    /\ Remembers(any, T, D, B)
    /\ BackupsClosed(T)
    /\ Reachables(T)
    /\ Covered(T, D)
    /\ DetachedReached(T, D)

\* What a call inside a transaction must do so that Rollback still works.
Recoverable(any, T, D, N, E) ==
    /\ \A q \in DOMAIN D : q \in DOMAIN E /\ Keeps(any, D[q], E[q])
    /\ \A q \in DOMAIN T : Free(T, q) =>
          \/ q \in DOMAIN N /\ Free(N, q) /\ q \notin DOMAIN E /\ Keeps(any, T[q], N[q])
          \/ q \in DOMAIN E /\ Keeps(any, T[q], E[q])
    /\ \A q \in DOMAIN E : q \in DOMAIN D \/ (q \in DOMAIN T /\ Free(T, q))
    /\ \A q \in DOMAIN N : Free(N, q) => q \in DOMAIN T /\ Free(T, q)

LEMMA UndoStep ==
    ASSUME NEW any \in BOOLEAN, NEW T, NEW D, NEW B, Undo(any, T, D, B), NEW N, NEW E,
           Shape(N), Sound(N), Sound(E), Recoverable(any, T, D, N, E),
           BackupsClosed(N), Reachables(N), Covered(N, E),
           \A q \in DOMAIN E \ DOMAIN D : \A a \in Ancestors(q) : Touched(Held(N, E, a))
    PROVE  Undo(any, N, E, B)
<1>1. ASSUME NEW q \in DOMAIN B
      PROVE  q \in Before(N, E) /\ Keeps(any, Held(T, D, q), Held(N, E, q))
  <2>1. q \in DOMAIN D \/ (q \in DOMAIN T /\ Free(T, q))
    BY DEF Undo, Remembers, Before
  <2>2. CASE q \in DOMAIN D
    <3>1. q \in DOMAIN E /\ Keeps(any, D[q], E[q])
      BY <2>2 DEF Recoverable
    <3>2. Held(T, D, q) = D[q] /\ Held(N, E, q) = E[q]
      BY <2>2, <3>1 DEF Held
    <3> QED BY <3>1, <3>2 DEF Before
  <2>3. CASE q \notin DOMAIN D
    <3>1. q \in DOMAIN T /\ Free(T, q) /\ Held(T, D, q) = T[q]
      BY <2>1, <2>3 DEF Held
    <3>2. \/ q \in DOMAIN N /\ Free(N, q) /\ q \notin DOMAIN E /\ Keeps(any, T[q], N[q])
          \/ q \in DOMAIN E /\ Keeps(any, T[q], E[q])
      BY <3>1 DEF Recoverable
    <3> QED BY <3>1, <3>2 DEF Held, Before
  <2> QED BY <2>2, <2>3
<1>2. Before(N, E) \subseteq DOMAIN B
  <2>1. DOMAIN B = Before(T, D)
    BY DEF Undo, Remembers
  <2> QED BY <2>1 DEF Recoverable, Before
<1>3. Before(N, E) = DOMAIN B
  BY <1>1, <1>2
<1>4. ASSUME NEW q \in DOMAIN B
      PROVE  LET o == OldNode(Held(N, E, q))
             IN  o.key = B[q].key /\ o.label = B[q].label /\ (~any => o.values = B[q].values)
  <2> DEFINE o == OldNode(Held(T, D, q))
  <2>1. o.key = B[q].key /\ o.label = B[q].label /\ (~any => o.values = B[q].values)
    BY DEF Undo, Remembers
  <2>2. Keeps(any, Held(T, D, q), Held(N, E, q))
    BY <1>1
  <2> QED BY <2>1, <2>2 DEF Keeps
<1>5. Remembers(any, N, E, B)
  BY <1>3, <1>4 DEF Remembers
<1>6. ASSUME NEW q \in DOMAIN D, NEW a \in Ancestors(q)
      PROVE  Touched(Held(N, E, a))
  <2>1. Touched(Held(T, D, a))
    BY DEF Undo, DetachedReached
  <2>2. q \in DOMAIN B /\ Shape(B)
    BY DEF Undo, Remembers, Before
  <2>3. a \in DOMAIN B
    BY <2>2, AncestorsOn DEF Shape
  <2> QED BY <1>1, <2>1, <2>3, KeepsTouched
<1>7. DetachedReached(N, E)
  BY <1>6 DEF DetachedReached
<1> QED BY <1>5, <1>7 DEF Undo

\* Outside a transaction there is nothing to remember.
LEMMA UndoStart ==
    ASSUME NEW any \in BOOLEAN,
           NEW T, Shape(T), Sound(T), \A q \in DOMAIN T : T[q].backup = {}, NEW D, DOMAIN D = {}
    PROVE  Undo(any, T, D, T)
<1>1. \A q \in DOMAIN T : \A a \in Ancestors(q) : a \in DOMAIN T
  BY AncestorsOn DEF Shape
<1>2. \A q \in DOMAIN T : Free(T, q)
  BY <1>1 DEF Free
<1>3. Sound(D)
  BY DEF Sound, Nodes
<1>4. Remembers(any, T, D, T)
  BY <1>2 DEF Remembers, Before, Held, OldNode
<1>5. BackupsClosed(T) /\ Reachables(T) /\ Covered(T, D) /\ DetachedReached(T, D)
  BY <1>2 DEF BackupsClosed, Reachables, Covered, DetachedReached
<1> QED BY <1>3, <1>4, <1>5 DEF Undo

-----------------------------------------------------------------------------
(* Calls inside a transaction can be undone *)

LEMMA AncestorsIn ==
    ASSUME NEW T, Shape(T), NEW q \in DOMAIN T
    PROVE  q \in Path /\ Ancestors(q) \subseteq DOMAIN T
BY AncestorsOn DEF Shape

LEMMA LeafAbove ==
    ASSUME NEW T, Shape(T), NEW p \in DOMAIN T, IsLeaf(T, p), NEW q \in DOMAIN T
    PROVE  p \notin Ancestors(q)
<1>1. q \in Path /\ p \in Path
  BY DEF Shape
<1>2. ASSUME p \in Ancestors(q)
      PROVE  FALSE
  <2>1. On(p, q) /\ Size(p) < Size(q)
    BY <1>1, <1>2, AncestorsOn
  <2>2. p = q
    BY <2>1, LeafEnds
  <2> QED BY <1>1, <2>1, <2>2, PathSize
<1> QED BY <1>2

LEMMA RewritesSound ==
    ASSUME NEW any \in BOOLEAN,
           NEW T, Sound(T), NEW S, NEW p \in DOMAIN T, NEW k \in Keys \cup {NoKey}, NEW v,
           NEW tx \in BOOLEAN, Rewrites(T, S, p, k, v, tx)
    PROVE  /\ Sound(S)
           /\ tx => S[p].backup # {} /\ \A q \in DOMAIN T : Keeps(any, T[q], S[q])
<1>1. /\ S[p].key = k /\ S[p].inconsistent = T[p].inconsistent /\ S[p].backup = Backup(T[p], tx)
      /\ DOMAIN S = DOMAIN T /\ Nodes(S) /\ \A q \in DOMAIN T \ {p} : S[q] = T[q]
  BY DEF Rewrites
<1>2. NodeOK(T[p]) /\ T[p].inconsistent \in BOOLEAN
  BY SoundKeyed DEF Sound
<1>3. NodeOK(S[p])
  BY <1>1, <1>2, BackupOK
<1>4. Sound(S)
  BY <1>1, <1>3 DEF Sound
<1>5. tx => S[p].backup # {} /\ Keeps(any, T[p], S[p])
  BY <1>1, BackupKeeps
<1> QED BY <1>1, <1>4, <1>5, KeepsSelf

LEMMA UndoRewritten ==
    ASSUME NEW any \in BOOLEAN,
           NEW T, NEW D, NEW B, Undo(any, T, D, B), NEW p \in DOMAIN T, IsLeaf(T, p),
           NEW k \in Keys \cup {NoKey}, NEW v, NEW tx \in BOOLEAN, tx,
           NEW N, Rewritten(T, N, p, k, v, tx), Shape(N),
           NEW E, Sound(E), DOMAIN E = DOMAIN D, \A q \in DOMAIN D : Keeps(any, D[q], E[q])
    PROVE  Undo(any, N, E, B)
<1>1. PICK S : Rewrites(T, S, p, k, v, tx) /\ Lifted(S, N, p, tx)
  BY DEF Rewritten
<1>2. Shape(T) /\ Sound(T)
  BY DEF Undo
<1>3. /\ Sound(S) /\ S[p].backup # {}
      /\ \A q \in DOMAIN T : Keeps(any, T[q], S[q])
  BY <1>1, <1>2, RewritesSound
<1>4. Sound(N) /\ DOMAIN S = DOMAIN T /\ \A q \in DOMAIN S : Keeps(any, S[q], N[q])
  BY <1>1, <1>3, LiftedKeeps DEF Rewrites
<1>5. DOMAIN N = DOMAIN T /\ \A q \in DOMAIN T : Keeps(any, T[q], N[q])
  BY <1>1, <1>3, <1>4, KeepsTransitive DEF Lifted
<1>6. \A q \in DOMAIN T \ {p} : N[q].backup = T[q].backup
  BY <1>1, <1>4 DEF Lifted, Rewrites
<1>7. \A a \in Ancestors(p) : a \in DOMAIN T /\ Touched(N[a])
  BY <1>1, <1>2, <1>4, AncestorsIn DEF Lifted, Touched
<1>8. ASSUME NEW q \in DOMAIN T
      PROVE  (Free(N, q) <=> Free(T, q)) /\ \A a \in Ancestors(q) : a \in DOMAIN T
  <2>1. Ancestors(q) \subseteq DOMAIN T /\ p \notin Ancestors(q)
    BY <1>2, AncestorsIn, LeafAbove
  <2>2. \A a \in Ancestors(q) : N[a].backup = T[a].backup
    BY <1>6, <2>1
  <2> QED BY <2>1, <2>2 DEF Free
<1>9. BackupsClosed(N)
  <2>1. ASSUME NEW q \in DOMAIN T, ~IsLeaf(N, q), ~Free(N, q)
        PROVE  N[q].backup # {}
    <3>1. ~IsLeaf(T, q) /\ ~Free(T, q) /\ q # p
      BY <1>5, <1>8, <2>1 DEF IsLeaf
    <3> QED BY <1>6, <3>1 DEF Undo, BackupsClosed
  <2> QED BY <1>5, <2>1 DEF BackupsClosed
<1>10. Reachables(N)
  <2>1. ASSUME NEW q \in DOMAIN T, N[q].backup # {}, NEW a \in Ancestors(q)
        PROVE  Touched(N[a])
    <3>1. CASE q = p
      BY <1>7, <2>1, <3>1
    <3>2. CASE q # p
      <4>1. Touched(T[a])
        BY <1>6, <2>1, <3>2 DEF Undo, Reachables
      <4> QED BY <1>5, <1>8, <2>1, <4>1, KeepsTouched
    <3> QED BY <3>1, <3>2
  <2> QED BY <1>5, <2>1 DEF Reachables
<1>11. Covered(N, E)
  BY <1>5, <1>8 DEF Covered, Undo
<1>12. Recoverable(any, T, D, N, E)
  BY <1>5, <1>8 DEF Recoverable, Undo, Covered
<1> QED BY <1>4, <1>9, <1>10, <1>11, <1>12, UndoStep

\* The new nodes of a split: inner ones, the two leaves with a key, and
\* placeholders.
PushedOK(any, T, S, p, k, c, tx) ==
    /\ Sound(S)
    /\ DOMAIN T \subseteq DOMAIN S
    /\ \A q \in DOMAIN S : q \notin DOMAIN T => q \in Below(p, k, c)
    /\ tx => \A q \in DOMAIN T : Keeps(any, T[q], S[q])
    /\ tx => \A q \in Inner(p, k, c) : S[q].backup # {}
    /\ \A q \in DOMAIN T \ {p} : S[q] = T[q]
    /\ \A q \in Below(p, k, c) : S[q].backup # {} => q \in Inner(p, k, c) \cup {NewHome(k, c)}

LEMMA PushedSound ==
    ASSUME NEW any \in BOOLEAN,
           NEW T, Sound(T), Shape(T), NEW p \in DOMAIN T, IsLeaf(T, p), T[p].key \in Keys,
           NEW k \in Keys, Forks(p, k, T[p].key), NEW v, NEW tx \in BOOLEAN,
           NEW S, Pushed(T, S, p, k, v, tx)
    PROVE  PushedOK(any, T, S, p, k, T[p].key, tx)
<1> DEFINE c == T[p].key
           I == Inner(p, k, c)
           W == Below(p, k, c)
           h == NewHome(k, c)
           g == NewHome(c, k)
           m == Moved(T[p])
           e == LeafNode(NoKey, PlaceholderValues)
<1>1. /\ DOMAIN S = DOMAIN T \cup W
      /\ Nodes(S)
      /\ \A q \in DOMAIN T \ {p} : S[q] = T[q]
      /\ S[p].key = NoKey /\ S[p].inconsistent = T[p].inconsistent
      /\ S[p].backup = Backup(T[p], tx)
      /\ \A q \in I \ {p} : S[q].key = NoKey /\ S[q].inconsistent = Unmarked
                            /\ S[q].backup = Backup(m, tx)
      /\ \A q \in W \ I : q # h /\ q # g => S[q] = e
      /\ S[g] = m
      /\ S[h] = Rec(k, v, LeafLabel(k, v), Unmarked, Backup(e, tx), {})
  BY DEF Pushed
<1>2. /\ m.key = c /\ m.inconsistent = Unmarked /\ m.backup = {}
      /\ e.key = NoKey /\ e.inconsistent = Unmarked /\ e.backup = {}
  BY MovedFields, LeafNodeFields
<1>3. S[h].key = k /\ S[h].inconsistent = Unmarked /\ S[h].backup = Backup(e, tx)
  BY <1>1, RecFields
<1>4. Unmarked \in BOOLEAN
  BY DEF Unmarked
<1>5. /\ NodeOK(T[p]) /\ T[p].inconsistent \in BOOLEAN
      /\ h \in W \ I /\ g \in W \ I /\ p \in I
  <2>1. p \in Path /\ On(p, p)
    BY OnSelf DEF Forks
  <2> QED BY <2>1, SoundKeyed, HomeFacts, InnerMember DEF Sound, Forks
<1>6. \A q \in W : q \notin DOMAIN T
  <2>1. ASSUME NEW q \in W, q \in DOMAIN T
        PROVE  FALSE
    BY <2>1, BelowMember, LeafEnds
  <2> QED BY <2>1
<1> HIDE DEF c, I, W, h, g, m, e
<1>7. NodeOK(m) /\ NodeOK(e)
  BY <1>2, <1>4 DEF NodeOK, c
<1>8. NodeOK(S[h]) /\ NodeOK(S[p])
  BY <1>1, <1>3, <1>4, <1>5, <1>7, BackupOK
<1>9. \A q \in I \ {p} : NodeOK(S[q])
  BY <1>1, <1>4, <1>7, BackupOK
<1>10. \A q \in DOMAIN T \ {p} : NodeOK(S[q])
  BY <1>1 DEF Sound
<1>11. \A q \in W : NodeOK(S[q])
  BY <1>1, <1>5, <1>6, <1>7, <1>8, <1>9
<1>12. Sound(S)
  BY <1>1, <1>8, <1>10, <1>11 DEF Sound
<1>13. tx => S[p].backup # {} /\ Keeps(any, T[p], S[p])
  BY <1>1, BackupKeeps
<1>14. tx => \A q \in I \ {p} : S[q].backup # {}
  <2>1. ASSUME tx, NEW q \in I \ {p}
        PROVE  S[q].backup # {}
    <3>1. S[q].backup = Backup(m, tx) /\ S[q].inconsistent = m.inconsistent
      BY <1>1, <1>2
    <3> QED BY <2>1, <3>1, BackupKeeps
  <2> QED BY <2>1
<1>15. tx => \A q \in DOMAIN T : Keeps(any, T[q], S[q])
  <2>1. ASSUME tx, NEW q \in DOMAIN T
        PROVE  Keeps(any, T[q], S[q])
    <3>1. CASE q = p
      BY <1>13, <2>1, <3>1
    <3>2. CASE q # p
      <4>1. S[q] = T[q]
        BY <1>1, <3>2
      <4> QED BY <4>1, KeepsSelf
    <3> QED BY <3>1, <3>2
  <2> QED BY <2>1
<1>16. \A q \in W : S[q].backup # {} => q \in I \cup {h}
  BY <1>1, <1>2
<1> QED BY <1>1, <1>12, <1>13, <1>14, <1>15, <1>16 DEF PushedOK, c, I, W, h

LEMMA UndoDivided ==
    ASSUME NEW any \in BOOLEAN,
           NEW T, NEW D, NEW B, Undo(any, T, D, B), NEW p \in DOMAIN T, IsLeaf(T, p), T[p].key \in Keys,
           NEW k \in Keys, Forks(p, k, T[p].key), NEW v, NEW tx \in BOOLEAN, tx,
           NEW N, Divided(T, N, p, k, v, tx), Shape(N)
    PROVE  Undo(any, N, D, B)
<1> DEFINE c == T[p].key
           I == Inner(p, k, c)
           W == Below(p, k, c)
           h == NewHome(k, c)
<1>1. PICK S : Pushed(T, S, p, k, v, tx) /\ Shape(S) /\ Lifted(S, N, h, tx)
  BY DEF Divided
<1>2. Shape(T) /\ Sound(T) /\ Sound(D)
  BY DEF Undo
<1>3. /\ Sound(S)
      /\ DOMAIN T \subseteq DOMAIN S
      /\ \A q \in DOMAIN S : q \notin DOMAIN T => q \in W
      /\ \A q \in DOMAIN T : Keeps(any, T[q], S[q])
      /\ \A q \in I : S[q].backup # {}
      /\ \A q \in DOMAIN T \ {p} : S[q] = T[q]
      /\ \A q \in W : S[q].backup # {} => q \in I \cup {h}
  <2>1. PushedOK(any, T, S, p, k, c, tx)
    BY <1>1, <1>2, PushedSound
  <2> QED BY <2>1 DEF PushedOK
<1>4. /\ Ancestors(h) = Ancestors(p) \cup I
      /\ h \in Path /\ p \in I
      /\ \A q \in W : q \in Path /\ Parent(q) \in I /\ On(p, q) /\ q # p /\ p \in Ancestors(q)
  <2>1. p \in Path /\ On(p, p)
    BY OnSelf DEF Forks
  <2>2. Ancestors(h) = Ancestors(p) \cup I /\ h \in W /\ p \in I
    BY <2>1, HomeFacts, InnerMember DEF Forks
  <2>3. ASSUME NEW q \in W
        PROVE  q \in Path /\ Parent(q) \in I /\ On(p, q) /\ q # p /\ p \in Ancestors(q)
    <3>1. q \in Path /\ Parent(q) \in I /\ On(p, q) /\ q # p
      BY BelowMember
    <3>2. Size(p) <= Size(q) /\ Size(p) # Size(q) /\ Size(p) \in Nat /\ Size(q) \in Nat
      BY <2>1, <3>1, OnEqual, PathSize DEF On
    <3>3. Size(p) < Size(q)
      BY <3>2
    <3> QED BY <2>1, <3>1, <3>3, AncestorsOn
  <2> QED BY <2>2, <2>3
<1> HIDE DEF c, I, W, h
<1>5. Sound(N) /\ DOMAIN N = DOMAIN S /\ \A q \in DOMAIN S : Keeps(any, S[q], N[q])
  <2>1. DOMAIN N = DOMAIN S
    BY <1>1 DEF Lifted
  <2>2. Sound(N) /\ \A q \in DOMAIN S : Keeps(any, S[q], N[q])
    BY <1>1, <1>3, LiftedKeeps
  <2> QED BY <2>1, <2>2
<1>6. \A q \in DOMAIN T : q \in DOMAIN N /\ Keeps(any, T[q], N[q])
  BY <1>3, <1>5, KeepsTransitive
<1>7. /\ \A q \in DOMAIN T \ {p} : N[q].backup = T[q].backup
      /\ \A q \in DOMAIN N : N[q].backup = S[q].backup
  <2>1. \A q \in DOMAIN N : N[q].backup = S[q].backup
    BY <1>1, <1>5 DEF Lifted
  <2> QED BY <1>3, <1>5, <2>1
<1>8. \A a \in Ancestors(h) : a \in DOMAIN N => Touched(N[a])
  BY <1>1, <1>5 DEF Lifted, Touched
<1>9. ASSUME NEW q \in DOMAIN T
      PROVE  (Free(N, q) <=> Free(T, q)) /\ \A a \in Ancestors(q) : a \in DOMAIN T
  <2>1. Ancestors(q) \subseteq DOMAIN T /\ p \notin Ancestors(q)
    BY <1>2, AncestorsIn, LeafAbove
  <2>2. \A a \in Ancestors(q) : N[a].backup = T[a].backup
    BY <1>7, <2>1
  <2> QED BY <2>1, <2>2 DEF Free
<1>10. ASSUME NEW q \in DOMAIN N, q \notin DOMAIN T
       PROVE  ~Free(N, q)
  <2>1. p \in Ancestors(q)
    BY <1>3, <1>4, <1>5, <1>10
  <2>2. N[p].backup # {}
    BY <1>3, <1>4, <1>6, <1>7
  <2> QED BY <2>1, <2>2 DEF Free
<1>11. BackupsClosed(N)
  <2>1. ASSUME NEW q \in DOMAIN N, ~IsLeaf(N, q), ~Free(N, q)
        PROVE  N[q].backup # {}
    <3>1. CASE q \in I
      BY <1>3, <1>7, <2>1, <3>1
    <3>2. CASE q \notin I
      <4>1. q \in Path /\ Child(q, 0) \in DOMAIN N /\ Shape(N)
        BY <2>1 DEF IsLeaf, Shape
      <4>2. Parent(Child(q, 0)) = q /\ On(q, Child(q, 0))
        <5>1. 0 \in Bit
          BY DEF Bit
        <5> QED BY <4>1, <5>1, ChildFacts, OnChild
      <4>3. Child(q, 0) \in DOMAIN T
        BY <1>3, <1>4, <1>5, <3>2, <4>1, <4>2
      <4>4. q \in DOMAIN T /\ ~IsLeaf(T, q) /\ q # p
        BY <1>2, <1>4, <3>2, <4>1, <4>2, <4>3 DEF Shape, IsLeaf
      <4>5. ~Free(T, q)
        BY <1>9, <2>1, <4>4
      <4> QED BY <1>7, <4>4, <4>5 DEF Undo, BackupsClosed
    <3> QED BY <3>1, <3>2
  <2> QED BY <2>1 DEF BackupsClosed
<1>12. Reachables(N)
  <2>1. ASSUME NEW q \in DOMAIN N, N[q].backup # {}, NEW a \in Ancestors(q)
        PROVE  Touched(N[a])
    <3>1. a \in DOMAIN N
      BY <2>1, AncestorsIn
    <3>2. CASE q \in DOMAIN T /\ q # p
      <4>1. Touched(T[a])
        BY <1>7, <2>1, <3>2 DEF Undo, Reachables
      <4> QED BY <1>6, <1>9, <2>1, <3>2, <4>1, KeepsTouched
    <3>3. CASE ~(q \in DOMAIN T /\ q # p)
      <4>1. q \in I \cup {h}
        BY <1>3, <1>4, <1>5, <1>7, <2>1, <3>3
      <4>2. a \in Ancestors(h)
        BY <1>4, <2>1, <4>1, AncestorsUp
      <4> QED BY <1>8, <3>1, <4>2
    <3> QED BY <3>2, <3>3
  <2> QED BY <2>1 DEF Reachables
<1>13. Covered(N, D)
  BY <1>9, <1>10 DEF Covered, Undo
<1>14. Recoverable(any, T, D, N, D)
  BY <1>6, <1>9, <1>10, KeepsSelf DEF Recoverable, Undo, Covered
<1> QED BY <1>2, <1>5, <1>11, <1>12, <1>13, <1>14, UndoStep

LEMMA PrunedSound ==
    ASSUME NEW any \in BOOLEAN,
           NEW T, Sound(T), NEW p, NEW t \in DOMAIN T, T[Sibling(p)].key \in Keys \cup {NoKey},
           NEW tx \in BOOLEAN, NEW R, Pruned(T, R, p, t, tx)
    PROVE  /\ Sound(R)
           /\ tx /\ t \in DOMAIN R => R[t].backup # {} /\ \A q \in DOMAIN R : Keeps(any, T[q], R[q])
<1>1. /\ R[t].key = T[Sibling(p)].key /\ R[t].inconsistent = T[t].inconsistent
      /\ R[t].backup = Backup(T[t], tx) /\ Nodes(R)
      /\ \A q \in DOMAIN R \ {t} : R[q] = T[q] /\ q \in DOMAIN T
  BY DEF Pruned
<1>2. NodeOK(T[t]) /\ T[t].inconsistent \in BOOLEAN
  BY SoundKeyed DEF Sound
<1>3. NodeOK(R[t])
  BY <1>1, <1>2, BackupOK
<1>4. Sound(R)
  BY <1>1, <1>3 DEF Sound
<1>5. tx => R[t].backup # {} /\ Keeps(any, T[t], R[t])
  BY <1>1, BackupKeeps
<1> QED BY <1>1, <1>4, <1>5, KeepsSelf

\* The nodes that were there at Begin and that this Remove unlinks are the
\* ones its backups hold.
LEMMA GoneFacts ==
    ASSUME NEW any \in BOOLEAN,
           NEW T, NEW D, NEW B, Undo(any, T, D, B), NEW p \in DOMAIN T, IsLeaf(T, p),
           NEW U, NEW t, Stem(T, p, U, t), NEW tx \in BOOLEAN, tx
    PROVE  \A q : q \in Gone(T, U, tx) <=> q \in DOMAIN T /\ Free(T, q) /\ t \in Ancestors(q)
<1>1. Shape(T) /\ BackupsClosed(T)
  BY DEF Undo
<1>2. t \in Path /\ \A a \in U : a \in DOMAIN T /\ a \in Path /\ ~IsLeaf(T, a) /\ On(t, a)
  BY <1>1, StemShape DEF StemNodes
<1>3. ASSUME NEW q \in Gone(T, U, tx)
      PROVE  q \in DOMAIN T /\ Free(T, q) /\ t \in Ancestors(q)
  <2>1. PICK a \in U, b \in {0, 1} : T[a].backup = {} /\ q = Child(a, b)
    BY <1>3 DEF Gone, Children
  <2>2. a \in DOMAIN T /\ a \in Path /\ ~IsLeaf(T, a) /\ On(t, a) /\ b \in Bit
    BY <1>2, <2>1 DEF Bit
  <2>3. q \in DOMAIN T
    BY <1>1, <2>1, <2>2, ShapeInner
  <2>4. Free(T, a)
    BY <1>1, <2>1, <2>2 DEF BackupsClosed
  <2>5. \A e : e \in Ancestors(q) <=> e \in Ancestors(a) \/ e = a
    BY <2>1, <2>2, AncestorsChild
  <2>6. Free(T, q)
    BY <2>1, <2>4, <2>5 DEF Free
  <2>7. t \in Ancestors(q)
    <3>1. CASE t = a
      BY <2>5, <3>1
    <3>2. CASE t # a
      <4>1. Size(t) # Size(a) /\ Size(t) <= Size(a) /\ Size(t) \in Nat /\ Size(a) \in Nat
        BY <1>2, <2>2, <3>2, OnEqual, PathSize DEF On
      <4>2. Size(t) < Size(a)
        BY <4>1
      <4> QED BY <1>2, <2>2, <2>5, <4>2, AncestorsOn
    <3> QED BY <3>1, <3>2
  <2> QED BY <2>3, <2>6, <2>7
<1>4. ASSUME NEW q \in DOMAIN T, Free(T, q), t \in Ancestors(q)
      PROVE  q \in Gone(T, U, tx)
  <2>1. q \in Path /\ On(t, q) /\ Size(t) < Size(q) /\ Size(t) \in Nat /\ Size(q) \in Nat
    BY <1>1, <1>2, <1>4, AncestorsIn, AncestorsOn, PathSize
  <2>2. Size(q) # 0 /\ q # t
    BY <2>1
  <2>3. Parent(q) \in U
    BY <2>1, <2>2 DEF Stem
  <2>4. Parent(q) \in Path /\ q[Size(q)] \in Bit /\ q = Child(Parent(q), q[Size(q)])
    BY <2>1, <2>2, ParentFacts
  <2>5. Parent(q) \in Ancestors(q)
    BY <2>4, AncestorsChild
  <2>6. T[Parent(q)].backup = {}
    BY <1>4, <2>5 DEF Free
  <2> QED BY <2>3, <2>4, <2>6 DEF Gone, Children, Bit
<1> QED BY <1>3, <1>4

LEMMA UndoMerged ==
    ASSUME NEW any \in BOOLEAN,
           NEW T, NEW D, NEW B, Undo(any, T, D, B), NEW p \in DOMAIN T, IsLeaf(T, p),
           NEW U, NEW t, Stem(T, p, U, t), NEW tx \in BOOLEAN, tx,
           NEW N, Merged(T, N, p, t, tx), Shape(N), NEW E, Released(T, D, E, p, U, tx)
    PROVE  Undo(any, N, E, B)
<1> DEFINE G == Gone(T, U, tx)
           s == Sibling(p)
<1>1. PICK R : Pruned(T, R, p, t, tx) /\ Shape(R) /\ Lifted(R, N, t, tx)
  BY DEF Merged
<1>2. Shape(T) /\ Sound(T) /\ Sound(D)
  BY DEF Undo
<1>3. /\ p \in Path /\ t \in DOMAIN T /\ t \in Path /\ s \in DOMAIN T /\ ~IsLeaf(T, t)
      /\ \A a \in U : a \in DOMAIN T
      /\ T[s].key \in Keys \cup {NoKey}
  <2>1. StemNodes(T, p, U, t)
    BY <1>2, StemShape
  <2> QED BY <1>2, <2>1 DEF StemNodes, Sound, NodeOK
<1>4. \A q : q \in G <=> q \in DOMAIN T /\ Free(T, q) /\ t \in Ancestors(q)
  BY GoneFacts
<1> HIDE DEF G, s
<1>5. t \notin Ancestors(t)
  <2>1. Size(t) \in Nat
    BY <1>3, PathSize
  <2> QED BY <1>3, <2>1, AncestorsOn
<1>6. \A q : q \in DOMAIN N <=> q \in DOMAIN T /\ t \notin Ancestors(q)
  BY <1>1 DEF Pruned, Lifted
<1>7. DOMAIN N = DOMAIN R /\ t \in DOMAIN N
  BY <1>1, <1>3, <1>5, <1>6 DEF Lifted
<1>8. /\ Sound(R) /\ R[t].backup # {}
      /\ \A q \in DOMAIN R : Keeps(any, T[q], R[q])
  BY <1>1, <1>2, <1>3, <1>7, PrunedSound DEF s
<1>9. Sound(N) /\ \A q \in DOMAIN R : Keeps(any, R[q], N[q])
  BY <1>1, <1>8, LiftedKeeps
<1>10. \A q \in DOMAIN N : Keeps(any, T[q], N[q])
  BY <1>7, <1>8, <1>9, KeepsTransitive
<1>11. \A q \in DOMAIN N \ {t} : N[q].backup = T[q].backup
  BY <1>1, <1>7 DEF Pruned, Lifted
<1>12. \A a \in Ancestors(t) : a \in DOMAIN N => N[a].inconsistent
  BY <1>1, <1>7 DEF Lifted
<1>13. N[t].backup # {}
  BY <1>1, <1>7, <1>8 DEF Lifted
<1>14. ASSUME NEW q \in DOMAIN N
       PROVE  /\ Ancestors(q) \subseteq DOMAIN N /\ Ancestors(q) \subseteq DOMAIN T
              /\ Free(N, q) <=> Free(T, q)
  <2>1. Ancestors(q) \subseteq DOMAIN N /\ t \notin Ancestors(q)
    BY <1>6, AncestorsIn
  <2>2. Ancestors(q) \subseteq DOMAIN T
    BY <1>6, <2>1
  <2>3. \A a \in Ancestors(q) : N[a].backup = T[a].backup
    BY <1>11, <2>1
  <2> QED BY <2>1, <2>2, <2>3 DEF Free
<1>15. /\ DOMAIN E = G \cup DOMAIN D
       /\ \A q \in DOMAIN D \ G : E[q] = D[q]
       /\ \A q \in G : /\ IsNode(E[q]) /\ E[q].inconsistent = T[q].inconsistent
                       /\ q \in U \cup {p} => /\ E[q].key \in {NoKey, T[s].key}
                                              /\ E[q].backup = Backup(T[q], tx)
                       /\ q \notin U \cup {p} => E[q] = T[q]
  BY DEF Released, G, s
<1>16. \A q \in DOMAIN D : q \in DOMAIN T => ~Free(T, q)
  BY DEF Undo, Covered
<1>17. \A q \in G : q \notin DOMAIN D
  BY <1>4, <1>16
<1>18. ASSUME NEW q \in G
       PROVE  NodeOK(E[q]) /\ IsNode(E[q]) /\ Keeps(any, T[q], E[q])
  <2>1. NodeOK(T[q]) /\ T[q].inconsistent \in BOOLEAN /\ q \in DOMAIN T
    BY <1>2, <1>4, SoundKeyed DEF Sound
  <2>2. CASE q \in U \cup {p}
    <3>1. /\ E[q].key \in Keys \cup {NoKey} /\ E[q].backup = Backup(T[q], tx)
          /\ E[q].inconsistent = T[q].inconsistent /\ IsNode(E[q])
      BY <1>3, <1>15, <2>2
    <3> QED BY <2>1, <3>1, BackupOK, BackupKeeps
  <2>3. CASE q \notin U \cup {p}
    <3>1. E[q] = T[q] /\ IsNode(E[q])
      BY <1>15, <2>3
    <3> QED BY <2>1, <3>1, KeepsSelf
  <2> QED BY <2>2, <2>3
<1>19. Sound(E)
  <2>1. \A q \in DOMAIN D : E[q] = D[q]
    BY <1>15, <1>17
  <2>2. \A q \in DOMAIN E : NodeOK(E[q]) /\ IsNode(E[q])
    BY <1>2, <1>15, <1>18, <2>1 DEF Sound, Nodes
  <2> QED BY <2>2 DEF Sound, Nodes
<1>20. BackupsClosed(N)
  <2>1. ASSUME NEW q \in DOMAIN N, ~IsLeaf(N, q), ~Free(N, q)
        PROVE  N[q].backup # {}
    <3>1. CASE q = t
      BY <1>13, <3>1
    <3>2. CASE q # t
      <4>1. ~IsLeaf(T, q) /\ q \in DOMAIN T /\ ~Free(T, q)
        BY <1>6, <1>14, <2>1 DEF IsLeaf
      <4> QED BY <1>11, <2>1, <3>2, <4>1 DEF Undo, BackupsClosed
    <3> QED BY <3>1, <3>2
  <2> QED BY <2>1 DEF BackupsClosed
<1>21. Reachables(N)
  <2>1. ASSUME NEW q \in DOMAIN N, N[q].backup # {}, NEW a \in Ancestors(q)
        PROVE  Touched(N[a])
    <3>1. a \in DOMAIN N
      BY <1>14, <2>1
    <3>2. CASE q = t
      BY <1>12, <2>1, <3>1, <3>2 DEF Touched
    <3>3. CASE q # t
      <4>1. T[q].backup # {} /\ q \in DOMAIN T
        BY <1>6, <1>11, <2>1, <3>3
      <4>2. Touched(T[a])
        BY <2>1, <4>1 DEF Undo, Reachables
      <4> QED BY <1>10, <3>1, <4>2, KeepsTouched
    <3> QED BY <3>2, <3>3
  <2> QED BY <2>1 DEF Reachables
<1>22. \A q \in DOMAIN N : q \notin G
  BY <1>4, <1>6
<1>23. Covered(N, E)
  <2>1. ASSUME NEW q \in DOMAIN E, q \in DOMAIN N
        PROVE  ~Free(N, q)
    <3>1. q \in DOMAIN D /\ q \in DOMAIN T
      BY <1>6, <1>15, <1>22, <2>1
    <3> QED BY <1>14, <1>16, <2>1, <3>1
  <2> QED BY <2>1 DEF Covered
<1>24. Recoverable(any, T, D, N, E)
  <2>1. \A q \in DOMAIN D : q \in DOMAIN E /\ E[q] = D[q]
    BY <1>15, <1>17
  <2>2. \A q \in DOMAIN D : q \in DOMAIN E /\ Keeps(any, D[q], E[q])
    BY <2>1, KeepsSelf
  <2>3. ASSUME NEW q \in DOMAIN T, Free(T, q)
        PROVE  \/ q \in DOMAIN N /\ Free(N, q) /\ q \notin DOMAIN E /\ Keeps(any, T[q], N[q])
               \/ q \in DOMAIN E /\ Keeps(any, T[q], E[q])
    <3>1. CASE t \in Ancestors(q)
      BY <1>4, <1>15, <1>18, <2>3, <3>1
    <3>2. CASE t \notin Ancestors(q)
      BY <1>4, <1>6, <1>10, <1>14, <1>15, <1>16, <2>3, <3>2
    <3> QED BY <3>1, <3>2
  <2>4. \A q \in DOMAIN E : q \in DOMAIN D \/ (q \in DOMAIN T /\ Free(T, q))
    BY <1>4, <1>15
  <2>5. \A q \in DOMAIN N : Free(N, q) => q \in DOMAIN T /\ Free(T, q)
    BY <1>6, <1>14
  <2> QED BY <2>2, <2>3, <2>4, <2>5 DEF Recoverable
<1>25. ASSUME NEW q \in DOMAIN E \ DOMAIN D, NEW a \in Ancestors(q)
       PROVE  Touched(Held(N, E, a))
  <2>1. q \in DOMAIN T /\ Free(T, q) /\ t \in Ancestors(q) /\ q \in Path
    BY <1>2, <1>4, <1>15, AncestorsIn
  <2>2. /\ a \in Path /\ On(a, q) /\ Size(a) < Size(q)
        /\ On(t, q) /\ Size(t) < Size(q)
    BY <2>1, AncestorsOn
  <2>3. a \in DOMAIN T /\ Ancestors(a) \subseteq Ancestors(q)
    BY <1>2, <2>1, AncestorsIn, AncestorsUp
  <2>4. Free(T, a)
    BY <2>1, <2>3 DEF Free
  <2>5. Size(t) \in Nat /\ Size(a) \in Nat
    BY <1>3, <2>2, PathSize
  <2>6. CASE t \in Ancestors(a)
    <3>1. a \in G /\ a \in DOMAIN E
      BY <1>4, <1>15, <2>3, <2>4, <2>6
    <3>2. a \in U
      <4>1. Size(q) # 0 /\ q # t
        BY <2>1, <2>2, <2>5, PathSize
      <4>2. Parent(q) \in U /\ Parent(q) \in Path /\ q[Size(q)] \in Bit /\ q = Child(Parent(q), q[Size(q)])
        BY <2>1, <2>2, <4>1, ParentFacts DEF Stem
      <4>3. Parent(q) \in Ancestors(p) /\ (a \in Ancestors(Parent(q)) \/ a = Parent(q))
        BY <4>2, AncestorsChild DEF Stem
      <4>4. a \in Ancestors(p)
        BY <1>3, <4>3, AncestorsUp
      <4>5. On(t, a)
        BY <2>2, <2>6, AncestorsOn
      <4> QED BY <4>4, <4>5 DEF Stem
    <3>3. E[a].backup = Backup(T[a], tx) /\ E[a].inconsistent = T[a].inconsistent
      BY <1>15, <3>1, <3>2
    <3>4. E[a].backup # {}
      BY <3>3, BackupKeeps
    <3> QED BY <3>1, <3>4 DEF Held, Touched
  <2>7. CASE t \notin Ancestors(a)
    <3>1. a \notin DOMAIN E /\ a \in DOMAIN N
      BY <1>4, <1>6, <1>15, <1>16, <2>3, <2>4, <2>7
    <3>2. Held(N, E, a) = N[a]
      BY <3>1 DEF Held
    <3>3. CASE a = t
      BY <1>13, <3>2, <3>3 DEF Touched
    <3>4. CASE a # t
      <4>1. CASE Size(t) <= Size(a)
        <5>1. On(t, a)
          BY <1>3, <2>1, <2>2, <4>1, OnComparable
        <5>2. Size(t) # Size(a)
          BY <1>3, <2>2, <3>4, <5>1, OnEqual
        <5>3. Size(t) < Size(a)
          BY <2>5, <4>1, <5>2
        <5> QED BY <1>3, <2>2, <2>7, <5>1, <5>3, AncestorsOn
      <4>2. CASE ~(Size(t) <= Size(a))
        <5>1. Size(a) < Size(t) /\ Size(a) <= Size(t)
          BY <2>5, <4>2
        <5>2. On(a, t)
          BY <1>3, <2>1, <2>2, <5>1, OnComparable
        <5>3. a \in Ancestors(t)
          BY <1>3, <2>2, <5>1, <5>2, AncestorsOn
        <5> QED BY <1>12, <3>1, <3>2, <5>3 DEF Touched
      <4> QED BY <4>1, <4>2
    <3> QED BY <3>3, <3>4
  <2> QED BY <2>6, <2>7
<1> QED BY <1>9, <1>19, <1>20, <1>21, <1>23, <1>24, <1>25, UndoStep

-----------------------------------------------------------------------------
(* Calls outside a transaction leave no backup *)

Clean(T) == \A q \in DOMAIN T : T[q].backup = {}

LEMMA NoBackup ==
    ASSUME NEW n, n.backup = {}, NEW tx \in BOOLEAN, ~tx
    PROVE  Backup(n, tx) = {}
BY DEF Backup

LEMMA LiftedClean ==
    ASSUME NEW S, Clean(S), NEW r, NEW N, NEW tx, Lifted(S, N, r, tx)
    PROVE  Clean(N)
BY DEF Clean, Lifted

LEMMA CleanRewritten ==
    ASSUME NEW T, Clean(T), Sound(T), NEW p \in DOMAIN T, NEW k \in Keys \cup {NoKey}, NEW v,
           NEW tx \in BOOLEAN, ~tx, NEW N, Rewritten(T, N, p, k, v, tx)
    PROVE  Clean(N) /\ Sound(N)
<1>1. PICK S : Rewrites(T, S, p, k, v, tx) /\ Lifted(S, N, p, tx)
  BY DEF Rewritten
<1>2. Sound(S)
  BY <1>1, RewritesSound
<1>3. T[p].backup = {}
  BY DEF Clean
<1>4. S[p].backup = {}
  BY <1>1, <1>3, NoBackup DEF Rewrites
<1>5. Clean(S)
  BY <1>1, <1>4 DEF Clean, Rewrites
<1> QED BY <1>1, <1>2, <1>5, LiftedClean, LiftedKeeps

LEMMA CleanDivided ==
    ASSUME NEW T, Clean(T), Sound(T), Shape(T), NEW p \in DOMAIN T, IsLeaf(T, p), T[p].key \in Keys,
           NEW k \in Keys, Forks(p, k, T[p].key), NEW v, NEW tx \in BOOLEAN, ~tx,
           NEW N, Divided(T, N, p, k, v, tx)
    PROVE  Clean(N) /\ Sound(N)
<1> DEFINE c == T[p].key
           I == Inner(p, k, c)
           W == Below(p, k, c)
           h == NewHome(k, c)
           m == Moved(T[p])
           e == LeafNode(NoKey, PlaceholderValues)
<1>1. PICK S : Pushed(T, S, p, k, v, tx) /\ Shape(S) /\ Lifted(S, N, h, tx)
  BY DEF Divided
<1>2. PushedOK(tx, T, S, p, k, c, tx)
  BY <1>1, PushedSound
<1>3. /\ Sound(S)
      /\ \A q \in DOMAIN S : q \notin DOMAIN T => q \in W
      /\ \A q \in DOMAIN T \ {p} : S[q] = T[q]
      /\ \A q \in W : S[q].backup # {} => q \in I \cup {h}
  BY <1>2 DEF PushedOK
<1>4. /\ S[p].backup = Backup(T[p], tx)
      /\ \A q \in I \ {p} : S[q].backup = Backup(m, tx)
      /\ S[h] = Rec(k, v, LeafLabel(k, v), Unmarked, Backup(e, tx), {})
  BY <1>1 DEF Pushed
<1>5. m.backup = {} /\ e.backup = {} /\ T[p].backup = {}
  BY MovedFields, LeafNodeFields DEF Clean
<1>6. S[h].backup = Backup(e, tx)
  BY <1>4, RecFields
<1> HIDE DEF c, I, W, h, m, e
<1>7. Backup(m, tx) = {} /\ Backup(e, tx) = {} /\ Backup(T[p], tx) = {}
  BY <1>5, NoBackup
<1>8. ASSUME NEW q \in DOMAIN S
      PROVE  S[q].backup = {}
  <2>1. CASE q \in W
    BY <1>3, <1>4, <1>6, <1>7, <2>1
  <2>2. CASE q \notin W
    BY <1>3, <1>4, <1>7, <2>2 DEF Clean
  <2> QED BY <2>1, <2>2
<1>9. Clean(S)
  BY <1>8 DEF Clean
<1> QED BY <1>1, <1>3, <1>9, LiftedClean, LiftedKeeps

LEMMA CleanMerged ==
    ASSUME NEW T, Clean(T), Sound(T), Shape(T), NEW p \in DOMAIN T, IsLeaf(T, p),
           NEW U, NEW t, Stem(T, p, U, t), NEW tx \in BOOLEAN, ~tx,
           NEW N, Merged(T, N, p, t, tx), NEW D, NEW E, Released(T, D, E, p, U, tx)
    PROVE  Clean(N) /\ Sound(N) /\ DOMAIN E = DOMAIN D
<1>1. PICK R : Pruned(T, R, p, t, tx) /\ Shape(R) /\ Lifted(R, N, t, tx)
  BY DEF Merged
<1>2. t \in DOMAIN T /\ T[Sibling(p)].key \in Keys \cup {NoKey}
  <2>1. StemNodes(T, p, U, t)
    BY StemShape
  <2> QED BY <2>1 DEF StemNodes, Sound, NodeOK
<1>3. Sound(R)
  BY <1>1, <1>2, PrunedSound
<1>4. T[t].backup = {}
  BY <1>2 DEF Clean
<1>5. R[t].backup = {}
  BY <1>1, <1>4, NoBackup DEF Pruned
<1>6. Clean(R)
  BY <1>1, <1>5 DEF Clean, Pruned
<1>7. Gone(T, U, tx) = {}
  BY DEF Gone, Children
<1>8. DOMAIN E = DOMAIN D
  BY <1>7 DEF Released
<1> QED BY <1>1, <1>3, <1>6, <1>8, LiftedClean, LiftedKeeps

-----------------------------------------------------------------------------
(* Rollback *)

LEMMA RestoreFields ==
    ASSUME NEW n, IsNode(n), NodeOK(n)
    PROVE  LET m == Restore(n)
               o == OldNode(n)
           IN  /\ IsNode(m) /\ m.key = o.key /\ m.values = o.values /\ m.label = o.label
               /\ m.backup = {} /\ NodeOK(m)
<1> DEFINE m == Restore(n)
           o == OldNode(n)
<1>1. CASE n.backup = {}
  BY <1>1 DEF Restore, OldNode
<1>2. CASE n.backup # {}
  <2>1. o = AnyOf(n.backup) /\ o \in n.backup
    BY <1>2 DEF OldNode, AnyOf
  <2>2. o.key \in Keys \cup {NoKey} /\ o.inconsistent \in BOOLEAN
    BY <2>1 DEF NodeOK
  <2> DEFINE e == Node(o.key, o.values, o.label)
             i == o.inconsistent
  <2>3. m = [e EXCEPT !.inconsistent = i]
    BY <1>2, <2>1 DEF Restore, AnyOf
  <2>4. e = Rec(o.key, o.values, o.label, Unmarked, {}, {})
    BY DEF Node, Rec, Unmarked
  <2> HIDE DEF e, m, i
  <2>5. /\ IsNode(e) /\ e.key = o.key /\ e.values = o.values /\ e.label = o.label
        /\ e.backup = {} /\ e.shares = {}
    BY <2>4, RecFields
  <2>6. m = Rec(o.key, o.values, o.label, i, {}, {})
    <3>1. [e EXCEPT !.inconsistent = i] = Rec(e.key, e.values, e.label, i, e.backup, e.shares)
      BY <2>5, OneField
    <3> QED BY <2>3, <2>5, <3>1
  <2> HIDE DEF o
  <2>7. /\ IsNode(m) /\ m.key = o.key /\ m.values = o.values /\ m.label = o.label
        /\ m.backup = {} /\ m.inconsistent = i
    BY <2>6, RecFields
  <2>8. NodeOK(m)
    BY <2>2, <2>7 DEF NodeOK, i
  <2> QED BY <2>7, <2>8 DEF m, o
<1> QED BY <1>1, <1>2

\* L holds what B held, without backups.
Restored(any, L, B) ==
    /\ DOMAIN L = DOMAIN B
    /\ \A q \in DOMAIN B : /\ L[q].key = B[q].key /\ L[q].label = B[q].label
                           /\ ~any => L[q].values = B[q].values
    /\ Sound(L) /\ Clean(L) /\ Shape(L)

LEMMA RollbackRestores ==
    ASSUME NEW any \in BOOLEAN, NEW T, NEW D, NEW B, Undo(any, T, D, B)
    PROVE  Restored(any, RolledBack(T, D), B)
<1> DEFINE L == RolledBack(T, D)
           H(q) == Held(T, D, q)
           Chain(q) == \A a \in Ancestors(q) \cup {q} : Touched(H(a))
<1>1. DOMAIN B = Before(T, D) /\ Shape(T) /\ Sound(T) /\ Sound(D) /\ Shape(B)
  BY DEF Undo, Remembers
<1>2. L = [q \in Before(T, D) |-> IF Chain(q) THEN Restore(H(q)) ELSE H(q)]
  BY DEF RolledBack, Before, Free
<1>3. DOMAIN L = DOMAIN B /\ \A q \in DOMAIN B : L[q] = IF Chain(q) THEN Restore(H(q)) ELSE H(q)
  BY <1>1, <1>2
<1> HIDE DEF L
<1>4. ASSUME NEW q \in DOMAIN B
      PROVE  IsNode(H(q)) /\ NodeOK(H(q)) /\ (H(q).backup # {} => Chain(q))
  <2>1. CASE q \in DOMAIN D
    <3>1. H(q) = D[q]
      BY <2>1 DEF Held
    <3>2. IsNode(D[q]) /\ NodeOK(D[q])
      BY <1>1, <2>1 DEF Sound, Nodes
    <3>3. \A a \in Ancestors(q) : Touched(H(a))
      BY <2>1 DEF Undo, DetachedReached
    <3>4. H(q).backup # {} => Touched(H(q))
      BY DEF Touched
    <3> HIDE DEF H
    <3> QED BY <3>1, <3>2, <3>3, <3>4
  <2>2. CASE q \notin DOMAIN D
    <3>1. q \in DOMAIN T /\ Free(T, q) /\ H(q) = T[q]
      BY <1>1, <2>2 DEF Before, Held
    <3>2. IsNode(T[q]) /\ NodeOK(T[q])
      BY <1>1, <3>1 DEF Sound, Nodes
    <3>3. ASSUME T[q].backup # {}, NEW a \in Ancestors(q)
          PROVE  Touched(H(a))
      <4>1. a \in DOMAIN T /\ q \in Path
        BY <1>1, <3>1, <3>3, AncestorsIn
      <4>2. Ancestors(a) \subseteq Ancestors(q)
        BY <3>3, <4>1, AncestorsUp
      <4>3. Free(T, a)
        BY <3>1, <4>2 DEF Free
      <4>4. a \notin DOMAIN D
        BY <4>1, <4>3 DEF Undo, Covered
      <4>5. Touched(T[a])
        BY <3>1, <3>3 DEF Undo, Reachables
      <4> QED BY <4>4, <4>5 DEF Held
    <3>4. T[q].backup # {} => Touched(T[q])
      BY DEF Touched
    <3> HIDE DEF H
    <3> QED BY <3>1, <3>2, <3>3, <3>4
  <2> QED BY <2>1, <2>2
<1>5. ASSUME NEW q \in DOMAIN B
      PROVE  /\ L[q].key = B[q].key /\ L[q].label = B[q].label
             /\ ~any => L[q].values = B[q].values
             /\ IsNode(L[q]) /\ NodeOK(L[q]) /\ L[q].backup = {}
  <2> DEFINE n == H(q)
             m == Restore(n)
             o == OldNode(n)
  <2>1. o.key = B[q].key /\ o.label = B[q].label /\ (~any => o.values = B[q].values)
    BY DEF Undo, Remembers
  <2>2. IsNode(n) /\ NodeOK(n) /\ (n.backup # {} => L[q] = m) /\ (L[q] = m \/ L[q] = n)
    <3>1. L[q] = IF Chain(q) THEN m ELSE n
      BY <1>3
    <3>2. IsNode(n) /\ NodeOK(n) /\ (n.backup # {} => Chain(q))
      BY <1>4
    <3> HIDE DEF n, m, Chain
    <3> QED BY <3>1, <3>2
  <2> HIDE DEF n
  <2>3. /\ IsNode(m) /\ m.key = o.key /\ m.values = o.values /\ m.label = o.label
        /\ m.backup = {} /\ NodeOK(m)
    BY <2>2, RestoreFields
  <2>4. n.backup = {} => o = n
    BY DEF OldNode
  <2> HIDE DEF m, o
  <2> QED BY <2>1, <2>2, <2>3, <2>4
<1>6. Sound(L) /\ Clean(L)
  BY <1>3, <1>5 DEF Sound, Nodes, Clean
<1>7. Shape(L)
  BY <1>1, <1>3, ShapeSame
<1> QED BY <1>3, <1>5, <1>6, <1>7 DEF Restored, L

-----------------------------------------------------------------------------
(* End *)

\* Nothing of a node that update looks at changes.
SameInside(T, N) ==
    /\ DOMAIN N = DOMAIN T
    /\ \A q \in DOMAIN T : /\ N[q].key = T[q].key
                           /\ N[q].values = T[q].values
                           /\ N[q].label = T[q].label

LEMMA SameUpToDate ==
    ASSUME NEW T, Shape(T), NEW N, SameInside(T, N), NEW q \in DOMAIN T
    PROVE  UpToDate(N, q) <=> UpToDate(T, q)
<1>1. (IsLeaf(N, q) <=> IsLeaf(T, q)) /\ N[q].key = T[q].key /\ N[q].values = T[q].values
      /\ N[q].label = T[q].label
  BY DEF SameInside, IsLeaf
<1>2. CASE IsLeaf(T, q)
  BY <1>1, <1>2 DEF UpToDate
<1>3. CASE ~IsLeaf(T, q)
  <2>1. Child(q, 0) \in DOMAIN T /\ Child(q, 1) \in DOMAIN T
    BY <1>3, ShapeInner DEF Bit
  <2>2. /\ N[Child(q, 0)].values = T[Child(q, 0)].values
        /\ N[Child(q, 1)].values = T[Child(q, 1)].values
        /\ N[Child(q, 0)].label = T[Child(q, 0)].label
        /\ N[Child(q, 1)].label = T[Child(q, 1)].label
    BY <2>1 DEF SameInside
  <2> QED BY <1>1, <1>3, <2>2 DEF UpToDate
<1> QED BY <1>2, <1>3

LEMMA ConfirmedFacts ==
    ASSUME NEW T, Sound(T), Reachables(T)
    PROVE  LET C == Confirmed(T)
           IN  /\ SameInside(T, C) /\ Sound(C) /\ Clean(C)
               /\ \A q \in DOMAIN T : C[q].inconsistent = T[q].inconsistent
<1> DEFINE C == Confirmed(T)
           Chain(q) == \A a \in Ancestors(q) \cup {q} : Touched(T[a])
<1>1. /\ DOMAIN C = DOMAIN T
      /\ \A q \in DOMAIN T : C[q] = IF Chain(q) THEN [T[q] EXCEPT !.backup = {}, !.shares = {}]
                                    ELSE T[q]
  BY DEF Confirmed
<1> HIDE DEF C
<1>2. ASSUME NEW q \in DOMAIN T
      PROVE  /\ IsNode(C[q]) /\ C[q].key = T[q].key /\ C[q].values = T[q].values
             /\ C[q].label = T[q].label /\ C[q].inconsistent = T[q].inconsistent
             /\ C[q].backup = {} /\ NodeOK(C[q])
  <2>1. IsNode(T[q]) /\ NodeOK(T[q])
    BY DEF Sound, Nodes
  <2>2. CASE Chain(q)
    <3>1. C[q] = Rec(T[q].key, T[q].values, T[q].label, T[q].inconsistent, {}, {})
      BY <1>1, <2>1, <2>2, BackupShares
    <3>2. /\ IsNode(C[q]) /\ C[q].key = T[q].key /\ C[q].values = T[q].values
          /\ C[q].label = T[q].label /\ C[q].inconsistent = T[q].inconsistent
          /\ C[q].backup = {}
      BY <3>1, RecFields
    <3>3. NodeOK(C[q])
      BY <2>1, <3>2 DEF NodeOK
    <3> QED BY <3>2, <3>3
  <2>3. CASE ~Chain(q)
    <3>1. T[q].backup = {}
      BY <2>3 DEF Reachables, Touched
    <3>2. C[q] = T[q]
      BY <1>1, <2>3
    <3> QED BY <2>1, <3>1, <3>2
  <2> QED BY <2>2, <2>3
<1> QED BY <1>1, <1>2 DEF SameInside, Sound, Nodes, Clean, C

\* What fix makes of a tree: the marked nodes are updated, and no node changes
\* its key.
Mended(C, N) ==
    /\ DOMAIN N = DOMAIN C /\ Sound(N) /\ Clean(N)
    /\ \A q \in DOMAIN C :
          /\ N[q].key = C[q].key
          /\ IsLeaf(C, q) => N[q].values = C[q].values
          /\ Marks(C, q) => UpToDate(N, q)
          /\ ~Marks(C, q) => N[q] = C[q]

LEMMA FixedMends ==
    ASSUME NEW C, Shape(C), Sound(C), Clean(C)
    PROVE  Mended(C, Fixed(C))
<1> DEFINE S == {q \in DOMAIN C : Marks(C, q)}
           U == Updated(C, S)
           N == Fixed(C)
<1>1. /\ DOMAIN N = DOMAIN C
      /\ \A q \in DOMAIN C : N[q] = IF q \in S THEN [U[q] EXCEPT !.inconsistent = Unmarked] ELSE U[q]
  BY DEF Fixed, Marks, Unmarked
<1>2. Nodes(C) /\ \A q \in S : q \in DOMAIN C /\ Marks(C, q)
  BY DEF Sound
<1>3. \A q \in DOMAIN C : Marks(C, q) => q \in S
  OBVIOUS
<1> HIDE DEF N, S
<1>4. /\ DOMAIN U = DOMAIN C
      /\ \A p \in DOMAIN C :
            /\ IsNode(U[p])
            /\ SameRest(C[p], U[p])
            /\ p \notin S => U[p] = C[p]
            /\ p \in S => UpToDate(U, p)
            /\ IsLeaf(C, p) => U[p].values = C[p].values
  BY <1>2, UpdatedFacts
<1> HIDE DEF U
<1>5. ASSUME NEW q \in DOMAIN C
      PROVE  /\ IsNode(N[q]) /\ N[q].key = C[q].key /\ N[q].backup = {} /\ NodeOK(N[q])
             /\ N[q].values = U[q].values /\ N[q].label = U[q].label /\ N[q].key = U[q].key
  <2>1. /\ IsNode(U[q]) /\ U[q].key = C[q].key /\ U[q].inconsistent = C[q].inconsistent
        /\ U[q].backup = C[q].backup /\ C[q].backup = {}
    BY <1>4 DEF SameRest, Clean
  <2>2. NodeOK(C[q]) /\ C[q].inconsistent \in BOOLEAN /\ C[q].key \in Keys \cup {NoKey}
    BY SoundKeyed DEF Sound, Keyed
  <2>3. CASE q \in S
    <3> DEFINE n == U[q]
    <3>1. N[q] = [n EXCEPT !.inconsistent = Unmarked]
      BY <1>1, <2>3
    <3> HIDE DEF n
    <3>2. [n EXCEPT !.inconsistent = Unmarked] = Rec(n.key, n.values, n.label, Unmarked, n.backup, n.shares)
      BY <2>1, OneField DEF n
    <3>3. N[q] = Rec(n.key, n.values, n.label, Unmarked, n.backup, n.shares)
      BY <3>1, <3>2
    <3>4. /\ IsNode(N[q]) /\ N[q].key = n.key /\ N[q].values = n.values /\ N[q].label = n.label
          /\ N[q].inconsistent = Unmarked /\ N[q].backup = n.backup
      BY <3>3, RecFields
    <3>5. Unmarked \in BOOLEAN
      BY DEF Unmarked
    <3>6. NodeOK(N[q])
      BY <2>1, <2>2, <3>4, <3>5 DEF NodeOK, n
    <3> QED BY <2>1, <3>4, <3>6 DEF n
  <2>4. CASE q \notin S
    <3>1. N[q] = U[q]
      BY <1>1, <2>4
    <3>2. NodeOK(N[q])
      BY <2>1, <2>2, <3>1 DEF NodeOK
    <3> QED BY <2>1, <3>1, <3>2
  <2> QED BY <2>3, <2>4
<1>6. Sound(N) /\ Clean(N)
  BY <1>1, <1>5 DEF Sound, Nodes, Clean
<1>7. SameInside(U, N) /\ Shape(U)
  BY <1>1, <1>4, <1>5, ShapeSame DEF SameInside
<1>8. \A q \in DOMAIN C : Marks(C, q) => UpToDate(N, q)
  BY <1>3, <1>4, <1>7, SameUpToDate
<1>9. \A q \in DOMAIN C : ~Marks(C, q) => N[q] = C[q]
  BY <1>1, <1>2, <1>4
<1> QED BY <1>1, <1>4, <1>5, <1>6, <1>8, <1>9 DEF Mended, N

\* End leaves the keys alone and takes all backups away.
LEMMA EndFacts ==
    ASSUME NEW T, Regular(T), Sound(T), Reachables(T)
    PROVE  LET N == Fixed(Confirmed(T))
           IN  /\ Regular(N) /\ Sound(N) /\ Clean(N) /\ KeysIn(N) = KeysIn(T)
               /\ DOMAIN N = DOMAIN T
               /\ \A q \in DOMAIN T : /\ N[q].key = T[q].key
                                      /\ IsLeaf(T, q) => N[q].values = T[q].values
               /\ Marked(T, TRUE) => \A q \in DOMAIN N : UpToDate(N, q)
<1> DEFINE C == Confirmed(T)
           N == Fixed(C)
<1>1. /\ SameInside(T, C) /\ Sound(C) /\ Clean(C)
      /\ \A q \in DOMAIN T : C[q].inconsistent = T[q].inconsistent
  BY ConfirmedFacts
<1>2. Shape(T) /\ DOMAIN C = DOMAIN T
  BY <1>1 DEF Regular, SameInside
<1>3. Shape(C)
  BY <1>2, ShapeSame
<1> HIDE DEF C
<1>4. Mended(C, N)
  BY <1>1, <1>3, FixedMends
<1> HIDE DEF N
<1>5. /\ DOMAIN N = DOMAIN T /\ Sound(N) /\ Clean(N)
      /\ \A q \in DOMAIN T : N[q].key = T[q].key
  BY <1>1, <1>2, <1>4 DEF Mended, SameInside
<1>6. \A q \in DOMAIN T : IsLeaf(T, q) => N[q].values = T[q].values
  BY <1>1, <1>2, <1>4 DEF Mended, SameInside, IsLeaf
<1>7. Regular(N) /\ KeysIn(N) = KeysIn(T)
  BY <1>5, SameKeysRegular
<1>8. ASSUME Marked(T, TRUE), NEW q \in DOMAIN T
      PROVE  UpToDate(N, q)
  <2>1. CASE Marks(C, q)
    BY <1>2, <1>4, <2>1 DEF Mended
  <2>2. CASE ~Marks(C, q)
    <3>1. \A a \in Ancestors(q) \cup {q} : C[a].inconsistent = T[a].inconsistent
      BY <1>1, <1>2, AncestorsIn
    <3>2. ~Marks(T, q)
      BY <2>2, <3>1 DEF Marks
    <3>3. UpToDate(T, q)
      BY <1>8, <3>2 DEF Marked
    <3>4. UpToDate(C, q)
      BY <1>1, <1>2, <3>3, SameUpToDate
    <3>5. N[q] = C[q]
      BY <1>2, <1>4, <2>2 DEF Mended
    <3>6. ASSUME NEW b \in Bit, Child(q, b) \in DOMAIN C
          PROVE  N[Child(q, b)] = C[Child(q, b)]
      <4>1. q \in Path
        BY <1>2 DEF Shape
      <4>2. Ancestors(q) \cup {q} \subseteq Ancestors(Child(q, b)) \cup {Child(q, b)}
        BY <4>1, AncestorsChild
      <4>3. ~Marks(C, Child(q, b))
        BY <2>2, <4>2 DEF Marks
      <4> QED BY <1>4, <3>6, <4>3 DEF Mended
    <3> QED BY <1>2, <1>3, <1>5, <3>4, <3>5, <3>6, UpToDateSame
  <2> QED BY <2>1, <2>2
<1> QED BY <1>5, <1>6, <1>7, <1>8 DEF N, C

-----------------------------------------------------------------------------
(* What is out of date is marked *)

\* A leaf has the label of its pair, and a placeholder the values of one.
FreshLeaf(n) ==
    /\ n.label = LeafLabel(n.key, n.values)
    /\ n.key = NoKey => n.values = PlaceholderValues

FreshLeaves(T) == \A q \in DOMAIN T : IsLeaf(T, q) => FreshLeaf(T[q])

LEMMA FreshUpToDate ==
    ASSUME NEW T, NEW q, IsLeaf(T, q), FreshLeaf(T[q])
    PROVE  UpToDate(T, q)
BY DEF UpToDate, FreshLeaf

LEMMA LiftedFresh ==
    ASSUME NEW S, Shape(S), FreshLeaves(S), NEW r \in DOMAIN S, NEW N, NEW tx, Lifted(S, N, r, tx)
    PROVE  FreshLeaves(N)
<1>1. ASSUME NEW q \in DOMAIN N, IsLeaf(N, q)
      PROVE  FreshLeaf(N[q])
  <2>1. q \in DOMAIN S /\ IsLeaf(S, q)
    BY <1>1 DEF Lifted, IsLeaf
  <2>2. q \notin Ancestors(r)
    BY <2>1, LeafAbove
  <2>3. N[q] = S[q]
    BY <2>1, <2>2 DEF Lifted
  <2> QED BY <2>1, <2>3 DEF FreshLeaves
<1> QED BY <1>1 DEF FreshLeaves

LEMMA MarkedRewritten ==
    ASSUME NEW T, Shape(T), FreshLeaves(T), NEW p \in DOMAIN T, IsLeaf(T, p), NEW k, NEW v,
           k = NoKey => v = PlaceholderValues,
           NEW tx \in BOOLEAN, Marked(T, tx), NEW N, Rewritten(T, N, p, k, v, tx)
    PROVE  Marked(N, tx) /\ FreshLeaves(N)
<1>1. PICK S : Rewrites(T, S, p, k, v, tx) /\ Lifted(S, N, p, tx)
  BY DEF Rewritten
<1>2. /\ DOMAIN S = DOMAIN T /\ S[p].label = LeafLabel(S[p].key, S[p].values)
      /\ S[p].key = NoKey => S[p].values = PlaceholderValues
      /\ \A q \in DOMAIN T \ {p} : S[q] = T[q]
      /\ \A q \in DOMAIN T : S[q].inconsistent = T[q].inconsistent
  BY <1>1 DEF Rewrites
<1>3. Shape(S) /\ p \in Path
  BY <1>2, ShapeSame DEF Shape
<1>4. FreshLeaves(S)
  <2>1. ASSUME NEW q \in DOMAIN S, IsLeaf(S, q)
        PROVE  FreshLeaf(S[q])
    <3>1. CASE q = p
      BY <1>2, <3>1 DEF FreshLeaf
    <3>2. CASE q # p
      BY <1>2, <2>1, <3>2 DEF FreshLeaves, IsLeaf
    <3> QED BY <3>1, <3>2
  <2> QED BY <2>1 DEF FreshLeaves
<1>5. ASSUME NEW q \in DOMAIN S \ Ancestors(p), ~UpToDate(S, q)
      PROVE  tx /\ Marks(S, q)
  <2>1. q \in DOMAIN T /\ q \in Path /\ ~IsLeaf(S, q) /\ q # p
    BY <1>2, <1>4, <1>5, FreshUpToDate DEF FreshLeaves, Shape, IsLeaf
  <2>2. ASSUME NEW b \in Bit, Child(q, b) \in DOMAIN T
        PROVE  S[Child(q, b)] = T[Child(q, b)]
    <3>1. q \in Ancestors(Child(q, b))
      BY <2>1, AncestorsChild
    <3>2. Child(q, b) # p
      BY <1>5, <3>1
    <3> QED BY <1>2, <2>2, <3>2
  <2>3. ~UpToDate(T, q)
    BY <1>2, <1>5, <2>1, <2>2, UpToDateSame
  <2>4. tx /\ Marks(T, q)
    BY <2>1, <2>3 DEF Marked
  <2>5. Ancestors(q) \cup {q} \subseteq DOMAIN T
    BY <2>1, AncestorsIn
  <2> QED BY <1>2, <2>4, <2>5 DEF Marks
<1>6. Marked(N, tx)
  BY <1>1, <1>2, <1>3, <1>5, LiftedMarked
<1>7. FreshLeaves(N)
  BY <1>1, <1>2, <1>3, <1>4, LiftedFresh
<1> QED BY <1>6, <1>7

LEMMA PushedFresh ==
    ASSUME NEW T, Shape(T), FreshLeaves(T), NEW p \in DOMAIN T, IsLeaf(T, p), T[p].key \in Keys,
           NEW k \in Keys, Forks(p, k, T[p].key), NEW v, NEW tx \in BOOLEAN,
           NEW S, Shape(S), Pushed(T, S, p, k, v, tx)
    PROVE  FreshLeaves(S)
<1> DEFINE c == T[p].key
           I == Inner(p, k, c)
           W == Below(p, k, c)
           h == NewHome(k, c)
           g == NewHome(c, k)
           m == Moved(T[p])
           e == LeafNode(NoKey, PlaceholderValues)
<1>1. /\ DOMAIN S = DOMAIN T \cup W
      /\ \A q \in DOMAIN T \ {p} : S[q] = T[q]
      /\ \A q \in W \ I : q # h /\ q # g => S[q] = e
      /\ S[g] = m
      /\ S[h] = Rec(k, v, LeafLabel(k, v), Unmarked, Backup(e, tx), {})
  BY DEF Pushed
<1>2. FreshLeaf(T[p])
  BY DEF FreshLeaves
<1>3. m.key = T[p].key /\ m.values = T[p].values /\ m.label = T[p].label
  BY MovedFields
<1>4. e.key = NoKey /\ e.values = PlaceholderValues /\ e.label = LeafLabel(NoKey, PlaceholderValues)
  BY LeafNodeFields
<1>5. S[h].key = k /\ S[h].values = v /\ S[h].label = LeafLabel(k, v)
  BY <1>1, RecFields
<1>6. p \in I
  <2>1. p \in Path /\ On(p, p)
    BY OnSelf DEF Forks
  <2> QED BY <2>1, InnerMember DEF Forks
<1>7. \A q \in I : Child(q, 0) \in W
  BY DEF Below, Children
<1> HIDE DEF c, I, W, h, g, m, e
<1>8. FreshLeaf(m) /\ FreshLeaf(e) /\ FreshLeaf(S[h])
  BY <1>2, <1>3, <1>4, <1>5, KeyAssumption DEF FreshLeaf
<1>9. ASSUME NEW q \in DOMAIN S, IsLeaf(S, q)
      PROVE  FreshLeaf(S[q])
  <2>1. q \notin I /\ q # p
    BY <1>1, <1>6, <1>7, <1>9 DEF IsLeaf
  <2>2. CASE q \in W
    BY <1>1, <1>8, <2>1, <2>2
  <2>3. CASE q \notin W
    BY <1>1, <1>9, <2>1, <2>3 DEF FreshLeaves, IsLeaf
  <2> QED BY <2>2, <2>3
<1> QED BY <1>9 DEF FreshLeaves

LEMMA MarkedDivided ==
    ASSUME NEW T, Shape(T), FreshLeaves(T), NEW p \in DOMAIN T, IsLeaf(T, p), T[p].key \in Keys,
           NEW k \in Keys, Forks(p, k, T[p].key), NEW v,
           NEW tx \in BOOLEAN, Marked(T, tx), NEW N, Divided(T, N, p, k, v, tx)
    PROVE  Marked(N, tx) /\ FreshLeaves(N)
<1> DEFINE c == T[p].key
           I == Inner(p, k, c)
           W == Below(p, k, c)
           h == NewHome(k, c)
<1>1. PICK S : Pushed(T, S, p, k, v, tx) /\ Shape(S) /\ Lifted(S, N, h, tx)
  BY DEF Divided
<1>2. FreshLeaves(S)
  BY <1>1, PushedFresh
<1>3. /\ DOMAIN S = DOMAIN T \cup W
      /\ \A q \in DOMAIN T \ {p} : S[q] = T[q]
      /\ S[p].inconsistent = T[p].inconsistent
  BY <1>1 DEF Pushed
<1>4. /\ Ancestors(h) = Ancestors(p) \cup I /\ h \in W /\ p \in I
      /\ \A q \in W : q \in Path /\ Parent(q) \in I
  <2>1. p \in Path /\ On(p, p)
    BY OnSelf DEF Forks
  <2>2. Ancestors(h) = Ancestors(p) \cup I /\ h \in W /\ p \in I
    BY <2>1, HomeFacts, InnerMember DEF Forks
  <2> QED BY <2>2, BelowMember
<1> HIDE DEF c, I, W, h
<1>5. ASSUME NEW q \in DOMAIN S \ Ancestors(h), ~UpToDate(S, q)
      PROVE  tx /\ Marks(S, q)
  <2>1. q \in DOMAIN S /\ q \in Path /\ ~IsLeaf(S, q) /\ q \notin I /\ q # p /\ q \notin Ancestors(p)
    BY <1>1, <1>2, <1>4, <1>5, FreshUpToDate DEF FreshLeaves, Shape
  <2>2. ASSUME NEW b \in Bit, Child(q, b) \in DOMAIN S
        PROVE  /\ Child(q, b) \in DOMAIN T /\ q \in DOMAIN T
               /\ S[Child(q, b)] = T[Child(q, b)]
    <3>1. q \in Ancestors(Child(q, b)) /\ Parent(Child(q, b)) = q /\ On(q, Child(q, b))
      BY <2>1, AncestorsChild, ChildFacts, OnChild
    <3>2. Child(q, b) # p
      BY <2>1, <3>1
    <3>3. Child(q, b) \in DOMAIN T
      BY <1>3, <1>4, <2>1, <2>2, <3>1
    <3>4. q \in DOMAIN T
      BY <2>1, <3>1, <3>3 DEF Shape
    <3> QED BY <1>3, <3>2, <3>3, <3>4
  <2>3. 0 \in Bit /\ 1 \in Bit /\ Child(q, 0) \in DOMAIN S /\ Child(q, 1) \in DOMAIN S
    BY <1>1, <2>1, ShapeInner DEF Bit
  <2>4. /\ q \in DOMAIN T /\ S[q] = T[q] /\ ~IsLeaf(T, q)
        /\ S[Child(q, 0)] = T[Child(q, 0)] /\ S[Child(q, 1)] = T[Child(q, 1)]
    BY <1>3, <2>1, <2>2, <2>3 DEF IsLeaf
  <2>5. ~UpToDate(T, q)
    BY <1>5, <2>1, <2>4 DEF UpToDate
  <2>6. tx /\ Marks(T, q)
    BY <2>4, <2>5 DEF Marked
  <2>7. Ancestors(q) \cup {q} \subseteq DOMAIN T
    BY <2>4, AncestorsIn
  <2> QED BY <1>3, <2>6, <2>7 DEF Marks
<1>6. h \in DOMAIN S
  BY <1>3, <1>4
<1>7. Marked(N, tx)
  BY <1>1, <1>5, <1>6, LiftedMarked
<1>8. FreshLeaves(N)
  BY <1>1, <1>2, <1>6, LiftedFresh
<1> QED BY <1>7, <1>8

LEMMA MarkedMerged ==
    ASSUME NEW T, Regular(T), FreshLeaves(T), NEW p \in DOMAIN T, IsLeaf(T, p),
           NEW U, NEW t, Stem(T, p, U, t), NEW tx \in BOOLEAN, Marked(T, tx),
           NEW N, Merged(T, N, p, t, tx)
    PROVE  Marked(N, tx) /\ FreshLeaves(N)
<1> DEFINE s == Sibling(p)
<1>1. PICK R : Pruned(T, R, p, t, tx) /\ Shape(R) /\ Lifted(R, N, t, tx)
  BY DEF Merged
<1>2. Shape(T) /\ t \in DOMAIN T /\ t \in Path /\ s \in DOMAIN T /\ IsLeaf(T, s)
  BY StemFacts DEF Regular
<1>3. /\ \A q : q \in DOMAIN R <=> q \in DOMAIN T /\ t \notin Ancestors(q)
      /\ \A q \in DOMAIN R \ {t} : R[q] = T[q]
      /\ R[t].key = T[s].key /\ R[t].values = T[s].values /\ R[t].label = T[s].label
      /\ R[t].inconsistent = T[t].inconsistent
  BY <1>1 DEF Pruned
<1> HIDE DEF s
<1>4. t \in DOMAIN R
  <2>1. Size(t) \in Nat
    BY <1>2, PathSize
  <2> QED BY <1>2, <1>3, <2>1, AncestorsOn
<1>5. FreshLeaf(R[t])
  BY <1>2, <1>3 DEF FreshLeaves, FreshLeaf
<1>6. ASSUME NEW q \in DOMAIN R, q # t
      PROVE  /\ q \in DOMAIN T /\ q \in Path /\ R[q] = T[q]
             /\ \A b \in Bit : Child(q, b) \in DOMAIN T => Child(q, b) \in DOMAIN R
  <2>1. q \in DOMAIN T /\ q \in Path /\ t \notin Ancestors(q) /\ R[q] = T[q]
    BY <1>2, <1>3, <1>6 DEF Shape
  <2>2. \A b \in Bit : t \notin Ancestors(Child(q, b))
    BY <1>6, <2>1, AncestorsChild
  <2> QED BY <1>3, <2>1, <2>2
<1>7. FreshLeaves(R)
  <2>1. ASSUME NEW q \in DOMAIN R, IsLeaf(R, q)
        PROVE  FreshLeaf(R[q])
    <3>1. CASE q = t
      BY <1>5, <3>1
    <3>2. CASE q # t
      <4>1. 0 \in Bit
        BY DEF Bit
      <4>2. IsLeaf(T, q) /\ q \in DOMAIN T /\ R[q] = T[q]
        BY <1>6, <2>1, <3>2, <4>1 DEF IsLeaf
      <4> QED BY <4>2 DEF FreshLeaves
    <3> QED BY <3>1, <3>2
  <2> QED BY <2>1 DEF FreshLeaves
<1>8. ASSUME NEW q \in DOMAIN R \ Ancestors(t), ~UpToDate(R, q)
      PROVE  tx /\ Marks(R, q)
  <2>1. q \in DOMAIN R /\ ~IsLeaf(R, q)
    BY <1>7, <1>8, FreshUpToDate DEF FreshLeaves
  <2>2. 0 \in Bit /\ 1 \in Bit /\ Child(q, 0) \in DOMAIN R /\ Child(q, 1) \in DOMAIN R /\ q \in Path
    BY <1>1, <2>1, ShapeInner DEF Bit
  <2>3. q \in Ancestors(Child(q, 0)) /\ q \in Ancestors(Child(q, 1))
    BY <2>2, AncestorsChild
  <2>4. q # t
    BY <1>3, <2>2, <2>3
  <2>5. Child(q, 0) # t /\ Child(q, 1) # t
    BY <1>8, <2>3
  <2>6. /\ q \in DOMAIN T /\ R[q] = T[q] /\ ~IsLeaf(T, q)
        /\ R[Child(q, 0)] = T[Child(q, 0)] /\ R[Child(q, 1)] = T[Child(q, 1)]
    BY <1>3, <1>6, <2>1, <2>2, <2>4, <2>5 DEF IsLeaf
  <2>7. ~UpToDate(T, q)
    BY <1>8, <2>1, <2>6 DEF UpToDate
  <2>8. tx /\ Marks(T, q)
    BY <2>6, <2>7 DEF Marked
  <2>9. Ancestors(q) \cup {q} \subseteq DOMAIN R
    BY <1>1, <2>1, AncestorsIn
  <2>10. \A a \in DOMAIN R : R[a].inconsistent = T[a].inconsistent
    BY <1>3
  <2> QED BY <2>8, <2>9, <2>10 DEF Marks
<1>9. Marked(N, tx)
  BY <1>1, <1>4, <1>8, LiftedMarked
<1>10. FreshLeaves(N)
  BY <1>1, <1>4, <1>7, LiftedFresh
<1> QED BY <1>9, <1>10

-----------------------------------------------------------------------------
(* The tree of New *)

LEMMA EmptyTreeFacts ==
    /\ Regular(EmptyTree) /\ Sound(EmptyTree) /\ Clean(EmptyTree) /\ KeysIn(EmptyTree) = {}
    /\ FreshLeaves(EmptyTree) /\ \A q \in DOMAIN EmptyTree : UpToDate(EmptyTree, q)
    /\ EmptyTree = [q \in DOMAIN EmptyTree |-> EmptyTree[q]]
<1> DEFINE P == {Root, Child(Root, 0), Child(Root, 1)}
           e == LeafNode(NoKey, PlaceholderValues)
           T == [p \in P |-> e]
           N == EmptyTree
<1>1. DOMAIN T = P /\ \A q \in P : T[q] = e
  OBVIOUS
<1>2. N = Updated(T, {Root})
  BY DEF EmptyTree
<1>3. /\ IsNode(e) /\ e.key = NoKey /\ e.values = PlaceholderValues
      /\ e.label = LeafLabel(NoKey, PlaceholderValues) /\ e.inconsistent = Unmarked /\ e.backup = {}
  BY LeafNodeFields
<1>4. P = CanonicalPaths({})
  BY DEF CanonicalPaths
<1>5. {} \in SUBSET Keys /\ Root \in P
  OBVIOUS
<1> HIDE DEF P, e, T
<1>6. Shape(T)
  BY <1>1, <1>4, <1>5, CanonicalShape
<1>7. Nodes(T)
  BY <1>1, <1>3 DEF Nodes
<1> DEFINE S == {Root}
<1>8. \A q : q \in S <=> q = Root
  OBVIOUS
<1>9. N = Updated(T, S)
  BY <1>2
<1> HIDE DEF S, N
<1>10. /\ DOMAIN N = DOMAIN T
       /\ \A p \in DOMAIN T :
            /\ IsNode(N[p])
            /\ SameRest(T[p], N[p])
            /\ p \notin S => N[p] = T[p]
            /\ p \in S => UpToDate(N, p)
  BY <1>6, <1>7, <1>9, UpdatedFacts
<1>11. \A q \in DOMAIN N : /\ IsNode(N[q]) /\ N[q].key = NoKey /\ N[q].inconsistent = Unmarked
                           /\ N[q].backup = {}
  BY <1>1, <1>3, <1>10 DEF SameRest
<1>12. Sound(N) /\ Clean(N) /\ Keyed(N)
  BY <1>11 DEF Sound, Nodes, NodeOK, Clean, Keyed, Unmarked
<1>13. KeysIn(N) = {}
  BY <1>11 DEF KeysIn
<1>14. WellFormed(N)
  BY <1>1, <1>4, <1>10, <1>11, <1>13 DEF WellFormed
<1>15. Regular(N)
  BY <1>12, <1>14, WellFormedRegular
<1>16. ASSUME NEW q \in DOMAIN N
       PROVE  UpToDate(N, q)
  <2>1. CASE q = Root
    BY <1>8, <1>10, <1>16, <2>1
  <2>2. CASE q # Root
    <3>1. N[q] = e
      BY <1>1, <1>8, <1>10, <1>16, <2>2
    <3>2. IsLeaf(N, q)
      <4>1. ASSUME Child(q, 0) \in P
            PROVE  FALSE
        <5>1. q \in Path /\ 0 \in Bit /\ 1 \in Bit /\ Root \in Path
          BY <1>6, <1>10, RootFacts DEF Shape, Bit
        <5>2. Size(q) # 0 /\ Size(q) \in Nat
          BY <2>2, <5>1, RootOnly, PathSize
        <5>3. Size(Child(q, 0)) = Size(q) + 1
          BY <5>1, ChildFacts
        <5>4. Size(Root) = 0 /\ Size(Child(Root, 0)) = Size(Root) + 1 /\ Size(Child(Root, 1)) = Size(Root) + 1
          BY <5>1, RootFacts, ChildFacts
        <5>5. Size(Child(q, 0)) # 0 /\ Size(Child(q, 0)) # 1
          BY <5>2, <5>3
        <5> QED BY <4>1, <5>4, <5>5 DEF P
      <4> QED BY <1>1, <1>10, <4>1 DEF IsLeaf
    <3> QED BY <1>3, <3>1, <3>2 DEF UpToDate
  <2> QED BY <2>1, <2>2
<1>17. FreshLeaves(N)
  <2>1. ~IsLeaf(N, Root)
    BY <1>15, ShapeRoot DEF Regular
  <2>2. ASSUME NEW q \in DOMAIN N, IsLeaf(N, q)
        PROVE  FreshLeaf(N[q])
    <3>1. N[q] = e
      BY <1>1, <1>8, <1>10, <2>1, <2>2
    <3> QED BY <1>3, <3>1 DEF FreshLeaf
  <2> QED BY <2>2 DEF FreshLeaves
<1>18. N = [q \in DOMAIN N |-> N[q]]
  BY <1>6, <1>9, UpdatedFunction
<1> QED BY <1>12, <1>13, <1>15, <1>16, <1>17, <1>18 DEF N

-----------------------------------------------------------------------------
(* The invariant *)

\* The tree T with the unlinked nodes D, in a transaction if tx, that began
\* with B.
Good(any, T, D, B, tx) ==
    /\ Regular(T) /\ Regular(B)
    /\ Undo(any, T, D, B)
    /\ ~tx => Clean(T) /\ DOMAIN D = {} /\ B = T
    /\ ~any => /\ Marked(T, tx) /\ FreshLeaves(T)
                  /\ FreshLeaves(B) /\ \A q \in DOMAIN B : UpToDate(B, q)

LEMMA GoodStart ==
    ASSUME NEW any \in BOOLEAN, NEW T, Regular(T), Sound(T), Clean(T), NEW D, DOMAIN D = {},
           ~any => FreshLeaves(T) /\ \A q \in DOMAIN T : UpToDate(T, q), NEW tx \in BOOLEAN
    PROVE  Good(any, T, D, T, tx)
<1>1. Undo(any, T, D, T)
  BY UndoStart DEF Clean, Regular
<1> QED BY <1>1 DEF Good, Marked

LEMMA GoodStep ==
    ASSUME NEW any \in BOOLEAN,
           NEW T, NEW D, NEW B, NEW tx \in BOOLEAN, Good(any, T, D, B, tx), NEW N, NEW E,
           Regular(N), tx => Undo(any, N, E, B),
           ~tx => Sound(N) /\ Clean(N) /\ DOMAIN E = {},
           ~any => Marked(N, tx) /\ FreshLeaves(N)
    PROVE  Good(any, N, E, IF tx THEN B ELSE N, tx)
<1>1. CASE tx
  BY <1>1 DEF Good
<1>2. CASE ~tx
  <2>1. ~any => \A q \in DOMAIN N : UpToDate(N, q)
    BY <1>2 DEF Marked
  <2>2. Good(any, N, E, N, tx)
    BY <1>2, <2>1, GoodStart
  <2> QED BY <1>2, <2>2
<1> QED BY <1>1, <1>2

LEMMA GoodParts ==
    ASSUME NEW any \in BOOLEAN, NEW T, NEW D, NEW B, NEW tx \in BOOLEAN, Good(any, T, D, B, tx)
    PROVE  /\ Regular(T) /\ Shape(T) /\ Sound(T) /\ Nodes(T) /\ Sound(D) /\ Undo(any, T, D, B)
           /\ ~tx => Clean(T) /\ DOMAIN D = {}
           /\ ~any => Marked(T, tx) /\ FreshLeaves(T)
BY DEF Good, Undo, Regular, Sound

LEMMA GoodAdd ==
    ASSUME NEW any \in BOOLEAN, NEW T, NEW D, NEW B, NEW tx \in BOOLEAN, Good(any, T, D, B, tx),
           NEW k \in Keys, T[Landing(T, k)].key # k, NEW v
    PROVE  LET N == Added(T, k, v, tx)
           IN  Good(any, N, D, IF tx THEN B ELSE N, tx)
<1> DEFINE p == Landing(T, k)
           N == Added(T, k, v, tx)
<1>1. /\ Regular(T) /\ Shape(T) /\ Sound(T) /\ Nodes(T) /\ Sound(D) /\ Undo(any, T, D, B)
      /\ ~tx => Clean(T) /\ DOMAIN D = {}
      /\ ~any => Marked(T, tx) /\ FreshLeaves(T)
  BY GoodParts
<1>2. /\ p \in DOMAIN T /\ IsLeaf(T, p)
      /\ \/ T[p].key = NoKey /\ Rewritten(T, N, p, k, v, tx)
         \/ /\ T[p].key \in Keys /\ Forks(p, k, T[p].key)
            /\ Divided(T, N, p, k, v, tx)
      /\ Regular(N)
  BY <1>1, AddedStep
<1>s. Shape(N)
  BY <1>2 DEF Regular
<1> HIDE DEF p, N
<1>3. CASE Rewritten(T, N, p, k, v, tx)
  <2>1. tx => Undo(any, N, D, B)
    BY <1>1, <1>2, <1>3, <1>s, KeepsSelf, UndoRewritten
  <2>2. ~tx => Sound(N) /\ Clean(N)
    BY <1>1, <1>2, <1>3, CleanRewritten
  <2>3. ~any => Marked(N, tx) /\ FreshLeaves(N)
    BY <1>1, <1>2, <1>3, MarkedRewritten, KeyAssumption
  <2>4. Good(any, N, D, IF tx THEN B ELSE N, tx)
    BY <1>1, <1>2, <2>1, <2>2, <2>3, GoodStep
  <2> QED BY <2>4 DEF N
<1>4. CASE T[p].key \in Keys /\ Forks(p, k, T[p].key) /\ Divided(T, N, p, k, v, tx)
  <2>1. tx => Undo(any, N, D, B)
    BY <1>1, <1>2, <1>4, <1>s, UndoDivided
  <2>2. ~tx => Sound(N) /\ Clean(N)
    BY <1>1, <1>2, <1>4, CleanDivided
  <2>3. ~any => Marked(N, tx) /\ FreshLeaves(N)
    BY <1>1, <1>2, <1>4, MarkedDivided
  <2>4. Good(any, N, D, IF tx THEN B ELSE N, tx)
    BY <1>1, <1>2, <2>1, <2>2, <2>3, GoodStep
  <2> QED BY <2>4 DEF N
<1> QED BY <1>2, <1>3, <1>4

LEMMA WrittenDetachedFacts ==
    ASSUME NEW any \in BOOLEAN,
           NEW T, NEW D, Sound(D), NEW k, NEW upd, any \/ T[Landing(T, k)].shares = {}
    PROVE  LET E == WrittenDetached(T, D, k, upd)
           IN  /\ DOMAIN E = DOMAIN D /\ Sound(E)
               /\ \A q \in DOMAIN D : Keeps(any, D[q], E[q])
<1> DEFINE p == Landing(T, k)
           E == WrittenDetached(T, D, k, upd)
           v(q) == Overwrite(D[q].values, upd)
<1>1. /\ DOMAIN E = DOMAIN D
      /\ \A q \in DOMAIN D : E[q] = IF q \in T[p].shares THEN [D[q] EXCEPT !.values = v(q)] ELSE D[q]
  BY DEF WrittenDetached
<1> HIDE DEF p, E, v
<1>2. ASSUME NEW q \in DOMAIN D
      PROVE  IsNode(E[q]) /\ NodeOK(E[q]) /\ Keeps(any, D[q], E[q])
  <2>1. IsNode(D[q]) /\ NodeOK(D[q])
    BY DEF Sound, Nodes
  <2>2. CASE q \in T[p].shares
    <3> DEFINE n == D[q]
               x == v(q)
    <3>1. E[q] = [n EXCEPT !.values = x] /\ IsNode(n) /\ NodeOK(n)
      BY <1>1, <2>1, <2>2
    <3> HIDE DEF n, x
    <3>2. [n EXCEPT !.values = x] = Rec(n.key, x, n.label, n.inconsistent, n.backup, n.shares)
      BY <3>1, OneField
    <3>3. E[q] = Rec(n.key, x, n.label, n.inconsistent, n.backup, n.shares)
      BY <3>1, <3>2
    <3>4. /\ IsNode(E[q]) /\ E[q].key = n.key /\ E[q].label = n.label
          /\ E[q].inconsistent = n.inconsistent /\ E[q].backup = n.backup
      BY <3>3, RecFields
    <3>5. NodeOK(E[q])
      BY <3>1, <3>4 DEF NodeOK
    <3>6. any
      BY <2>2 DEF p
    <3>7. Keeps(any, n, E[q])
      <4>1. CASE n.backup = {}
        BY <3>4, <3>6, <4>1 DEF Keeps, OldNode
      <4>2. CASE n.backup # {}
        BY <3>4, <3>6, <4>2 DEF Keeps, OldNode
      <4> QED BY <4>1, <4>2
    <3> QED BY <3>4, <3>5, <3>7 DEF n
  <2>3. CASE q \notin T[p].shares
    <3>1. E[q] = D[q]
      BY <1>1, <2>3
    <3> QED BY <2>1, <3>1, KeepsSelf
  <2> QED BY <2>2, <2>3
<1> QED BY <1>1, <1>2 DEF Sound, Nodes, E

LEMMA GoodSet ==
    ASSUME NEW any \in BOOLEAN, NEW T, NEW D, NEW B, NEW tx \in BOOLEAN, Good(any, T, D, B, tx),
           NEW k \in Keys \cup {NoKey}, T[Landing(T, k)].key = k, NEW upd,
           any \/ (k # NoKey /\ T[Landing(T, k)].shares = {})
    PROVE  LET N == Written(T, k, upd, tx)
               E == WrittenDetached(T, D, k, upd)
           IN  Good(any, N, E, IF tx THEN B ELSE N, tx)
<1> DEFINE p == Landing(T, k)
           v == Overwrite(T[p].values, upd)
           N == Written(T, k, upd, tx)
           E == WrittenDetached(T, D, k, upd)
<1>1. /\ Regular(T) /\ Shape(T) /\ Sound(T) /\ Nodes(T) /\ Sound(D) /\ Undo(any, T, D, B)
      /\ ~tx => Clean(T) /\ DOMAIN D = {}
      /\ ~any => Marked(T, tx) /\ FreshLeaves(T)
  BY GoodParts
<1>2. /\ p \in DOMAIN T /\ IsLeaf(T, p)
      /\ Rewritten(T, N, p, k, v, tx)
      /\ Regular(N)
  BY <1>1, WrittenStep
<1>3. /\ DOMAIN E = DOMAIN D /\ Sound(E)
      /\ \A q \in DOMAIN D : Keeps(any, D[q], E[q])
  BY <1>1, WrittenDetachedFacts
<1> HIDE DEF p, N, E, v
<1>4. ASSUME tx
      PROVE  Undo(any, N, E, B)
  <2>1. Undo(any, T, D, B) /\ p \in DOMAIN T /\ IsLeaf(T, p) /\ Rewritten(T, N, p, k, v, tx) /\ Shape(N)
    BY <1>1, <1>2 DEF Regular
  <2> QED BY <1>3, <1>4, <2>1, UndoRewritten
<1>5. ~tx => Sound(N) /\ Clean(N)
  BY <1>1, <1>2, CleanRewritten
<1>6. ~any => Marked(N, tx) /\ FreshLeaves(N)
  BY <1>1, <1>2, MarkedRewritten
<1>7. Good(any, N, E, IF tx THEN B ELSE N, tx)
  BY <1>1, <1>2, <1>3, <1>4, <1>5, <1>6, GoodStep
<1> QED BY <1>7 DEF N, E

LEMMA GoodRemove ==
    ASSUME NEW any \in BOOLEAN, NEW T, NEW D, NEW B, NEW tx \in BOOLEAN, Good(any, T, D, B, tx),
           NEW k \in Keys \cup {NoKey}, T[Landing(T, k)].key = k
    PROVE  LET N == Removed(T, D, k, tx).tree
               E == Removed(T, D, k, tx).detached
           IN  Good(any, N, E, IF tx THEN B ELSE N, tx)
<1> DEFINE p == Landing(T, k)
           N == Removed(T, D, k, tx).tree
           E == Removed(T, D, k, tx).detached
<1>1. /\ Regular(T) /\ Shape(T) /\ Sound(T) /\ Nodes(T) /\ Sound(D) /\ Undo(any, T, D, B)
      /\ ~tx => Clean(T) /\ DOMAIN D = {}
      /\ ~any => Marked(T, tx) /\ FreshLeaves(T)
  BY GoodParts
<1>2. p \in DOMAIN T /\ IsLeaf(T, p) /\ Cuts(T, D, N, E, p, tx) /\ Regular(N)
  <2>1. Regular(T) /\ Nodes(T)
    BY <1>1
  <2> QED BY <2>1, RemovedStep
<1>s. Shape(N)
  BY <1>2 DEF Regular
<1> HIDE DEF p, N, E
<1>3. ASSUME Rewritten(T, N, p, NoKey, PlaceholderValues, tx),
             DOMAIN E = DOMAIN D, \A q \in DOMAIN D : E[q] = D[q]
      PROVE  Good(any, N, E, IF tx THEN B ELSE N, tx)
  <2>1. Sound(E)
    BY <1>1, <1>3 DEF Sound, Nodes
  <2>2. \A q \in DOMAIN D : Keeps(any, D[q], E[q])
    BY <1>3, KeepsSelf
  <2>3. NoKey \in Keys \cup {NoKey}
    OBVIOUS
  <2>4. tx => Undo(any, N, E, B)
    BY <1>1, <1>2, <1>3, <1>s, <2>1, <2>2, <2>3, UndoRewritten
  <2>5. ~tx => Sound(N) /\ Clean(N)
    BY <1>1, <1>2, <1>3, <2>3, CleanRewritten
  <2>6. ~any => Marked(N, tx) /\ FreshLeaves(N)
    BY <1>1, <1>2, <1>3, MarkedRewritten
  <2>7. Good(any, N, E, IF tx THEN B ELSE N, tx)
    BY <1>1, <1>2, <1>3, <2>4, <2>5, <2>6, GoodStep
  <2> QED BY <2>7
<1>4. ASSUME NEW U, NEW t, Stem(T, p, U, t), Merged(T, N, p, t, tx), Released(T, D, E, p, U, tx)
      PROVE  Good(any, N, E, IF tx THEN B ELSE N, tx)
  <2>1. tx => Undo(any, N, E, B)
    BY <1>1, <1>2, <1>4, <1>s, UndoMerged
  <2>2. ~tx => Sound(N) /\ Clean(N) /\ DOMAIN E = DOMAIN D
    BY <1>1, <1>2, <1>4, CleanMerged
  <2>3. ~any => Marked(N, tx) /\ FreshLeaves(N)
    BY <1>1, <1>2, <1>4, MarkedMerged
  <2> QED BY <1>1, <1>2, <2>1, <2>2, <2>3, GoodStep
<1>5. Good(any, N, E, IF tx THEN B ELSE N, tx)
  BY <1>2, <1>3, <1>4 DEF Cuts
<1> QED BY <1>5 DEF N, E

LEMMA GoodBegin ==
    ASSUME NEW any \in BOOLEAN,
           NEW T, NEW D, NEW B, NEW tx \in BOOLEAN, Good(any, T, D, B, tx), ~tx, NEW ty \in BOOLEAN, ty
    PROVE  Good(any, T, D, B, ty)
BY DEF Good, Marked

LEMMA GoodRollback ==
    ASSUME NEW any \in BOOLEAN, NEW T, NEW D, NEW B, NEW tx \in BOOLEAN, Good(any, T, D, B, tx),
           NEW E, DOMAIN E = {}, NEW ty \in BOOLEAN
    PROVE  LET L == RolledBack(T, D)
           IN  Good(any, L, E, L, ty)
<1> DEFINE L == RolledBack(T, D)
<1>1. Restored(any, L, B)
  BY RollbackRestores DEF Good
<1> HIDE DEF L
<1>2. Regular(B) /\ Shape(B) /\ (~any => FreshLeaves(B) /\ \A q \in DOMAIN B : UpToDate(B, q))
  BY DEF Good, Regular
<1>3. ~any => SameInside(B, L)
  BY <1>1 DEF Restored, SameInside
<1>4. DOMAIN L = DOMAIN B
  BY <1>1 DEF Restored
<1>5. ~any => \A q \in DOMAIN L : UpToDate(L, q)
  BY <1>2, <1>3, <1>4, SameUpToDate
<1>6. ~any => FreshLeaves(L)
  BY <1>1, <1>2, <1>4 DEF Restored, FreshLeaves, FreshLeaf, IsLeaf
<1>7. Regular(L)
  BY <1>1, <1>2, SameKeysRegular DEF Restored
<1>8. Good(any, L, E, L, ty)
  BY <1>1, <1>5, <1>6, <1>7, GoodStart DEF Restored
<1> QED BY <1>8 DEF L

LEMMA GoodEnd ==
    ASSUME NEW any \in BOOLEAN,
           NEW T, NEW D, NEW B, NEW tx \in BOOLEAN, tx, Good(any, T, D, B, tx),
           NEW E, DOMAIN E = {}, NEW ty \in BOOLEAN
    PROVE  LET N == Fixed(Confirmed(T))
           IN  Good(any, N, E, N, ty)
<1> DEFINE N == Fixed(Confirmed(T))
<1>1. Regular(T) /\ Sound(T) /\ Reachables(T)
  BY DEF Good, Undo
<1>2. ~any => Marked(T, TRUE) /\ FreshLeaves(T)
  BY DEF Good, Marked
<1>3. /\ Regular(N) /\ Sound(N) /\ Clean(N) /\ DOMAIN N = DOMAIN T
      /\ \A q \in DOMAIN T : /\ N[q].key = T[q].key
                             /\ IsLeaf(T, q) => N[q].values = T[q].values
      /\ Marked(T, TRUE) => \A q \in DOMAIN N : UpToDate(N, q)
  BY <1>1, EndFacts
<1> HIDE DEF N
<1>4. ASSUME ~any, NEW q \in DOMAIN N, IsLeaf(N, q)
      PROVE  FreshLeaf(N[q])
  <2>1. N[q].label = LeafLabel(N[q].key, N[q].values)
    BY <1>2, <1>3, <1>4 DEF UpToDate
  <2>2. IsLeaf(T, q) /\ q \in DOMAIN T /\ FreshLeaf(T[q])
    BY <1>2, <1>3, <1>4 DEF IsLeaf, FreshLeaves
  <2> QED BY <1>3, <2>1, <2>2 DEF FreshLeaf
<1>5. ~any => FreshLeaves(N)
  BY <1>4 DEF FreshLeaves
<1>6. Good(any, N, E, N, ty)
  BY <1>2, <1>3, <1>5, GoodStart
<1> QED BY <1>6 DEF N

-----------------------------------------------------------------------------
(* The associations a tree stores *)

LEMMA ContentsFacts ==
    ASSUME NEW T, Regular(T)
    PROVE  /\ DOMAIN Contents(T) = KeysIn(T) /\ KeysIn(T) \in SUBSET Keys
           /\ Contents(T) = [c \in KeysIn(T) |-> Contents(T)[c]]
           /\ \A q \in DOMAIN T : T[q].key # NoKey =>
                 T[q].key \in KeysIn(T) /\ Contents(T)[T[q].key] = T[q].values
<1>1. Shape(T) /\ Keyed(T) /\ KeysIn(T) \in SUBSET Keys
  BY KeysInKeys DEF Regular
<1>2. \A k \in Keys : k \in KeysIn(T) <=> Found(T, k)
  BY HomeOf, KeyAssumption DEF Found
<1>3. Stored(T) = KeysIn(T)
  BY <1>1, <1>2 DEF Stored
<1>4. Contents(T) = [c \in KeysIn(T) |-> T[Landing(T, c)].values]
  BY <1>3 DEF Contents
<1>5. ASSUME NEW q \in DOMAIN T, T[q].key # NoKey
      PROVE  T[q].key \in KeysIn(T) /\ Contents(T)[T[q].key] = T[q].values
  <2>1. T[q].key \in KeysIn(T)
    BY <1>5 DEF KeysIn
  <2>2. IsLeaf(T, q) /\ On(q, PathOf[T[q].key]) /\ T[q].key \in Keys \cup {NoKey}
    BY <1>1, <1>5 DEF Regular, Keyed
  <2>3. Landing(T, T[q].key) = q
    BY <1>1, <2>2, LandingUnique
  <2> QED BY <1>4, <2>1, <2>3
<1> QED BY <1>1, <1>4, <1>5

\* N stores the associations F.
LEMMA ContentsAre ==
    ASSUME NEW N, Regular(N), NEW S, NEW F, F = [c \in S |-> F[c]], KeysIn(N) = S,
           \A c \in S : \E q \in DOMAIN N : N[q].key = c /\ N[q].values = F[c]
    PROVE  Contents(N) = F
<1>1. \A c \in S : c # NoKey
  BY DEF KeysIn
<1>2. \A c \in S : Contents(N)[c] = F[c]
  BY <1>1, ContentsFacts
<1>3. Contents(N) = [c \in S |-> Contents(N)[c]]
  BY ContentsFacts
<1> QED BY <1>2, <1>3

\* The leaves other than the one at p keep their pair.
LEMMA RewrittenPairs ==
    ASSUME NEW T, Shape(T), NEW p \in DOMAIN T, IsLeaf(T, p), NEW k, NEW v, NEW tx \in BOOLEAN,
           NEW N, Rewritten(T, N, p, k, v, tx)
    PROVE  /\ p \in DOMAIN N /\ N[p].key = k /\ N[p].values = v
           /\ \A q \in DOMAIN T : IsLeaf(T, q) /\ q # p => q \in DOMAIN N /\ N[q] = T[q]
<1>1. PICK S : Rewrites(T, S, p, k, v, tx) /\ Lifted(S, N, p, tx)
  BY DEF Rewritten
<1>2. \A q \in DOMAIN T : IsLeaf(T, q) => q \notin Ancestors(p)
  BY LeafAbove
<1>3. /\ DOMAIN S = DOMAIN T /\ DOMAIN N = DOMAIN T /\ S[p].key = k /\ S[p].values = v
      /\ \A q \in DOMAIN T \ {p} : S[q] = T[q]
      /\ \A q \in DOMAIN T : q \notin Ancestors(p) => N[q] = S[q]
  BY <1>1 DEF Rewrites, Lifted
<1> QED BY <1>2, <1>3

\* The pair of p is now at g, the new one at h.
Parted(T, N, p, k, v, h, g) ==
    /\ h \in DOMAIN N /\ N[h].key = k /\ N[h].values = v
    /\ g \in DOMAIN N /\ N[g].key = T[p].key /\ N[g].values = T[p].values
    /\ \A q \in DOMAIN T : IsLeaf(T, q) /\ q # p => q \in DOMAIN N /\ N[q] = T[q]

LEMMA DividedPairs ==
    ASSUME NEW T, Shape(T), NEW p \in DOMAIN T, IsLeaf(T, p), T[p].key \in Keys,
           NEW k \in Keys, Forks(p, k, T[p].key), NEW v, NEW tx \in BOOLEAN,
           NEW N, Divided(T, N, p, k, v, tx)
    PROVE  Parted(T, N, p, k, v, NewHome(k, T[p].key), NewHome(T[p].key, k))
<1> DEFINE c == T[p].key
           I == Inner(p, k, c)
           W == Below(p, k, c)
           h == NewHome(k, c)
           g == NewHome(c, k)
           m == Moved(T[p])
           b == Backup(LeafNode(NoKey, PlaceholderValues), tx)
<1>1. PICK S : Pushed(T, S, p, k, v, tx) /\ Shape(S) /\ Lifted(S, N, h, tx)
  BY DEF Divided
<1>2. /\ DOMAIN S = DOMAIN T \cup W
      /\ \A q \in DOMAIN T \ {p} : S[q] = T[q]
      /\ S[g] = m
      /\ S[h] = Rec(k, v, LeafLabel(k, v), Unmarked, b, {})
  BY <1>1 DEF Pushed
<1>3. m.key = c /\ m.values = T[p].values
  BY MovedFields
<1>4. S[h].key = k /\ S[h].values = v
  BY <1>2, RecFields
<1>5. h \in W /\ h \notin I /\ g \in W /\ g \notin I /\ Ancestors(h) = Ancestors(p) \cup I
  BY HomeFacts
<1>6. h \in Path /\ On(p, h) /\ g \in Path /\ On(p, g)
  BY <1>5, BelowMember
<1>7. ASSUME NEW q \in I
      PROVE  On(p, q)
  BY InnerMember
<1> HIDE DEF c, I, W, h, g, m, b
<1>8. DOMAIN N = DOMAIN S /\ \A q \in DOMAIN S : q \notin Ancestors(h) => N[q] = S[q]
  BY <1>1 DEF Lifted
<1>9. h \notin Ancestors(h)
  BY <1>6, AncestorsOn, PathSize
<1>10. g \notin Ancestors(h)
  <2>1. p \in Path /\ Size(p) <= Size(g) /\ Size(p) \in Nat /\ Size(g) \in Nat
    BY <1>6, PathSize DEF Forks, On
  <2>2. ~(Size(g) < Size(p))
    BY <2>1
  <2>3. g \notin Ancestors(p)
    BY <2>1, <2>2, AncestorsOn
  <2> QED BY <1>5, <2>3
<1>11. ASSUME NEW q \in DOMAIN T, IsLeaf(T, q), q # p
       PROVE  q \in DOMAIN N /\ N[q] = T[q]
  <2>1. q \notin Ancestors(p)
    BY <1>11, LeafAbove
  <2>2. q \notin I
    BY <1>7, <1>11, LeafEnds
  <2> QED BY <1>2, <1>5, <1>8, <1>11, <2>1, <2>2
<1>12. Parted(T, N, p, k, v, h, g)
  BY <1>2, <1>3, <1>4, <1>5, <1>8, <1>9, <1>10, <1>11 DEF Parted, c
<1> QED BY <1>12 DEF h, g, c

LEMMA MergedPairs ==
    ASSUME NEW T, Regular(T), NEW p \in DOMAIN T, IsLeaf(T, p),
           NEW U, NEW t, Stem(T, p, U, t), NEW tx \in BOOLEAN, NEW N, Merged(T, N, p, t, tx)
    PROVE  /\ t \in DOMAIN N /\ N[t].key = T[Sibling(p)].key /\ N[t].values = T[Sibling(p)].values
           /\ \A q \in DOMAIN T : T[q].key # NoKey /\ q # p /\ q # Sibling(p) =>
                 q \in DOMAIN N /\ N[q] = T[q]
<1> DEFINE s == Sibling(p)
<1>1. PICK R : Pruned(T, R, p, t, tx) /\ Shape(R) /\ Lifted(R, N, t, tx)
  BY DEF Merged
<1>2. /\ Shape(T) /\ t \in DOMAIN T /\ t \in Path /\ ~IsLeaf(T, t)
      /\ \A q \in DOMAIN T : On(t, q) /\ T[q].key # NoKey => q \in {p, s}
  BY StemFacts DEF Regular
<1>3. /\ \A q : q \in DOMAIN R <=> q \in DOMAIN T /\ t \notin Ancestors(q)
      /\ \A q \in DOMAIN R \ {t} : R[q] = T[q]
      /\ R[t].key = T[s].key /\ R[t].values = T[s].values
  BY <1>1 DEF Pruned
<1> HIDE DEF s
<1>4. t \notin Ancestors(t)
  BY <1>2, AncestorsOn, PathSize
<1>5. DOMAIN N = DOMAIN R /\ \A q \in DOMAIN R : q \notin Ancestors(t) => N[q] = R[q]
  BY <1>1 DEF Lifted
<1>6. ASSUME NEW q \in DOMAIN T, T[q].key # NoKey, q # p, q # s
      PROVE  q \in DOMAIN N /\ N[q] = T[q]
  <2>1. ~On(t, q) /\ IsLeaf(T, q) /\ q \in Path
    BY <1>2, <1>6 DEF Regular, Shape
  <2>2. t \notin Ancestors(q) /\ q # t
    BY <1>2, <2>1, AncestorsOn
  <2>3. q \notin Ancestors(t)
    BY <1>2, <1>6, <2>1, LeafAbove
  <2> QED BY <1>3, <1>5, <1>6, <2>2, <2>3
<1> QED BY <1>2, <1>3, <1>4, <1>5, <1>6 DEF s

\* The node of T that holds the key c.
LEMMA Holder ==
    ASSUME NEW T, Regular(T), NEW c \in KeysIn(T)
    PROVE  \E q \in DOMAIN T : /\ T[q].key = c /\ c # NoKey /\ IsLeaf(T, q)
                               /\ T[q].values = Contents(T)[c]
<1>1. PICK q \in DOMAIN T : T[q].key = c /\ c # NoKey
  BY DEF KeysIn
<1>2. IsLeaf(T, q)
  BY <1>1 DEF Regular
<1>3. T[q].values = Contents(T)[c]
  BY <1>1, ContentsFacts
<1> QED BY <1>1, <1>2, <1>3

\* The associations C with v for k, and without k.
WithKey(C, k, v) == [c \in DOMAIN C \cup {k} |-> IF c = k THEN v ELSE C[c]]

WithoutKey(C, k) == [c \in DOMAIN C \ {k} |-> C[c]]

LEMMA AddedContents ==
    ASSUME NEW T, Regular(T), Nodes(T), NEW k \in Keys, T[Landing(T, k)].key # k,
           NEW v, NEW tx \in BOOLEAN
    PROVE  Contents(Added(T, k, v, tx)) = WithKey(Contents(T), k, v)
<1> DEFINE p == Landing(T, k)
           N == Added(T, k, v, tx)
           S == DOMAIN Contents(T) \cup {k}
           F == [c \in S |-> IF c = k THEN v ELSE Contents(T)[c]]
<1>1. /\ p \in DOMAIN T /\ IsLeaf(T, p) /\ k \notin KeysIn(T)
      /\ \/ T[p].key = NoKey /\ Rewritten(T, N, p, k, v, tx)
         \/ /\ T[p].key \in Keys /\ Forks(p, k, T[p].key)
            /\ Divided(T, N, p, k, v, tx)
      /\ Regular(N) /\ KeysIn(N) = KeysIn(T) \cup {k}
  BY AddedStep
<1>2. Shape(T) /\ DOMAIN Contents(T) = KeysIn(T)
  BY ContentsFacts DEF Regular
<1>3. /\ F = [c \in S |-> F[c]] /\ KeysIn(N) = S
      /\ F[k] = v /\ \A c \in KeysIn(T) : F[c] = Contents(T)[c]
  BY <1>1, <1>2
<1> HIDE DEF p, N, F
<1>4. ASSUME NEW c \in S
      PROVE  \E q \in DOMAIN N : N[q].key = c /\ N[q].values = F[c]
  <2>1. CASE c = k
    <3>1. CASE T[p].key = NoKey /\ Rewritten(T, N, p, k, v, tx)
      BY <1>1, <1>2, <1>3, <2>1, <3>1, RewrittenPairs
    <3>2. CASE T[p].key \in Keys /\ Forks(p, k, T[p].key) /\ Divided(T, N, p, k, v, tx)
      <4>1. PICK h, g : Parted(T, N, p, k, v, h, g)
        BY <1>1, <1>2, <3>2, DividedPairs
      <4> QED BY <1>3, <2>1, <4>1 DEF Parted
    <3> QED BY <1>1, <3>1, <3>2
  <2>2. CASE c # k
    <3>1. c \in KeysIn(T) /\ F[c] = Contents(T)[c]
      BY <1>2, <1>3, <2>2
    <3>2. PICK q \in DOMAIN T : T[q].key = c /\ c # NoKey /\ IsLeaf(T, q) /\ T[q].values = Contents(T)[c]
      BY <3>1, Holder
    <3>3. CASE T[p].key = NoKey /\ Rewritten(T, N, p, k, v, tx)
      <4>1. q # p
        BY <3>2, <3>3
      <4>2. q \in DOMAIN N /\ N[q] = T[q]
        BY <1>1, <1>2, <3>2, <3>3, <4>1, RewrittenPairs
      <4> QED BY <3>1, <3>2, <4>2
    <3>4. CASE T[p].key \in Keys /\ Forks(p, k, T[p].key) /\ Divided(T, N, p, k, v, tx)
      <4>1. PICK h, g : Parted(T, N, p, k, v, h, g)
        BY <1>1, <1>2, <3>4, DividedPairs
      <4> QED BY <3>1, <3>2, <4>1 DEF Parted
    <3> QED BY <1>1, <3>3, <3>4
  <2> QED BY <2>1, <2>2
<1> HIDE DEF S
<1>5. Contents(N) = F
  BY <1>1, <1>3, <1>4, ContentsAre
<1> QED BY <1>5 DEF N, F, S, WithKey

LEMMA WrittenContents ==
    ASSUME NEW T, Regular(T), Nodes(T), NEW k \in Keys, T[Landing(T, k)].key = k,
           NEW upd, NEW tx \in BOOLEAN
    PROVE  Contents(Written(T, k, upd, tx)) =
              [Contents(T) EXCEPT ![k] = Overwrite(Contents(T)[k], upd)]
<1> DEFINE p == Landing(T, k)
           v == Overwrite(T[p].values, upd)
           N == Written(T, k, upd, tx)
           S == KeysIn(T)
           F == [Contents(T) EXCEPT ![k] = v]
<1>1. /\ p \in DOMAIN T /\ IsLeaf(T, p)
      /\ Rewritten(T, N, p, k, v, tx)
      /\ Regular(N) /\ KeysIn(N) = KeysIn(T)
  BY WrittenStep
<1>2. /\ Shape(T) /\ DOMAIN Contents(T) = S /\ Contents(T) = [c \in S |-> Contents(T)[c]]
      /\ k # NoKey /\ k \in S
      /\ Contents(T)[k] = T[p].values
  <2>1. k # NoKey /\ T[p].key = k
    BY KeyAssumption
  <2> QED BY <1>1, <2>1, ContentsFacts DEF Regular
<1> HIDE DEF p, N, v, S
<1>3. F = [c \in S |-> F[c]] /\ F[k] = v /\ \A c \in S : c # k => F[c] = Contents(T)[c]
  BY <1>2
<1> HIDE DEF F
<1>4. ASSUME NEW c \in S
      PROVE  \E q \in DOMAIN N : N[q].key = c /\ N[q].values = F[c]
  <2>1. CASE c = k
    BY <1>1, <1>2, <1>3, <2>1, RewrittenPairs
  <2>2. CASE c # k
    <3>1. PICK q \in DOMAIN T : T[q].key = c /\ c # NoKey /\ IsLeaf(T, q) /\ T[q].values = Contents(T)[c]
      BY Holder DEF S
    <3>2. q # p
      BY <2>2, <3>1 DEF p
    <3>3. q \in DOMAIN N /\ N[q] = T[q]
      BY <1>1, <1>2, <3>1, <3>2, RewrittenPairs
    <3> QED BY <1>3, <2>2, <3>1, <3>3
  <2> QED BY <2>1, <2>2
<1>5. Contents(N) = F
  BY <1>1, <1>3, <1>4, ContentsAre DEF S
<1> QED BY <1>2, <1>5 DEF N, F, v

LEMMA RemovedContents ==
    ASSUME NEW T, Regular(T), Nodes(T), NEW D, NEW k \in Keys \cup {NoKey},
           T[Landing(T, k)].key = k, NEW tx \in BOOLEAN
    PROVE  Contents(Removed(T, D, k, tx).tree) = WithoutKey(Contents(T), k)
<1> DEFINE p == Landing(T, k)
           N == Removed(T, D, k, tx).tree
           E == Removed(T, D, k, tx).detached
           S == DOMAIN Contents(T) \ {k}
           F == [c \in S |-> Contents(T)[c]]
<1>1. /\ p \in DOMAIN T /\ IsLeaf(T, p) /\ Cuts(T, D, N, E, p, tx)
      /\ Regular(N) /\ KeysIn(N) = KeysIn(T) \ {k}
  BY RemovedStep
<1>2. Shape(T) /\ DOMAIN Contents(T) = KeysIn(T)
  BY ContentsFacts DEF Regular
<1>3. F = [c \in S |-> F[c]] /\ KeysIn(N) = S /\ \A c \in S : F[c] = Contents(T)[c]
  BY <1>1, <1>2
<1>4. \A c \in S : c \in KeysIn(T) /\ c # k
  BY <1>2
<1> HIDE DEF p, N, E, F, S
<1>5. ASSUME NEW c \in S
      PROVE  \E q \in DOMAIN N : N[q].key = c /\ N[q].values = F[c]
  <2>1. PICK q \in DOMAIN T : T[q].key = c /\ c # NoKey /\ IsLeaf(T, q) /\ T[q].values = Contents(T)[c]
    BY <1>4, Holder
  <2>2. q # p
    BY <1>4, <2>1 DEF p
  <2>3. CASE Rewritten(T, N, p, NoKey, PlaceholderValues, tx)
    <3>1. q \in DOMAIN N /\ N[q] = T[q]
      BY <1>1, <1>2, <2>1, <2>2, <2>3, RewrittenPairs
    <3> QED BY <1>3, <2>1, <3>1
  <2>4. ASSUME NEW U, NEW t, Stem(T, p, U, t), Merged(T, N, p, t, tx)
        PROVE  \E o \in DOMAIN N : N[o].key = c /\ N[o].values = F[c]
    <3>1. /\ t \in DOMAIN N /\ N[t].key = T[Sibling(p)].key /\ N[t].values = T[Sibling(p)].values
          /\ \A o \in DOMAIN T : T[o].key # NoKey /\ o # p /\ o # Sibling(p) =>
                o \in DOMAIN N /\ N[o] = T[o]
      BY <1>1, <2>4, MergedPairs
    <3>2. CASE q = Sibling(p)
      BY <1>3, <2>1, <3>1, <3>2
    <3>3. CASE q # Sibling(p)
      <4>1. q \in DOMAIN N /\ N[q] = T[q]
        BY <2>1, <2>2, <3>1, <3>3
      <4> QED BY <1>3, <2>1, <4>1
    <3> QED BY <3>2, <3>3
  <2> QED BY <1>1, <2>3, <2>4 DEF Cuts
<1>6. Contents(N) = F
  BY <1>1, <1>3, <1>5, ContentsAre
<1> QED BY <1>6 DEF N, F, S, WithoutKey

\* A tree with the keys of T and, in its leaves, the values of T.
LEMMA SameContents ==
    ASSUME NEW T, Regular(T), NEW N, DOMAIN N = DOMAIN T,
           \A q \in DOMAIN T : N[q].key = T[q].key /\ (IsLeaf(T, q) => N[q].values = T[q].values)
    PROVE  Contents(N) = Contents(T)
<1> DEFINE S == KeysIn(T)
           F == Contents(T)
<1>1. Regular(N) /\ KeysIn(N) = S
  BY SameKeysRegular
<1>2. F = [c \in S |-> F[c]]
  BY ContentsFacts
<1>3. ASSUME NEW c \in S
      PROVE  \E q \in DOMAIN N : N[q].key = c /\ N[q].values = F[c]
  BY Holder
<1> HIDE DEF S, F
<1>4. Contents(N) = F
  BY <1>1, <1>2, <1>3, ContentsAre
<1> QED BY <1>4 DEF F

-----------------------------------------------------------------------------
(* The labels depend on the associations only *)

\* The hashes are of Depth bits, so there are finitely many keys.
LEMMA KeysFinite == IsFiniteSet(Keys)
<1> DEFINE P == SUBSET (1..Depth)
           f == [k \in Keys |-> {i \in 1..Depth : PathOf[k][i] = 1}]
<1>1. IsFiniteSet(P)
  <2>1. 1 \in Int /\ Depth \in Int
    BY KeyAssumption
  <2>2. IsFiniteSet(1..Depth)
    BY <2>1, FS_Interval
  <2> QED BY <2>2, FS_SUBSET
<1>2. f \in [Keys -> P]
  OBVIOUS
<1>3. ASSUME NEW k \in Keys, NEW c \in Keys, f[k] = f[c]
      PROVE  k = c
  <2>1. PathOf[k] \in [1..Depth -> Bit] /\ PathOf[c] \in [1..Depth -> Bit]
    BY KeyBits
  <2>2. ASSUME NEW i \in 1..Depth
        PROVE  PathOf[k][i] = PathOf[c][i]
    <3>1. PathOf[k][i] \in {0, 1} /\ PathOf[c][i] \in {0, 1}
      BY <2>1 DEF Bit
    <3>2. i \in f[k] <=> i \in f[c]
      BY <1>3
    <3>3. PathOf[k][i] = 1 <=> PathOf[c][i] = 1
      BY <3>2
    <3> QED BY <3>1, <3>3
  <2>3. /\ PathOf[k] = [i \in 1..Depth |-> PathOf[k][i]]
        /\ PathOf[c] = [i \in 1..Depth |-> PathOf[c][i]]
    BY <2>1
  <2> HIDE DEF f
  <2>4. PathOf[k] = PathOf[c]
    BY <2>2, <2>3
  <2> QED BY <2>4, PathAssumption
<1> HIDE DEF f, P
<1>4. DOMAIN f = Keys
  BY <1>2
<1>5. f \in Injection(Keys, P)
  BY <1>2, <1>3, <1>4 DEF Injection, IsInjective
<1> QED BY <1>1, <1>5, FS_Injection

LEMMA SameHome ==
    ASSUME NEW T, Regular(T), NEW B, Regular(B), KeysIn(T) = KeysIn(B), DOMAIN T = DOMAIN B,
           NEW q \in DOMAIN T, T[q].key # NoKey
    PROVE  B[q].key = T[q].key
<1> DEFINE c == T[q].key
<1>1. c \in KeysIn(B) /\ c \in Keys
  <2>1. c \in KeysIn(T)
    BY DEF KeysIn
  <2> QED BY <2>1, KeysInKeys DEF Regular
<1>2. IsLeaf(T, q) /\ On(q, PathOf[c])
  BY DEF Regular
<1> HIDE DEF c
<1>3. PICK r \in DOMAIN B : B[r].key = c /\ c # NoKey /\ IsLeaf(B, r)
  BY <1>1, Holder
<1>4. On(r, PathOf[c]) /\ Shape(B) /\ PathOf[c] \in Path
  BY <1>1, <1>3, KeyPaths DEF Regular
<1>5. IsLeaf(B, q) /\ q \in DOMAIN B
  BY <1>2 DEF IsLeaf
<1>6. q = r
  BY <1>2, <1>3, <1>4, <1>5, LeavesPart
<1> QED BY <1>3, <1>6 DEF c

\* Trees with the same associations have the same nodes, with the same keys.
LEMMA SameShape ==
    ASSUME NEW T, Regular(T), NEW B, Regular(B), Contents(T) = Contents(B)
    PROVE  DOMAIN T = DOMAIN B /\ \A q \in DOMAIN T : T[q].key = B[q].key
<1>1. KeysIn(T) = KeysIn(B)
  BY ContentsFacts
<1>2. DOMAIN T \subseteq Path /\ DOMAIN B \subseteq Path
  BY DEF Regular, Shape
<1>3. DOMAIN T = DOMAIN B
  BY <1>1, <1>2 DEF Regular
<1>4. ASSUME NEW q \in DOMAIN T
      PROVE  T[q].key = B[q].key
  <2>1. CASE T[q].key # NoKey
    BY <1>1, <1>3, <2>1, SameHome
  <2>2. CASE B[q].key # NoKey
    BY <1>1, <1>3, <2>2, SameHome
  <2> QED BY <2>1, <2>2
<1> QED BY <1>3, <1>4

SameAt(T, B, q) == T[q].values = B[q].values /\ T[q].label = B[q].label

\* Nothing in the tree is out of date.
Pure(T) == Regular(T) /\ FreshLeaves(T) /\ \A q \in DOMAIN T : UpToDate(T, q)

LEMMA SameLeaf ==
    ASSUME NEW T, Pure(T), NEW B, Pure(B), Contents(T) = Contents(B),
           NEW q \in DOMAIN T, IsLeaf(T, q)
    PROVE  SameAt(T, B, q)
<1>1. q \in DOMAIN B /\ IsLeaf(B, q) /\ T[q].key = B[q].key
  BY SameShape DEF IsLeaf, Pure
<1>2. FreshLeaf(T[q]) /\ FreshLeaf(B[q])
  BY <1>1 DEF Pure, FreshLeaves
<1>3. CASE T[q].key = NoKey
  BY <1>1, <1>2, <1>3 DEF FreshLeaf, SameAt
<1>4. CASE T[q].key # NoKey
  <2>1. T[q].values = Contents(T)[T[q].key] /\ B[q].values = Contents(B)[B[q].key]
    BY <1>1, <1>4, ContentsFacts DEF Pure
  <2>2. T[q].values = B[q].values
    BY <1>1, <2>1
  <2> QED BY <1>1, <1>2, <2>2 DEF FreshLeaf, SameAt
<1> QED BY <1>3, <1>4

LEMMA SameInner ==
    ASSUME NEW T, Pure(T), NEW B, Pure(B), DOMAIN T = DOMAIN B, NEW q \in DOMAIN T, ~IsLeaf(T, q),
           SameAt(T, B, Child(q, 0)), SameAt(T, B, Child(q, 1))
    PROVE  SameAt(T, B, q)
<1>1. ~IsLeaf(B, q) /\ UpToDate(T, q) /\ UpToDate(B, q)
  BY DEF IsLeaf, Pure
<1> QED BY <1>1 DEF UpToDate, SameAt

\* Two trees with the same associations and nothing out of date are equal in
\* all values and labels: from the leaves upwards.
LEMMA SameLabels ==
    ASSUME NEW T, Pure(T), NEW B, Pure(B), Contents(T) = Contents(B)
    PROVE  \A q \in DOMAIN T : SameAt(T, B, q)
<1> DEFINE U == {n \in Nat : \A q \in DOMAIN T : Size(q) + n >= Depth => SameAt(T, B, q)}
<1>1. DOMAIN T = DOMAIN B /\ Shape(T) /\ Depth \in Nat
  BY SameShape, KeyAssumption DEF Pure, Regular
<1>2. ASSUME NEW q \in DOMAIN T, ~IsLeaf(T, q)
      PROVE  /\ Child(q, 0) \in DOMAIN T /\ Child(q, 1) \in DOMAIN T
             /\ Size(q) \in Nat /\ Size(q) < Depth
             /\ Size(Child(q, 0)) = Size(q) + 1 /\ Size(Child(q, 1)) = Size(q) + 1
  <2>1. 0 \in Bit /\ 1 \in Bit /\ q \in Path
    BY <1>1 DEF Bit, Shape
  <2>2. /\ Child(q, 0) \in DOMAIN T /\ Child(q, 1) \in DOMAIN T /\ Size(q) \in Nat
        /\ Size(Child(q, 0)) = Size(q) + 1 /\ Size(Child(q, 1)) = Size(q) + 1
    BY <1>1, <1>2, <2>1, ShapeInner, ChildFacts, PathSize
  <2>3. Size(Child(q, 0)) <= Depth
    BY <1>1, <2>2 DEF Shape
  <2> QED BY <1>1, <2>2, <2>3
<1>3. 0 \in U
  <2>1. ASSUME NEW q \in DOMAIN T, Size(q) + 0 >= Depth
        PROVE  SameAt(T, B, q)
    <3>1. Size(q) \in Nat
      BY <1>1, PathSize DEF Shape
    <3>2. IsLeaf(T, q)
      BY <1>1, <1>2, <2>1, <3>1
    <3> QED BY <3>2, SameLeaf
  <2> QED BY <2>1
<1>4. ASSUME NEW n \in U
      PROVE  n + 1 \in U
  <2>1. n \in Nat /\ n + 1 \in Nat
    OBVIOUS
  <2>2. ASSUME NEW q \in DOMAIN T, Size(q) + (n + 1) >= Depth
        PROVE  SameAt(T, B, q)
    <3>1. CASE IsLeaf(T, q)
      BY <3>1, SameLeaf
    <3>2. CASE ~IsLeaf(T, q)
      <4>1. /\ Child(q, 0) \in DOMAIN T /\ Child(q, 1) \in DOMAIN T
            /\ Size(q) \in Nat
            /\ Size(Child(q, 0)) = Size(q) + 1 /\ Size(Child(q, 1)) = Size(q) + 1
        BY <1>2, <3>2
      <4>2. Size(Child(q, 0)) + n >= Depth /\ Size(Child(q, 1)) + n >= Depth
        BY <1>1, <2>1, <2>2, <4>1
      <4>3. SameAt(T, B, Child(q, 0)) /\ SameAt(T, B, Child(q, 1))
        BY <4>1, <4>2
      <4> QED BY <1>1, <3>2, <4>3, SameInner
    <3> QED BY <3>1, <3>2
  <2> QED BY <2>1, <2>2
<1>5. U \in SUBSET Nat
  OBVIOUS
<1> HIDE DEF U
<1>6. U = Nat
  BY <1>3, <1>4, <1>5, Ind!SetInduction
<1>7. Depth \in U
  BY <1>1, <1>6
<1>8. ASSUME NEW q \in DOMAIN T
      PROVE  SameAt(T, B, q)
  <2>1. Size(q) \in Nat
    BY <1>1, PathSize DEF Shape
  <2>2. Size(q) + Depth >= Depth
    BY <1>1, <2>1
  <2> QED BY <1>7, <2>2 DEF U
<1> QED BY <1>8

\* The recursion of Built: the trees for the subsets of the keys S.
AddedOne(C, f, u) ==
    IF u = {} THEN EmptyTree
    ELSE Added(f[u \ {AnyOf(u)}], AnyOf(u), C[AnyOf(u)], Unmarked)

Upto(S, n) == {u \in SUBSET S : Cardinality(u) <= n}

Builds(f, C, S, n) == f = [u \in Upto(S, n) |-> AddedOne(C, f, u)]

LEMMA OneLess ==
    ASSUME NEW S, IsFiniteSet(S), NEW n \in Nat, NEW u \in Upto(S, n + 1), u # {}
    PROVE  /\ AnyOf(u) \in u /\ u \ {AnyOf(u)} \in Upto(S, n)
           /\ u \ {AnyOf(u)} \in Upto(S, n + 1)
<1> DEFINE x == AnyOf(u)
           w == u \ {x}
<1>1. x \in u
  BY DEF AnyOf
<1>2. u \in SUBSET S /\ Cardinality(u) <= n + 1
  BY DEF Upto
<1>3. IsFiniteSet(u) /\ Cardinality(u) \in Nat
  BY <1>2, FS_Subset, FS_CardinalityType
<1> HIDE DEF x
<1>4. Cardinality(w) = Cardinality(u) - 1
  BY <1>1, <1>3, FS_RemoveElement
<1>5. w \in SUBSET S
  BY <1>2
<1> HIDE DEF w
<1>6. Cardinality(w) <= n /\ Cardinality(w) <= n + 1
  BY <1>2, <1>3, <1>4
<1>7. w \in Upto(S, n) /\ w \in Upto(S, n + 1)
  BY <1>5, <1>6 DEF Upto
<1> QED BY <1>1, <1>7 DEF w, x

LEMMA BuildsExists ==
    ASSUME NEW C, NEW S, IsFiniteSet(S), NEW N \in Nat
    PROVE  \E f : Builds(f, C, S, N)
<1> DEFINE U == {n \in Nat : \E f : Builds(f, C, S, n)}
<1>1. 0 \in U
  <2> DEFINE f == [u \in Upto(S, 0) |-> EmptyTree]
  <2>1. ASSUME NEW u \in Upto(S, 0)
        PROVE  AddedOne(C, f, u) = EmptyTree
    <3>1. u \in SUBSET S /\ Cardinality(u) <= 0
      BY DEF Upto
    <3>2. IsFiniteSet(u) /\ Cardinality(u) \in Nat
      BY <3>1, FS_Subset, FS_CardinalityType
    <3>3. Cardinality(u) = 0
      BY <3>1, <3>2
    <3>4. u = {}
      BY <3>2, <3>3, FS_EmptySet
    <3> QED BY <3>4 DEF AddedOne
  <2>2. f = [u \in Upto(S, 0) |-> AddedOne(C, f, u)]
    BY <2>1
  <2> HIDE DEF f
  <2>3. Builds(f, C, S, 0)
    BY <2>2 DEF Builds
  <2> QED BY <2>3
<1>2. ASSUME NEW n \in U
      PROVE  n + 1 \in U
  <2>1. n \in Nat /\ n + 1 \in Nat
    OBVIOUS
  <2>2. PICK f : Builds(f, C, S, n)
    OBVIOUS
  <2> DEFINE m == n + 1
             g == [u \in Upto(S, m) |-> AddedOne(C, f, u)]
  <2>3. ASSUME NEW u \in Upto(S, m)
        PROVE  AddedOne(C, g, u) = AddedOne(C, f, u)
    <3>1. CASE u = {}
      BY <3>1 DEF AddedOne
    <3>2. CASE u # {}
      <4> DEFINE w == u \ {AnyOf(u)}
      <4>1. w \in Upto(S, n) /\ w \in Upto(S, m)
        BY <2>1, <3>2, OneLess
      <4> HIDE DEF w, m
      <4>2. g[w] = AddedOne(C, f, w)
        BY <4>1
      <4>3. f[w] = AddedOne(C, f, w)
        BY <2>2, <4>1 DEF Builds
      <4> HIDE DEF g
      <4>4. g[w] = f[w]
        BY <4>2, <4>3
      <4> QED BY <3>2, <4>4 DEF AddedOne, w
    <3> QED BY <3>1, <3>2
  <2> HIDE DEF m
  <2>4. g = [u \in Upto(S, m) |-> AddedOne(C, g, u)]
    BY <2>3
  <2> HIDE DEF g
  <2>5. Builds(g, C, S, m)
    BY <2>4 DEF Builds
  <2> QED BY <2>1, <2>5 DEF m
<1>3. U \in SUBSET Nat
  OBVIOUS
<1> HIDE DEF U
<1>4. U = Nat
  BY <1>1, <1>2, <1>3, Ind!SetInduction
<1> QED BY <1>4 DEF U

LEMMA BuiltFold ==
    ASSUME NEW C, IsFiniteSet(DOMAIN C)
    PROVE  \E f : Builds(f, C, DOMAIN C, Cardinality(DOMAIN C)) /\ Built(C) = f[DOMAIN C]
<1> DEFINE S == DOMAIN C
           N == Cardinality(S)
           R(f) == f = [u \in SUBSET S |->
                          IF u = {} THEN EmptyTree
                          ELSE Added(f[u \ {CHOOSE x \in u : TRUE}], CHOOSE x \in u : TRUE,
                                     C[CHOOSE x \in u : TRUE], FALSE)]
           iter == CHOOSE f : R(f)
<1>1. Built(C) = iter[S]
  BY Zenon DEF Built, FoldSet, MapThenFoldSet
<1>2. N \in Nat
  BY FS_CardinalityType
<1>3. \A u : u \in Upto(S, N) <=> u \in SUBSET S
  BY FS_Subset DEF Upto
<1>4. Upto(S, N) = SUBSET S
  BY <1>3
<1>5. PICK f : Builds(f, C, S, N)
  BY <1>2, BuildsExists
<1>6. ASSUME NEW h
      PROVE  R(h) <=> Builds(h, C, S, N)
  BY <1>4, Zenon DEF Builds, AddedOne, AnyOf, Unmarked
<1> HIDE DEF R
<1>7. R(iter)
  BY <1>5, <1>6
<1> HIDE DEF iter
<1> QED BY <1>1, <1>6, <1>7

LEMMA AddedOneContents ==
    ASSUME NEW T, Regular(T), Nodes(T), NEW w, NEW C, Contents(T) = [c \in w |-> C[c]],
           NEW x \in Keys, T[Landing(T, x)].key # x, NEW tx \in BOOLEAN
    PROVE  Contents(Added(T, x, C[x], tx)) = [c \in w \cup {x} |-> C[c]]
<1> DEFINE v == C[x]
           F == WithKey(Contents(T), x, v)
<1>1. F = [c \in w \cup {x} |-> C[c]]
  BY DEF WithKey
<1> HIDE DEF v
<1>2. Contents(Added(T, x, v, tx)) = F
  BY AddedContents
<1> QED BY <1>1, <1>2 DEF v

\* Adding the associations one by one gives a tree that stores them, with
\* nothing out of date.
LEMMA BuiltFacts ==
    ASSUME NEW C, DOMAIN C \in SUBSET Keys, C = [c \in DOMAIN C |-> C[c]]
    PROVE  Pure(Built(C)) /\ Contents(Built(C)) = C
<1> DEFINE any == Unmarked
<1>0. any \in BOOLEAN /\ ~any
  BY DEF Unmarked
<1> HIDE DEF any
<1> USE <1>0
<1> DEFINE S == DOMAIN C
           N == Cardinality(S)
           D == [p \in {} |-> p]
           ty == Unmarked
           Stores(T, u) == Good(any, T, D, T, ty) /\ Contents(T) = [c \in u |-> C[c]]
<1>1. IsFiniteSet(S) /\ N \in Nat
  BY KeysFinite, FS_Subset, FS_CardinalityType
<1>2. PICK f : Builds(f, C, S, N) /\ Built(C) = f[S]
  BY <1>1, BuiltFold
<1>3. ty \in BOOLEAN /\ ~ty /\ DOMAIN D = {}
  BY DEF Unmarked
<1> HIDE DEF D
<1> DEFINE U == {n \in Nat : \A u \in Upto(S, N) : Cardinality(u) <= n => Stores(f[u], u)}
<1>4. \A u \in Upto(S, N) : f[u] = AddedOne(C, f, u)
  BY <1>2 DEF Builds
<1>5. ASSUME NEW u \in Upto(S, N)
      PROVE  u \in SUBSET S /\ IsFiniteSet(u) /\ Cardinality(u) \in Nat /\ Cardinality(u) <= N
  BY <1>1, FS_Subset, FS_CardinalityType DEF Upto
<1>6. ASSUME {} \in Upto(S, N)
      PROVE  Stores(f[{}], {})
  <2>1. f[{}] = EmptyTree
    BY <1>4, <1>6 DEF AddedOne
  <2>2. Good(any, EmptyTree, D, EmptyTree, ty)
    BY <1>3, EmptyTreeFacts, GoodStart
  <2>3. Contents(EmptyTree) = [c \in {} |-> C[c]]
    BY EmptyTreeFacts, ContentsFacts
  <2> QED BY <2>1, <2>2, <2>3
<1>7. 0 \in U
  <2>1. ASSUME NEW u \in Upto(S, N), Cardinality(u) <= 0
        PROVE  Stores(f[u], u)
    <3>1. IsFiniteSet(u) /\ Cardinality(u) = 0
      BY <1>5, <2>1
    <3>2. u = {}
      BY <3>1, FS_EmptySet
    <3> QED BY <1>6, <3>2
  <2> QED BY <2>1
<1>8. ASSUME NEW T, NEW w, NEW x \in Keys, x \notin w, Stores(T, w)
      PROVE  Stores(Added(T, x, C[x], ty), w \cup {x})
  <2> DEFINE A == Added(T, x, C[x], ty)
  <2>1. Regular(T) /\ Nodes(T) /\ DOMAIN Contents(T) = w /\ KeysIn(T) = w
    BY <1>3, <1>8, GoodParts, ContentsFacts
  <2>2. T[Landing(T, x)].key # x
    BY <1>8, <2>1, HomeOf
  <2>3. Good(any, A, D, IF ty THEN T ELSE A, ty)
    BY <1>3, <1>8, <2>2, GoodAdd
  <2>4. Contents(A) = [c \in w \cup {x} |-> C[c]]
    <3>1. ty \in BOOLEAN /\ Contents(T) = [c \in w |-> C[c]]
      BY <1>3, <1>8
    <3> HIDE DEF ty
    <3> QED BY <2>1, <2>2, <3>1, AddedOneContents
  <2> HIDE DEF A
  <2> QED BY <1>3, <2>3, <2>4 DEF A
<1>9. ASSUME NEW n \in U
      PROVE  n + 1 \in U
  <2>1. n \in Nat /\ n + 1 \in Nat
    OBVIOUS
  <2>2. ASSUME NEW u \in Upto(S, N), Cardinality(u) <= n + 1
        PROVE  Stores(f[u], u)
    <3>1. CASE u = {}
      BY <1>6, <3>1
    <3>2. CASE u # {}
      <4> DEFINE x == AnyOf(u)
                 w == u \ {x}
      <4>1. x \in u
        BY <3>2 DEF AnyOf
      <4>2. IsFiniteSet(u) /\ Cardinality(u) \in Nat /\ Cardinality(u) <= N /\ u \in SUBSET S
        BY <1>5
      <4>3. f[u] = Added(f[w], x, C[x], ty)
        BY <1>4, <3>2 DEF AddedOne
      <4> HIDE DEF x, ty
      <4>4. Cardinality(w) = Cardinality(u) - 1
        BY <4>1, <4>2, FS_RemoveElement
      <4>5. w \in SUBSET S /\ x \in Keys /\ x \notin w /\ w \cup {x} = u
        BY <4>1, <4>2
      <4> HIDE DEF w
      <4>6. Cardinality(w) <= n /\ Cardinality(w) <= N
        BY <1>1, <2>1, <2>2, <4>2, <4>4
      <4>7. w \in Upto(S, N)
        BY <4>5, <4>6 DEF Upto
      <4>8. Stores(f[w], w)
        BY <4>6, <4>7
      <4> HIDE DEF Stores
      <4>9. Stores(Added(f[w], x, C[x], ty), w \cup {x})
        BY <1>8, <4>5, <4>8
      <4> QED BY <4>3, <4>5, <4>9
    <3> QED BY <3>1, <3>2
  <2> QED BY <2>1, <2>2
<1>10. U \in SUBSET Nat
  OBVIOUS
<1> HIDE DEF U
<1>11. U = Nat
  BY <1>7, <1>9, <1>10, Ind!SetInduction
<1>12. S \in Upto(S, N) /\ N \in U
  BY <1>1, <1>11 DEF Upto
<1>13. Stores(f[S], S)
  BY <1>1, <1>12 DEF U
<1>14. Good(any, Built(C), D, Built(C), ty) /\ Contents(Built(C)) = C
  BY <1>2, <1>13
<1>15. Regular(Built(C)) /\ Marked(Built(C), ty) /\ FreshLeaves(Built(C))
  BY <1>3, <1>14, GoodParts
<1> QED BY <1>3, <1>14, <1>15 DEF Pure, Marked

-----------------------------------------------------------------------------
(* A part of a tree *)

\* Names for TRUE, which the provers do not expand.
Whatever == TRUE

Open == TRUE

LEMMA WhateverType == Whatever \in BOOLEAN /\ Whatever
BY DEF Whatever

LEMMA OpenType == Open \in BOOLEAN /\ Open
BY DEF Open

USE WhateverType, OpenType

\* The nodes of a partial tree: only the label of the nodes U is there, and
\* nothing below them.
Part(C, U) ==
    /\ Sound(C)
    /\ U \subseteq DOMAIN C
    /\ \A q \in U, b \in Bit : Child(q, b) \notin DOMAIN C
    /\ Root \in DOMAIN C /\ C[Root].backup = {}
    /\ IF Root \in U THEN DOMAIN C = {Root} ELSE Shape(C)

\* The known leaves of C are leaves of F, with what F has there.
LeavesOf(C, U, F) ==
    \A q \in DOMAIN C \ U : IsLeaf(C, q) =>
        IsLeaf(F, q) /\ C[q].key = F[q].key /\ SameAt(C, F, q)

\* A known node above them that has not what F has there is marked and can be
\* repaired.
Mendable(C, U, q) == Marks(C, q) /\ \A b \in Bit : Child(q, b) \notin U

\* Any other known node that is not as in F is marked, in a transaction, and fix
\* can update it.
InnerOf(C, U, F, tx) ==
    \A q \in DOMAIN C \ U : ~IsLeaf(C, q) /\ ~SameAt(C, F, q) => tx /\ Mendable(C, U, q)

\* Of an unknown node the verifier has the label.
LabelsOf(C, U, F) == \A q \in U : C[q].label = F[q].label

\* What C knows is true of F, but for the nodes that are marked.
Knows(C, U, F, tx) ==
    /\ Part(C, U)
    /\ DOMAIN C \subseteq DOMAIN F
    /\ LeavesOf(C, U, F)
    /\ InnerOf(C, U, F, tx)
    /\ LabelsOf(C, U, F)

\* The nodes on the way to p are known, and those next to it.
Around(U, p) ==
    \A a \in Path : On(a, p) => a \notin U /\ (Size(a) # 0 => Sibling(a) \notin U)

\* From a node upwards: where both trees are up to date they agree, if they
\* do at the node and next to the way.
LEMMA SameUp ==
    ASSUME NEW C, NEW F, NEW p \in Path,
           \A a \in Ancestors(p) : UpToDate(C, a) /\ ~IsLeaf(C, a) /\ UpToDate(F, a) /\ ~IsLeaf(F, a),
           SameAt(C, F, p),
           \A a \in Path : On(a, p) /\ Size(a) # 0 => SameAt(C, F, Sibling(a))
    PROVE  \A a \in Ancestors(p) : SameAt(C, F, a)
<1> DEFINE N == Size(p)
           at(n) == Prefix(p, N - n)
           W == {n \in 0..N : SameAt(C, F, at(n))}
<1>1. N \in Nat
  OBVIOUS
<1>2. 0 \in W
  <2>1. N - 0 = N
    BY <1>1
  <2>2. at(0) = p
    BY <2>1, PrefixSelf
  <2> QED BY <1>1, <2>2
<1>3. ASSUME NEW n \in 0..N - 1, n \in W
      PROVE  n + 1 \in W
  <2> DEFINE m == N - (n + 1)
             a == Prefix(p, m)
             c == Prefix(p, m + 1)
  <2>1. m \in 0..N - 1 /\ m + 1 = N - n /\ m + 1 \in 0..N /\ m \in 0..N /\ n + 1 \in 0..N /\ m + 1 # 0 /\ m # N
    BY <1>1
  <2> HIDE DEF m
  <2>2. a \in Path /\ Size(a) = m /\ c \in Path /\ Size(c) = m + 1 /\ On(a, p) /\ On(c, p)
    BY <2>1, PrefixFacts, OnPrefix
  <2>3. p[m + 1] \in Bit /\ c = Child(a, p[m + 1])
    BY <2>1, PrefixStep
  <2>4. Parent(c) = a
    BY <2>2, <2>3, ChildFacts
  <2>5. \A b \in Bit : Child(a, b) \in {c, Sibling(c)}
    BY <2>1, <2>2, <2>4, Siblings
  <2>6. SameAt(C, F, c)
    BY <1>3, <2>1 DEF m
  <2>7. SameAt(C, F, Sibling(c))
    BY <2>1, <2>2
  <2>8. SameAt(C, F, Child(a, 0)) /\ SameAt(C, F, Child(a, 1))
    BY <2>5, <2>6, <2>7 DEF Bit
  <2>9. m < N
    BY <2>1
  <2>10. a \in Ancestors(p)
    BY <2>2, <2>9, AncestorsOn
  <2>11. UpToDate(C, a) /\ ~IsLeaf(C, a) /\ UpToDate(F, a) /\ ~IsLeaf(F, a)
    BY <2>10
  <2> HIDE DEF a
  <2>12. SameAt(C, F, a)
    BY <2>8, <2>11 DEF UpToDate, SameAt
  <2> QED BY <2>1, <2>12 DEF a, m
<1> HIDE DEF W
<1>4. 0..N \subseteq W
  BY <1>1, <1>2, <1>3, Ind!BoundedInduction
<1>5. ASSUME NEW a \in Ancestors(p)
      PROVE  SameAt(C, F, a)
  <2>1. a \in Path /\ On(a, p) /\ Size(a) < N
    BY AncestorsOn
  <2> DEFINE n == N - Size(a)
  <2>2. n \in 0..N /\ N - n = Size(a)
    BY <1>1, <2>1
  <2>3. n \in W
    BY <1>4, <2>2
  <2> HIDE DEF n
  <2>4. SameAt(C, F, Prefix(p, Size(a)))
    BY <2>2, <2>3 DEF W
  <2> QED BY <2>1, <2>4 DEF On
<1> QED BY <1>5

\* Nodes are below one that is known only.
Closed(S, U) == U \subseteq DOMAIN S /\ \A q \in U, b \in Bit : Child(q, b) \notin DOMAIN S

\* As Knows, but for the nodes above r, which the loop upwards deals with.
Nearly(S, U, G, tx, r) ==
    /\ Shape(S) /\ Shape(G)
    /\ Root \notin U
    /\ Closed(S, U)
    /\ DOMAIN S \subseteq DOMAIN G
    /\ LeavesOf(S, U, G)
    /\ \A q \in DOMAIN S \ U : ~IsLeaf(S, q) /\ ~SameAt(S, G, q) /\ q \notin Ancestors(r) =>
          tx /\ Mendable(S, U, q)
    /\ LabelsOf(S, U, G)
    /\ S[Root].backup = {}
    /\ r \in DOMAIN S \ U /\ IsLeaf(S, r)
    /\ Around(U, r)

\* A child of a node on the way to r.
LEMMA AroundChild ==
    ASSUME NEW U, NEW r \in Path, Around(U, r), NEW a \in Ancestors(r), NEW b \in Bit
    PROVE  Child(a, b) \notin U
<1>1. a \in Path /\ On(a, r) /\ Size(a) < Size(r)
  BY AncestorsOn
<1>2. Size(a) # Size(r)
  BY <1>1
<1>3. r[Size(a) + 1] \in Bit /\ On(Child(a, r[Size(a) + 1]), r)
  BY <1>1, <1>2, OnStep
<1> DEFINE c == Child(a, r[Size(a) + 1])
<1>4. c \in Path /\ Size(c) = Size(a) + 1 /\ Parent(c) = a
  BY <1>1, <1>3, ChildFacts
<1>5. Size(c) # 0
  BY <1>1, <1>4
<1>6. c \notin U /\ Sibling(c) \notin U
  BY <1>3, <1>4, <1>5 DEF Around
<1>7. Child(a, b) \in {c, Sibling(c)}
  BY <1>4, <1>5, Siblings
<1> QED BY <1>6, <1>7

\* The loop upwards completes what a call has begun at the leaf r.
LEMMA LiftedKnows ==
    ASSUME NEW S, NEW U, NEW G, NEW tx \in BOOLEAN, NEW r, Nearly(S, U, G, tx, r),
           NEW N, Lifted(S, N, r, tx), Sound(N),
           NEW gt \in BOOLEAN, ~gt, NEW M, Lifted(G, M, r, gt)
    PROVE  Knows(N, U, M, tx)
<1>1. /\ Shape(S) /\ Shape(G) /\ Root \notin U /\ Closed(S, U) /\ DOMAIN S \subseteq DOMAIN G
      /\ LeavesOf(S, U, G) /\ LabelsOf(S, U, G) /\ S[Root].backup = {}
      /\ r \in DOMAIN S /\ r \notin U /\ IsLeaf(S, r) /\ Around(U, r) /\ r \in Path
  BY DEF Nearly, Shape
<1>2. DOMAIN N = DOMAIN S /\ DOMAIN M = DOMAIN G
  BY DEF Lifted
<1>3. \A q \in DOMAIN S : q \notin Ancestors(r) => N[q] = S[q] /\ M[q] = G[q]
  BY <1>1 DEF Lifted
<1>4. \A q \in DOMAIN S : /\ IsLeaf(N, q) <=> IsLeaf(S, q)
                          /\ IsLeaf(M, q) <=> IsLeaf(G, q)
  BY <1>2 DEF IsLeaf
<1>5. \A q \in Ancestors(r) : /\ q \in DOMAIN S /\ q \in Path /\ ~IsLeaf(S, q) /\ q \notin U
                              /\ \A b \in Bit : Child(q, b) \in DOMAIN S
                              /\ On(q, r)
  <2> SUFFICES ASSUME NEW q \in Ancestors(r)
      PROVE  /\ q \in DOMAIN S /\ q \in Path /\ ~IsLeaf(S, q) /\ q \notin U
             /\ \A b \in Bit : Child(q, b) \in DOMAIN S
             /\ On(q, r)
    OBVIOUS
  <2>1. q \in Path /\ On(q, r) /\ Size(q) < Size(r)
    BY <1>1, AncestorsOn
  <2>2. q \in DOMAIN S /\ q \notin U
    BY <1>1, <2>1 DEF Shape, Around
  <2>3. q # r
    BY <2>1
  <2>4. ~IsLeaf(S, q)
    BY <1>1, <2>1, <2>2, <2>3, LeafEnds
  <2>5. \A b \in Bit : Child(q, b) \in DOMAIN S
    BY <1>1, <2>2, <2>4, ShapeInner
  <2> QED BY <2>1, <2>2, <2>4, <2>5
<1>6. Part(N, U)
  <2>1. Shape(N)
    BY <1>1, <1>2, ShapeSame
  <2>2. N[Root].backup = {} /\ Root \in DOMAIN N
    BY <1>1, <1>2, ShapeRoot DEF Lifted
  <2> QED BY <1>1, <1>2, <2>1, <2>2 DEF Part, Closed
<1>7. LeavesOf(N, U, M)
  <2> SUFFICES ASSUME NEW q \in DOMAIN N \ U, IsLeaf(N, q)
      PROVE  IsLeaf(M, q) /\ N[q].key = M[q].key /\ SameAt(N, M, q)
    BY DEF LeavesOf
  <2>1. q \in DOMAIN S \ U /\ IsLeaf(S, q)
    BY <1>2, <1>4
  <2>2. q \notin Ancestors(r)
    BY <1>5, <2>1
  <2>3. IsLeaf(G, q) /\ S[q].key = G[q].key /\ SameAt(S, G, q)
    BY <1>1, <2>1 DEF LeavesOf
  <2> QED BY <1>3, <1>4, <2>1, <2>2, <2>3 DEF SameAt
<1>8. LabelsOf(N, U, M)
  <2> SUFFICES ASSUME NEW q \in U PROVE N[q].label = M[q].label
    BY DEF LabelsOf
  <2>1. q \in DOMAIN S /\ q \notin Ancestors(r) /\ S[q].label = G[q].label
    BY <1>1, <1>5 DEF Closed, LabelsOf
  <2> QED BY <1>3, <2>1
<1>9. InnerOf(N, U, M, tx)
  <2> SUFFICES ASSUME NEW q \in DOMAIN N \ U, ~IsLeaf(N, q), ~SameAt(N, M, q)
      PROVE  tx /\ Mendable(N, U, q)
    BY DEF InnerOf
  <2>1. q \in DOMAIN S \ U /\ ~IsLeaf(S, q)
    BY <1>2, <1>4
  <2>2. CASE q \notin Ancestors(r)
    <3>1. ~SameAt(S, G, q)
      BY <1>3, <2>1, <2>2 DEF SameAt
    <3>2. tx /\ Mendable(S, U, q)
      BY <2>1, <2>2, <3>1 DEF Nearly
    <3>3. Marks(N, q)
      <4>1. tx /\ Marks(S, q) /\ q \in DOMAIN S
        BY <2>1, <3>2 DEF Mendable
      <4>2. ASSUME NEW a \in Ancestors(q) \cup {q}
            PROVE  N[a].inconsistent
        <5>1. a \in DOMAIN S
          BY <1>1, <4>1, AncestorsIn
        <5>2. S[a].inconsistent
          BY <4>1 DEF Marks
        <5>3. CASE a \in Ancestors(r)
          BY <4>1, <5>1, <5>3 DEF Lifted
        <5>4. CASE a \notin Ancestors(r)
          BY <1>3, <5>1, <5>2, <5>4
        <5> QED BY <5>3, <5>4
      <4> QED BY <4>2 DEF Marks
    <3> QED BY <3>2, <3>3 DEF Mendable
  <2>3. CASE q \in Ancestors(r) /\ tx
    <3>1. \A b \in Bit : Child(q, b) \notin U
      BY <1>1, <2>3, AroundChild
    <3>2. ASSUME NEW a \in Ancestors(q) \cup {q}
          PROVE  N[a].inconsistent
      <4>1. a \in Ancestors(r)
        BY <1>1, <2>3, AncestorsUp
      <4>2. a \in DOMAIN S
        BY <1>5, <4>1
      <4> QED BY <2>3, <4>1, <4>2 DEF Lifted
    <3> QED BY <2>3, <3>1, <3>2 DEF Mendable, Marks
  <2>4. CASE q \in Ancestors(r) /\ ~tx
    <3>1. ASSUME NEW a \in Ancestors(r)
          PROVE  UpToDate(N, a) /\ ~IsLeaf(N, a) /\ UpToDate(M, a) /\ ~IsLeaf(M, a)
      <4>1. a \in DOMAIN S /\ ~IsLeaf(S, a) /\ a \in DOMAIN G
        BY <1>1, <1>5
      <4>2. ~IsLeaf(G, a)
        BY <1>1, <4>1 DEF IsLeaf
      <4>3. UpToDate(N, a) /\ UpToDate(M, a)
        BY <2>4, <4>1 DEF Lifted
      <4> QED BY <1>4, <4>1, <4>2, <4>3
    <3>2. \A s \in DOMAIN S : s \notin U /\ s \notin Ancestors(r) => SameAt(N, M, s)
      <4> SUFFICES ASSUME NEW s \in DOMAIN S, s \notin U, s \notin Ancestors(r) PROVE SameAt(N, M, s)
        OBVIOUS
      <4>1. SameAt(S, G, s)
        <5>1. CASE IsLeaf(S, s)
          BY <1>1, <5>1 DEF LeavesOf
        <5>2. CASE ~IsLeaf(S, s)
          <6>1. ~IsLeaf(S, s) /\ ~SameAt(S, G, s) /\ s \notin Ancestors(r) => tx
            BY DEF Nearly
          <6> QED BY <2>4, <5>2, <6>1
        <5> QED BY <5>1, <5>2
      <4> QED BY <1>3, <4>1 DEF SameAt
    <3>3. SameAt(N, M, r)
      <4>1. r \notin Ancestors(r)
        BY <1>1, <1>5
      <4> QED BY <1>1, <3>2, <4>1
    <3>4. ASSUME NEW a \in Path, On(a, r), Size(a) # 0
          PROVE  SameAt(N, M, Sibling(a))
      <4>1. a \in DOMAIN S /\ Sibling(a) \notin U
        BY <1>1, <3>4 DEF Shape, Around
      <4>2. Sibling(a) \in DOMAIN S
        BY <1>1, <3>4, <4>1, SiblingIn
      <4>3. Sibling(a) \notin Ancestors(r)
        <5>1. ~On(Sibling(a), r)
          BY <1>1, <3>4, SiblingApart
        <5> QED BY <1>1, <5>1, AncestorsOn
      <4> QED BY <3>2, <4>1, <4>2, <4>3
    <3>5. \A a \in Ancestors(r) : SameAt(N, M, a)
      BY <1>1, <3>1, <3>3, <3>4, SameUp
    <3> QED BY <2>4, <3>5
  <2> QED BY <2>2, <2>3, <2>4
<1>10. DOMAIN N \subseteq DOMAIN M
  BY <1>1, <1>2
<1> QED BY <1>6, <1>7, <1>8, <1>9, <1>10 DEF Knows

-----------------------------------------------------------------------------
(* The calls *)

\* A leaf p of C on which a call ends, and the same leaf of F.
Meeting(C, U, F, p) ==
    /\ p \in DOMAIN C \ U /\ p \in Path /\ p # Root
    /\ IsLeaf(C, p) /\ IsLeaf(F, p)
    /\ C[p].key = F[p].key /\ SameAt(C, F, p)
    /\ Around(U, p)
    /\ Shape(C) /\ Shape(F) /\ Root \notin U

\* What Knows says of the part alone, for later use.
LEMMA PartFacts ==
    ASSUME NEW C, NEW U, NEW F, NEW tx, Knows(C, U, F, tx)
    PROVE  /\ Sound(C) /\ Nodes(C) /\ U \subseteq DOMAIN C /\ Closed(C, U)
           /\ DOMAIN C \subseteq DOMAIN F
           /\ Root \in DOMAIN C /\ C[Root].backup = {}
           /\ Root \notin U => Shape(C)
           /\ LeavesOf(C, U, F) /\ InnerOf(C, U, F, tx) /\ LabelsOf(C, U, F)
  BY DEF Knows, Part, Closed, Sound

\* A leaf is written in the part and in the full tree (Set; Add at an empty leaf).
LEMMA NearlyRewritten ==
    ASSUME NEW C, NEW U, NEW F, NEW tx \in BOOLEAN, Knows(C, U, F, tx), NEW p, Meeting(C, U, F, p),
           NEW k, NEW v, NEW S, Rewrites(C, S, p, k, v, tx),
           NEW gt \in BOOLEAN, NEW G, Rewrites(F, G, p, k, v, gt)
    PROVE  Nearly(S, U, G, tx, p)
<1>1. /\ DOMAIN S = DOMAIN C /\ DOMAIN G = DOMAIN F
      /\ \A q \in DOMAIN C : q # p => S[q] = C[q]
      /\ \A q \in DOMAIN F : q # p => G[q] = F[q]
      /\ S[p].key = k /\ S[p].values = v /\ S[p].label = LeafLabel(k, v)
      /\ G[p].key = k /\ G[p].values = v /\ G[p].label = LeafLabel(k, v)
      /\ S[p].inconsistent = C[p].inconsistent
  BY DEF Rewrites
<1>2. /\ Closed(C, U) /\ U \subseteq DOMAIN C /\ DOMAIN C \subseteq DOMAIN F
      /\ Root \in DOMAIN C /\ C[Root].backup = {}
      /\ LeavesOf(C, U, F) /\ InnerOf(C, U, F, tx) /\ LabelsOf(C, U, F)
  BY PartFacts
<1>3. /\ p \in DOMAIN C /\ p \notin U /\ p \in Path /\ p # Root /\ IsLeaf(C, p) /\ IsLeaf(F, p)
      /\ Around(U, p) /\ Shape(C) /\ Shape(F) /\ Root \notin U
  BY DEF Meeting
<1>4. \A q : (IsLeaf(S, q) <=> IsLeaf(C, q)) /\ (IsLeaf(G, q) <=> IsLeaf(F, q))
  BY <1>1 DEF IsLeaf
<1>5. Shape(S) /\ Shape(G)
  BY <1>1, <1>3, ShapeSame
<1>6. Closed(S, U)
  BY <1>1, <1>2 DEF Closed
<1>7. LeavesOf(S, U, G)
  <2> SUFFICES ASSUME NEW q \in DOMAIN S \ U, IsLeaf(S, q)
      PROVE  IsLeaf(G, q) /\ S[q].key = G[q].key /\ SameAt(S, G, q)
    BY DEF LeavesOf
  <2>1. CASE q = p
    BY <1>1, <1>3, <1>4, <2>1 DEF SameAt
  <2>2. CASE q # p
    <3>1. q \in DOMAIN C \ U /\ IsLeaf(C, q) /\ q \in DOMAIN F
      BY <1>1, <1>2, <1>4
    <3>2. IsLeaf(F, q) /\ C[q].key = F[q].key /\ SameAt(C, F, q)
      BY <1>2, <3>1 DEF LeavesOf
    <3> QED BY <1>1, <1>4, <2>2, <3>1, <3>2 DEF SameAt
  <2> QED BY <2>1, <2>2
<1>8. ASSUME NEW q \in DOMAIN S \ U, ~IsLeaf(S, q), ~SameAt(S, G, q)
      PROVE  tx /\ Mendable(S, U, q)
  <2>1. q \in DOMAIN C \ U /\ ~IsLeaf(C, q) /\ q # p /\ q \in DOMAIN F
    BY <1>1, <1>2, <1>3, <1>4, <1>8
  <2>2. ~SameAt(C, F, q)
    BY <1>1, <1>8, <2>1 DEF SameAt
  <2>3. tx /\ Mendable(C, U, q)
    BY <1>2, <2>1, <2>2 DEF InnerOf
  <2>4. ASSUME NEW a \in Ancestors(q) \cup {q}
        PROVE  S[a].inconsistent
    <3>1. a \in DOMAIN C
      BY <1>3, <2>1, AncestorsIn
    <3>2. C[a].inconsistent
      BY <2>3 DEF Mendable, Marks
    <3> QED BY <1>1, <3>1, <3>2
  <2> QED BY <2>3, <2>4 DEF Mendable, Marks
<1>9. LabelsOf(S, U, G)
  <2> SUFFICES ASSUME NEW q \in U PROVE S[q].label = G[q].label
    BY DEF LabelsOf
  <2>1. q \in DOMAIN C /\ q # p /\ q \in DOMAIN F
    BY <1>2, <1>3
  <2>2. C[q].label = F[q].label
    BY <1>2 DEF LabelsOf
  <2> QED BY <1>1, <2>1, <2>2
<1>10. S[Root].backup = {}
  BY <1>1, <1>2, <1>3
<1>11. p \in DOMAIN S \ U /\ IsLeaf(S, p) /\ DOMAIN S \subseteq DOMAIN G
  BY <1>1, <1>2, <1>3, <1>4
<1>12. \A q \in DOMAIN S \ U : ~IsLeaf(S, q) /\ ~SameAt(S, G, q) /\ q \notin Ancestors(p) =>
          tx /\ Mendable(S, U, q)
  BY <1>8
<1> QED BY <1>3, <1>5, <1>6, <1>7, <1>9, <1>10, <1>11, <1>12 DEF Nearly

\* So both trees stay in step.
LEMMA KnowsRewritten ==
    ASSUME NEW C, NEW U, NEW F, NEW tx \in BOOLEAN, Knows(C, U, F, tx), NEW p, Meeting(C, U, F, p),
           NEW k \in Keys \cup {NoKey}, NEW v, NEW N, Rewritten(C, N, p, k, v, tx),
           NEW gt \in BOOLEAN, ~gt, NEW M, Rewritten(F, M, p, k, v, gt)
    PROVE  Knows(N, U, M, tx)
<1>1. PICK S : Rewrites(C, S, p, k, v, tx) /\ Lifted(S, N, p, tx)
  BY DEF Rewritten
<1>2. PICK G : Rewrites(F, G, p, k, v, gt) /\ Lifted(G, M, p, gt)
  BY DEF Rewritten
<1>3. Nearly(S, U, G, tx, p)
  BY <1>1, <1>2, NearlyRewritten
<1>4. Sound(C) /\ p \in DOMAIN C
  BY PartFacts DEF Meeting
<1>5. Sound(S)
  BY <1>1, <1>4, RewritesSound
<1>6. Sound(N)
  BY <1>1, <1>5, LiftedKeeps
<1> QED BY <1>1, <1>2, <1>3, <1>6, LiftedKnows

\* The nodes that a split makes are new in both trees.
LEMMA BelowNew ==
    ASSUME NEW T, Shape(T), NEW p \in DOMAIN T, IsLeaf(T, p), NEW k \in Keys, NEW c \in Keys, Forks(p, k, c)
    PROVE  /\ \A q \in Below(p, k, c) : q \notin DOMAIN T
           /\ \A q \in Inner(p, k, c) : q # p => q \notin DOMAIN T
           /\ p \in Inner(p, k, c)
           /\ \A q \in Path, b \in Bit : Child(q, b) \in Below(p, k, c) <=> q \in Inner(p, k, c)
           /\ Below(p, k, c) \subseteq Path
<1>1. p \in Path /\ On(p, PathOf[k]) /\ On(p, PathOf[c])
  BY DEF Forks
<1>2. \A a : a \in Inner(p, k, c) <=>
          a \in Path /\ On(p, a) /\ On(a, PathOf[k]) /\ On(a, PathOf[c])
  BY InnerMember
<1>3. \A q \in Path : On(p, q) /\ q # p => q \notin DOMAIN T
  BY LeafEnds
<1>4. \A q \in Below(p, k, c) : q \notin DOMAIN T /\ q \in Path
  BY <1>3, BelowMember
<1>5. \A q \in Inner(p, k, c) : q # p => q \notin DOMAIN T
  BY <1>2, <1>3
<1>6. p \in Inner(p, k, c)
  BY <1>1, <1>2, OnSelf
<1>7. ASSUME NEW q \in Path, NEW b \in Bit
      PROVE  Child(q, b) \in Below(p, k, c) <=> q \in Inner(p, k, c)
  <2>1. q \in Inner(p, k, c) => Child(q, b) \in Below(p, k, c)
    BY DEF Below, Children, Bit
  <2>2. ASSUME Child(q, b) \in Below(p, k, c)
        PROVE  q \in Inner(p, k, c)
    <3>1. PICK a \in Inner(p, k, c), e \in Bit : Child(q, b) = Child(a, e)
      BY <2>2 DEF Below, Children, Bit
    <3>2. a \in Path
      BY <1>2
    <3>3. q = a
      BY <3>1, <3>2, ChildInjective
    <3> QED BY <3>3
  <2> QED BY <2>1, <2>2
<1> QED BY <1>4, <1>5, <1>6, <1>7

\* A leaf with another key is pushed down in both trees (Add).
LEMMA NearlyDivided ==
    ASSUME NEW C, NEW U, NEW F, NEW tx \in BOOLEAN, Knows(C, U, F, tx), NEW p, Meeting(C, U, F, p),
           NEW k \in Keys, F[p].key \in Keys, Forks(p, k, F[p].key), NEW v,
           NEW S, Shape(S), Pushed(C, S, p, k, v, tx),
           NEW gt \in BOOLEAN, NEW G, Shape(G), Pushed(F, G, p, k, v, gt)
    PROVE  Nearly(S, U, G, tx, NewHome(k, F[p].key))
<1> DEFINE c == F[p].key
           I == Inner(p, k, c)
           B == Below(p, k, c)
           r == NewHome(k, c)
           s == NewHome(c, k)
<1>1. C[p].key = c /\ c \in Keys /\ Forks(p, k, c)
  BY DEF Meeting
<1>2. /\ DOMAIN S = DOMAIN C \cup B /\ DOMAIN G = DOMAIN F \cup B
      /\ \A q \in DOMAIN C \ {p} : S[q] = C[q]
      /\ \A q \in DOMAIN F \ {p} : G[q] = F[q]
      /\ \A q \in B \ I : q # r /\ q # s =>
            S[q] = LeafNode(NoKey, PlaceholderValues) /\ G[q] = LeafNode(NoKey, PlaceholderValues)
      /\ S[s] = Moved(C[p]) /\ G[s] = Moved(F[p])
      /\ S[r] = Rec(k, v, LeafLabel(k, v), Unmarked, Backup(LeafNode(NoKey, PlaceholderValues), tx), {})
      /\ G[r] = Rec(k, v, LeafLabel(k, v), Unmarked, Backup(LeafNode(NoKey, PlaceholderValues), gt), {})
  BY <1>1 DEF Pushed
<1>3. /\ Closed(C, U) /\ U \subseteq DOMAIN C /\ DOMAIN C \subseteq DOMAIN F
      /\ Root \in DOMAIN C /\ C[Root].backup = {}
      /\ LeavesOf(C, U, F) /\ InnerOf(C, U, F, tx) /\ LabelsOf(C, U, F)
  BY PartFacts
<1>4. /\ p \in DOMAIN C /\ p \notin U /\ p \in Path /\ p # Root /\ IsLeaf(C, p) /\ IsLeaf(F, p)
      /\ Around(U, p) /\ Shape(C) /\ Shape(F) /\ Root \notin U /\ p \in DOMAIN F
      /\ SameAt(C, F, p)
  BY <1>3 DEF Meeting
<1> HIDE DEF c
<1>5. /\ \A q \in B : q \notin DOMAIN C /\ q \notin DOMAIN F /\ q \in Path
      /\ \A q \in I : q # p => q \notin DOMAIN C /\ q \notin DOMAIN F
      /\ p \in I
      /\ \A q \in Path, b \in Bit : Child(q, b) \in B <=> q \in I
  <2>1. /\ \A q \in B : q \notin DOMAIN C
        /\ \A q \in I : q # p => q \notin DOMAIN C
        /\ p \in I
        /\ \A q \in Path, b \in Bit : Child(q, b) \in B <=> q \in I
        /\ B \subseteq Path
    BY <1>1, <1>4, BelowNew
  <2>2. /\ \A q \in B : q \notin DOMAIN F
        /\ \A q \in I : q # p => q \notin DOMAIN F
    BY <1>1, <1>4, BelowNew
  <2> QED BY <2>1, <2>2
<1>6. /\ r \in B \ I /\ s \in B \ I /\ r # s
      /\ Ancestors(r) = Ancestors(p) \cup I
  BY <1>1, HomeFacts
<1>7. \A a : a \in I <=> a \in Path /\ On(p, a) /\ On(a, PathOf[k]) /\ On(a, PathOf[c])
  BY <1>1, InnerMember
<1> HIDE DEF I, B, r, s
<1>8. ASSUME NEW q \in DOMAIN S
      PROVE  /\ q \in Path
             /\ IsLeaf(S, q) <=> q \notin I /\ (q \in DOMAIN C => IsLeaf(C, q))
             /\ IsLeaf(G, q) <=> q \notin I /\ (q \in DOMAIN F => IsLeaf(F, q))
  <2>1. q \in Path
    BY DEF Shape
  <2>2. 0 \in Bit
    BY DEF Bit
  <2>3. Child(q, 0) \in B <=> q \in I
    BY <1>5, <2>1, <2>2
  <2>4. Child(q, 0) \in DOMAIN C => q \in DOMAIN C
    BY <1>4, <2>1, <2>2, OnChild, OnSelf, ChildFacts DEF Shape
  <2>5. Child(q, 0) \in DOMAIN F => q \in DOMAIN F
    BY <1>4, <2>1, <2>2, OnChild, OnSelf, ChildFacts DEF Shape
  <2> QED BY <1>2, <2>1, <2>3, <2>4, <2>5 DEF IsLeaf
<1>9. Closed(S, U)
  <2> SUFFICES ASSUME NEW q \in U, NEW b \in Bit, Child(q, b) \in DOMAIN S PROVE FALSE
    BY <1>2, <1>3 DEF Closed
  <2>1. q \in DOMAIN C /\ q \in Path /\ Child(q, b) \notin DOMAIN C
    BY <1>3, <1>4 DEF Closed, Shape
  <2>2. q \in I
    BY <1>2, <1>5, <2>1
  <2> QED BY <1>4, <1>5, <2>1, <2>2
<1>10. LeavesOf(S, U, G)
  <2> SUFFICES ASSUME NEW q \in DOMAIN S \ U, IsLeaf(S, q)
      PROVE  IsLeaf(G, q) /\ S[q].key = G[q].key /\ SameAt(S, G, q)
    BY DEF LeavesOf
  <2>1. q \notin I /\ q # p
    BY <1>5, <1>8
  <2>2. CASE q \in DOMAIN C
    <3>1. IsLeaf(C, q)
      BY <1>8, <2>2
    <3>2. IsLeaf(F, q) /\ C[q].key = F[q].key /\ SameAt(C, F, q) /\ q \in DOMAIN F
      BY <1>3, <2>2, <3>1 DEF LeavesOf
    <3>3. S[q] = C[q] /\ G[q] = F[q]
      BY <1>2, <2>1, <2>2, <3>2
    <3> QED BY <1>8, <2>1, <3>2, <3>3 DEF SameAt
  <2>3. CASE q \notin DOMAIN C
    <3>1. q \in B /\ q \notin DOMAIN F
      BY <1>2, <1>5, <2>3
    <3>2. IsLeaf(G, q)
      BY <1>8, <2>1, <3>1
    <3>3. CASE q = r
      BY <1>2, <3>2, <3>3, RecFields DEF SameAt
    <3>4. CASE q = s
      <4>1. S[q].key = C[p].key /\ S[q].values = C[p].values /\ S[q].label = C[p].label
        BY <1>2, <3>4, MovedFields
      <4>2. G[q].key = F[p].key /\ G[q].values = F[p].values /\ G[q].label = F[p].label
        BY <1>2, <3>4, MovedFields
      <4> QED BY <1>1, <1>4, <3>2, <4>1, <4>2 DEF SameAt, c
    <3>5. CASE q # r /\ q # s
      <4>1. S[q] = G[q]
        BY <1>2, <2>1, <3>1, <3>5
      <4> QED BY <3>2, <4>1 DEF SameAt
    <3> QED BY <3>3, <3>4, <3>5
  <2> QED BY <2>2, <2>3
<1>11. ASSUME NEW q \in DOMAIN S \ U, ~IsLeaf(S, q), ~SameAt(S, G, q), q \notin Ancestors(r)
       PROVE  tx /\ Mendable(S, U, q)
  <2>1. q \notin I
    BY <1>6, <1>11
  <2>2. q \in DOMAIN C /\ ~IsLeaf(C, q) /\ q # p /\ q \in DOMAIN F
    BY <1>3, <1>5, <1>8, <1>11, <2>1
  <2>3. S[q] = C[q] /\ G[q] = F[q]
    BY <1>2, <2>2
  <2>4. ~SameAt(C, F, q)
    BY <1>11, <2>3 DEF SameAt
  <2>5. tx /\ Mendable(C, U, q)
    BY <1>3, <1>11, <2>2, <2>4 DEF InnerOf
  <2>6. ASSUME NEW a \in Ancestors(q) \cup {q}
        PROVE  S[a].inconsistent
    <3>1. a \in DOMAIN C
      BY <1>4, <2>2, AncestorsIn
    <3>2. C[a].inconsistent
      BY <2>5 DEF Mendable, Marks
    <3>3. a # p
      BY <1>4, <2>2, LeafAbove
    <3> QED BY <1>2, <3>1, <3>2, <3>3
  <2> QED BY <2>5, <2>6 DEF Mendable, Marks
<1>12. LabelsOf(S, U, G)
  <2> SUFFICES ASSUME NEW q \in U PROVE S[q].label = G[q].label
    BY DEF LabelsOf
  <2>1. q \in DOMAIN C /\ q # p /\ q \in DOMAIN F
    BY <1>3, <1>4
  <2>2. C[q].label = F[q].label
    BY <1>3 DEF LabelsOf
  <2> QED BY <1>2, <2>1, <2>2
<1>13. S[Root].backup = {}
  BY <1>2, <1>3, <1>4
<1>14. r \in DOMAIN S \ U /\ IsLeaf(S, r) /\ DOMAIN S \subseteq DOMAIN G
  BY <1>2, <1>3, <1>5, <1>6, <1>8
<1>15. Around(U, r)
  <2> SUFFICES ASSUME NEW a \in Path, On(a, r)
      PROVE  a \notin U /\ (Size(a) # 0 => Sibling(a) \notin U)
    BY DEF Around
  <2>1. r \in Path
    BY <1>5, <1>6
  <2>2. CASE a \in Ancestors(p) \cup {p}
    <3>1. On(a, p)
      BY <1>4, <2>2, AncestorsOn, OnSelf
    <3> QED BY <1>4, <3>1 DEF Around
  <2>3. CASE a \notin Ancestors(p) \cup {p}
    <3>1. a = r \/ a \in I
      <4>1. Size(a) <= Size(r)
        BY <2>1 DEF On
      <4>2. CASE Size(a) = Size(r)
        BY <2>1, <4>2, OnEqual
      <4>3. CASE Size(a) # Size(r)
        <5>1. Size(a) < Size(r)
          BY <2>1, <4>1, <4>3
        <5>2. a \in Ancestors(r)
          BY <2>1, <5>1, AncestorsOn
        <5> QED BY <1>6, <2>3, <5>2
      <4> QED BY <4>2, <4>3
    <3>2. a \in B
      <4>1. CASE a = r
        BY <1>6, <4>1
      <4>2. CASE a \in I
        <5>1. On(p, a) /\ a # p
          BY <1>7, <2>3, <4>2
        <5>2. Size(p) <= Size(a) /\ Size(p) # Size(a)
          BY <1>4, <5>1, OnEqual DEF On
        <5>3. Size(a) # 0
          BY <1>4, <5>2
        <5>4. Parent(a) \in Path /\ a[Size(a)] \in Bit /\ a = Child(Parent(a), a[Size(a)])
          BY <5>3, ParentFacts
        <5>5. On(p, Parent(a))
          BY <1>4, <5>1, <5>4, OnChild
        <5>6. On(Parent(a), a)
          BY <5>4, OnChild
        <5>7. PathOf[k] \in Path /\ PathOf[c] \in Path
          BY <1>1, KeyPaths
        <5>8. On(Parent(a), PathOf[k]) /\ On(Parent(a), PathOf[c])
          BY <1>7, <4>2, <5>4, <5>6, <5>7, OnTransitive
        <5>9. Parent(a) \in I
          BY <1>7, <5>4, <5>5, <5>8
        <5> QED BY <1>5, <5>4, <5>9
      <4> QED BY <3>1, <4>1, <4>2
    <3>3. Sibling(a) \in B
      <4>1. a \in Path /\ Parent(a) \in I /\ Size(a) # 0
        BY <1>1, <3>2, BelowMember DEF I, B
      <4>2. Parent(a) \in Path /\ a[Size(a)] \in Bit
        BY <4>1, ParentFacts
      <4>3. 1 - a[Len(a)] \in Bit
        BY <4>2 DEF Bit, Size
      <4>4. Child(Parent(a), 1 - a[Len(a)]) \in B
        BY <1>5, <4>1, <4>2, <4>3
      <4> QED BY <4>4 DEF Sibling
    <3> QED BY <1>3, <1>5, <3>2, <3>3
  <2> QED BY <2>2, <2>3
<1>16. \A q \in DOMAIN S \ U : ~IsLeaf(S, q) /\ ~SameAt(S, G, q) /\ q \notin Ancestors(r) =>
          tx /\ Mendable(S, U, q)
  BY <1>11
<1> QED BY <1>4, <1>9, <1>10, <1>12, <1>13, <1>14, <1>15, <1>16 DEF Nearly, r, c

\* So both trees stay in step.
LEMMA KnowsDivided ==
    ASSUME NEW C, NEW U, NEW F, NEW tx \in BOOLEAN, Knows(C, U, F, tx), NEW p, Meeting(C, U, F, p),
           NEW k \in Keys, F[p].key \in Keys, Forks(p, k, F[p].key), NEW v,
           NEW N, Divided(C, N, p, k, v, tx),
           NEW gt \in BOOLEAN, ~gt, NEW M, Divided(F, M, p, k, v, gt)
    PROVE  Knows(N, U, M, tx)
<1>1. C[p].key = F[p].key /\ p \in DOMAIN C /\ IsLeaf(C, p) /\ Shape(C) /\ Sound(C)
  BY PartFacts DEF Meeting
<1>2. PICK S : Pushed(C, S, p, k, v, tx) /\ Shape(S) /\ Lifted(S, N, NewHome(k, F[p].key), tx)
  BY <1>1 DEF Divided
<1>3. PICK G : Pushed(F, G, p, k, v, gt) /\ Shape(G) /\ Lifted(G, M, NewHome(k, F[p].key), gt)
  BY DEF Divided
<1>4. Nearly(S, U, G, tx, NewHome(k, F[p].key))
  BY <1>2, <1>3, NearlyDivided
<1>5. PushedOK(Whatever, C, S, p, k, C[p].key, tx)
  BY <1>1, <1>2, PushedSound
<1>6. Sound(S)
  BY <1>5 DEF PushedOK
<1>7. Sound(N)
  BY <1>2, <1>6, LiftedKeeps
<1> QED BY <1>2, <1>3, <1>4, <1>7, LiftedKnows

\* The nodes below t are known: they are on the way to p or next to it.
LEMMA StemKnown ==
    ASSUME NEW C, Shape(C), NEW p \in DOMAIN C, IsLeaf(C, p), NEW V, NEW t, Stem(C, p, V, t),
           NEW U, Around(U, p), NEW q \in DOMAIN C, On(t, q), q # t
    PROVE  q \notin U
<1>1. Parent(q) \in V /\ \A a : a \in V <=> a \in Ancestors(p) /\ On(t, a)
  BY DEF Stem
<1>2. p \in Path /\ q \in Path /\ t \in Path
  BY StemShape DEF StemNodes, Shape
<1>3. Parent(q) \in Ancestors(p)
  BY <1>1
<1>4. Size(q) # 0
  <2>1. Size(t) <= Size(q) /\ Size(t) # Size(q)
    BY <1>2, OnEqual DEF On
  <2> QED BY <1>2, <2>1
<1>5. q[Size(q)] \in Bit /\ q = Child(Parent(q), q[Size(q)])
  BY <1>2, <1>4, ParentFacts
<1> QED BY <1>2, <1>3, <1>5, AroundChild

\* Next to a way that is known, both trees have the same placeholders.
LEMMA SamePlaceholder ==
    ASSUME NEW C, NEW U, NEW F, LeavesOf(C, U, F), DOMAIN C \subseteq DOMAIN F,
           NEW q \in DOMAIN C \ U
    PROVE  /\ IsLeaf(C, q) <=> IsLeaf(F, q)
           /\ IsPlaceholder(C, q) <=> IsPlaceholder(F, q)
<1>1. IsLeaf(C, q) => IsLeaf(F, q) /\ C[q].key = F[q].key
  BY DEF LeavesOf
<1>2. IsLeaf(F, q) => IsLeaf(C, q)
  BY DEF IsLeaf
<1> QED BY <1>1, <1>2 DEF IsPlaceholder

\* If one stem goes higher than the other, the sibling where they differ is a
\* placeholder and is none.
LEMMA StemHigher ==
    ASSUME NEW C, Shape(C), NEW p \in DOMAIN C, IsLeaf(C, p), NEW V, NEW t, Stem(C, p, V, t),
           NEW r \in Ancestors(p), On(t, r), t # r
    PROVE  /\ Sibling(r) \in DOMAIN C /\ IsPlaceholder(C, Sibling(r))
           /\ Size(r) >= 2
<1>1. p \in Path /\ t \in Path /\ t \in DOMAIN C /\ On(t, p) /\ \A a \in V : a \in DOMAIN C
  BY StemShape DEF StemNodes, Shape
<1>2. r \in Path /\ On(r, p) /\ Size(r) < Size(p)
  BY <1>1, AncestorsOn
<1>3. r \in DOMAIN C
  BY <1>1, <1>2 DEF Shape
<1>4. Size(t) >= 1 /\ Size(t) <= Size(r) /\ Size(t) # Size(r)
  BY <1>1, <1>2, OnEqual DEF On, Stem
<1>5. Size(r) >= 2 /\ Size(r) # 0
  BY <1>1, <1>2, <1>4
<1>6. Sibling(r) \in DOMAIN C /\ Sibling(r) \in Path /\ Size(Sibling(r)) = Size(r) /\ Parent(Sibling(r)) = Parent(r)
  BY <1>2, <1>3, <1>5, SiblingIn, Siblings
<1>7. On(t, Sibling(r))
  <2>1. r[Size(r)] \in Bit /\ r = Child(Parent(r), r[Size(r)]) /\ Parent(r) \in Path
    BY <1>2, <1>5, ParentFacts
  <2>2. On(t, Parent(r))
    BY <1>1, <2>1, OnChild
  <2>3. Size(Sibling(r)) # 0
    BY <1>5, <1>6
  <2>4. Sibling(r)[Size(Sibling(r))] \in Bit /\ Sibling(r) = Child(Parent(Sibling(r)), Sibling(r)[Size(Sibling(r))])
    BY <1>6, <2>3, ParentFacts
  <2>5. On(Parent(r), Sibling(r))
    BY <1>6, <2>1, <2>4, OnChild
  <2> QED BY <1>1, <1>6, <2>1, <2>2, <2>5, OnTransitive
<1>8. ~On(Sibling(r), p)
  BY <1>1, <1>2, <1>5, SiblingApart
<1>9. Sibling(r) # t /\ Sibling(r) # p /\ Sibling(r) \notin Ancestors(p)
  BY <1>1, <1>8, OnSelf, AncestorsOn
<1>10. Sibling(r) # Sibling(p)
  <2>1. Size(p) # 0
    BY <1>1, <1>2
  <2>2. Size(Sibling(p)) = Size(p)
    BY <1>1, <2>1, Siblings
  <2> QED BY <1>1, <1>2, <1>6, <2>2
<1>11. Sibling(r) \notin V
  BY <1>9 DEF Stem
<1>12. Sibling(r) \in V \/ Sibling(r) = p \/ Sibling(r) = Sibling(p) \/ IsPlaceholder(C, Sibling(r))
  BY <1>6, <1>7, <1>9 DEF Stem
<1> QED BY <1>5, <1>6, <1>9, <1>10, <1>11, <1>12

\* Remove goes up to the same node in both trees.
LEMMA SameStem ==
    ASSUME NEW C, NEW U, NEW F, NEW tx \in BOOLEAN, Knows(C, U, F, tx), NEW p, Meeting(C, U, F, p),
           NEW V, NEW t, Stem(C, p, V, t), NEW W, NEW r, Stem(F, p, W, r)
    PROVE  r = t
<1>1. /\ DOMAIN C \subseteq DOMAIN F /\ LeavesOf(C, U, F)
  BY PartFacts
<1>2. /\ p \in DOMAIN C /\ p \in DOMAIN F /\ p \in Path /\ IsLeaf(C, p) /\ IsLeaf(F, p)
      /\ Around(U, p) /\ Shape(C) /\ Shape(F)
  BY <1>1 DEF Meeting
<1>3. t \in Ancestors(p) /\ r \in Ancestors(p)
  <2>1. StemNodes(C, p, V, t) /\ StemNodes(F, p, W, r)
    BY <1>2, StemShape
  <2> QED BY <2>1 DEF StemNodes
<1>4. /\ t \in Path /\ r \in Path /\ On(t, p) /\ On(r, p)
      /\ Size(t) < Size(p) /\ Size(r) < Size(p)
  BY <1>2, <1>3, AncestorsOn
<1>5. CASE Size(t) <= Size(r) /\ t # r
  <2>1. On(t, r)
    BY <1>2, <1>4, <1>5, OnComparable
  <2>2. Sibling(r) \in DOMAIN C /\ IsPlaceholder(C, Sibling(r)) /\ Size(r) >= 2
    BY <1>2, <1>3, <1>5, <2>1, StemHigher
  <2>3. Size(r) # 0
    BY <1>4, <2>2
  <2>4. Sibling(r) \notin U
    BY <1>2, <1>4, <2>3 DEF Around
  <2>5. IsPlaceholder(F, Sibling(r))
    BY <1>1, <2>2, <2>4, SamePlaceholder
  <2>6. Size(r) >= 2 => ~IsPlaceholder(F, Sibling(r))
    BY DEF Stem
  <2> QED BY <2>2, <2>5, <2>6
<1>6. CASE Size(r) <= Size(t) /\ t # r
  <2>1. On(r, t)
    BY <1>2, <1>4, <1>6, OnComparable
  <2>2. Sibling(t) \in DOMAIN F /\ IsPlaceholder(F, Sibling(t)) /\ Size(t) >= 2
    BY <1>2, <1>3, <1>6, <2>1, StemHigher
  <2>3. Size(t) # 0
    BY <1>4, <2>2
  <2>4. Sibling(t) \notin U
    BY <1>2, <1>4, <2>3 DEF Around
  <2>5. t \in DOMAIN C
    BY <1>2, <1>4 DEF Shape
  <2>6. Sibling(t) \in DOMAIN C
    BY <1>2, <1>4, <2>3, <2>5, SiblingIn
  <2>7. IsPlaceholder(C, Sibling(t))
    BY <1>1, <2>2, <2>4, <2>6, SamePlaceholder
  <2>8. Size(t) >= 2 => ~IsPlaceholder(C, Sibling(t))
    BY DEF Stem
  <2> QED BY <2>2, <2>7, <2>8
<1> QED BY <1>4, <1>5, <1>6

\* The nodes below it are dropped in both trees.
LEMMA NearlyMerged ==
    ASSUME NEW C, NEW U, NEW F, NEW tx \in BOOLEAN, Knows(C, U, F, tx), NEW p, Meeting(C, U, F, p),
           NEW V, NEW t, Stem(C, p, V, t), NEW W, Stem(F, p, W, t),
           NEW S, Shape(S), Pruned(C, S, p, t, tx),
           NEW gt \in BOOLEAN, NEW G, Shape(G), Pruned(F, G, p, t, gt)
    PROVE  Nearly(S, U, G, tx, t)
<1> DEFINE s == Sibling(p)
<1>1. /\ \A q : q \in DOMAIN S <=> q \in DOMAIN C /\ t \notin Ancestors(q)
      /\ \A q : q \in DOMAIN G <=> q \in DOMAIN F /\ t \notin Ancestors(q)
      /\ \A q \in DOMAIN S \ {t} : S[q] = C[q]
      /\ \A q \in DOMAIN G \ {t} : G[q] = F[q]
      /\ S[t].key = C[s].key /\ S[t].values = C[s].values /\ S[t].label = C[s].label
      /\ G[t].key = F[s].key /\ G[t].values = F[s].values /\ G[t].label = F[s].label
  BY DEF Pruned
<1>2. /\ Closed(C, U) /\ U \subseteq DOMAIN C /\ DOMAIN C \subseteq DOMAIN F
      /\ Root \in DOMAIN C /\ C[Root].backup = {}
      /\ LeavesOf(C, U, F) /\ InnerOf(C, U, F, tx) /\ LabelsOf(C, U, F)
  BY PartFacts
<1>3. /\ p \in DOMAIN C /\ p \notin U /\ p \in Path /\ p # Root /\ IsLeaf(C, p) /\ IsLeaf(F, p)
      /\ Around(U, p) /\ Shape(C) /\ Shape(F) /\ Root \notin U /\ p \in DOMAIN F
  BY <1>2 DEF Meeting
<1>4. /\ t \in DOMAIN C /\ t \in Path /\ t \in Ancestors(p) /\ On(t, p) /\ s \in DOMAIN C /\ IsLeaf(C, s)
      /\ On(t, s) /\ t # s
  BY <1>3, StemShape DEF StemNodes
<1> HIDE DEF s
<1>5. s \notin U
  BY <1>3, <1>4, StemKnown
<1>6. IsLeaf(F, s) /\ C[s].key = F[s].key /\ SameAt(C, F, s)
  BY <1>2, <1>4, <1>5 DEF LeavesOf
<1>7. t \notin U
  BY <1>3, <1>4 DEF Around
<1>8. t # Root
  BY RootFacts DEF Stem
<1>9. t \notin Ancestors(t) /\ t \in DOMAIN S
  BY <1>1, <1>4, AncestorsOn
<1>10. ASSUME NEW q \in DOMAIN S
       PROVE  /\ q \in Path /\ q \in DOMAIN C /\ q \in DOMAIN F /\ q \in DOMAIN G
              /\ q # t => /\ IsLeaf(S, q) <=> IsLeaf(C, q)
                          /\ IsLeaf(G, q) <=> IsLeaf(F, q)
              /\ q = t => IsLeaf(S, q) /\ IsLeaf(G, q)
  <2>1. q \in Path /\ q \in DOMAIN C /\ q \in DOMAIN F /\ q \in DOMAIN G /\ t \notin Ancestors(q)
    BY <1>1, <1>2 DEF Shape
  <2>2. t \in Ancestors(Child(q, 0)) <=> t = q
    BY <2>1, AncestorsChild DEF Bit
  <2> QED BY <1>1, <2>1, <2>2 DEF IsLeaf
<1>11. Closed(S, U)
  <2>1. ASSUME NEW q \in U
        PROVE  q \in DOMAIN S
    <3>1. q \in DOMAIN C /\ q \in Path
      BY <1>2, <1>3 DEF Shape
    <3>2. t \notin Ancestors(q)
      <4> SUFFICES ASSUME t \in Ancestors(q) PROVE FALSE
        OBVIOUS
      <4>1. On(t, q) /\ Size(t) < Size(q)
        BY <3>1, AncestorsOn
      <4>2. q # t
        BY <1>4, <4>1
      <4> QED BY <1>3, <3>1, <4>1, <4>2, StemKnown
    <3> QED BY <1>1, <3>1, <3>2
  <2> QED BY <1>1, <1>2, <2>1 DEF Closed
<1>12. LeavesOf(S, U, G)
  <2> SUFFICES ASSUME NEW q \in DOMAIN S \ U, IsLeaf(S, q)
      PROVE  IsLeaf(G, q) /\ S[q].key = G[q].key /\ SameAt(S, G, q)
    BY DEF LeavesOf
  <2>1. CASE q = t
    BY <1>1, <1>6, <1>10, <2>1 DEF SameAt
  <2>2. CASE q # t
    <3>1. q \in DOMAIN C \ U /\ IsLeaf(C, q)
      BY <1>10, <2>2
    <3>2. IsLeaf(F, q) /\ C[q].key = F[q].key /\ SameAt(C, F, q)
      BY <1>2, <3>1 DEF LeavesOf
    <3>3. S[q] = C[q] /\ G[q] = F[q]
      BY <1>1, <1>10, <2>2
    <3> QED BY <1>10, <2>2, <3>2, <3>3 DEF SameAt
  <2> QED BY <2>1, <2>2
<1>13. ASSUME NEW q \in DOMAIN S \ U, ~IsLeaf(S, q), ~SameAt(S, G, q)
       PROVE  tx /\ Mendable(S, U, q)
  <2>1. q # t /\ q \in DOMAIN C \ U /\ ~IsLeaf(C, q) /\ q \in Path
    BY <1>10, <1>13
  <2>2. S[q] = C[q] /\ G[q] = F[q]
    BY <1>1, <1>10, <2>1
  <2>3. ~SameAt(C, F, q)
    BY <1>13, <2>2 DEF SameAt
  <2>4. tx /\ Mendable(C, U, q)
    BY <1>2, <2>1, <2>3 DEF InnerOf
  <2>5. ASSUME NEW a \in Ancestors(q) \cup {q}
        PROVE  S[a].inconsistent
    <3>1. C[a].inconsistent
      BY <2>4 DEF Mendable, Marks
    <3>2. a \in DOMAIN S
      BY <2>1, AncestorsIn
    <3>3. a # t
      BY <1>1, <2>1
    <3> QED BY <1>1, <3>1, <3>2, <3>3
  <2> QED BY <2>4, <2>5 DEF Mendable, Marks
<1>14. LabelsOf(S, U, G)
  <2> SUFFICES ASSUME NEW q \in U PROVE S[q].label = G[q].label
    BY DEF LabelsOf
  <2>1. q \in DOMAIN S /\ q # t /\ q \in DOMAIN G
    BY <1>7, <1>10, <1>11 DEF Closed
  <2>2. C[q].label = F[q].label
    BY <1>2 DEF LabelsOf
  <2> QED BY <1>1, <2>1, <2>2
<1>15. S[Root].backup = {}
  <2>1. Root \in DOMAIN S
    BY ShapeRoot
  <2> QED BY <1>1, <1>2, <1>8, <2>1
<1>16. t \in DOMAIN S \ U /\ IsLeaf(S, t) /\ DOMAIN S \subseteq DOMAIN G
  BY <1>7, <1>9, <1>10
<1>17. Around(U, t)
  <2> SUFFICES ASSUME NEW a \in Path, On(a, t)
      PROVE  a \notin U /\ (Size(a) # 0 => Sibling(a) \notin U)
    BY DEF Around
  <2>1. On(a, p)
    BY <1>3, <1>4, OnTransitive
  <2> QED BY <1>3, <2>1 DEF Around
<1>18. \A q \in DOMAIN S \ U : ~IsLeaf(S, q) /\ ~SameAt(S, G, q) /\ q \notin Ancestors(t) =>
          tx /\ Mendable(S, U, q)
  BY <1>13
<1> QED BY <1>3, <1>11, <1>12, <1>14, <1>15, <1>16, <1>17, <1>18 DEF Nearly

\* So both trees stay in step.
LEMMA KnowsMerged ==
    ASSUME NEW C, NEW U, NEW F, NEW tx \in BOOLEAN, Knows(C, U, F, tx), NEW p, Meeting(C, U, F, p),
           NEW V, NEW t, Stem(C, p, V, t), NEW W, NEW r, Stem(F, p, W, r),
           NEW N, Merged(C, N, p, t, tx),
           NEW gt \in BOOLEAN, ~gt, NEW M, Merged(F, M, p, r, gt)
    PROVE  Knows(N, U, M, tx)
<1>1. r = t
  BY SameStem
<1>2. PICK S : Pruned(C, S, p, t, tx) /\ Shape(S) /\ Lifted(S, N, t, tx)
  BY DEF Merged
<1>3. PICK G : Pruned(F, G, p, t, gt) /\ Shape(G) /\ Lifted(G, M, t, gt)
  BY <1>1 DEF Merged
<1>4. Nearly(S, U, G, tx, t)
  BY <1>1, <1>2, <1>3, NearlyMerged
<1>5. Sound(C) /\ p \in DOMAIN C /\ Shape(C) /\ IsLeaf(C, p)
  BY PartFacts DEF Meeting
<1>6. t \in DOMAIN C /\ Sibling(p) \in DOMAIN C
  BY <1>5, StemShape DEF StemNodes
<1>7. C[Sibling(p)].key \in Keys \cup {NoKey}
  BY <1>5, <1>6 DEF Sound, NodeOK
<1>8. Sound(S)
  BY <1>2, <1>5, <1>6, <1>7, PrunedSound
<1>9. Sound(N)
  BY <1>2, <1>8, LiftedKeeps
<1> QED BY <1>2, <1>3, <1>4, <1>9, LiftedKnows

-----------------------------------------------------------------------------
(* The calls on a partial tree and on the full one *)

\* The full tree: nothing out of date, nothing backed up.
Calm(F) == Pure(F) /\ Sound(F) /\ Clean(F)

\* What the lemmas on the calls need of the full tree.
LEMMA CalmFacts ==
    ASSUME NEW F, Calm(F), NEW gt \in BOOLEAN
    PROVE  /\ Regular(F) /\ Shape(F) /\ Nodes(F) /\ Sound(F) /\ Clean(F) /\ Keyed(F)
           /\ FreshLeaves(F) /\ Marked(F, gt) /\ \A q \in DOMAIN F : UpToDate(F, q)
  BY DEF Calm, Pure, Sound, Regular, Marked

\* What a call outside a transaction leaves.
LEMMA CalmAgain ==
    ASSUME NEW M, Regular(M), Sound(M), Clean(M), FreshLeaves(M), NEW gt \in BOOLEAN, ~gt, Marked(M, gt)
    PROVE  Calm(M)
  BY DEF Calm, Pure, Marked

\* An Add that succeeds, outside a transaction, on the full tree.
LEMMA CalmAdd ==
    ASSUME NEW F, Calm(F), NEW k \in Keys, F[Landing(F, k)].key # k, NEW v, NEW gt \in BOOLEAN, ~gt
    PROVE  LET M == Added(F, k, v, gt)
           IN  Calm(M) /\ Contents(M) = WithKey(Contents(F), k, v)
<1> DEFINE p == Landing(F, k)
           M == Added(F, k, v, gt)
<1>1. /\ Regular(F) /\ Shape(F) /\ Nodes(F) /\ Sound(F) /\ Clean(F)
      /\ FreshLeaves(F) /\ Marked(F, gt)
  BY CalmFacts
<1>2. /\ p \in DOMAIN F /\ IsLeaf(F, p)
      /\ \/ F[p].key = NoKey /\ Rewritten(F, M, p, k, v, gt)
         \/ /\ F[p].key \in Keys /\ Forks(p, k, F[p].key)
            /\ Divided(F, M, p, k, v, gt)
      /\ Regular(M)
  BY <1>1, AddedStep
<1>3. Contents(M) = WithKey(Contents(F), k, v)
  BY <1>1, AddedContents
<1>4. k # NoKey
  BY KeyAssumption
<1> HIDE DEF p, M
<1>5. CASE F[p].key = NoKey /\ Rewritten(F, M, p, k, v, gt)
  <2>1. Clean(M) /\ Sound(M)
    BY <1>1, <1>2, <1>5, CleanRewritten
  <2>2. k = NoKey => v = PlaceholderValues
    BY <1>4
  <2>3. Marked(M, gt) /\ FreshLeaves(M)
    BY <1>1, <1>2, <1>5, <2>2, MarkedRewritten
  <2> QED BY <1>2, <1>3, <2>1, <2>3, CalmAgain DEF M
<1>6. CASE /\ F[p].key \in Keys /\ Forks(p, k, F[p].key)
           /\ Divided(F, M, p, k, v, gt)
  <2>1. Clean(M) /\ Sound(M)
    BY <1>1, <1>2, <1>6, CleanDivided
  <2>2. Marked(M, gt) /\ FreshLeaves(M)
    BY <1>1, <1>2, <1>6, MarkedDivided
  <2> QED BY <1>2, <1>3, <2>1, <2>2, CalmAgain DEF M
<1> QED BY <1>2, <1>5, <1>6

\* A Set likewise.
LEMMA CalmSet ==
    ASSUME NEW F, Calm(F), NEW k \in Keys, F[Landing(F, k)].key = k, NEW v, NEW gt \in BOOLEAN, ~gt
    PROVE  LET M == Written(F, k, v, gt)
           IN  Calm(M) /\ Contents(M) = [Contents(F) EXCEPT ![k] = Overwrite(Contents(F)[k], v)]
<1> DEFINE p == Landing(F, k)
           M == Written(F, k, v, gt)
           x == Overwrite(F[p].values, v)
<1>1. /\ Regular(F) /\ Shape(F) /\ Nodes(F) /\ Sound(F) /\ Clean(F)
      /\ FreshLeaves(F) /\ Marked(F, gt)
  BY CalmFacts
<1>2. p \in DOMAIN F /\ IsLeaf(F, p) /\ Rewritten(F, M, p, k, x, gt) /\ Regular(M)
  BY <1>1, WrittenStep
<1>3. Contents(M) = [Contents(F) EXCEPT ![k] = Overwrite(Contents(F)[k], v)]
  BY <1>1, WrittenContents
<1>4. k # NoKey
  BY KeyAssumption
<1> HIDE DEF p, M, x
<1>5. Clean(M) /\ Sound(M)
  BY <1>1, <1>2, CleanRewritten
<1>6. k = NoKey => x = PlaceholderValues
  BY <1>4
<1>7. Marked(M, gt) /\ FreshLeaves(M)
  BY <1>1, <1>2, <1>6, MarkedRewritten
<1> QED BY <1>2, <1>3, <1>5, <1>7, CalmAgain DEF M

\* A Remove likewise.
LEMMA CalmRemove ==
    ASSUME NEW F, Calm(F), NEW k \in Keys, F[Landing(F, k)].key = k, NEW D, NEW gt \in BOOLEAN, ~gt
    PROVE  LET M == Removed(F, D, k, gt).tree
           IN  Calm(M) /\ Contents(M) = WithoutKey(Contents(F), k)
<1> DEFINE p == Landing(F, k)
           M == Removed(F, D, k, gt).tree
           E == Removed(F, D, k, gt).detached
<1>1. /\ Regular(F) /\ Shape(F) /\ Nodes(F) /\ Sound(F) /\ Clean(F)
      /\ FreshLeaves(F) /\ Marked(F, gt)
  BY CalmFacts
<1>2. p \in DOMAIN F /\ IsLeaf(F, p) /\ Cuts(F, D, M, E, p, gt) /\ Regular(M)
  BY <1>1, RemovedStep
<1>3. Contents(M) = WithoutKey(Contents(F), k)
  BY <1>1, RemovedContents
<1> HIDE DEF p, M, E
<1>4. CASE Rewritten(F, M, p, NoKey, PlaceholderValues, gt)
  <2>1. Clean(M) /\ Sound(M)
    BY <1>1, <1>2, <1>4, CleanRewritten
  <2>2. Marked(M, gt) /\ FreshLeaves(M)
    BY <1>1, <1>2, <1>4, MarkedRewritten
  <2> QED BY <1>2, <1>3, <2>1, <2>2, CalmAgain DEF M
<1>5. ASSUME NEW U, NEW t, Stem(F, p, U, t), Merged(F, M, p, t, gt), Released(F, D, E, p, U, gt)
      PROVE  Calm(M)
  <2>1. Clean(M) /\ Sound(M)
    BY <1>1, <1>2, <1>5, CleanMerged
  <2>2. Marked(M, gt) /\ FreshLeaves(M)
    BY <1>1, <1>2, <1>5, MarkedMerged
  <2> QED BY <1>2, <2>1, <2>2, CalmAgain
<1> QED BY <1>2, <1>3, <1>4, <1>5 DEF Cuts, M

\* In a transaction a call marks the root.
LEMMA RootMarked ==
    ASSUME NEW S, NEW N, NEW r \in Path, r # Root, NEW tx, Lifted(S, N, r, tx), Root \in DOMAIN S, tx
    PROVE  N[Root].inconsistent
<1>1. Size(r) # 0
  BY RootOnly
<1>2. Size(r) > 0 /\ Size(Root) = 0 /\ On(Root, r) /\ Root \in Path
  BY <1>1, OnSelf, RootFacts
<1>3. Root \in Ancestors(r)
  BY <1>2, AncestorsOn
<1> QED BY <1>3 DEF Lifted

\* What N, which a call made of C, has in common with M, which the same call
\* made of the full tree.
Carried(C, U, N, M, tx) ==
    /\ Knows(N, U, M, tx)
    /\ tx => N[Root].inconsistent
    /\ ~tx /\ Clean(C) => Clean(N)
    /\ Shape(N)

\* A part with a known root has the shape of a tree.
LEMMA KnowsShape ==
    ASSUME NEW C, NEW U, NEW F, NEW tx, Knows(C, U, F, tx), Root \notin U
    PROVE  Shape(C)
  BY PartFacts

\* Carried, for a leaf that is written.
LEMMA CarriedRewritten ==
    ASSUME NEW C, NEW U, NEW F, NEW tx \in BOOLEAN, Knows(C, U, F, tx), NEW p, Meeting(C, U, F, p),
           NEW k \in Keys \cup {NoKey}, NEW v, NEW N, Rewritten(C, N, p, k, v, tx),
           NEW gt \in BOOLEAN, ~gt, NEW M, Rewritten(F, M, p, k, v, gt)
    PROVE  Carried(C, U, N, M, tx)
<1>1. Knows(N, U, M, tx)
  BY KnowsRewritten
<1>2. Root \notin U /\ p \in DOMAIN C /\ p \in Path /\ p # Root /\ Shape(C) /\ Sound(C)
  BY PartFacts DEF Meeting
<1>3. Shape(N)
  BY <1>1, <1>2, KnowsShape
<1>4. ASSUME tx PROVE N[Root].inconsistent
  <2>1. PICK S : Rewrites(C, S, p, k, v, tx) /\ Lifted(S, N, p, tx)
    BY DEF Rewritten
  <2>2. Root \in DOMAIN S
    BY <1>2, <2>1, ShapeRoot DEF Rewrites
  <2> QED BY <1>2, <1>4, <2>1, <2>2, RootMarked
<1>5. ASSUME ~tx, Clean(C) PROVE Clean(N)
  BY <1>2, <1>5, CleanRewritten
<1> QED BY <1>1, <1>3, <1>4, <1>5 DEF Carried

\* Carried, for a leaf that is pushed down.
LEMMA CarriedDivided ==
    ASSUME NEW C, NEW U, NEW F, NEW tx \in BOOLEAN, Knows(C, U, F, tx), NEW p, Meeting(C, U, F, p),
           NEW k \in Keys, F[p].key \in Keys, Forks(p, k, F[p].key), NEW v,
           NEW N, Divided(C, N, p, k, v, tx),
           NEW gt \in BOOLEAN, ~gt, NEW M, Divided(F, M, p, k, v, gt)
    PROVE  Carried(C, U, N, M, tx)
<1>1. Knows(N, U, M, tx)
  BY KnowsDivided
<1>2. /\ Root \notin U /\ p \in DOMAIN C /\ p \in Path /\ p # Root /\ Shape(C) /\ Sound(C)
      /\ IsLeaf(C, p) /\ C[p].key = F[p].key
  BY PartFacts DEF Meeting
<1>3. Shape(N)
  BY <1>1, <1>2, KnowsShape
<1>4. ASSUME tx PROVE N[Root].inconsistent
  <2> DEFINE r == NewHome(k, C[p].key)
  <2>1. PICK S : Pushed(C, S, p, k, v, tx) /\ Shape(S) /\ Lifted(S, N, r, tx)
    BY DEF Divided
  <2>2. Root \in DOMAIN S
    BY <2>1, ShapeRoot
  <2>3. r \in Below(p, k, C[p].key)
    BY <1>2, HomeFacts
  <2> HIDE DEF r
  <2>4. r \in Path /\ Size(r) # 0
    BY <1>2, <2>3, BelowMember
  <2>5. r # Root
    BY <2>4, RootFacts
  <2> QED BY <1>4, <2>1, <2>2, <2>4, <2>5, RootMarked
<1>5. ASSUME ~tx, Clean(C) PROVE Clean(N)
  BY <1>2, <1>5, CleanDivided
<1> QED BY <1>1, <1>3, <1>4, <1>5 DEF Carried

\* Carried, for nodes that are dropped.
LEMMA CarriedMerged ==
    ASSUME NEW C, NEW U, NEW F, NEW tx \in BOOLEAN, Knows(C, U, F, tx), NEW p, Meeting(C, U, F, p),
           NEW V, NEW t, Stem(C, p, V, t), NEW W, NEW r, Stem(F, p, W, r),
           NEW N, Merged(C, N, p, t, tx), NEW D, NEW E, Released(C, D, E, p, V, tx),
           NEW gt \in BOOLEAN, ~gt, NEW M, Merged(F, M, p, r, gt)
    PROVE  Carried(C, U, N, M, tx)
<1>1. Knows(N, U, M, tx)
  BY KnowsMerged
<1>2. /\ Root \notin U /\ p \in DOMAIN C /\ p \in Path /\ p # Root /\ Shape(C) /\ Sound(C)
      /\ IsLeaf(C, p)
  BY PartFacts DEF Meeting
<1>3. Shape(N)
  BY <1>1, <1>2, KnowsShape
<1>4. ASSUME tx PROVE N[Root].inconsistent
  <2>1. PICK S : Pruned(C, S, p, t, tx) /\ Shape(S) /\ Lifted(S, N, t, tx)
    BY DEF Merged
  <2>2. Root \in DOMAIN S
    BY <2>1, ShapeRoot
  <2>3. t \in Path /\ t # Root
    BY <1>2, StemShape, RootFacts DEF StemNodes, Stem
  <2> QED BY <1>4, <2>1, <2>2, <2>3, RootMarked
<1>5. ASSUME ~tx, Clean(C) PROVE Clean(N)
  BY <1>2, <1>5, CleanMerged
<1> QED BY <1>1, <1>3, <1>4, <1>5 DEF Carried

-----------------------------------------------------------------------------
(* Calls on a tree of which every node is known *)

\* As Good, with what is out of date marked although values slices may be
\* shared: the values that Rollback brings back are left open.
Sane(T, D, B, tx) == Good(Whatever, T, D, B, tx) /\ Marked(T, tx) /\ FreshLeaves(T)

LEMMA SaneParts ==
    ASSUME NEW T, NEW D, NEW B, NEW tx \in BOOLEAN, Sane(T, D, B, tx)
    PROVE  /\ Regular(T) /\ Shape(T) /\ Nodes(T) /\ Marked(T, tx) /\ FreshLeaves(T)
           /\ Good(Whatever, T, D, B, tx)
BY GoodParts DEF Sane

LEMMA SaneAdd ==
    ASSUME NEW T, NEW D, NEW B, NEW tx \in BOOLEAN, tx, Sane(T, D, B, tx), NEW k \in Keys,
           T[Landing(T, k)].key # k, NEW v
    PROVE  Sane(Added(T, k, v, tx), D, B, tx)
<1> DEFINE N == Added(T, k, v, tx)
           p == Landing(T, k)
<1>1. Regular(T) /\ Shape(T) /\ Nodes(T) /\ Marked(T, tx) /\ FreshLeaves(T) /\ Good(Whatever, T, D, B, tx)
  BY SaneParts
<1>2. Good(Whatever, N, D, IF tx THEN B ELSE N, tx)
  BY <1>1, GoodAdd
<1>3. /\ p \in DOMAIN T /\ IsLeaf(T, p)
      /\ \/ T[p].key = NoKey /\ Rewritten(T, N, p, k, v, tx)
         \/ /\ T[p].key \in Keys /\ Forks(p, k, T[p].key)
            /\ Divided(T, N, p, k, v, tx)
  BY <1>1, AddedStep
<1> HIDE DEF N, p
<1>4. Marked(N, tx) /\ FreshLeaves(N)
  <2>1. CASE Rewritten(T, N, p, k, v, tx)
    BY <1>1, <1>3, <2>1, MarkedRewritten, KeyAssumption
  <2>2. CASE T[p].key \in Keys /\ Forks(p, k, T[p].key) /\ Divided(T, N, p, k, v, tx)
    BY <1>1, <1>3, <2>2, MarkedDivided
  <2> QED BY <1>3, <2>1, <2>2
<1>5. Sane(N, D, B, tx)
  BY <1>2, <1>4 DEF Sane
<1> QED BY <1>5 DEF N

LEMMA SaneSet ==
    ASSUME NEW T, NEW D, NEW B, NEW tx \in BOOLEAN, tx, Sane(T, D, B, tx), NEW k \in Keys,
           T[Landing(T, k)].key = k, NEW upd
    PROVE  Sane(Written(T, k, upd, tx), WrittenDetached(T, D, k, upd), B, tx)
<1> DEFINE N == Written(T, k, upd, tx)
           E == WrittenDetached(T, D, k, upd)
           p == Landing(T, k)
           v == Overwrite(T[p].values, upd)
<1>1. Regular(T) /\ Shape(T) /\ Nodes(T) /\ Marked(T, tx) /\ FreshLeaves(T) /\ Good(Whatever, T, D, B, tx)
  BY SaneParts
<1>2. Good(Whatever, N, E, IF tx THEN B ELSE N, tx)
  <2>1. k \in Keys \cup {NoKey}
    OBVIOUS
  <2> QED BY <1>1, <2>1, GoodSet
<1>3. p \in DOMAIN T /\ IsLeaf(T, p) /\ Rewritten(T, N, p, k, v, tx)
  <2>1. k \in Keys \cup {NoKey}
    OBVIOUS
  <2> QED BY <1>1, <2>1, WrittenStep
<1> HIDE DEF N, E, p, v
<1>4. Marked(N, tx) /\ FreshLeaves(N)
  BY <1>1, <1>3, MarkedRewritten, KeyAssumption
<1>5. Sane(N, E, B, tx)
  BY <1>2, <1>4 DEF Sane
<1> QED BY <1>5 DEF N, E

LEMMA SaneRemove ==
    ASSUME NEW T, NEW D, NEW B, NEW tx \in BOOLEAN, tx, Sane(T, D, B, tx), NEW k \in Keys,
           T[Landing(T, k)].key = k
    PROVE  Sane(Removed(T, D, k, tx).tree, Removed(T, D, k, tx).detached, B, tx)
<1> DEFINE N == Removed(T, D, k, tx).tree
           E == Removed(T, D, k, tx).detached
           p == Landing(T, k)
<1>1. Regular(T) /\ Shape(T) /\ Nodes(T) /\ Marked(T, tx) /\ FreshLeaves(T) /\ Good(Whatever, T, D, B, tx)
  BY SaneParts
<1>2. Good(Whatever, N, E, IF tx THEN B ELSE N, tx)
  <2>1. k \in Keys \cup {NoKey}
    OBVIOUS
  <2> QED BY <1>1, <2>1, GoodRemove
<1>3. p \in DOMAIN T /\ IsLeaf(T, p) /\ Cuts(T, D, N, E, p, tx)
  <2>1. k \in Keys \cup {NoKey}
    OBVIOUS
  <2> QED BY <1>1, <2>1, RemovedStep
<1> HIDE DEF N, E, p
<1>4. Marked(N, tx) /\ FreshLeaves(N)
  <2>1. CASE Rewritten(T, N, p, NoKey, PlaceholderValues, tx)
    BY <1>1, <1>3, <2>1, MarkedRewritten
  <2>2. ASSUME NEW U, NEW t, Stem(T, p, U, t), Merged(T, N, p, t, tx)
        PROVE  Marked(N, tx) /\ FreshLeaves(N)
    BY <1>1, <1>3, <2>2, MarkedMerged
  <2> QED BY <1>3, <2>1, <2>2 DEF Cuts
<1>5. Sane(N, E, B, tx)
  BY <1>2, <1>4 DEF Sane
<1> QED BY <1>5 DEF N, E

-----------------------------------------------------------------------------
(* A tree of which not every node is known: the end of a transaction and Rollback *)

\* What Rollback needs to bring B back: a tree of which nothing is known has
\* not been touched.
Restorable(any, C, D, U, B) ==
    IF Root \in U THEN C = B /\ Clean(C) /\ DOMAIN D = {} ELSE Undo(any, C, D, B)

\* A full tree F with the associations A, of which C is a part.
PartOf(C, U, A, tx) == \E F : Calm(F) /\ Contents(F) = A /\ Knows(C, U, F, tx)

\* All that is known is true.
Exact(C, U, F) == \A q \in DOMAIN C \ U : SameAt(C, F, q)

\* Outside a transaction nothing is marked, so all that is known is true.
LEMMA KnowsExact ==
    ASSUME NEW C, NEW U, NEW F, NEW tx \in BOOLEAN, ~tx, Knows(C, U, F, tx)
    PROVE  Exact(C, U, F)
  BY DEF Knows, LeavesOf, InnerOf, Exact

\* What is true is true in a transaction and outside.
LEMMA ExactKnows ==
    ASSUME NEW C, NEW U, NEW F, NEW tx, Knows(C, U, F, tx), Exact(C, U, F), NEW ty
    PROVE  Knows(C, U, F, ty)
  BY DEF Knows, InnerOf, Exact

\* The unmarked root, too, means that nothing is out of date.
LEMMA QuietExact ==
    ASSUME NEW C, NEW U, NEW F, NEW tx \in BOOLEAN, Knows(C, U, F, tx), ~C[Root].inconsistent
    PROVE  Exact(C, U, F)
<1> SUFFICES ASSUME NEW q \in DOMAIN C \ U, ~SameAt(C, F, q) PROVE FALSE
  BY DEF Exact
<1>1. LeavesOf(C, U, F) /\ InnerOf(C, U, F, tx) /\ Root \in DOMAIN C
  BY PartFacts
<1>2. Mendable(C, U, q)
  BY <1>1 DEF LeavesOf, InnerOf
<1>3. q \in Path
  <2>1. CASE q = Root
    BY <2>1, RootFacts
  <2>2. CASE q # Root
    <3>1. DOMAIN C # {Root}
      BY <2>2
    <3>2. Shape(C)
      BY <3>1 DEF Knows, Part
    <3> QED BY <3>2 DEF Shape
  <2> QED BY <2>1, <2>2
<1>4. Root \in Ancestors(q) \cup {q}
  <2>1. CASE q = Root
    BY <2>1
  <2>2. CASE q # Root
    <3>1. Size(q) # 0
      BY <1>3, <2>2, RootOnly
    <3>2. Size(Root) < Size(q) /\ On(Root, q) /\ Root \in Path
      BY <1>3, <3>1, RootFacts, OnSelf
    <3> QED BY <1>3, <3>2, AncestorsOn
  <2> QED BY <2>1, <2>2
<1> QED BY <1>2, <1>4 DEF Mendable, Marks

\* In a transaction confirm finds every backup on its way down.
LEMMA UndoneReaches ==
    ASSUME NEW any, NEW C, NEW D, NEW U, NEW B, Restorable(any, C, D, U, B)
    PROVE  Reachables(C)
  BY DEF Restorable, Undo, Clean, Reachables

\* confirm drops the backups and leaves what is known.
LEMMA ConfirmedKnows ==
    ASSUME NEW C, NEW U, NEW F, NEW tx \in BOOLEAN, Knows(C, U, F, tx), Reachables(C)
    PROVE  Knows(Confirmed(C), U, F, tx) /\ Clean(Confirmed(C))
<1> DEFINE N == Confirmed(C)
<1>1. Sound(C) /\ Root \in DOMAIN C
  BY PartFacts
<1>2. /\ SameInside(C, N) /\ Sound(N) /\ Clean(N)
      /\ \A q \in DOMAIN C : N[q].inconsistent = C[q].inconsistent
  BY <1>1, ConfirmedFacts
<1> HIDE DEF N
<1>3. DOMAIN N = DOMAIN C
  BY <1>2 DEF SameInside
<1>4. Part(N, U)
  <2>1. Part(C, U)
    BY DEF Knows
  <2>2. N[Root].backup = {}
    BY <1>1, <1>2, <1>3 DEF Clean
  <2>3. Shape(C) => Shape(N)
    BY <1>3, ShapeSame
  <2> QED BY <1>2, <1>3, <2>1, <2>2, <2>3 DEF Part
<1>5. /\ \A q : IsLeaf(N, q) <=> IsLeaf(C, q)
      /\ \A q \in DOMAIN C : SameAt(N, F, q) <=> SameAt(C, F, q)
  BY <1>2, <1>3 DEF IsLeaf, SameAt, SameInside
<1>6. LeavesOf(N, U, F)
  BY <1>2, <1>3, <1>5 DEF Knows, LeavesOf, SameInside
<1>7. LabelsOf(N, U, F)
  BY <1>2, <1>3 DEF Knows, LabelsOf, SameInside, Part
<1>8. InnerOf(N, U, F, tx)
  <2> SUFFICES ASSUME NEW q \in DOMAIN N \ U, ~IsLeaf(N, q), ~SameAt(N, F, q)
      PROVE  tx /\ Mendable(N, U, q)
    BY DEF InnerOf
  <2>1. q \in DOMAIN C \ U /\ ~IsLeaf(C, q) /\ ~SameAt(C, F, q)
    BY <1>3, <1>5
  <2>2. tx /\ Mendable(C, U, q)
    BY <2>1 DEF Knows, InnerOf
  <2>3. Ancestors(q) \cup {q} \subseteq DOMAIN C
    <3>1. CASE q = Root
      BY <1>1, <3>1, RootFacts, AncestorsOn
    <3>2. CASE q # Root
      <4>1. DOMAIN C # {Root}
        BY <2>1, <3>2
      <4>2. Shape(C)
        BY <4>1 DEF Knows, Part
      <4> QED BY <2>1, <4>2, AncestorsIn
    <3> QED BY <3>1, <3>2
  <2> QED BY <1>2, <2>2, <2>3 DEF Mendable, Marks
<1> QED BY <1>2, <1>3, <1>4, <1>6, <1>7, <1>8 DEF Knows, N

\* A node that fix updates.
Mends(C, U, q) == /\ Marks(C, q) /\ q \notin U
                  /\ ~IsLeaf(C, q) => \A b \in Bit : Child(q, b) \notin U

\* What fix leaves of C in N.
MendedPart(C, U, N) ==
    /\ DOMAIN N = DOMAIN C /\ Sound(N) /\ Clean(N)
    /\ \A q \in DOMAIN C :
          /\ N[q].key = C[q].key
          /\ IsLeaf(C, q) => N[q].values = C[q].values
          /\ Mends(C, U, q) => UpToDate(N, q)
          /\ ~Mends(C, U, q) => SameAt(N, C, q)

\* Updating no node changes nothing.
LEMMA UpdatedNone ==
    ASSUME NEW C, NEW S, S = {}
    PROVE  Updated(C, S) = [p \in DOMAIN C |-> C[p]]
<1> DEFINE N == CHOOSE g : g = [p \in DOMAIN C |-> Turn(C, S, g, p)]
<1>1. \A g, p : Turn(C, S, g, p) = C[p]
  BY DEF Turn
<1>2. [p \in DOMAIN C |-> C[p]] = [p \in DOMAIN C |-> Turn(C, S, [p_1 \in DOMAIN C |-> C[p_1]], p)]
  BY <1>1
<1>3. \E g : g = [p \in DOMAIN C |-> Turn(C, S, g, p)]
  BY <1>2
<1>4. N = [p \in DOMAIN C |-> Turn(C, S, N, p)]
  BY <1>3
<1>5. Updated(C, S) = N
  BY Zenon DEF Updated, Turn
<1> HIDE DEF N
<1> QED BY <1>1, <1>4, <1>5

\* Clearing a mark leaves the rest of a node.
LEMMA KeptNode ==
    ASSUME NEW n, IsNode(n), NodeOK(n), n.backup = {}, NEW m, SameRest(n, m), IsNode(m),
           NEW x, x = m \/ x = [m EXCEPT !.inconsistent = Unmarked]
    PROVE  /\ IsNode(x) /\ x.key = n.key /\ x.backup = {} /\ NodeOK(x)
           /\ x.values = m.values /\ x.label = m.label
<1>1. m.key = n.key /\ m.backup = {} /\ m.inconsistent = n.inconsistent
  BY DEF SameRest
<1>2. n.key \in Keys \cup {NoKey} /\ n.inconsistent \in BOOLEAN
  BY DEF NodeOK
<1>3. CASE x = m
  BY <1>1, <1>2, <1>3 DEF NodeOK
<1>4. CASE x = [m EXCEPT !.inconsistent = Unmarked]
  <2>1. x = Rec(m.key, m.values, m.label, Unmarked, m.backup, m.shares)
    BY <1>4, OneField
  <2>2. /\ IsNode(x) /\ x.key = m.key /\ x.values = m.values /\ x.label = m.label
        /\ x.inconsistent = Unmarked /\ x.backup = m.backup
    BY <2>1, RecFields
  <2>3. Unmarked \in BOOLEAN
    BY DEF Unmarked
  <2> QED BY <1>1, <1>2, <2>2, <2>3 DEF NodeOK
<1> QED BY <1>3, <1>4

\* fix leaves known leaves as they are in the full tree.
LEMMA MendedLeaf ==
    ASSUME NEW F, Calm(F), NEW C, NEW U, NEW tx \in BOOLEAN, Knows(C, U, F, tx),
           NEW N, MendedPart(C, U, N), NEW q \in DOMAIN C \ U, IsLeaf(C, q)
    PROVE  SameAt(N, F, q)
<1>1. IsLeaf(F, q) /\ C[q].key = F[q].key /\ SameAt(C, F, q) /\ q \in DOMAIN F
  BY PartFacts DEF LeavesOf
<1>2. N[q].key = C[q].key /\ N[q].values = C[q].values
  BY DEF MendedPart
<1>3. CASE Mends(C, U, q)
  <2>1. UpToDate(N, q)
    BY <1>3 DEF MendedPart
  <2>2. IsLeaf(N, q)
    BY DEF IsLeaf, MendedPart
  <2>3. UpToDate(F, q)
    BY <1>1, Unmarked \in BOOLEAN, CalmFacts DEF Unmarked
  <2> QED BY <1>1, <1>2, <2>1, <2>2, <2>3 DEF UpToDate, SameAt
<1>4. CASE ~Mends(C, U, q)
  <2>1. SameAt(N, C, q)
    BY <1>4 DEF MendedPart
  <2> QED BY <1>1, <2>1 DEF SameAt
<1> QED BY <1>3, <1>4

\* After fix all that is known is true: the marked nodes that can be updated
\* are, from the leaves upwards, and the others were.
LEMMA MendedExact ==
    ASSUME NEW F, Calm(F), NEW C, NEW U, NEW tx \in BOOLEAN, Knows(C, U, F, tx), Root \notin U,
           NEW N, MendedPart(C, U, N)
    PROVE  Exact(N, U, F)
<1> DEFINE W == {n \in 0..Depth : \A q \in DOMAIN C \ U : Size(q) + n >= Depth => SameAt(N, F, q)}
<1>1. Depth \in Nat \ {0}
  BY KeyAssumption
<1>2. Shape(C) /\ DOMAIN N = DOMAIN C /\ DOMAIN C \subseteq DOMAIN F /\ InnerOf(C, U, F, tx)
  BY PartFacts DEF MendedPart
<1>3. \A q \in DOMAIN C : q \in Path /\ Size(q) \in Nat /\ Size(q) <= Depth
  BY <1>2 DEF Shape
<1>4. \A q \in DOMAIN C \ U : IsLeaf(C, q) => SameAt(N, F, q)
  BY MendedLeaf
<1>5. ASSUME NEW q \in DOMAIN C, ~IsLeaf(C, q), NEW b \in Bit
      PROVE  Child(q, b) \in DOMAIN C /\ Size(Child(q, b)) = Size(q) + 1
  BY <1>2, <1>3, <1>5, ShapeInner, ChildFacts
<1>6. 0 \in W
  <2> SUFFICES ASSUME NEW q \in DOMAIN C \ U, Size(q) + 0 >= Depth PROVE SameAt(N, F, q)
    BY <1>1
  <2>1. IsLeaf(C, q)
    <3> SUFFICES ASSUME ~IsLeaf(C, q) PROVE FALSE
      OBVIOUS
    <3>1. Child(q, 0) \in DOMAIN C /\ Size(Child(q, 0)) = Size(q) + 1
      BY <1>5 DEF Bit
    <3>2. Size(Child(q, 0)) <= Depth
      BY <1>3, <3>1
    <3> QED BY <1>1, <1>3, <3>1, <3>2
  <2> QED BY <1>4, <2>1
<1>7. ASSUME NEW n \in 0..Depth - 1, n \in W
      PROVE  n + 1 \in W
  <2>0. n + 1 \in 0..Depth
    BY <1>1
  <2> SUFFICES ASSUME NEW q \in DOMAIN C \ U, Size(q) + (n + 1) >= Depth, ~IsLeaf(C, q)
      PROVE  SameAt(N, F, q)
    BY <1>4, <2>0
  <2>1. q \in Path /\ q \in DOMAIN F
    BY <1>2, <1>3
  <2>2. CASE Mends(C, U, q)
    <3>1. ASSUME NEW b \in Bit
          PROVE  SameAt(N, F, Child(q, b))
      <4>1. Child(q, b) \in DOMAIN C \ U /\ Size(Child(q, b)) = Size(q) + 1
        BY <1>5, <2>2 DEF Mends
      <4>2. Size(Child(q, b)) + n >= Depth
        BY <1>1, <1>3, <4>1
      <4> QED BY <1>7, <4>1, <4>2
    <3>2. UpToDate(N, q) /\ ~IsLeaf(N, q)
      BY <1>2, <2>2 DEF MendedPart, IsLeaf
    <3>3. UpToDate(F, q)
      BY <2>1, Unmarked \in BOOLEAN, CalmFacts DEF Unmarked
    <3>4. ~IsLeaf(F, q)
      BY <1>2 DEF IsLeaf
    <3>5. SameAt(N, F, Child(q, 0)) /\ SameAt(N, F, Child(q, 1))
      BY <3>1 DEF Bit
    <3> QED BY <3>2, <3>3, <3>4, <3>5 DEF UpToDate, SameAt
  <2>3. CASE ~Mends(C, U, q)
    <3>1. SameAt(N, C, q)
      BY <2>3 DEF MendedPart
    <3>2. SameAt(C, F, q)
      BY <1>2, <2>3 DEF InnerOf, Mends, Mendable
    <3> QED BY <3>1, <3>2 DEF SameAt
  <2> QED BY <2>2, <2>3
<1> HIDE DEF W
<1>8. 0..Depth \subseteq W
  BY <1>1, <1>6, <1>7, Ind!BoundedInduction
<1>9. Depth \in W
  BY <1>1, <1>8
<1>10. ASSUME NEW q \in DOMAIN C \ U
       PROVE  SameAt(N, F, q)
  <2>1. Size(q) + Depth >= Depth
    BY <1>1, <1>3
  <2> QED BY <1>9, <2>1 DEF W
<1> QED BY <1>2, <1>10 DEF Exact

\* confirm and fix.
LEMMA MendedKnows ==
    ASSUME NEW F, Calm(F), NEW C, NEW U, NEW tx \in BOOLEAN, Knows(C, U, F, tx),
           NEW N, MendedPart(C, U, N), NEW ty
    PROVE  Knows(N, U, F, ty) /\ Exact(N, U, F)
<1>1. /\ DOMAIN N = DOMAIN C /\ Sound(N) /\ Clean(N)
      /\ \A q \in DOMAIN C : N[q].key = C[q].key
  BY DEF MendedPart
<1>2. Part(C, U) /\ DOMAIN C \subseteq DOMAIN F /\ LeavesOf(C, U, F) /\ LabelsOf(C, U, F)
  BY DEF Knows
<1>3. Exact(N, U, F)
  <2>1. CASE Root \in U
    BY <1>1, <1>2, <2>1 DEF Exact, Part
  <2>2. CASE Root \notin U
    BY <2>2, MendedExact
  <2> QED BY <2>1, <2>2
<1>4. Part(N, U)
  <2>1. Shape(C) => Shape(N)
    BY <1>1, ShapeSame
  <2> QED BY <1>1, <1>2, <2>1 DEF Part, Clean
<1>5. LeavesOf(N, U, F)
  <2>1. \A q : IsLeaf(N, q) <=> IsLeaf(C, q)
    BY <1>1 DEF IsLeaf
  <2> QED BY <1>1, <1>2, <1>3, <2>1 DEF LeavesOf, Exact
<1>6. LabelsOf(N, U, F)
  <2> SUFFICES ASSUME NEW q \in U PROVE N[q].label = F[q].label
    BY DEF LabelsOf
  <2>1. q \in DOMAIN C /\ ~Mends(C, U, q) /\ C[q].label = F[q].label
    BY <1>2 DEF Part, Mends, LabelsOf
  <2>2. SameAt(N, C, q)
    BY <2>1 DEF MendedPart
  <2> QED BY <2>1, <2>2 DEF SameAt
<1>7. InnerOf(N, U, F, ty)
  BY <1>3 DEF InnerOf, Exact
<1> QED BY <1>1, <1>2, <1>3, <1>4, <1>5, <1>6, <1>7 DEF Knows

\* L has what B has.
LEMMA KnowsRestored ==
    ASSUME NEW B, NEW U, NEW F, NEW tx, Knows(B, U, F, tx), Exact(B, U, F),
           NEW L, DOMAIN L = DOMAIN B, Sound(L), Clean(L),
           \A q \in DOMAIN B : L[q].key = B[q].key /\ L[q].label = B[q].label /\ L[q].values = B[q].values,
           NEW ty
    PROVE  Knows(L, U, F, ty) /\ Exact(L, U, F)
<1>1. /\ U \subseteq DOMAIN B /\ DOMAIN B \subseteq DOMAIN F /\ LeavesOf(B, U, F) /\ LabelsOf(B, U, F)
      /\ Part(B, U)
  BY PartFacts DEF Knows
<1>2. Part(L, U)
  <2>1. IF Root \in U THEN DOMAIN L = {Root} ELSE Shape(L)
    BY <1>1 DEF Part, Shape
  <2> QED BY <1>1, <2>1 DEF Part, Clean
<1>3. Exact(L, U, F)
  BY DEF Exact, SameAt
<1>4. LeavesOf(L, U, F)
  <2> SUFFICES ASSUME NEW q \in DOMAIN L \ U, IsLeaf(L, q)
      PROVE  IsLeaf(F, q) /\ L[q].key = F[q].key /\ SameAt(L, F, q)
    BY DEF LeavesOf
  <2>1. IsLeaf(B, q) /\ q \in DOMAIN B \ U
    BY DEF IsLeaf
  <2> QED BY <1>1, <1>3, <2>1 DEF LeavesOf, Exact
<1>5. LabelsOf(L, U, F)
  BY <1>1 DEF LabelsOf
<1>6. InnerOf(L, U, F, ty)
  BY <1>3 DEF InnerOf, Exact
<1> QED BY <1>1, <1>2, <1>3, <1>4, <1>5, <1>6 DEF Knows

\* Of a tree of which nothing is known Rollback has nothing to restore.
LEMMA RolledBackNone ==
    ASSUME NEW C, DOMAIN C = {Root}, Clean(C), NEW D, DOMAIN D = {}
    PROVE  LET L == RolledBack(C, D)
           IN  DOMAIN L = {Root} /\ L[Root] = C[Root]
<1> DEFINE L == RolledBack(C, D)
           old == DOMAIN D \cup {q \in DOMAIN C : \A a \in Ancestors(q) : C[a].backup = {}}
<1>1. \A q : q \in old <=> q = Root
  <2>1. \A a \in Ancestors(Root) : FALSE
    BY RootFacts, AncestorsOn
  <2> QED BY <2>1
<1>2. C[Root].backup = {}
  BY DEF Clean
<1>3. Held(C, D, Root) = C[Root] /\ Restore(C[Root]) = C[Root]
  BY <1>2 DEF Held, Restore
<1>4. L = [q \in old |->
            IF \A a \in Ancestors(q) \cup {q} : Touched(Held(C, D, a))
            THEN Restore(Held(C, D, q)) ELSE Held(C, D, q)]
  BY DEF RolledBack
<1> HIDE DEF L, old
<1>5. DOMAIN L = {Root}
  BY <1>1, <1>4
<1>6. L[Root] = C[Root]
  BY <1>1, <1>3, <1>4
<1> QED BY <1>5, <1>6 DEF L

\* What Rollback brings back is a part of the tree of before.
LEMMA RolledBackKnows ==
    ASSUME NEW any \in BOOLEAN, ~any, NEW C, NEW D, NEW U, NEW B, Restorable(any, C, D, U, B),
           NEW F, NEW tx, Knows(B, U, F, tx), Exact(B, U, F), NEW ty
    PROVE  LET L == RolledBack(C, D) IN Knows(L, U, F, ty) /\ Exact(L, U, F) /\ Clean(L)
<1> DEFINE L == RolledBack(C, D)
<1>1. CASE Root \in U
  <2>1. C = B /\ Clean(C) /\ DOMAIN D = {}
    BY <1>1 DEF Restorable
  <2>2. DOMAIN C = {Root} /\ Sound(C)
    BY <1>1, <2>1 DEF Knows, Part
  <2>3. DOMAIN L = {Root} /\ L[Root] = C[Root]
    BY <2>1, <2>2, RolledBackNone
  <2> HIDE DEF L
  <2>4. Sound(L) /\ Clean(L)
    BY <2>1, <2>2, <2>3 DEF Sound, Nodes, Clean
  <2>5. \A q \in DOMAIN B : L[q].key = B[q].key /\ L[q].label = B[q].label /\ L[q].values = B[q].values
    BY <2>1, <2>2, <2>3
  <2>6. DOMAIN L = DOMAIN B
    BY <2>1, <2>2, <2>3
  <2>7. Knows(L, U, F, ty) /\ Exact(L, U, F)
    BY <2>4, <2>5, <2>6, KnowsRestored
  <2> QED BY <2>4, <2>7 DEF L
<1>2. CASE Root \notin U
  <2>1. Undo(any, C, D, B)
    BY <1>2 DEF Restorable
  <2>2. Restored(any, L, B)
    BY <2>1, RollbackRestores
  <2> HIDE DEF L
  <2>3. DOMAIN L = DOMAIN B /\ Sound(L) /\ Clean(L)
    BY <2>2 DEF Restored
  <2>4. \A q \in DOMAIN B : L[q].key = B[q].key /\ L[q].label = B[q].label /\ L[q].values = B[q].values
    BY <2>2 DEF Restored
  <2>5. Knows(L, U, F, ty) /\ Exact(L, U, F)
    BY <2>3, <2>4, KnowsRestored
  <2> QED BY <2>3, <2>5 DEF L
<1> QED BY <1>1, <1>2

\* There is nothing to undo.
LEMMA UndoneStart ==
    ASSUME NEW any \in BOOLEAN, NEW C, NEW U, NEW D, NEW F, NEW tx, Knows(C, U, F, tx),
           Clean(C), DOMAIN D = {}
    PROVE  Restorable(any, C, D, U, C)
<1>1. CASE Root \in U
  BY <1>1 DEF Restorable
<1>2. CASE Root \notin U
  <2>1. Shape(C) /\ Sound(C)
    BY <1>2, PartFacts
  <2>2. Undo(any, C, D, C)
    BY <2>1, UndoStart DEF Clean
  <2> QED BY <1>2, <2>2 DEF Restorable
<1> QED BY <1>1, <1>2

\* In a transaction the root keeps the label it had at Begin: calls only mark it.
LEMMA UndoneRoot ==
    ASSUME NEW any \in BOOLEAN, NEW C, NEW D, NEW U, NEW B, Restorable(any, C, D, U, B),
           Root \in DOMAIN C, C[Root].backup = {}
    PROVE  C[Root].label = B[Root].label
<1>1. CASE Root \in U
  BY <1>1 DEF Restorable
<1>2. CASE Root \notin U
  <2>1. Undo(any, C, D, B)
    BY <1>2 DEF Restorable
  <2>2. Free(C, Root)
    BY RootFacts, AncestorsOn DEF Free
  <2>3. Root \notin DOMAIN D /\ Root \in DOMAIN B
    BY <2>1, <2>2 DEF Undo, Covered, Remembers, Before
  <2>4. OldNode(Held(C, D, Root)) = C[Root]
    BY <2>3 DEF Held, OldNode
  <2> QED BY <2>1, <2>3, <2>4 DEF Undo, Remembers
<1> QED BY <1>1, <1>2

=============================================================================
