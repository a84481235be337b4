------------------------------- MODULE Folding -------------------------------
(***************************************************************************)
(* Induction, and what a fold over a sequence computes, for an arbitrary   *)
(* operator Op.  FoldLeft of the community modules is a recursive function *)
(* on the subsets of the domain of the sequence: that such a function      *)
(* exists is proved here once, and a proof about one of the loops of the   *)
(* code takes an instance with the body of the loop for Op and cites       *)
(* FoldEmpty and FoldStep.                                                 *)
(***************************************************************************)
EXTENDS Naturals, Sequences, SequencesExt, FiniteSetTheorems, WellFoundedInduction, TLAPS

CONSTANT Op(_, _)

Fold(base, s) == FoldLeft(Op, base, s)

-----------------------------------------------------------------------------
(* Induction *)

\* A set of natural numbers that is not empty has a least element.
LEMMA LeastNat ==
    ASSUME NEW T \in SUBSET Nat, T # {}
    PROVE  \E m \in T : \A n \in T : m <= n
<1>1. IsWellFoundedOn(OpToRel(<, Nat), Nat)
  BY NatLessThanWellFounded
<1>2. PICK m \in T : \A n \in T : ~(<<n, m>> \in OpToRel(<, Nat))
  BY <1>1, WFMin
<1>3. \A n \in T : ~(n < m)
  BY <1>2 DEF OpToRel
<1> QED BY <1>3

\* Induction: a set of natural numbers that has 0 and with every number
\* the next one has them all.
LEMMA SetInduction ==
    ASSUME NEW T \in SUBSET Nat, 0 \in T, \A n \in T : n + 1 \in T
    PROVE  T = Nat
<1>1. SUFFICES ASSUME Nat \ T # {} PROVE FALSE
  OBVIOUS
<1>2. PICK m \in Nat \ T : \A n \in Nat \ T : m <= n
  BY <1>1, LeastNat
<1>3. m # 0 /\ m - 1 \in Nat /\ m - 1 \in T
  BY <1>2
<1> QED BY <1>2, <1>3

\* Induction up to a bound.
LEMMA BoundedInduction ==
    ASSUME NEW N \in Nat, NEW T, 0 \in T, \A n \in 0..N - 1 : n \in T => n + 1 \in T
    PROVE  0..N \subseteq T
<1> DEFINE U == {n \in Nat : n <= N => n \in T}
<1>1. U \in SUBSET Nat /\ 0 \in U
  OBVIOUS
<1>2. \A n \in U : n + 1 \in U
  OBVIOUS
<1> HIDE DEF U
<1>3. U = Nat
  BY <1>1, <1>2, SetInduction
<1> QED BY <1>3 DEF U

-----------------------------------------------------------------------------
(* FoldLeft *)

\* The largest element of a set of numbers below a bound.
LEMMA MaxProperty ==
    ASSUME NEW N \in Nat, NEW s \in SUBSET (1..N), s # {}
    PROVE  /\ Max(s) \in s
           /\ \A y \in s : y <= Max(s)
<1> DEFINE U == {n \in Nat : \A y \in s : y <= n}
<1>1. U \in SUBSET Nat /\ U # {}
  OBVIOUS
<1> HIDE DEF U
<1>2. PICK m \in U : \A n \in U : m <= n
  BY <1>1, LeastNat
<1>3. m \in Nat /\ \A y \in s : y <= m
  BY <1>2 DEF U
<1>4. m \in s
  <2>1. SUFFICES ASSUME m \notin s PROVE FALSE
    OBVIOUS
  <2>2. m # 0
    <3>1. PICK y \in s : y \in 1..N
      OBVIOUS
    <3> QED BY <1>3, <3>1
  <2>3. \A y \in s : y \in Nat /\ y # m /\ y <= m
    BY <1>3, <2>1
  <2>4. m - 1 \in U
    BY <1>3, <2>2, <2>3 DEF U
  <2> QED BY <1>2, <1>3, <2>4
<1>5. \E x \in s : \A y \in s : x >= y
  BY <1>3, <1>4
<1> QED BY <1>5 DEF Max

\* The recursion of FoldLeft, for the domain 1..m.
Recursion(f, base, s, m) ==
    f = [d \in SUBSET (1..m) |->
            IF d = {} THEN base ELSE Op(f[d \ {Max(d)}], s[Max(d)])]

LEMMA RecursionExists ==
    ASSUME NEW base, NEW s, NEW N \in Nat
    PROVE  \E f : Recursion(f, base, s, N)
<1> DEFINE T == {m \in Nat : \E f : Recursion(f, base, s, m)}
<1>1. 0 \in T
  <2>1. Recursion([d \in SUBSET (1..0) |-> base], base, s, 0)
    BY DEF Recursion
  <2> QED BY <2>1
<1>2. ASSUME NEW m \in T PROVE m + 1 \in T
  <2>1. m \in Nat
    OBVIOUS
  <2>2. PICK f : Recursion(f, base, s, m)
    OBVIOUS
  <2> DEFINE g == [d \in SUBSET (1..m + 1) |->
                     IF m + 1 \in d THEN Op(f[d \ {m + 1}], s[m + 1]) ELSE f[d]]
  <2>3. ASSUME NEW d \in SUBSET (1..m + 1)
        PROVE  g[d] = IF d = {} THEN base ELSE Op(g[d \ {Max(d)}], s[Max(d)])
    <3>1. CASE d = {}
      <4>1. g[d] = f[{}] /\ {} \in SUBSET (1..m)
        BY <3>1
      <4>2. f[{}] = base
        BY <4>1, <2>2 DEF Recursion
      <4> HIDE DEF g
      <4> QED BY <3>1, <4>1, <4>2
    <3>2. CASE d # {} /\ m + 1 \in d
      <4>1. Max(d) \in d /\ \A y \in d : y <= Max(d)
        BY <3>2, <2>1, MaxProperty
      <4>2. Max(d) = m + 1
        <5>1. Max(d) \in 1..m + 1 /\ m + 1 <= Max(d)
          BY <4>1, <3>2
        <5> QED BY <5>1, <2>1
      <4>3. d \ {m + 1} \in SUBSET (1..m + 1) /\ m + 1 \notin d \ {m + 1}
        OBVIOUS
      <4>4. g[d \ {m + 1}] = f[d \ {m + 1}]
        BY <4>3
      <4> QED BY <3>2, <4>2, <4>4
    <3>3. CASE d # {} /\ m + 1 \notin d
      <4>1. d \in SUBSET (1..m)
        BY <3>3, <2>1
      <4>2. f[d] = Op(f[d \ {Max(d)}], s[Max(d)])
        BY <4>1, <3>3, <2>2 DEF Recursion
      <4>3. d \ {Max(d)} \in SUBSET (1..m + 1) /\ m + 1 \notin d \ {Max(d)}
        BY <3>3
      <4>4. g[d \ {Max(d)}] = f[d \ {Max(d)}]
        BY <4>3
      <4> QED BY <3>3, <4>2, <4>4
    <3> QED BY <3>1, <3>2, <3>3
  <2>4. g = [d \in SUBSET (1..m + 1) |->
                     IF d = {} THEN base ELSE Op(g[d \ {Max(d)}], s[Max(d)])]
    <3> HIDE DEF g
    <3>1. g = [d \in SUBSET (1..m + 1) |-> g[d]]
      BY DEF g
    <3> QED BY <2>3, <3>1, Zenon
  <2> HIDE DEF g
  <2>5. Recursion(g, base, s, m + 1)
    BY <2>4, Zenon DEF Recursion
  <2> QED BY <2>1, <2>5
<1> HIDE DEF T
<1>3. T \in SUBSET Nat
  BY DEF T
<1>4. T = Nat
  BY <1>1, <1>2, <1>3, SetInduction
<1> QED BY <1>4 DEF T

\* The values of a loop: they start at base, and each is Op of the one
\* before and the next element.
Values(g, base, s, N) ==
    /\ g[0] = base
    /\ \A n \in 1..N : g[n] = Op(g[n - 1], s[n])

Agree(s, t, N) == \A n \in 1..N : s[n] = t[n]

\* What FoldLeft computes: the last of these values.
LEMMA FoldValues ==
    ASSUME NEW base, NEW S, NEW s \in Seq(S)
    PROVE  \E g : Values(g, base, s, Len(s)) /\ Fold(base, s) = g[Len(s)]
<1> DEFINE R(f) == f = [d \in SUBSET DOMAIN s |->
                          IF d = {} THEN base ELSE Op(f[d \ {Max(d)}], s[Max(d)])]
           iter == CHOOSE f : R(f)
           g == [n \in 0..Len(s) |-> iter[1..n]]
<1>1. Fold(base, s) = iter[DOMAIN s]
  BY Zenon DEF Fold, FoldLeft, MapThenFoldSet
<1>2. DOMAIN s = 1..Len(s) /\ Len(s) \in Nat
  OBVIOUS
<1>3. \E f : R(f)
  <2>1. PICK f : Recursion(f, base, s, Len(s))
    BY <1>2, RecursionExists
  <2>2. R(f)
    BY <1>2, <2>1, Zenon DEF Recursion
  <2> QED BY <2>2, Zenon
<1>4. R(iter)
  <2> HIDE DEF R
  <2> QED BY <1>3
<1> HIDE DEF iter
<1>5. iter[{}] = base
  BY <1>4
<1>6. ASSUME NEW n \in 1..Len(s) PROVE iter[1..n] = Op(iter[1..n - 1], s[n])
  <2>1. 1..n \in SUBSET (1..Len(s)) /\ n \in 1..n /\ n \in Nat
    BY <1>2
  <2>2. Max(1..n) \in 1..n /\ \A y \in 1..n : y <= Max(1..n)
    BY <2>1, MaxProperty
  <2>3. Max(1..n) = n
    BY <2>1, <2>2
  <2>4. (1..n) \ {n} = 1..n - 1
    BY <2>1
  <2> QED BY <1>2, <1>4, <2>1, <2>3, <2>4
<1>7. g[0] = base
  BY <1>5, <1>2
<1>8. \A n \in 1..Len(s) : g[n] = Op(g[n - 1], s[n])
  BY <1>6, <1>2
<1>9. Fold(base, s) = g[Len(s)]
  BY <1>1, <1>2
<1> HIDE DEF g
<1> QED BY <1>7, <1>8, <1>9 DEF Values

\* The values of two folds that start alike agree as long as the sequences do.
LEMMA ValuesAgree ==
    ASSUME NEW base, NEW g, NEW h, NEW s, NEW t, NEW N \in Nat,
           Values(g, base, s, N), Values(h, base, t, N), Agree(s, t, N)
    PROVE  g[N] = h[N]
<1> DEFINE T == {n \in Nat : g[n] = h[n]}
<1>1. 0 \in T
  BY DEF Values
<1>2. ASSUME NEW n \in 0..N - 1, n \in T PROVE n + 1 \in T
  <2>1. n + 1 \in 1..N /\ (n + 1) - 1 = n /\ n \in Nat
    BY <1>2
  <2>2. g[n + 1] = Op(g[n], s[n + 1]) /\ h[n + 1] = Op(h[n], t[n + 1]) /\ s[n + 1] = t[n + 1]
    BY <2>1 DEF Values, Agree
  <2> QED BY <1>2, <2>1, <2>2
<1> HIDE DEF T
<1>3. 0..N \subseteq T
  BY <1>1, <1>2, BoundedInduction
<1> QED BY <1>3 DEF T

\* A fold over the empty sequence.
THEOREM FoldEmpty ==
    ASSUME NEW base
    PROVE  Fold(base, << >>) = base
<1>1. << >> \in Seq({}) /\ Len(<< >>) = 0
  OBVIOUS
<1> QED BY <1>1, FoldValues DEF Values

\* A fold over a prefix takes one more step with the next element.
THEOREM FoldStep ==
    ASSUME NEW base, NEW S, NEW s \in Seq(S), NEW n \in 1..Len(s)
    PROVE  Fold(base, SubSeq(s, 1, n)) = Op(Fold(base, SubSeq(s, 1, n - 1)), s[n])
<1> DEFINE u == SubSeq(s, 1, n)
           v == SubSeq(s, 1, n - 1)
<1>1. n \in Nat /\ n - 1 \in Nat /\ u \in Seq(S) /\ v \in Seq(S) /\ Len(u) = n /\ Len(v) = n - 1
  OBVIOUS
<1>2. \A k \in 1..n - 1 : u[k] = v[k]
  OBVIOUS
<1>3. u[n] = s[n]
  OBVIOUS
<1> HIDE DEF u, v
<1>4. PICK g : Values(g, base, u, Len(u)) /\ Fold(base, u) = g[Len(u)]
  BY <1>1, FoldValues
<1>5. PICK h : Values(h, base, v, Len(v)) /\ Fold(base, v) = h[Len(v)]
  BY <1>1, FoldValues
<1>6. Values(g, base, u, n - 1) /\ Agree(u, v, n - 1)
  BY <1>1, <1>2, <1>4 DEF Values, Agree
<1>7. g[n - 1] = h[n - 1]
  BY <1>1, <1>5, <1>6, ValuesAgree
<1>8. g[n] = Op(g[n - 1], u[n])
  BY <1>1, <1>4 DEF Values
<1>9. Fold(base, u) = Op(Fold(base, v), u[n])
  BY <1>1, <1>4, <1>5, <1>7, <1>8
<1> QED BY <1>9, <1>3 DEF u, v

\* A fold over a sequence with one more element at its end.
THEOREM FoldAppend ==
    ASSUME NEW base, NEW S, NEW s \in Seq(S), NEW x \in S
    PROVE  Fold(base, Append(s, x)) = Op(Fold(base, s), x)
<1> DEFINE t == Append(s, x)
<1>1. t \in Seq(S) /\ Len(t) = Len(s) + 1 /\ t[Len(t)] = x
  OBVIOUS
<1>2. SubSeq(t, 1, Len(t)) = t /\ SubSeq(t, 1, Len(t) - 1) = s
  OBVIOUS
<1> HIDE DEF t
<1>3. Len(t) \in 1..Len(t)
  BY <1>1
<1>4. Fold(base, SubSeq(t, 1, Len(t))) = Op(Fold(base, SubSeq(t, 1, Len(t) - 1)), t[Len(t)])
  BY <1>1, <1>3, FoldStep
<1> QED BY <1>1, <1>2, <1>4 DEF t

\* A loop stays in a set that its body does not leave.
THEOREM FoldIn ==
    ASSUME NEW base, NEW S, NEW s \in Seq(S), NEW I,
           base \in I, \A v \in I, x \in S : Op(v, x) \in I
    PROVE  Fold(base, s) \in I
<1>1. PICK g : Values(g, base, s, Len(s)) /\ Fold(base, s) = g[Len(s)]
  BY FoldValues
<1> DEFINE T == {n \in Nat : g[n] \in I}
<1>2. 0 \in T
  BY <1>1 DEF Values
<1>3. ASSUME NEW n \in 0..Len(s) - 1, n \in T PROVE n + 1 \in T
  <2>1. n + 1 \in 1..Len(s) /\ (n + 1) - 1 = n /\ n \in Nat /\ Len(s) \in Nat
    OBVIOUS
  <2>2. g[n + 1] = Op(g[n], s[n + 1]) /\ s[n + 1] \in S
    BY <1>1, <2>1 DEF Values
  <2> QED BY <1>3, <2>1, <2>2
<1> HIDE DEF T
<1>4. Len(s) \in Nat
  OBVIOUS
<1>5. 0..Len(s) \subseteq T
  BY <1>2, <1>3, <1>4, BoundedInduction
<1> QED BY <1>1, <1>4, <1>5 DEF T

\* A loop whose value no element changes any more, an error for instance,
\* ends with that value.
THEOREM FoldAbsorbs ==
    ASSUME NEW base, NEW S, NEW s \in Seq(S), NEW m \in 0..Len(s), NEW z,
           \A x \in S : Op(z, x) = z,
           Fold(base, SubSeq(s, 1, m)) = z
    PROVE  Fold(base, s) = z
<1> DEFINE T == {k \in Nat : m + k <= Len(s) => Fold(base, SubSeq(s, 1, m + k)) = z}
<1>1. 0 \in T
  OBVIOUS
<1>2. ASSUME NEW k \in T PROVE k + 1 \in T
  <2> DEFINE n == m + (k + 1)
  <2>1. SUFFICES ASSUME n <= Len(s) PROVE Fold(base, SubSeq(s, 1, n)) = z
    OBVIOUS
  <2>2. n \in 1..Len(s) /\ n - 1 = m + k /\ m + k <= Len(s)
    BY <2>1
  <2>3. Fold(base, SubSeq(s, 1, n - 1)) = z
    BY <2>2
  <2> HIDE DEF n, T
  <2>4. Fold(base, SubSeq(s, 1, n)) = Op(Fold(base, SubSeq(s, 1, n - 1)), s[n]) /\ s[n] \in S
    BY <2>2, FoldStep
  <2> QED BY <2>3, <2>4
<1> HIDE DEF T
<1>3. T \in SUBSET Nat
  BY DEF T
<1>4. T = Nat
  BY <1>1, <1>2, <1>3, SetInduction
<1>5. Len(s) - m \in T /\ m + (Len(s) - m) = Len(s)
  BY <1>4
<1>6. Fold(base, SubSeq(s, 1, Len(s))) = z
  BY <1>5 DEF T
<1>7. SubSeq(s, 1, Len(s)) = s
  OBVIOUS
<1> QED BY <1>6, <1>7

-----------------------------------------------------------------------------
(* Iteration *)

\* N times Op with the same second argument.
Iterate(base, x, N) ==
    LET f[n \in 0..N] == IF n = 0 THEN base ELSE Op(f[n - 1], x)
    IN  f[N]

Iteration(f, base, x, N) == f = [n \in 0..N |-> IF n = 0 THEN base ELSE Op(f[n - 1], x)]

\* The recursion of Iterate has a solution.
LEMMA IterationExists ==
    ASSUME NEW base, NEW x, NEW N \in Nat
    PROVE  \E f : Iteration(f, base, x, N)
<1> DEFINE T == {m \in Nat : \E f : f = [n \in 0..m |-> IF n = 0 THEN base ELSE Op(f[n - 1], x)]}
<1>1. 0 \in T
  <2> DEFINE f == [n \in 0..0 |-> base]
  <2>1. f = [n \in 0..0 |-> IF n = 0 THEN base ELSE Op(f[n - 1], x)]
    OBVIOUS
  <2> HIDE DEF f
  <2> QED BY <2>1
<1>2. ASSUME NEW m \in T PROVE m + 1 \in T
  <2>1. m \in Nat
    OBVIOUS
  <2>2. PICK f : f = [n \in 0..m |-> IF n = 0 THEN base ELSE Op(f[n - 1], x)]
    OBVIOUS
  <2>3. \A n \in 0..m : f[n] = IF n = 0 THEN base ELSE Op(f[n - 1], x)
    BY <2>2
  <2> DEFINE g == [n \in 0..m + 1 |-> IF n = m + 1 THEN Op(f[m], x) ELSE f[n]]
  <2>4. \A n \in 0..m : g[n] = f[n]
    BY <2>1
  <2>5. g[m + 1] = Op(f[m], x)
    BY <2>1
  <2>6. g = [n \in 0..m + 1 |-> g[n]]
    OBVIOUS
  <2> HIDE DEF g
  <2>7. ASSUME NEW n \in 0..m + 1 PROVE g[n] = IF n = 0 THEN base ELSE Op(g[n - 1], x)
    <3>1. CASE n = m + 1
      <4>1. g[n - 1] = f[m] /\ n # 0
        BY <2>1, <2>4, <3>1
      <4> QED BY <2>5, <3>1, <4>1
    <3>2. CASE n # m + 1 /\ n # 0
      <4>1. n \in 0..m /\ n - 1 \in 0..m
        BY <2>1, <3>2
      <4>2. g[n - 1] = f[n - 1]
        BY <2>4, <4>1
      <4>3. f[n] = Op(f[n - 1], x)
        BY <2>3, <3>2, <4>1
      <4> QED BY <2>4, <3>2, <4>1, <4>2, <4>3
    <3>3. CASE n = 0
      BY <2>1, <2>3, <2>4, <3>3
    <3> QED BY <3>1, <3>2, <3>3
  <2>8. g = [n \in 0..m + 1 |-> IF n = 0 THEN base ELSE Op(g[n - 1], x)]
    BY <2>6, <2>7, Zenon
  <2> QED BY <2>1, <2>8
<1> HIDE DEF T
<1>3. T \in SUBSET Nat
  BY DEF T
<1>4. T = Nat
  BY <1>1, <1>2, <1>3, SetInduction
<1> QED BY <1>4 DEF T, Iteration

\* What Op keeps, the iteration does.
LEMMA IterateIn ==
    ASSUME NEW base, NEW x, NEW N \in Nat, NEW I, base \in I, \A y \in I : Op(y, x) \in I
    PROVE  Iterate(base, x, N) \in I
<1> DEFINE p == CHOOSE f : Iteration(f, base, x, N)
<1>1. Iteration(p, base, x, N)
  BY IterationExists
<1>2. Iterate(base, x, N) = p[N]
  BY Zenon DEF Iterate, Iteration
<1> HIDE DEF p
<1>3. \A n \in 0..N : p[n] = IF n = 0 THEN base ELSE Op(p[n - 1], x)
  BY <1>1 DEF Iteration
<1> DEFINE T == {n \in 0..N : p[n] \in I}
<1>4. 0 \in T
  BY <1>3
<1>5. ASSUME NEW n \in 0..N - 1, n \in T PROVE n + 1 \in T
  <2>1. n + 1 \in 0..N /\ n + 1 # 0 /\ (n + 1) - 1 = n
    OBVIOUS
  <2>2. p[n + 1] = Op(p[n], x)
    BY <1>3, <2>1
  <2> QED BY <1>5, <2>1, <2>2
<1> HIDE DEF T
<1>6. 0..N \subseteq T
  BY <1>4, <1>5, BoundedInduction
<1> QED BY <1>2, <1>6 DEF T

-----------------------------------------------------------------------------
(* FoldSet *)

Picked(u) == CHOOSE x \in u : TRUE

\* The subsets of S with at most n elements, and the recursion of FoldSet on
\* them.
Upto(S, n) == {u \in SUBSET S : Cardinality(u) <= n}

SetStep(f, base, u) == IF u = {} THEN base ELSE Op(Picked(u), f[u \ {Picked(u)}])

SetRecursion(f, base, S, n) == f = [u \in Upto(S, n) |-> SetStep(f, base, u)]

LEMMA OneLess ==
    ASSUME NEW S, IsFiniteSet(S), NEW n \in Nat, NEW u \in Upto(S, n + 1), u # {}
    PROVE  /\ Picked(u) \in u /\ u \ {Picked(u)} \in Upto(S, n)
           /\ u \ {Picked(u)} \in Upto(S, n + 1)
<1> DEFINE x == Picked(u)
           w == u \ {x}
<1>1. x \in u
  BY DEF Picked
<1>2. u \in SUBSET S /\ Cardinality(u) <= n + 1
  BY DEF Upto
<1>3. IsFiniteSet(u) /\ Cardinality(u) \in Nat
  BY <1>2, FS_Subset, FS_CardinalityType
<1> HIDE DEF x
<1>4. Cardinality(w) = Cardinality(u) - 1
  BY <1>1, <1>3, FS_RemoveElement
<1>5. w \in SUBSET S
  BY <1>2
<1> HIDE DEF w
<1>6. Cardinality(w) <= n /\ Cardinality(w) <= n + 1
  BY <1>2, <1>3, <1>4
<1>7. w \in Upto(S, n) /\ w \in Upto(S, n + 1)
  BY <1>5, <1>6 DEF Upto
<1> QED BY <1>1, <1>7 DEF w, x

LEMMA SetRecursionExists ==
    ASSUME NEW base, NEW S, IsFiniteSet(S), NEW N \in Nat
    PROVE  \E f : SetRecursion(f, base, S, N)
<1> DEFINE U == {n \in Nat : \E f : SetRecursion(f, base, S, n)}
<1>1. 0 \in U
  <2> DEFINE f == [u \in Upto(S, 0) |-> base]
  <2>1. ASSUME NEW u \in Upto(S, 0)
        PROVE  SetStep(f, base, u) = base
    <3>1. u \in SUBSET S /\ Cardinality(u) <= 0
      BY DEF Upto
    <3>2. IsFiniteSet(u) /\ Cardinality(u) \in Nat
      BY <3>1, FS_Subset, FS_CardinalityType
    <3>3. Cardinality(u) = 0
      BY <3>1, <3>2
    <3>4. u = {}
      BY <3>2, <3>3, FS_EmptySet
    <3> QED BY <3>4 DEF SetStep
  <2>2. f = [u \in Upto(S, 0) |-> SetStep(f, base, u)]
    BY <2>1
  <2> HIDE DEF f
  <2>3. SetRecursion(f, base, S, 0)
    BY <2>2 DEF SetRecursion
  <2> QED BY <2>3
<1>2. ASSUME NEW n \in U
      PROVE  n + 1 \in U
  <2>1. n \in Nat /\ n + 1 \in Nat
    OBVIOUS
  <2>2. PICK f : SetRecursion(f, base, S, n)
    OBVIOUS
  <2> DEFINE m == n + 1
             g == [u \in Upto(S, m) |-> SetStep(f, base, u)]
  <2>3. ASSUME NEW u \in Upto(S, m)
        PROVE  SetStep(g, base, u) = SetStep(f, base, u)
    <3>1. CASE u = {}
      BY <3>1 DEF SetStep
    <3>2. CASE u # {}
      <4> DEFINE w == u \ {Picked(u)}
      <4>1. w \in Upto(S, n) /\ w \in Upto(S, m)
        BY <2>1, <3>2, OneLess
      <4> HIDE DEF w, m
      <4>2. g[w] = SetStep(f, base, w)
        BY <4>1
      <4>3. f[w] = SetStep(f, base, w)
        BY <2>2, <4>1 DEF SetRecursion
      <4> HIDE DEF g
      <4>4. g[w] = f[w]
        BY <4>2, <4>3
      <4> QED BY <3>2, <4>4 DEF SetStep, w
    <3> QED BY <3>1, <3>2
  <2> HIDE DEF m
  <2>4. g = [u \in Upto(S, m) |-> SetStep(g, base, u)]
    BY <2>3
  <2> HIDE DEF g
  <2>5. SetRecursion(g, base, S, m)
    BY <2>4 DEF SetRecursion
  <2> QED BY <2>1, <2>5 DEF m
<1>3. U \in SUBSET Nat
  OBVIOUS
<1> HIDE DEF U
<1>4. U = Nat
  BY <1>1, <1>2, <1>3, SetInduction
<1> QED BY <1>4 DEF U

FoldOver(base, S) == FoldSet(Op, base, S)

\* What FoldSet computes: for the empty set base, and for another set Op of
\* some element and what it computes for the others.
THEOREM FoldSetSteps ==
    ASSUME NEW base, NEW S, IsFiniteSet(S)
    PROVE  \E f : /\ FoldOver(base, S) = f[S]
                  /\ f[{}] = base
                  /\ \A u \in SUBSET S : u # {} =>
                        \E x \in u : f[u] = Op(x, f[u \ {x}])
<1> DEFINE N == Cardinality(S)
           R(f) == f = [u \in SUBSET S |->
                          IF u = {} THEN base
                          ELSE Op(CHOOSE x \in u : TRUE, f[u \ {CHOOSE x \in u : TRUE}])]
           iter == CHOOSE f : R(f)
<1>1. FoldOver(base, S) = iter[S]
  BY Zenon DEF FoldOver, FoldSet, MapThenFoldSet
<1>2. N \in Nat
  BY FS_CardinalityType
<1>3. \A u : u \in Upto(S, N) <=> u \in SUBSET S
  BY FS_Subset DEF Upto
<1>4. Upto(S, N) = SUBSET S
  BY <1>3
<1>5. PICK f : SetRecursion(f, base, S, N)
  BY <1>2, SetRecursionExists
<1>6. ASSUME NEW h
      PROVE  R(h) <=> SetRecursion(h, base, S, N)
  BY <1>4, Zenon DEF SetRecursion, SetStep, Picked
<1> HIDE DEF R
<1>7. R(iter)
  BY <1>5, <1>6
<1> HIDE DEF iter
<1>8. \A u \in SUBSET S : iter[u] = SetStep(iter, base, u)
  BY <1>4, <1>6, <1>7 DEF SetRecursion
<1>9. \A u \in SUBSET S : u # {} => Picked(u) \in u
  BY DEF Picked
<1>10. iter[{}] = base
  BY <1>8 DEF SetStep
<1>11. \A u \in SUBSET S : u # {} => \E x \in u : iter[u] = Op(x, iter[u \ {x}])
  BY <1>8, <1>9 DEF SetStep
<1> QED BY <1>1, <1>10, <1>11

\* Induction over the subsets of a finite set.
THEOREM SubsetInduction ==
    ASSUME NEW S, IsFiniteSet(S), NEW W, {} \in W,
           \A u \in SUBSET S : u # {} /\ (\A x \in u : u \ {x} \in W) => u \in W
    PROVE  SUBSET S \subseteq W
<1> DEFINE T == {n \in Nat : \A u \in SUBSET S : Cardinality(u) = n => u \in W}
<1>1. ASSUME NEW u \in SUBSET S
      PROVE  IsFiniteSet(u) /\ Cardinality(u) \in Nat
  BY FS_Subset, FS_CardinalityType
<1>2. 0 \in T
  BY <1>1, FS_EmptySet
<1>3. ASSUME NEW n \in T PROVE n + 1 \in T
  <2>1. ASSUME NEW u \in SUBSET S, Cardinality(u) = n + 1
        PROVE  u \in W
    <3>1. u # {}
      BY <1>1, <2>1, FS_EmptySet
    <3>2. ASSUME NEW x \in u PROVE u \ {x} \in W
      <4>1. Cardinality(u \ {x}) = Cardinality(u) - 1
        BY <1>1, FS_RemoveElement
      <4>2. Cardinality(u \ {x}) = n
        BY <2>1, <4>1
      <4> QED BY <4>2
    <3> QED BY <3>1, <3>2
  <2> QED BY <2>1
<1>4. T \in SUBSET Nat
  OBVIOUS
<1> HIDE DEF T
<1>5. T = Nat
  BY <1>2, <1>3, <1>4, SetInduction
<1> QED BY <1>1, <1>5 DEF T

=============================================================================
