---------------------------- MODULE PoliciesProofs ----------------------------
(***************************************************************************)
(* Proofs about the evaluation of expressions, of any length and over any  *)
(* identities: the recursion of the parser has a solution, what matches    *)
(* does not depend on the valid identities, and more of them never turn a  *)
(* policy false.                                                           *)
(***************************************************************************)
EXTENDS Policies, TLAPS

\* Only the induction lemmas are used.
Ind == INSTANCE Folding WITH Op <- Token

-----------------------------------------------------------------------------
(* The recursion of the parser *)

Places(e) == Kinds \X (1..Len(e) + 1) \X BOOLEAN

\* A parser calls others at a later token, or at the same one a value.
Measure(e, kind, i) == 2 * (Len(e) + 1 - i) + (IF kind = "sum" THEN 1 ELSE 0)

\* What a parser may answer: a value and a sum take a token at least.
Good(e, kind, i, r) ==
    /\ r \in [ok : BOOLEAN, val : BOOLEAN, next : Nat]
    /\ r.ok => /\ r.next \in 1..Len(e) + 1
               /\ i <= r.next
               /\ kind # "prodK" => i < r.next

\* The calls that are nearer to the end of the expression than m.
GoodBelow(f, e, m) ==
    \A kind \in Kinds, i \in 1..Len(e) + 1, val \in BOOLEAN :
        Measure(e, kind, i) < m => Good(e, kind, i, f[<<kind, i, val>>])

SameBelow(f, g, e, m) ==
    \A kind \in Kinds, i \in 1..Len(e) + 1, val \in BOOLEAN :
        Measure(e, kind, i) < m => f[<<kind, i, val>>] = g[<<kind, i, val>>]

LEMMA MeasureNat ==
    ASSUME NEW S, NEW e \in Seq(S), NEW kind, NEW i \in 1..Len(e) + 1
    PROVE  Measure(e, kind, i) \in Nat
BY DEF Measure

\* Fewer calls are below less.
LEMMA GoodBelowLess ==
    ASSUME NEW S, NEW e \in Seq(S), NEW f, NEW m \in Nat, NEW n \in Nat, n <= m, GoodBelow(f, e, m)
    PROVE  GoodBelow(f, e, n)
<1>1. ASSUME NEW kind \in Kinds, NEW i \in 1..Len(e) + 1, NEW val \in BOOLEAN, Measure(e, kind, i) < n
      PROVE  Good(e, kind, i, f[<<kind, i, val>>])
  <2>1. Measure(e, kind, i) \in Nat
    BY MeasureNat
  <2>2. Measure(e, kind, i) < m
    BY <1>1, <2>1
  <2> QED BY <2>2 DEF GoodBelow
<1> QED BY <1>1 DEF GoodBelow

LEMMA SameBelowLess ==
    ASSUME NEW S, NEW e \in Seq(S), NEW f, NEW g, NEW m \in Nat, NEW n \in Nat, n <= m, SameBelow(f, g, e, m)
    PROVE  SameBelow(f, g, e, n)
<1>1. ASSUME NEW kind \in Kinds, NEW i \in 1..Len(e) + 1, NEW val \in BOOLEAN, Measure(e, kind, i) < n
      PROVE  f[<<kind, i, val>>] = g[<<kind, i, val>>]
  <2>1. Measure(e, kind, i) \in Nat
    BY MeasureNat
  <2>2. Measure(e, kind, i) < m
    BY <1>1, <2>1
  <2> QED BY <2>2 DEF SameBelow
<1> QED BY <1>1 DEF SameBelow

LEMMA MatchGood ==
    ASSUME NEW val \in BOOLEAN, NEW n \in Nat
    PROVE  /\ Match(val, n) \in [ok : BOOLEAN, val : BOOLEAN, next : Nat]
           /\ Match(val, n).ok /\ Match(val, n).val = val /\ Match(val, n).next = n
           /\ NoMatch \in [ok : BOOLEAN, val : BOOLEAN, next : Nat] /\ ~NoMatch.ok
BY DEF Match, NoMatch

\* There are tokens only inside of the expression.
LEMMA TokenInside ==
    ASSUME NEW S, NEW e \in Seq(S), NEW i \in Nat, Token(e, i) \in Ids \cup Operators \cup {"(", ")"}
    PROVE  i \in 1..Len(e)
<1>1. "" \notin Ids \cup Operators \cup {"(", ")"}
  BY IdsAssumption DEF Operators
<1>2. i \notin DOMAIN e => Token(e, i) = ""
  BY DEF Token
<1>3. i \in DOMAIN e
  BY <1>1, <1>2
<1> QED BY <1>3

\* What a parser at i answers depends only on calls nearer to the end.
LEMMA ValueStep ==
    ASSUME NEW S, NEW e \in Seq(S), NEW valid, NEW f, NEW g, NEW i \in 1..Len(e) + 1,
           GoodBelow(f, e, Measure(e, "value", i)), SameBelow(f, g, e, Measure(e, "value", i))
    PROVE  /\ value(f, e, valid, i) = value(g, e, valid, i)
           /\ Good(e, "value", i, value(f, e, valid, i))
<1>1. Len(e) \in Nat /\ i \in Nat
  OBVIOUS
<1>2. CASE Token(e, i) \in Ids
  <2>1. i \in 1..Len(e)
    BY <1>1, <1>2, TokenInside
  <2>2. value(f, e, valid, i) = Match(Token(e, i) \in valid, i + 1)
    BY <1>2 DEF value
  <2>3. value(g, e, valid, i) = Match(Token(e, i) \in valid, i + 1)
    BY <1>2 DEF value
  <2>4. Good(e, "value", i, Match(Token(e, i) \in valid, i + 1))
    <3> DEFINE b == Token(e, i) \in valid
    <3>1. b \in BOOLEAN /\ i + 1 \in Nat /\ i + 1 \in 1..Len(e) + 1 /\ i < i + 1
      BY <1>1, <2>1
    <3> HIDE DEF b
    <3>2. Good(e, "value", i, Match(b, i + 1))
      BY <3>1, MatchGood DEF Good
    <3> QED BY <3>2 DEF b
  <2> QED BY <2>2, <2>3, <2>4
<1>3. CASE Token(e, i) \notin Ids /\ Token(e, i) # "("
  <2>1. value(f, e, valid, i) = NoMatch /\ value(g, e, valid, i) = NoMatch
    BY <1>3 DEF value
  <2>2. Good(e, "value", i, NoMatch)
    BY MatchGood DEF Good
  <2> QED BY <2>1, <2>2
<1>4. CASE Token(e, i) \notin Ids /\ Token(e, i) = "("
  <2> DEFINE s == f[<<"sum", i + 1, FALSE>>]
  <2>1. i \in 1..Len(e) /\ i + 1 \in 1..Len(e) + 1
    BY <1>1, <1>4, TokenInside
  <2>2. Measure(e, "sum", i + 1) < Measure(e, "value", i)
    BY <1>1, <2>1 DEF Measure
  <2>3. s = g[<<"sum", i + 1, FALSE>>] /\ Good(e, "sum", i + 1, s)
    BY <2>1, <2>2 DEF GoodBelow, SameBelow, Kinds
  <2> DEFINE a == IF s.ok /\ Token(e, s.next) = ")" THEN Match(s.val, s.next + 1) ELSE NoMatch
  <2>4. value(f, e, valid, i) = a
    BY <1>4 DEF value
  <2>5. value(g, e, valid, i) = a
    BY <1>4, <2>3 DEF value
  <2> HIDE DEF s
  <2>6. Good(e, "value", i, a)
    <3>1. CASE s.ok /\ Token(e, s.next) = ")"
      <4>1. s.next \in Nat /\ s.val \in BOOLEAN /\ i + 1 < s.next
        BY <2>3, <3>1 DEF Good
      <4>2. s.next \in 1..Len(e)
        BY <3>1, <4>1, TokenInside
      <4>3. a = Match(s.val, s.next + 1)
        BY <3>1
      <4> QED BY <1>1, <4>1, <4>2, <4>3, MatchGood DEF Good
    <3>2. CASE ~(s.ok /\ Token(e, s.next) = ")")
      <4>1. a = NoMatch
        BY <3>2
      <4> QED BY <4>1, MatchGood DEF Good
    <3> QED BY <3>1, <3>2
  <2> QED BY <2>4, <2>5, <2>6
<1> QED BY <1>2, <1>3, <1>4

LEMMA SumStep ==
    ASSUME NEW S, NEW e \in Seq(S), NEW f, NEW g, NEW i \in 1..Len(e) + 1,
           GoodBelow(f, e, Measure(e, "sum", i)), SameBelow(f, g, e, Measure(e, "sum", i))
    PROVE  sum(f, i) = sum(g, i) /\ Good(e, "sum", i, sum(f, i))
<1> DEFINE v == f[<<"value", i, FALSE>>]
<1>1. Len(e) \in Nat /\ i \in Nat
  OBVIOUS
<1>2. Measure(e, "value", i) < Measure(e, "sum", i)
  BY <1>1 DEF Measure
<1>3. v = g[<<"value", i, FALSE>>] /\ Good(e, "value", i, v)
  BY <1>2 DEF GoodBelow, SameBelow, Kinds
<1>4. sum(f, i) = (IF v.ok THEN f[<<"prodK", v.next, v.val>>] ELSE NoMatch)
  BY DEF sum
<1>5. sum(g, i) = (IF v.ok THEN g[<<"prodK", v.next, v.val>>] ELSE NoMatch)
  BY <1>3 DEF sum
<1> HIDE DEF v
<1>6. CASE v.ok
  <2>1. v.next \in 1..Len(e) + 1 /\ i < v.next /\ v.val \in BOOLEAN
    BY <1>3, <1>6 DEF Good
  <2>2. Measure(e, "prodK", v.next) < Measure(e, "sum", i)
    BY <1>1, <2>1 DEF Measure
  <2>3. /\ f[<<"prodK", v.next, v.val>>] = g[<<"prodK", v.next, v.val>>]
        /\ Good(e, "prodK", v.next, f[<<"prodK", v.next, v.val>>])
    BY <2>1, <2>2 DEF GoodBelow, SameBelow, Kinds
  <2>4. sum(f, i) = f[<<"prodK", v.next, v.val>>] /\ sum(g, i) = f[<<"prodK", v.next, v.val>>]
    BY <1>4, <1>5, <1>6, <2>3
  <2>5. Good(e, "sum", i, f[<<"prodK", v.next, v.val>>])
    BY <1>1, <2>1, <2>3 DEF Good
  <2> QED BY <2>4, <2>5
<1>7. CASE ~v.ok
  BY <1>4, <1>5, <1>7, MatchGood DEF Good
<1> QED BY <1>6, <1>7

LEMMA ProdKStep ==
    ASSUME NEW S, NEW e \in Seq(S), NEW f, NEW g, NEW i \in 1..Len(e) + 1, NEW val \in BOOLEAN,
           GoodBelow(f, e, Measure(e, "prodK", i)), SameBelow(f, g, e, Measure(e, "prodK", i))
    PROVE  prodK(f, e, i, val) = prodK(g, e, i, val) /\ Good(e, "prodK", i, prodK(f, e, i, val))
<1>1. Len(e) \in Nat /\ i \in Nat
  OBVIOUS
<1> DEFINE v == f[<<"value", i + 1, FALSE>>]
           n == sumNode(Token(e, i), val, v.val)
<1>2. CASE Token(e, i) \in Operators
  <2>1. i + 1 \in 1..Len(e) + 1
    BY <1>1, <1>2, TokenInside
  <2>2. Measure(e, "value", i + 1) < Measure(e, "prodK", i)
    BY <1>1, <2>1 DEF Measure
  <2>3. v = g[<<"value", i + 1, FALSE>>] /\ Good(e, "value", i + 1, v)
    BY <2>1, <2>2 DEF GoodBelow, SameBelow, Kinds
  <2>4. prodK(f, e, i, val) = (IF v.ok THEN f[<<"prodK", v.next, n>>] ELSE Match(val, i))
    BY <1>2 DEF prodK
  <2>5. prodK(g, e, i, val) = (IF v.ok THEN g[<<"prodK", v.next, n>>] ELSE Match(val, i))
    BY <1>2, <2>3 DEF prodK
  <2>6. v.ok => n \in BOOLEAN
    BY <2>3 DEF sumNode, Good
  <2> HIDE DEF v, n
  <2>7. CASE v.ok
    <3>1. v.next \in 1..Len(e) + 1 /\ i + 1 < v.next
      BY <2>3, <2>7 DEF Good
    <3>2. Measure(e, "prodK", v.next) < Measure(e, "prodK", i)
      BY <1>1, <3>1 DEF Measure
    <3>3. /\ f[<<"prodK", v.next, n>>] = g[<<"prodK", v.next, n>>]
          /\ Good(e, "prodK", v.next, f[<<"prodK", v.next, n>>])
      BY <2>6, <2>7, <3>1, <3>2 DEF GoodBelow, SameBelow, Kinds
    <3>4. prodK(f, e, i, val) = f[<<"prodK", v.next, n>>] /\ prodK(g, e, i, val) = f[<<"prodK", v.next, n>>]
      BY <2>4, <2>5, <2>7, <3>3
    <3>5. Good(e, "prodK", i, f[<<"prodK", v.next, n>>])
      BY <1>1, <3>1, <3>3 DEF Good
    <3> QED BY <3>4, <3>5
  <2>8. CASE ~v.ok
    <3>1. prodK(f, e, i, val) = Match(val, i) /\ prodK(g, e, i, val) = Match(val, i)
      BY <2>4, <2>5, <2>8
    <3>2. Good(e, "prodK", i, Match(val, i))
      BY <1>1, MatchGood DEF Good
    <3> QED BY <3>1, <3>2
  <2> QED BY <2>7, <2>8
<1>3. CASE Token(e, i) \notin Operators
  <2>1. ~NoMatch.ok
    BY DEF NoMatch
  <2>2. prodK(f, e, i, val) = Match(val, i) /\ prodK(g, e, i, val) = Match(val, i)
    BY <1>3, <2>1 DEF prodK
  <2>3. Good(e, "prodK", i, Match(val, i))
    BY <1>1, MatchGood DEF Good
  <2> QED BY <2>2, <2>3
<1> QED BY <1>2, <1>3

LEMMA ParseStep ==
    ASSUME NEW S, NEW e \in Seq(S), NEW valid, NEW f, NEW g,
           NEW kind \in Kinds, NEW i \in 1..Len(e) + 1, NEW val \in BOOLEAN,
           GoodBelow(f, e, Measure(e, kind, i)), SameBelow(f, g, e, Measure(e, kind, i))
    PROVE  /\ parse(f, e, valid, kind, i, val) = parse(g, e, valid, kind, i, val)
           /\ Good(e, kind, i, parse(f, e, valid, kind, i, val))
<1>1. CASE kind = "value"
  BY <1>1, ValueStep DEF parse
<1>2. CASE kind = "sum"
  BY <1>2, SumStep DEF parse
<1>3. CASE kind = "prodK"
  BY <1>3, ProdKStep DEF parse
<1> QED BY <1>1, <1>2, <1>3 DEF Kinds

\* f answers for all the parsers.
IsParser(f, e, valid) ==
    /\ f = [x \in Places(e) |-> parse(f, e, valid, x[1], x[2], x[3])]
    /\ \A kind \in Kinds, i \in 1..Len(e) + 1, val \in BOOLEAN : Good(e, kind, i, f[<<kind, i, val>>])

\* f answers for the calls below m.
SolvedBelow(f, e, valid, m) ==
    /\ GoodBelow(f, e, m)
    /\ \A kind \in Kinds, i \in 1..Len(e) + 1, val \in BOOLEAN :
          Measure(e, kind, i) < m => f[<<kind, i, val>>] = parse(f, e, valid, kind, i, val)

\* The recursion has a solution, by induction on how near to the end of the
\* expression it is solved.
LEMMA SolvedBelowExists ==
    ASSUME NEW S, NEW e \in Seq(S), NEW valid, NEW N \in Nat
    PROVE  \E f : (f = [x \in Places(e) |-> f[x]]) /\ SolvedBelow(f, e, valid, N)
<1> DEFINE T == {m \in Nat : \E f : (f = [x \in Places(e) |-> f[x]]) /\ SolvedBelow(f, e, valid, m)}
<1>0. Len(e) \in Nat /\ \A kind \in Kinds, i \in 1..Len(e) + 1 : Measure(e, kind, i) \in Nat
  BY DEF Measure
<1>1. 0 \in T
  <2> DEFINE f == [x \in Places(e) |-> 0]
  <2>1. SolvedBelow(f, e, valid, 0)
    BY <1>0 DEF SolvedBelow, GoodBelow
  <2>2. f = [x \in Places(e) |-> f[x]]
    OBVIOUS
  <2> QED BY <2>1, <2>2
<1>2. ASSUME NEW m \in T PROVE m + 1 \in T
  <2>1. m \in Nat
    OBVIOUS
  <2>2. PICK f : (f = [x \in Places(e) |-> f[x]]) /\ SolvedBelow(f, e, valid, m)
    OBVIOUS
  <2> DEFINE g == [x \in Places(e) |->
                     IF Measure(e, x[1], x[2]) < m THEN f[x] ELSE parse(f, e, valid, x[1], x[2], x[3])]
  <2>3. ASSUME NEW kind \in Kinds, NEW i \in 1..Len(e) + 1, NEW val \in BOOLEAN
        PROVE  g[<<kind, i, val>>] = IF Measure(e, kind, i) < m THEN f[<<kind, i, val>>]
                                     ELSE parse(f, e, valid, kind, i, val)
    <3>1. <<kind, i, val>> \in Places(e)
      BY DEF Places
    <3> QED BY <3>1
  <2>4. g = [x \in Places(e) |-> g[x]]
    OBVIOUS
  <2> HIDE DEF g
  <2>5. SameBelow(f, g, e, m)
    BY <2>3 DEF SameBelow
  <2>6. ASSUME NEW kind \in Kinds, NEW i \in 1..Len(e) + 1, NEW val \in BOOLEAN,
               Measure(e, kind, i) < m + 1
        PROVE  /\ g[<<kind, i, val>>] = parse(g, e, valid, kind, i, val)
               /\ Good(e, kind, i, g[<<kind, i, val>>])
    <3>1. Measure(e, kind, i) \in Nat /\ Measure(e, kind, i) <= m
      BY <1>0, <2>1, <2>6
    <3>2. GoodBelow(f, e, Measure(e, kind, i)) /\ SameBelow(f, g, e, Measure(e, kind, i))
      BY <2>1, <2>2, <2>5, <3>1, GoodBelowLess, SameBelowLess DEF SolvedBelow
    <3>3. /\ parse(f, e, valid, kind, i, val) = parse(g, e, valid, kind, i, val)
          /\ Good(e, kind, i, parse(f, e, valid, kind, i, val))
      BY <3>2, ParseStep
    <3>4. g[<<kind, i, val>>] = parse(f, e, valid, kind, i, val)
      BY <2>2, <2>3 DEF SolvedBelow
    <3> QED BY <3>3, <3>4
  <2>7. SolvedBelow(g, e, valid, m + 1)
    BY <2>6 DEF SolvedBelow, GoodBelow
  <2> QED BY <2>1, <2>4, <2>7
<1> HIDE DEF T
<1>3. T \in SUBSET Nat
  BY DEF T
<1>4. T = Nat
  BY <1>1, <1>2, <1>3, Ind!SetInduction
<1> QED BY <1>4 DEF T

\* InitParser takes its answer from such an f.
LEMMA ParserExists ==
    ASSUME NEW S, NEW e \in Seq(S), NEW valid
    PROVE  \E f : IsParser(f, e, valid) /\ InitParser(e, valid) = f[<<"sum", 1, FALSE>>]
<1> DEFINE P(f) == f = [x \in Places(e) |-> parse(f, e, valid, x[1], x[2], x[3])]
           p == CHOOSE f : P(f)
           M == 2 * (Len(e) + 1) + 2
<1>1. Len(e) \in Nat /\ M \in Nat
  OBVIOUS
<1>2. \A kind \in Kinds, i \in 1..Len(e) + 1 : Measure(e, kind, i) < M
  BY <1>1 DEF Measure
<1> HIDE DEF M
<1>3. \A f : P(f) => \A kind \in Kinds, i \in 1..Len(e) + 1, val \in BOOLEAN :
         f[<<kind, i, val>>] = parse(f, e, valid, kind, i, val)
  <2>1. ASSUME NEW f, P(f), NEW kind \in Kinds, NEW i \in 1..Len(e) + 1, NEW val \in BOOLEAN
        PROVE  f[<<kind, i, val>>] = parse(f, e, valid, kind, i, val)
    <3>1. <<kind, i, val>> \in Places(e)
      BY DEF Places
    <3> DEFINE h == [x \in Places(e) |-> parse(f, e, valid, x[1], x[2], x[3])]
    <3>2. h[<<kind, i, val>>] = parse(f, e, valid, kind, i, val)
      BY <3>1
    <3>3. f = h
      BY <2>1
    <3> HIDE DEF h
    <3> QED BY <3>2, <3>3
  <2> QED BY <2>1
<1>4. PICK f : (f = [x \in Places(e) |-> f[x]]) /\ SolvedBelow(f, e, valid, M)
  BY <1>1, SolvedBelowExists
<1>5. P(f)
  <2>1. ASSUME NEW x \in Places(e) PROVE f[x] = parse(f, e, valid, x[1], x[2], x[3])
    <3>1. x[1] \in Kinds /\ x[2] \in 1..Len(e) + 1 /\ x[3] \in BOOLEAN /\ x = <<x[1], x[2], x[3]>>
      BY DEF Places
    <3>2. f[<<x[1], x[2], x[3]>>] = parse(f, e, valid, x[1], x[2], x[3])
      BY <1>2, <1>4, <3>1 DEF SolvedBelow
    <3> QED BY <3>1, <3>2
  <2> QED BY <1>4, <2>1, Zenon
<1>6. P(p)
  <2> HIDE DEF P
  <2> QED BY <1>5
<1>7. InitParser(e, valid) = p[<<"sum", 1, FALSE>>]
  BY Zenon DEF InitParser, Places
<1> HIDE DEF p
<1>8. ASSUME NEW q, P(q), NEW m \in Nat PROVE GoodBelow(q, e, m)
  <2> DEFINE T == {n \in Nat : GoodBelow(q, e, n)}
  <2>0. \A kind \in Kinds, i \in 1..Len(e) + 1 : Measure(e, kind, i) \in Nat
    BY <1>1 DEF Measure
  <2>1. 0 \in T
    BY <2>0 DEF GoodBelow
  <2>2. ASSUME NEW n \in T PROVE n + 1 \in T
    <3>1. ASSUME NEW kind \in Kinds, NEW i \in 1..Len(e) + 1, NEW val \in BOOLEAN,
                 Measure(e, kind, i) < n + 1
          PROVE  Good(e, kind, i, q[<<kind, i, val>>])
      <4>1. Measure(e, kind, i) \in Nat /\ Measure(e, kind, i) <= n
        BY <2>0, <3>1
      <4>2. GoodBelow(q, e, Measure(e, kind, i)) /\ SameBelow(q, q, e, Measure(e, kind, i))
        BY <4>1, GoodBelowLess DEF SameBelow
      <4>3. Good(e, kind, i, parse(q, e, valid, kind, i, val))
        BY <4>2, ParseStep
      <4>4. q[<<kind, i, val>>] = parse(q, e, valid, kind, i, val)
        BY <1>3, <1>8
      <4> QED BY <4>3, <4>4
    <3> QED BY <3>1 DEF GoodBelow
  <2> HIDE DEF T
  <2>3. T \in SUBSET Nat
    BY DEF T
  <2>4. T = Nat
    BY <2>1, <2>2, <2>3, Ind!SetInduction
  <2> QED BY <2>4 DEF T
<1>9. GoodBelow(p, e, M)
  <2> HIDE DEF P
  <2> QED BY <1>1, <1>6, <1>8
<1>10. IsParser(p, e, valid)
  BY <1>2, <1>6, <1>9 DEF IsParser, GoodBelow
<1> QED BY <1>7, <1>10

-----------------------------------------------------------------------------
(* More valid identities *)

\* Of two answers: the same tokens matched, and the second is true when the
\* first is.
Leads(r, q) == /\ r.ok = q.ok
               /\ r.ok => r.next = q.next /\ (r.val => q.val)

LeadsBelow(f, g, e, m) ==
    \A kind \in Kinds, i \in 1..Len(e) + 1, a, b \in BOOLEAN :
        Measure(e, kind, i) < m /\ (a => b) => Leads(f[<<kind, i, a>>], g[<<kind, i, b>>])

\* The tokens of e that are valid in V are in W.
More(e, V, W) == \A i \in DOMAIN e : e[i] \in V => e[i] \in W

LEMMA MatchLeads ==
    ASSUME NEW a \in BOOLEAN, NEW b \in BOOLEAN, a => b, NEW n
    PROVE  Leads(Match(a, n), Match(b, n)) /\ Leads(NoMatch, NoMatch)
BY DEF Leads, Match, NoMatch

\* The calls of f and of g take the same way through the expression.
LEMMA LeadsStep ==
    ASSUME NEW S, NEW e \in Seq(S), NEW V, NEW W, More(e, V, W), NEW f, NEW g,
           NEW kind \in Kinds, NEW i \in 1..Len(e) + 1, NEW a \in BOOLEAN, NEW b \in BOOLEAN, a => b,
           GoodBelow(f, e, Measure(e, kind, i)), GoodBelow(g, e, Measure(e, kind, i)),
           LeadsBelow(f, g, e, Measure(e, kind, i))
    PROVE  Leads(parse(f, e, V, kind, i, a), parse(g, e, W, kind, i, b))
<1>1. Len(e) \in Nat /\ i \in Nat
  OBVIOUS
<1>2. CASE kind = "value"
  <2>1. parse(f, e, V, kind, i, a) = value(f, e, V, i) /\ parse(g, e, W, kind, i, b) = value(g, e, W, i)
    BY <1>2 DEF parse
  <2>2. CASE Token(e, i) \in Ids
    <3> DEFINE c == Token(e, i) \in V
               d == Token(e, i) \in W
    <3>1. i \in 1..Len(e)
      BY <1>1, <2>2, TokenInside
    <3>2. c => d
      <4>1. i \in DOMAIN e
        BY <3>1
      <4>2. Token(e, i) = e[i]
        BY <4>1 DEF Token
      <4> QED BY <4>1, <4>2, Zenon DEF More
    <3>3. value(f, e, V, i) = Match(c, i + 1) /\ value(g, e, W, i) = Match(d, i + 1)
      BY <2>2 DEF value
    <3>4. c \in BOOLEAN /\ d \in BOOLEAN
      OBVIOUS
    <3> HIDE DEF c, d
    <3> QED BY <2>1, <3>2, <3>3, <3>4, MatchLeads
  <2>3. CASE Token(e, i) \notin Ids /\ Token(e, i) # "("
    <3>1. value(f, e, V, i) = NoMatch /\ value(g, e, W, i) = NoMatch
      BY <2>3 DEF value
    <3> QED BY <2>1, <3>1, MatchLeads
  <2>4. CASE Token(e, i) \notin Ids /\ Token(e, i) = "("
    <3> DEFINE s == f[<<"sum", i + 1, FALSE>>]
               q == g[<<"sum", i + 1, FALSE>>]
    <3>1. i \in 1..Len(e) /\ i + 1 \in 1..Len(e) + 1
      BY <1>1, <2>4, TokenInside
    <3>2. Measure(e, "sum", i + 1) < Measure(e, kind, i)
      BY <1>1, <1>2, <3>1 DEF Measure
    <3>3. Leads(s, q)
      BY <3>1, <3>2 DEF LeadsBelow, Kinds
    <3>4. Good(e, "sum", i + 1, s) /\ Good(e, "sum", i + 1, q)
      BY <3>1, <3>2 DEF GoodBelow, Kinds
    <3>5. value(f, e, V, i) = IF s.ok /\ Token(e, s.next) = ")" THEN Match(s.val, s.next + 1) ELSE NoMatch
      BY <2>4 DEF value
    <3>6. value(g, e, W, i) = IF q.ok /\ Token(e, q.next) = ")" THEN Match(q.val, q.next + 1) ELSE NoMatch
      BY <2>4 DEF value
    <3>7. /\ s.ok \in BOOLEAN /\ q.ok \in BOOLEAN /\ s.val \in BOOLEAN /\ q.val \in BOOLEAN
      BY <3>4 DEF Good
    <3> HIDE DEF s, q
    <3>8. CASE s.ok /\ Token(e, s.next) = ")"
      <4>1. q.ok /\ q.next = s.next /\ (s.val => q.val)
        BY <3>3, <3>7, <3>8 DEF Leads
      <4>2. value(f, e, V, i) = Match(s.val, s.next + 1) /\ value(g, e, W, i) = Match(q.val, s.next + 1)
        BY <3>5, <3>6, <3>8, <4>1
      <4> QED BY <2>1, <3>7, <4>1, <4>2, MatchLeads
    <3>9. CASE ~(s.ok /\ Token(e, s.next) = ")")
      <4>1. ~(q.ok /\ Token(e, q.next) = ")")
        BY <3>3, <3>7, <3>9 DEF Leads
      <4>2. value(f, e, V, i) = NoMatch /\ value(g, e, W, i) = NoMatch
        BY <3>5, <3>6, <3>9, <4>1
      <4> QED BY <2>1, <4>2, MatchLeads
    <3> QED BY <3>8, <3>9
  <2> QED BY <2>2, <2>3, <2>4
<1>3. CASE kind = "sum"
  <2> DEFINE v == f[<<"value", i, FALSE>>]
             w == g[<<"value", i, FALSE>>]
  <2>1. parse(f, e, V, kind, i, a) = IF v.ok THEN f[<<"prodK", v.next, v.val>>] ELSE NoMatch
    BY <1>3 DEF parse, sum
  <2>2. parse(g, e, W, kind, i, b) = IF w.ok THEN g[<<"prodK", w.next, w.val>>] ELSE NoMatch
    BY <1>3 DEF parse, sum
  <2>3. Measure(e, "value", i) < Measure(e, kind, i)
    BY <1>1, <1>3 DEF Measure
  <2>4. Leads(v, w) /\ Good(e, "value", i, v) /\ Good(e, "value", i, w)
    BY <2>3 DEF LeadsBelow, GoodBelow, Kinds
  <2> HIDE DEF v, w
  <2>5. CASE v.ok
    <3>1. w.ok /\ w.next = v.next /\ (v.val => w.val)
      BY <2>4, <2>5 DEF Leads, Good
    <3>2. v.next \in 1..Len(e) + 1 /\ i < v.next /\ v.val \in BOOLEAN /\ w.val \in BOOLEAN
      BY <2>4, <2>5 DEF Good
    <3>3. Measure(e, "prodK", v.next) < Measure(e, kind, i)
      BY <1>1, <1>3, <3>2 DEF Measure
    <3>4. Leads(f[<<"prodK", v.next, v.val>>], g[<<"prodK", v.next, w.val>>])
      BY <3>1, <3>2, <3>3 DEF LeadsBelow, Kinds
    <3> QED BY <2>1, <2>2, <2>5, <3>1, <3>4
  <2>6. CASE ~v.ok
    <3>1. ~w.ok
      BY <2>4, <2>6 DEF Leads, Good
    <3> QED BY <2>1, <2>2, <2>6, <3>1, MatchLeads
  <2> QED BY <2>5, <2>6
<1>4. CASE kind = "prodK"
  <2> DEFINE v == f[<<"value", i + 1, FALSE>>]
             w == g[<<"value", i + 1, FALSE>>]
             c == sumNode(Token(e, i), a, v.val)
             d == sumNode(Token(e, i), b, w.val)
  <2>1. parse(f, e, V, kind, i, a) = prodK(f, e, i, a) /\ parse(g, e, W, kind, i, b) = prodK(g, e, i, b)
    BY <1>4 DEF parse
  <2>2. CASE Token(e, i) \in Operators
    <3>1. prodK(f, e, i, a) = IF v.ok THEN f[<<"prodK", v.next, c>>] ELSE Match(a, i)
      BY <2>2 DEF prodK
    <3>2. prodK(g, e, i, b) = IF w.ok THEN g[<<"prodK", w.next, d>>] ELSE Match(b, i)
      BY <2>2 DEF prodK
    <3>3. i + 1 \in 1..Len(e) + 1
      BY <1>1, <2>2, TokenInside
    <3>4. Measure(e, "value", i + 1) < Measure(e, kind, i)
      BY <1>1, <1>4, <3>3 DEF Measure
    <3>5. Leads(v, w) /\ Good(e, "value", i + 1, v) /\ Good(e, "value", i + 1, w)
      BY <3>3, <3>4 DEF LeadsBelow, GoodBelow, Kinds
    <3>6. v.val \in BOOLEAN /\ w.val \in BOOLEAN /\ v.ok \in BOOLEAN /\ w.ok \in BOOLEAN
      BY <3>5 DEF Good
    <3>7. c \in BOOLEAN /\ d \in BOOLEAN /\ (v.ok => (c => d))
      BY <3>5, <3>6 DEF sumNode, Leads
    <3> HIDE DEF v, w, c, d
    <3>8. CASE v.ok
      <4>1. w.ok /\ w.next = v.next
        BY <3>5, <3>6, <3>8 DEF Leads
      <4>2. v.next \in 1..Len(e) + 1 /\ i + 1 < v.next
        BY <3>5, <3>8 DEF Good
      <4>3. Measure(e, "prodK", v.next) < Measure(e, kind, i)
        BY <1>1, <1>4, <4>2 DEF Measure
      <4>4. Leads(f[<<"prodK", v.next, c>>], g[<<"prodK", v.next, d>>])
        BY <3>7, <3>8, <4>2, <4>3 DEF LeadsBelow, Kinds
      <4> QED BY <2>1, <3>1, <3>2, <3>8, <4>1, <4>4
    <3>9. CASE ~v.ok
      <4>1. ~w.ok
        BY <3>5, <3>6, <3>9 DEF Leads
      <4> QED BY <2>1, <3>1, <3>2, <3>9, <4>1, MatchLeads
    <3> QED BY <3>8, <3>9
  <2>3. CASE Token(e, i) \notin Operators
    <3>1. prodK(f, e, i, a) = Match(a, i) /\ prodK(g, e, i, b) = Match(b, i)
      BY <2>3 DEF prodK, NoMatch
    <3> QED BY <2>1, <3>1, MatchLeads
  <2> QED BY <2>2, <2>3
<1> QED BY <1>2, <1>3, <1>4 DEF Kinds

\* What f answers at a place.
LEMMA ParserAnswers ==
    ASSUME NEW S, NEW e \in Seq(S), NEW valid, NEW f, IsParser(f, e, valid),
           NEW kind \in Kinds, NEW i \in 1..Len(e) + 1, NEW val \in BOOLEAN
    PROVE  /\ f[<<kind, i, val>>] = parse(f, e, valid, kind, i, val)
           /\ Good(e, kind, i, f[<<kind, i, val>>])
<1>1. <<kind, i, val>> \in Places(e)
  BY DEF Places
<1> DEFINE h == [x \in Places(e) |-> parse(f, e, valid, x[1], x[2], x[3])]
<1>2. h[<<kind, i, val>>] = parse(f, e, valid, kind, i, val)
  BY <1>1
<1>3. f = h
  BY DEF IsParser
<1> HIDE DEF h
<1>4. Good(e, kind, i, f[<<kind, i, val>>])
  BY DEF IsParser
<1> QED BY <1>2, <1>3, <1>4

LEMMA ParsersLead ==
    ASSUME NEW S, NEW e \in Seq(S), NEW V, NEW W, More(e, V, W), NEW f, NEW g,
           IsParser(f, e, V), IsParser(g, e, W), NEW m \in Nat
    PROVE  LeadsBelow(f, g, e, m)
<1> DEFINE T == {n \in Nat : LeadsBelow(f, g, e, n)}
<1>1. \A kind \in Kinds, i \in 1..Len(e) + 1 : Measure(e, kind, i) \in Nat
  BY MeasureNat
<1>2. 0 \in T
  BY <1>1 DEF LeadsBelow
<1>3. \A n \in Nat : GoodBelow(f, e, n) /\ GoodBelow(g, e, n)
  BY DEF IsParser, GoodBelow
<1>4. ASSUME NEW n \in T PROVE n + 1 \in T
  <2>1. ASSUME NEW kind \in Kinds, NEW i \in 1..Len(e) + 1, NEW a \in BOOLEAN, NEW b \in BOOLEAN,
               Measure(e, kind, i) < n + 1, a => b
        PROVE  Leads(f[<<kind, i, a>>], g[<<kind, i, b>>])
    <3>1. Measure(e, kind, i) \in Nat /\ Measure(e, kind, i) <= n
      BY <1>1, <2>1
    <3>2. LeadsBelow(f, g, e, Measure(e, kind, i))
      <4>1. ASSUME NEW k2 \in Kinds, NEW j \in 1..Len(e) + 1, NEW c \in BOOLEAN, NEW d \in BOOLEAN,
                   Measure(e, k2, j) < Measure(e, kind, i), c => d
            PROVE  Leads(f[<<k2, j, c>>], g[<<k2, j, d>>])
        <5>1. Measure(e, k2, j) \in Nat
          BY MeasureNat
        <5>2. Measure(e, k2, j) < n
          BY <3>1, <4>1, <5>1
        <5> QED BY <4>1, <5>2 DEF LeadsBelow
      <4> QED BY <4>1 DEF LeadsBelow
    <3>3. GoodBelow(f, e, Measure(e, kind, i)) /\ GoodBelow(g, e, Measure(e, kind, i))
      BY <1>3, <3>1
    <3>4. Leads(parse(f, e, V, kind, i, a), parse(g, e, W, kind, i, b))
      BY <2>1, <3>2, <3>3, LeadsStep
    <3>5. f[<<kind, i, a>>] = parse(f, e, V, kind, i, a) /\ g[<<kind, i, b>>] = parse(g, e, W, kind, i, b)
      BY ParserAnswers
    <3> QED BY <3>4, <3>5
  <2> QED BY <2>1 DEF LeadsBelow
<1> HIDE DEF T
<1>5. T \in SUBSET Nat
  BY DEF T
<1>6. T = Nat
  BY <1>2, <1>4, <1>5, Ind!SetInduction
<1> QED BY <1>6 DEF T

\* Whether e is an expression does not depend on the valid identities, and
\* more of them never make it false.
THEOREM EvaluateMonotone ==
    ASSUME NEW S, NEW e \in Seq(S), NEW V, NEW W, More(e, V, W)
    PROVE  /\ Evaluate(e, V) = "error" <=> Evaluate(e, W) = "error"
           /\ Evaluate(e, V) = "true" => Evaluate(e, W) = "true"
<1>1. PICK f : IsParser(f, e, V) /\ InitParser(e, V) = f[<<"sum", 1, FALSE>>]
  BY ParserExists
<1>2. PICK g : IsParser(g, e, W) /\ InitParser(e, W) = g[<<"sum", 1, FALSE>>]
  BY ParserExists
<1> DEFINE m == Measure(e, "sum", 1)
           r == InitParser(e, V)
           q == InitParser(e, W)
<1>3. 1 \in 1..Len(e) + 1 /\ m \in Nat /\ m + 1 \in Nat /\ m < m + 1
  BY MeasureNat
<1>4. LeadsBelow(f, g, e, m + 1)
  BY <1>1, <1>2, <1>3, ParsersLead
<1>5. Leads(r, q)
  BY <1>1, <1>2, <1>3, <1>4 DEF LeadsBelow, Kinds
<1>6. Good(e, "sum", 1, r) /\ Good(e, "sum", 1, q)
  BY <1>1, <1>2, <1>3 DEF IsParser, Kinds
<1>7. r.ok \in BOOLEAN /\ q.ok \in BOOLEAN /\ r.val \in BOOLEAN /\ q.val \in BOOLEAN
  BY <1>6 DEF Good
<1>8. /\ Evaluate(e, V) = IF ~r.ok \/ r.next # Len(e) + 1 THEN "error" ELSE IF r.val THEN "true" ELSE "false"
      /\ Evaluate(e, W) = IF ~q.ok \/ q.next # Len(e) + 1 THEN "error" ELSE IF q.val THEN "true" ELSE "false"
  BY DEF Evaluate
<1> HIDE DEF r, q, m
<1> QED BY <1>5, <1>7, <1>8 DEF Leads

-----------------------------------------------------------------------------
(* The tokens of the expression *)

TokensInv == expr \in Seq(Tokens)

LEMMA TokensRead == Spec => []TokensInv
<1>1. Init => TokensInv
  BY DEF Init, TokensInv
<1>2. TokensInv /\ [Next]_vars => TokensInv'
  BY DEF TokensInv, Next, vars
<1> QED BY <1>1, <1>2, PTL DEF Spec

\* MoreSignersNeverHurt: a policy that is satisfied stays so when further
\* signatures are handed to evalExpr, whatever the policy is.
THEOREM MoreSignersTheorem == Spec => []MoreSignersNeverHurt
<1>1. TokensInv => MoreSignersNeverHurt
  <2> SUFFICES ASSUME TokensInv, NEW V \in SUBSET Ids, NEW W \in SUBSET Ids, V \subseteq W,
                      Evaluate(expr, V) = "true"
               PROVE  Evaluate(expr, W) = "true"
    BY DEF MoreSignersNeverHurt
  <2>1. More(expr, V, W)
    BY DEF More
  <2> QED BY <2>1, EvaluateMonotone DEF TokensInv
<1> QED BY <1>1, TokensRead, PTL

-----------------------------------------------------------------------------
(* What an expression means.  Take an expression e, a parser f for it, and *)
(* read e token by token as the specification does: after n tokens, the    *)
(* answer of f for the first token is the one it gives for the rest, with  *)
(* the groups that are open.                                               *)

GroupSet == [means : SUBSET SUBSET Ids, op : Operators]

Means(g, V) == V \in g.means

\* The group g, from token p on, waits for an operand at i.
Waits(f, e, V, g, p, i) ==
    \/ p = i /\ g = Open
    \/ /\ i - 1 \in 1..Len(e)
       /\ Token(e, i - 1) = g.op
       /\ f[<<"sum", p, FALSE>>] = f[<<"prodK", i - 1, Means(g, V)>>]

\* The group g, from token p on, has an operand in front of i.
Has(f, V, g, p, i) == f[<<"sum", p, FALSE>>] = f[<<"prodK", i, Means(g, V)>>]

\* The sum at p stops in front of a token that does not close a group.
Stuck(f, e, p) ==
    LET r == f[<<"sum", p, FALSE>>]
    IN  r.ok => r.next \in 1..Len(e) /\ Token(e, r.next) # ")"

\* s has the first token of each open group; all but the last group wait for
\* the one above.
Stack(f, e, V, gs, s) ==
    /\ s \in Seq(1..Len(e) + 1)
    /\ Len(s) = Len(gs)
    /\ s[1] = 1
    /\ \A j \in 1..Len(gs) - 1 : /\ s[j + 1] - 1 \in 1..Len(e)
                                 /\ Token(e, s[j + 1] - 1) = "("
                                 /\ Waits(f, e, V, gs[j], s[j], s[j + 1] - 1)

\* Each group that is open begins at a token of e or after the last one.
LEMMA StackStarts ==
    ASSUME NEW e, NEW gs, NEW s, s \in Seq(1..Len(e) + 1), Len(s) = Len(gs), NEW j \in 1..Len(gs)
    PROVE  s[j] \in 1..Len(e) + 1
<1> DEFINE S == 1..Len(e) + 1
<1>1. s \in Seq(S) /\ j \in 1..Len(s)
  OBVIOUS
<1> HIDE DEF S
<1>2. s[j] \in S
  BY <1>1
<1> QED BY <1>2 DEF S

LEMMA MeansBoolean == \A g, V : Means(g, V) \in BOOLEAN
BY DEF Means

LEMMA TokenIs ==
    ASSUME NEW S, NEW e \in Seq(S), NEW i \in 1..Len(e)
    PROVE  Token(e, i) = e[i]
<1>1. i \in DOMAIN e
  OBVIOUS
<1> QED BY <1>1 DEF Token

LEMMA SumAnswers ==
    ASSUME NEW S, NEW e \in Seq(S), NEW V, NEW f, IsParser(f, e, V), NEW i \in 1..Len(e) + 1
    PROVE  /\ f[<<"sum", i, FALSE>>] = sum(f, i)
           /\ Good(e, "sum", i, f[<<"sum", i, FALSE>>])
BY ParserAnswers DEF parse, Kinds

LEMMA ValueAnswers ==
    ASSUME NEW S, NEW e \in Seq(S), NEW V, NEW f, IsParser(f, e, V), NEW i \in 1..Len(e) + 1
    PROVE  /\ f[<<"value", i, FALSE>>] = value(f, e, V, i)
           /\ Good(e, "value", i, f[<<"value", i, FALSE>>])
BY ParserAnswers DEF parse, Kinds

LEMMA ProdKAnswers ==
    ASSUME NEW S, NEW e \in Seq(S), NEW V, NEW f, IsParser(f, e, V), NEW i \in 1..Len(e) + 1,
           NEW val \in BOOLEAN
    PROVE  /\ f[<<"prodK", i, val>>] = prodK(f, e, i, val)
           /\ Good(e, "prodK", i, f[<<"prodK", i, val>>])
BY ParserAnswers DEF parse, Kinds

\* The loop ends in front of what is no operator.
LEMMA LoopEnds ==
    ASSUME NEW S, NEW e \in Seq(S), NEW V, NEW f, IsParser(f, e, V), NEW i \in 1..Len(e) + 1,
           NEW val \in BOOLEAN, Token(e, i) \notin Operators
    PROVE  f[<<"prodK", i, val>>] = Match(val, i)
<1>1. f[<<"prodK", i, val>>] = prodK(f, e, i, val)
  BY ProdKAnswers
<1> QED BY <1>1 DEF prodK, NoMatch

\* A group takes in the operand it waits for.
LEMMA Takes ==
    ASSUME NEW S, NEW e \in Seq(S), NEW V \in SUBSET Ids, NEW f, IsParser(f, e, V),
           NEW g \in GroupSet, NEW p \in 1..Len(e) + 1, NEW i \in 1..Len(e) + 1,
           Waits(f, e, V, g, p, i), f[<<"value", i, FALSE>>].ok,
           NEW m \in SUBSET SUBSET Ids, f[<<"value", i, FALSE>>].val <=> V \in m,
           NEW h \in GroupSet, h.means = Combined(g, m)
    PROVE  Has(f, V, h, p, f[<<"value", i, FALSE>>].next)
<1> DEFINE v == f[<<"value", i, FALSE>>]
           a == Means(g, V)
           c == Means(h, V)
<1>1. Good(e, "value", i, v)
  BY ValueAnswers
<1>2. v.val \in BOOLEAN /\ v.next \in 1..Len(e) + 1
  BY <1>1 DEF Good
<1>3. a \in BOOLEAN /\ c \in BOOLEAN
  BY MeansBoolean
<1>4. CASE p = i /\ g = Open
  <2>1. f[<<"sum", p, FALSE>>] = sum(f, p)
    BY SumAnswers
  <2>2. f[<<"sum", p, FALSE>>] = f[<<"prodK", v.next, v.val>>]
    BY <1>4, <2>1 DEF sum
  <2>3. h.means = (SUBSET Ids) \cap m
    BY <1>4 DEF Combined, Open
  <2>4. c = v.val
    BY <1>2, <2>3 DEF Means
  <2> HIDE DEF c, v
  <2>5. f[<<"sum", p, FALSE>>] = f[<<"prodK", v.next, c>>]
    BY <2>2, <2>4
  <2> QED BY <2>5 DEF Has, c, v
<1>5. CASE /\ i - 1 \in 1..Len(e)
           /\ Token(e, i - 1) = g.op
           /\ f[<<"sum", p, FALSE>>] = f[<<"prodK", i - 1, a>>]
  <2> DEFINE n == sumNode(g.op, a, v.val)
  <2>1. g.op \in Operators
    BY DEF GroupSet
  <2>2. i - 1 \in 1..Len(e) + 1 /\ (i - 1) + 1 = i
    BY <1>5
  <2>3. f[<<"prodK", i - 1, a>>] = prodK(f, e, i - 1, a)
    <3> HIDE DEF a
    <3> QED BY <1>3, <2>2, ProdKAnswers
  <2>4. prodK(f, e, i - 1, a) = f[<<"prodK", v.next, n>>]
    BY <1>5, <2>1, <2>2 DEF prodK
  <2>5. c = n
    <3>1. g.op = "&" => h.means = g.means \cap m
      BY DEF Combined
    <3>2. g.op = "|" => h.means = g.means \cup m
      BY DEF Combined
    <3>3. g.op = "&" \/ g.op = "|"
      BY <2>1 DEF Operators
    <3> QED BY <1>2, <3>1, <3>2, <3>3 DEF Means, sumNode
  <2> HIDE DEF c, n, v, a
  <2>6. f[<<"sum", p, FALSE>>] = f[<<"prodK", v.next, c>>]
    BY <1>5, <2>3, <2>4, <2>5
  <2> QED BY <2>6 DEF Has, c, v
<1> QED BY <1>4, <1>5 DEF Waits

\* Without it the sum stops in front of the operator, or fails.
LEMMA Misses ==
    ASSUME NEW S, NEW e \in Seq(S), NEW V, NEW f, IsParser(f, e, V),
           NEW g \in GroupSet, NEW p \in 1..Len(e) + 1, NEW i \in 1..Len(e) + 1,
           Waits(f, e, V, g, p, i), ~f[<<"value", i, FALSE>>].ok
    PROVE  Stuck(f, e, p)
<1> DEFINE v == f[<<"value", i, FALSE>>]
           a == Means(g, V)
<1>1. CASE p = i /\ g = Open
  <2>1. f[<<"sum", p, FALSE>>] = sum(f, p)
    BY SumAnswers
  <2>2. sum(f, p) = NoMatch
    BY <1>1 DEF sum
  <2> QED BY <2>1, <2>2 DEF Stuck, NoMatch
<1>2. CASE /\ i - 1 \in 1..Len(e)
           /\ Token(e, i - 1) = g.op
           /\ f[<<"sum", p, FALSE>>] = f[<<"prodK", i - 1, a>>]
  <2>1. g.op \in Operators /\ g.op # ")"
    BY DEF GroupSet, Operators
  <2>2. i - 1 \in 1..Len(e) + 1 /\ (i - 1) + 1 = i
    BY <1>2
  <2>3. f[<<"prodK", i - 1, a>>] = prodK(f, e, i - 1, a)
    <3>1. a \in BOOLEAN
      BY MeansBoolean
    <3> HIDE DEF a
    <3> QED BY <3>1, <2>2, ProdKAnswers
  <2>4. prodK(f, e, i - 1, a) = Match(a, i - 1)
    BY <1>2, <2>1, <2>2 DEF prodK
  <2>5. f[<<"sum", p, FALSE>>] = Match(a, i - 1)
    BY <1>2, <2>3, <2>4
  <2>6. f[<<"sum", p, FALSE>>].next = i - 1
    BY <2>5 DEF Match
  <2> QED BY <1>2, <2>1, <2>6 DEF Stuck
<1> QED BY <1>1, <1>2 DEF Waits

\* A group whose sum does not end at ")" is no value.
LEMMA Unclosed ==
    ASSUME NEW S, NEW e \in Seq(S), NEW V, NEW f, IsParser(f, e, V), NEW i \in 1..Len(e),
           Token(e, i) = "(",
           f[<<"sum", i + 1, FALSE>>].ok => Token(e, f[<<"sum", i + 1, FALSE>>].next) # ")"
    PROVE  ~f[<<"value", i, FALSE>>].ok
<1>1. i \in 1..Len(e) + 1
  OBVIOUS
<1>2. "(" \notin Ids
  BY IdsAssumption
<1>3. f[<<"value", i, FALSE>>] = value(f, e, V, i)
  BY <1>1, ValueAnswers
<1>4. value(f, e, V, i) = NoMatch
  BY <1>2 DEF value
<1> QED BY <1>3, <1>4 DEF NoMatch

\* When an inner group is stuck, so is the first: the sums are given up from
\* the inside to the outside.
LEMMA Falls ==
    ASSUME NEW S, NEW e \in Seq(S), NEW V, NEW f, IsParser(f, e, V), NEW gs \in Seq(GroupSet), NEW s,
           Stack(f, e, V, gs, s), NEW k \in 1..Len(gs), Stuck(f, e, s[k])
    PROVE  Stuck(f, e, 1)
<1> DEFINE T == {m \in Nat : m <= k - 1 => Stuck(f, e, s[k - m])}
<1>1. 0 \in T
  OBVIOUS
<1>2. ASSUME NEW m \in T PROVE m + 1 \in T
  <2> SUFFICES ASSUME m + 1 <= k - 1 PROVE Stuck(f, e, s[k - (m + 1)])
    OBVIOUS
  <2> DEFINE j == k - (m + 1)
  <2>1. j \in 1..Len(gs) - 1 /\ j + 1 = k - m /\ m <= k - 1 /\ j \in 1..Len(gs)
    OBVIOUS
  <2>2. Stuck(f, e, s[j + 1])
    BY <2>1
  <2> HIDE DEF j
  <2> DEFINE i == s[j + 1] - 1
  <2>3. i \in 1..Len(e) /\ Token(e, i) = "(" /\ Waits(f, e, V, gs[j], s[j], i)
    BY <2>1 DEF Stack
  <2>4. s[j + 1] \in 1..Len(e) + 1 /\ s[j] \in 1..Len(e) + 1
    <3>1. s \in Seq(1..Len(e) + 1) /\ Len(s) = Len(gs)
      BY DEF Stack
    <3>2. j + 1 \in 1..Len(gs)
      BY <2>1
    <3> QED BY <2>1, <3>1, <3>2, StackStarts
  <2>5. i + 1 = s[j + 1] /\ i \in 1..Len(e) + 1
    BY <2>3, <2>4
  <2>6. Stuck(f, e, i + 1)
    BY <2>2, <2>5
  <2> HIDE DEF i
  <2>7. ~f[<<"value", i, FALSE>>].ok
    BY <2>3, <2>6, Unclosed DEF Stuck
  <2>8. gs[j] \in GroupSet
    BY <2>1
  <2>9. Stuck(f, e, s[j])
    BY <2>3, <2>4, <2>5, <2>7, <2>8, Misses
  <2> QED BY <2>9 DEF j
<1> HIDE DEF T
<1>3. T \in SUBSET Nat
  BY DEF T
<1>4. T = Nat
  BY <1>1, <1>2, <1>3, Ind!SetInduction
<1>5. k - 1 \in T
  BY <1>4
<1>6. k - (k - 1) = 1
  OBVIOUS
<1> QED BY <1>5, <1>6 DEF T, Stack

\* So is it when an inner group is no value for the one around it.
LEMMA FallsOpen ==
    ASSUME NEW S, NEW e \in Seq(S), NEW V, NEW f, IsParser(f, e, V), NEW gs \in Seq(GroupSet), NEW s,
           Stack(f, e, V, gs, s), Len(gs) > 1,
           f[<<"sum", s[Len(gs)], FALSE>>].ok => Token(e, f[<<"sum", s[Len(gs)], FALSE>>].next) # ")"
    PROVE  Stuck(f, e, 1)
<1> DEFINE j == Len(gs) - 1
           i == s[j + 1] - 1
<1>1. j \in 1..Len(gs) - 1 /\ j + 1 = Len(gs) /\ j \in 1..Len(gs)
  OBVIOUS
<1> HIDE DEF j
<1>2. i \in 1..Len(e) /\ Token(e, i) = "(" /\ Waits(f, e, V, gs[j], s[j], i)
  BY <1>1 DEF Stack
<1>3. s[j + 1] \in 1..Len(e) + 1 /\ s[j] \in 1..Len(e) + 1
  <2>1. s \in Seq(1..Len(e) + 1) /\ Len(s) = Len(gs)
    BY DEF Stack
  <2>2. j + 1 \in 1..Len(gs)
    BY <1>1
  <2> QED BY <1>1, <2>1, <2>2, StackStarts
<1>4. i + 1 = s[j + 1] /\ i \in 1..Len(e) + 1
  BY <1>2, <1>3
<1> HIDE DEF i
<1>5. f[<<"sum", i + 1, FALSE>>].ok => Token(e, f[<<"sum", i + 1, FALSE>>].next) # ")"
  BY <1>1, <1>4
<1>6. ~f[<<"value", i, FALSE>>].ok
  BY <1>2, <1>5, Unclosed
<1>7. gs[j] \in GroupSet
  BY <1>1
<1>8. Stuck(f, e, s[j])
  BY <1>2, <1>3, <1>4, <1>6, <1>7, Misses
<1> QED BY <1>1, <1>8, Falls

\* Only the last group changes.
LEMMA TakeInIs ==
    ASSUME NEW gs \in Seq(GroupSet), Len(gs) >= 1, NEW m \in SUBSET SUBSET Ids
    PROVE  /\ TakeIn(gs, m) \in Seq(GroupSet)
           /\ Len(TakeIn(gs, m)) = Len(gs)
           /\ \A j \in 1..Len(gs) - 1 : TakeIn(gs, m)[j] = gs[j]
           /\ TakeIn(gs, m)[Len(gs)].means = Combined(gs[Len(gs)], m)
<1> DEFINE k == Len(gs)
           h == [gs[k] EXCEPT !.means = Combined(gs[k], m)]
<1>1. gs[k] \in GroupSet
  OBVIOUS
<1>2. Combined(gs[k], m) \in SUBSET SUBSET Ids
  BY <1>1 DEF Combined, GroupSet
<1>3. h \in GroupSet /\ h.means = Combined(gs[k], m)
  BY <1>1, <1>2 DEF GroupSet
<1>4. TakeIn(gs, m) = [gs EXCEPT ![k] = h]
  BY DEF TakeIn
<1> HIDE DEF h
<1> QED BY <1>3, <1>4

LEMMA StackTop ==
    ASSUME NEW S, NEW e \in Seq(S), NEW V, NEW f, NEW gs, NEW hs, NEW s,
           Stack(f, e, V, gs, s), Len(hs) = Len(gs), \A j \in 1..Len(gs) - 1 : hs[j] = gs[j]
    PROVE  Stack(f, e, V, hs, s)
BY DEF Stack

\* f answers No for e as a whole.
Refused(f, e) == f[<<"sum", 1, FALSE>>].ok => f[<<"sum", 1, FALSE>>].next # Len(e) + 1

\* What the reading knows after n tokens of e.
Reading(f, e, V, gs, a, n) ==
    IF a = "bad" THEN Refused(f, e)
    ELSE \E s : /\ Stack(f, e, V, gs, s)
                /\ a = "operator" => Waits(f, e, V, gs[Len(gs)], s[Len(gs)], n + 1)
                /\ a = "operand" => Has(f, V, gs[Len(gs)], s[Len(gs)], n + 1)

LEMMA StuckRefused ==
    ASSUME NEW S, NEW e \in Seq(S), NEW f, Stuck(f, e, 1)
    PROVE  Refused(f, e)
BY DEF Stuck, Refused

LEMMA StackPlace ==
    ASSUME NEW S, NEW e \in Seq(S), NEW V, NEW f, NEW gs \in Seq(GroupSet), NEW s,
           Stack(f, e, V, gs, s), NEW j \in 1..Len(gs)
    PROVE  s[j] \in 1..Len(e) + 1 /\ gs[j] \in GroupSet
BY DEF Stack

LEMMA IdRead ==
    ASSUME NEW e \in Seq(Tokens), NEW V \in SUBSET Ids, NEW f, IsParser(f, e, V),
           NEW gs \in Seq(GroupSet), Len(gs) >= 1, NEW n \in Nat, n + 1 \in 1..Len(e),
           e[n + 1] \in Ids, Reading(f, e, V, gs, "operator", n)
    PROVE  Reading(f, e, V, TakeIn(gs, {W \in SUBSET Ids : e[n + 1] \in W}), "operand", n + 1)
<1> DEFINE m == {W \in SUBSET Ids : e[n + 1] \in W}
           hs == TakeIn(gs, m)
           k == Len(gs)
           v == f[<<"value", n + 1, FALSE>>]
           b == e[n + 1] \in V
<1>1. PICK s : Stack(f, e, V, gs, s) /\ Waits(f, e, V, gs[k], s[k], n + 1)
  BY DEF Reading
<1>2. m \in SUBSET SUBSET Ids
  OBVIOUS
<1>3. v = value(f, e, V, n + 1) /\ Token(e, n + 1) = e[n + 1]
  <2> DEFINE x == n + 1
  <2>1. x \in 1..Len(e) /\ x \in 1..Len(e) + 1
    OBVIOUS
  <2> HIDE DEF x
  <2>2. f[<<"value", x, FALSE>>] = value(f, e, V, x)
    BY <2>1, ValueAnswers
  <2>3. Token(e, x) = e[x]
    BY <2>1, TokenIs
  <2> QED BY <2>2, <2>3 DEF x
<1>4. v = Match(b, n + 2)
  BY <1>3 DEF value
<1>5. b \in BOOLEAN /\ (b <=> V \in m)
  OBVIOUS
<1> HIDE DEF b, m
<1>6. v.ok /\ (v.val <=> V \in m) /\ v.next = n + 2
  BY <1>4, <1>5, MatchGood
<1>7. /\ hs \in Seq(GroupSet) /\ Len(hs) = k
      /\ \A j \in 1..k - 1 : hs[j] = gs[j]
      /\ hs[k].means = Combined(gs[k], m)
  BY <1>2, TakeInIs
<1> HIDE DEF v, hs
<1>8. k \in 1..Len(gs) /\ hs[k] \in GroupSet /\ n + 1 \in 1..Len(e) + 1
  BY <1>7
<1>9. Has(f, V, hs[k], s[k], v.next)
  BY <1>1, <1>2, <1>6, <1>7, <1>8, StackPlace, Takes DEF v
<1>10. Stack(f, e, V, hs, s)
  BY <1>1, <1>7, StackTop
<1>11. (n + 1) + 1 = n + 2
  OBVIOUS
<1>12. Reading(f, e, V, hs, "operand", n + 1)
  BY <1>6, <1>7, <1>9, <1>10, <1>11 DEF Reading
<1> QED BY <1>12 DEF hs, m

LEMMA OperatorRead ==
    ASSUME NEW e \in Seq(Tokens), NEW V \in SUBSET Ids, NEW f, IsParser(f, e, V),
           NEW gs \in Seq(GroupSet), Len(gs) >= 1, NEW n \in Nat, n + 1 \in 1..Len(e),
           e[n + 1] \in Operators, Reading(f, e, V, gs, "operand", n)
    PROVE  /\ [gs EXCEPT ![Len(gs)].op = e[n + 1]] \in Seq(GroupSet)
           /\ Len([gs EXCEPT ![Len(gs)].op = e[n + 1]]) = Len(gs)
           /\ Reading(f, e, V, [gs EXCEPT ![Len(gs)].op = e[n + 1]], "operator", n + 1)
<1> DEFINE k == Len(gs)
           h == [gs[k] EXCEPT !.op = e[n + 1]]
           hs == [gs EXCEPT ![k].op = e[n + 1]]
<1>1. PICK s : Stack(f, e, V, gs, s) /\ Has(f, V, gs[k], s[k], n + 1)
  BY DEF Reading
<1>2. gs[k] \in GroupSet /\ k \in 1..Len(gs)
  OBVIOUS
<1>3. h \in GroupSet /\ h.means = gs[k].means /\ h.op = e[n + 1]
  BY <1>2 DEF GroupSet
<1>4. hs = [gs EXCEPT ![k] = h]
  OBVIOUS
<1> HIDE DEF h, hs
<1>5. /\ hs \in Seq(GroupSet) /\ Len(hs) = k /\ hs[k] = h
      /\ \A j \in 1..k - 1 : hs[j] = gs[j]
  BY <1>3, <1>4
<1>6. Stack(f, e, V, hs, s)
  BY <1>1, <1>5, StackTop
<1>7. Means(h, V) = Means(gs[k], V)
  BY <1>3 DEF Means
<1>8. f[<<"sum", s[k], FALSE>>] = f[<<"prodK", n + 1, Means(h, V)>>]
  BY <1>1, <1>7 DEF Has
<1>9. Token(e, n + 1) = h.op
  BY <1>3, TokenIs
<1>10. ((n + 1) + 1) - 1 = n + 1
  OBVIOUS
<1>11. Waits(f, e, V, h, s[k], (n + 1) + 1)
  BY <1>8, <1>9, <1>10 DEF Waits
<1>12. Reading(f, e, V, hs, "operator", n + 1)
  BY <1>5, <1>6, <1>11 DEF Reading
<1> QED BY <1>5, <1>12 DEF hs

LEMMA OpenRead ==
    ASSUME NEW e \in Seq(Tokens), NEW V \in SUBSET Ids, NEW f, IsParser(f, e, V),
           NEW gs \in Seq(GroupSet), Len(gs) >= 1, NEW n \in Nat, n + 1 \in 1..Len(e),
           e[n + 1] = "(", Reading(f, e, V, gs, "operator", n)
    PROVE  Reading(f, e, V, Append(gs, Open), "operator", n + 1)
<1> DEFINE k == Len(gs)
           hs == Append(gs, Open)
<1>1. PICK s : Stack(f, e, V, gs, s) /\ Waits(f, e, V, gs[k], s[k], n + 1)
  BY DEF Reading
<1> DEFINE t == Append(s, n + 2)
<1>2. s \in Seq(1..Len(e) + 1) /\ Len(s) = k
  BY <1>1 DEF Stack
<1>3. /\ t \in Seq(1..Len(e) + 1) /\ Len(t) = k + 1 /\ t[k + 1] = n + 2
      /\ \A j \in 1..k : t[j] = s[j]
  BY <1>2
<1>4. Len(hs) = k + 1 /\ hs[k + 1] = Open /\ \A j \in 1..k : hs[j] = gs[j]
  OBVIOUS
<1>5. Token(e, n + 1) = "("
  BY TokenIs
<1> HIDE DEF t, hs
<1>6. t[1] = 1
  BY <1>1, <1>3 DEF Stack
<1>7. ASSUME NEW j \in 1..Len(hs) - 1
      PROVE  /\ t[j + 1] - 1 \in 1..Len(e)
             /\ Token(e, t[j + 1] - 1) = "("
             /\ Waits(f, e, V, hs[j], t[j], t[j + 1] - 1)
  <2>1. CASE j = k
    <3>1. t[j + 1] - 1 = n + 1
      BY <1>3, <2>1
    <3> QED BY <1>1, <1>3, <1>4, <1>5, <2>1, <3>1
  <2>2. CASE j # k
    <3>1. j \in 1..k - 1 /\ j \in 1..k /\ j + 1 \in 1..k
      BY <1>4, <2>2
    <3>2. t[j + 1] = s[j + 1] /\ t[j] = s[j] /\ hs[j] = gs[j]
      BY <1>3, <1>4, <3>1
    <3> QED BY <1>1, <3>1, <3>2 DEF Stack
  <2> QED BY <2>1, <2>2
<1>8. Stack(f, e, V, hs, t)
  BY <1>3, <1>4, <1>6, <1>7 DEF Stack
<1>9. Waits(f, e, V, hs[k + 1], t[k + 1], (n + 1) + 1)
  BY <1>3, <1>4 DEF Waits
<1>10. Reading(f, e, V, hs, "operator", n + 1)
  BY <1>4, <1>8, <1>9 DEF Reading
<1> QED BY <1>10 DEF hs

LEMMA PrefixIs ==
    ASSUME NEW S, NEW s \in Seq(S), NEW k \in 1..Len(s)
    PROVE  /\ SubSeq(s, 1, k) \in Seq(S)
           /\ Len(SubSeq(s, 1, k)) = k
           /\ \A j \in 1..k : SubSeq(s, 1, k)[j] = s[j]
OBVIOUS

LEMMA CloseRead ==
    ASSUME NEW e \in Seq(Tokens), NEW V \in SUBSET Ids, NEW f, IsParser(f, e, V),
           NEW gs \in Seq(GroupSet), Len(gs) > 1, NEW n \in Nat, n + 1 \in 1..Len(e),
           e[n + 1] = ")", Reading(f, e, V, gs, "operand", n)
    PROVE  Reading(f, e, V, TakeIn(SubSeq(gs, 1, Len(gs) - 1), gs[Len(gs)].means), "operand", n + 1)
<1> DEFINE k == Len(gs)
           k1 == k - 1
           m == gs[k].means
           g1 == SubSeq(gs, 1, k1)
           hs == TakeIn(g1, m)
<1>1. PICK s : Stack(f, e, V, gs, s) /\ Has(f, V, gs[k], s[k], n + 1)
  BY DEF Reading
<1> DEFINE t == SubSeq(s, 1, k1)
<1>2. s \in Seq(1..Len(e) + 1) /\ Len(s) = k
  BY <1>1 DEF Stack
<1>3. k1 \in 1..k /\ k1 \in 1..k - 1 /\ k1 + 1 = k /\ k \in 1..k /\ gs[k] \in GroupSet
  OBVIOUS
<1>4. m \in SUBSET SUBSET Ids
  BY <1>3 DEF GroupSet
<1>5. g1 \in Seq(GroupSet) /\ Len(g1) = k1 /\ \A j \in 1..k1 : g1[j] = gs[j]
  BY <1>3
<1>6. t \in Seq(1..Len(e) + 1) /\ Len(t) = k1 /\ \A j \in 1..k1 : t[j] = s[j]
  <2>1. k1 \in 1..Len(s)
    BY <1>2, <1>3
  <2> HIDE DEF k1
  <2> QED BY <1>2, <2>1, PrefixIs
<1> HIDE DEF g1, t, k1, m
<1>7. Stack(f, e, V, g1, t)
  <2>1. t[1] = 1
    BY <1>1, <1>3, <1>6 DEF Stack
  <2>2. ASSUME NEW j \in 1..k1 - 1
        PROVE  /\ t[j + 1] - 1 \in 1..Len(e)
               /\ Token(e, t[j + 1] - 1) = "("
               /\ Waits(f, e, V, g1[j], t[j], t[j + 1] - 1)
    <3>1. j \in 1..k - 1 /\ j \in 1..k1 /\ j + 1 \in 1..k1
      BY <1>3
    <3>2. t[j + 1] = s[j + 1] /\ t[j] = s[j] /\ g1[j] = gs[j]
      BY <1>5, <1>6, <3>1
    <3> QED BY <1>1, <3>1, <3>2 DEF Stack
  <2> QED BY <1>5, <1>6, <2>1, <2>2 DEF Stack
<1> DEFINE i == s[k] - 1
           v == f[<<"value", i, FALSE>>]
           r == f[<<"sum", i + 1, FALSE>>]
<1>8. i \in 1..Len(e) /\ Token(e, i) = "(" /\ Waits(f, e, V, gs[k1], s[k1], i)
  BY <1>1, <1>3 DEF Stack
<1>9. s[k] \in 1..Len(e) + 1 /\ i + 1 = s[k] /\ i \in 1..Len(e) + 1
  BY <1>2, <1>3, <1>8
<1> HIDE DEF i
<1>10. Token(e, n + 1) = ")" /\ ")" \notin Operators /\ "(" \notin Ids /\ n + 1 \in 1..Len(e) + 1
  <2>1. Token(e, n + 1) = ")"
    BY TokenIs
  <2>2. ")" \notin Operators /\ "(" \notin Ids
    BY IdsAssumption DEF Operators
  <2> QED BY <2>1, <2>2
<1>11. Has(f, V, gs[k], i + 1, n + 1)
  BY <1>1, <1>9
<1>12. r.ok /\ r.next = n + 1 /\ r.val = Means(gs[k], V)
  <2> DEFINE x == n + 1
             p == i + 1
             g == gs[k]
  <2>1. x \in 1..Len(e) + 1 /\ Token(e, x) \notin Operators /\ Has(f, V, g, p, x)
    BY <1>10, <1>11
  <2> HIDE DEF x, p, g
  <2> DEFINE b == Means(g, V)
  <2>2. b \in BOOLEAN /\ f[<<"sum", p, FALSE>>] = f[<<"prodK", x, b>>]
    BY <2>1, MeansBoolean DEF Has
  <2> HIDE DEF b
  <2>3. f[<<"prodK", x, b>>] = Match(b, x)
    BY <2>1, <2>2, LoopEnds
  <2>4. Match(b, x).ok /\ Match(b, x).next = x /\ Match(b, x).val = b
    BY DEF Match
  <2>5. f[<<"sum", p, FALSE>>] = Match(b, x)
    BY <2>2, <2>3
  <2> QED BY <2>4, <2>5 DEF x, p, g, b
<1>13. v = value(f, e, V, i)
  BY <1>9, ValueAnswers
<1>14. value(f, e, V, i) = Match(r.val, r.next + 1)
  BY <1>8, <1>10, <1>12 DEF value
<1>15. r.val \in BOOLEAN /\ r.next + 1 \in Nat /\ r.next + 1 = n + 2 /\ (r.val <=> V \in m)
  <2>1. Means(gs[k], V) \in BOOLEAN /\ (Means(gs[k], V) <=> V \in m)
    BY DEF Means, m
  <2>2. n + 1 + 1 = n + 2 /\ n + 2 \in Nat
    OBVIOUS
  <2> HIDE DEF r
  <2> QED BY <1>12, <2>1, <2>2
<1> HIDE DEF r
<1>16. v.ok /\ v.next = n + 2 /\ (v.val <=> V \in m)
  BY <1>13, <1>14, <1>15, MatchGood
<1>17. /\ hs \in Seq(GroupSet) /\ Len(hs) = k1
       /\ \A j \in 1..k1 - 1 : hs[j] = g1[j]
       /\ hs[k1].means = Combined(g1[k1], m)
  <2>1. Len(g1) = k1 /\ Len(g1) >= 1
    BY <1>3, <1>5
  <2> QED BY <1>4, <1>5, <2>1, TakeInIs
<1> HIDE DEF hs
<1>18. Waits(f, e, V, g1[k1], t[k1], i) /\ g1[k1] \in GroupSet /\ t[k1] \in 1..Len(e) + 1 /\ hs[k1] \in GroupSet
  BY <1>3, <1>5, <1>6, <1>8, <1>17
<1>19. Has(f, V, hs[k1], t[k1], v.next)
  <2>1. f[<<"value", i, FALSE>>].ok /\ (f[<<"value", i, FALSE>>].val <=> V \in m)
    BY <1>16
  <2> HIDE DEF v
  <2> QED BY <1>4, <1>9, <1>17, <1>18, <2>1, Takes DEF v
<1>20. Stack(f, e, V, hs, t)
  BY <1>5, <1>7, <1>17, StackTop
<1>21. (n + 1) + 1 = n + 2
  OBVIOUS
<1> HIDE DEF v
<1>22. Reading(f, e, V, hs, "operand", n + 1)
  BY <1>16, <1>17, <1>19, <1>20, <1>21 DEF Reading
<1> QED BY <1>22 DEF hs, g1, k1, m

\* Behind an operand f goes on only with an operator, or with the ")" of a
\* group.
LEMMA OperandRefused ==
    ASSUME NEW e \in Seq(Tokens), NEW V \in SUBSET Ids, NEW f, IsParser(f, e, V),
           NEW gs \in Seq(GroupSet), Len(gs) >= 1, NEW x \in 1..Len(e) + 1, NEW s, Stack(f, e, V, gs, s),
           Has(f, V, gs[Len(gs)], s[Len(gs)], x), Token(e, x) \notin Operators,
           IF Len(gs) = 1 THEN x # Len(e) + 1 ELSE Token(e, x) # ")"
    PROVE  Refused(f, e)
<1> DEFINE k == Len(gs)
           g == gs[k]
           p == s[k]
           r == f[<<"sum", p, FALSE>>]
<1>1. Has(f, V, g, p, x)
  OBVIOUS
<1> HIDE DEF g, p
<1> DEFINE b == Means(g, V)
<1>2. b \in BOOLEAN /\ r = f[<<"prodK", x, b>>]
  BY <1>1, MeansBoolean DEF Has
<1> HIDE DEF b
<1>3. r.ok /\ r.next = x
  <2>1. f[<<"prodK", x, b>>] = Match(b, x)
    BY <1>2, LoopEnds
  <2>2. r = Match(b, x)
    BY <1>2, <2>1
  <2> QED BY <2>2 DEF Match
<1>4. CASE k = 1
  <2>1. p = 1
    BY <1>4 DEF Stack, p
  <2> QED BY <1>3, <1>4, <2>1 DEF Refused
<1>5. CASE k > 1
  <2>1. Token(e, r.next) # ")"
    BY <1>3, <1>5
  <2>2. Stuck(f, e, 1)
    BY <1>5, <2>1, FallsOpen DEF p
  <2> QED BY <2>2, StuckRefused
<1> QED BY <1>4, <1>5

\* Behind an operator f goes on only with a value.
LEMMA OperatorRefused ==
    ASSUME NEW e \in Seq(Tokens), NEW V \in SUBSET Ids, NEW f, IsParser(f, e, V),
           NEW gs \in Seq(GroupSet), Len(gs) >= 1, NEW x \in 1..Len(e) + 1, NEW s, Stack(f, e, V, gs, s),
           Waits(f, e, V, gs[Len(gs)], s[Len(gs)], x), Token(e, x) \notin Ids \cup {"("}
    PROVE  Refused(f, e)
<1> DEFINE k == Len(gs)
<1>1. f[<<"value", x, FALSE>>] = value(f, e, V, x)
  BY ValueAnswers
<1>2. value(f, e, V, x) = NoMatch
  BY DEF value
<1>3. ~f[<<"value", x, FALSE>>].ok
  BY <1>1, <1>2 DEF NoMatch
<1>4. k \in 1..Len(gs)
  OBVIOUS
<1>5. s[k] \in 1..Len(e) + 1 /\ gs[k] \in GroupSet
  BY <1>4, StackPlace
<1>6. Stuck(f, e, s[k])
  BY <1>3, <1>5, Misses
<1>7. Stuck(f, e, 1)
  BY <1>4, <1>6, Falls
<1> QED BY <1>7, StuckRefused

\* The expression was read as a prefix of e, for which f answers.
Reads(e, V, f) ==
    /\ IsParser(f, e, V)
    /\ Len(expr) <= Len(e)
    /\ \A i \in 1..Len(expr) : e[i] = expr[i]

\* For each way to go on from the tokens read, f is where the reading is.
ReadingInv ==
    /\ expr \in Seq(Tokens)
    /\ groups \in Seq(GroupSet)
    /\ Len(groups) >= 1
    /\ after \in {"operand", "operator", "bad"}
    /\ \A e \in Seq(Tokens), V \in SUBSET Ids : \A f :
          Reads(e, V, f) => Reading(f, e, V, groups, after, Len(expr))

LEMMA InitReading == Init => ReadingInv
<1> SUFFICES ASSUME Init PROVE ReadingInv
  OBVIOUS
<1>1. expr = <<>> /\ groups = <<Open>> /\ after = "operator" /\ Len(expr) = 0
  BY DEF Init
<1>2. Open \in GroupSet
  BY DEF Open, GroupSet, Operators
<1>3. expr \in Seq(Tokens) /\ groups \in Seq(GroupSet) /\ Len(groups) = 1 /\ groups[1] = Open
  BY <1>1, <1>2
<1>4. ASSUME NEW e \in Seq(Tokens), NEW V \in SUBSET Ids, NEW f
      PROVE  Reading(f, e, V, groups, "operator", 0)
  <2>1. Stack(f, e, V, groups, <<1>>)
    BY <1>3 DEF Stack
  <2>2. Waits(f, e, V, groups[1], 1, 0 + 1)
    BY <1>3 DEF Waits
  <2> DEFINE s == <<1>>
  <2>3. s[1] = 1
    OBVIOUS
  <2>4. Waits(f, e, V, groups[Len(groups)], s[Len(groups)], 0 + 1)
    BY <1>3, <2>2, <2>3
  <2> HIDE DEF s
  <2>5. Stack(f, e, V, groups, s)
    BY <2>1 DEF s
  <2> QED BY <2>4, <2>5 DEF Reading
<1> QED BY <1>1, <1>3, <1>4 DEF ReadingInv

\* One step per kind of token.
LEMMA NextReading == ReadingInv /\ [Next]_vars => ReadingInv'
<1> SUFFICES ASSUME ReadingInv, [Next]_vars PROVE ReadingInv'
  OBVIOUS
<1>1. CASE UNCHANGED vars
  BY <1>1 DEF vars, ReadingInv, Reads
<1>2. CASE Next
  <2> DEFINE n == Len(expr)
             k == Len(groups)
  <2>1. PICK t \in Tokens : /\ expr' = Append(expr, t)
                            /\ \/ t \in Ids /\ ReadId(t)
                               \/ t \in Operators /\ ReadOperator(t)
                               \/ t = "(" /\ ReadOpen
                               \/ t = ")" /\ ReadClose
                               \/ Misplaced(t)
    BY <1>2 DEF Next
  <2>2. /\ expr \in Seq(Tokens) /\ groups \in Seq(GroupSet) /\ k >= 1 /\ k \in Nat /\ n \in Nat
        /\ after \in {"operand", "operator", "bad"}
    BY DEF ReadingInv
  <2>3. /\ expr' \in Seq(Tokens) /\ Len(expr') = n + 1 /\ expr'[n + 1] = t
        /\ \A i \in 1..n : expr'[i] = expr[i]
    BY <2>1, <2>2
  <2>4. ASSUME NEW e \in Seq(Tokens), NEW V \in SUBSET Ids, NEW f, Reads(e, V, f)'
        PROVE  /\ IsParser(f, e, V) /\ n + 1 \in 1..Len(e) /\ e[n + 1] = t /\ Token(e, n + 1) = t
               /\ Reading(f, e, V, groups, after, n)
    <3>1. IsParser(f, e, V) /\ Len(expr') <= Len(e) /\ \A i \in 1..Len(expr') : e[i] = expr'[i]
      BY <2>4 DEF Reads
    <3>2. n + 1 \in 1..Len(e) /\ n <= Len(e)
      BY <2>2, <2>3, <3>1
    <3>3. e[n + 1] = t /\ \A i \in 1..n : e[i] = expr[i]
      BY <2>2, <2>3, <3>1
    <3>4. Token(e, n + 1) = t
      BY <3>2, <3>3, TokenIs
    <3>5. Reads(e, V, f)
      BY <3>1, <3>2, <3>3 DEF Reads
    <3>6. Reading(f, e, V, groups, after, n)
      BY <3>5 DEF ReadingInv
    <3> QED BY <3>1, <3>2, <3>3, <3>4, <3>6
  <2>5. SUFFICES /\ groups' \in Seq(GroupSet) /\ Len(groups') >= 1
                 /\ after' \in {"operand", "operator", "bad"}
                 /\ \A e \in Seq(Tokens), V \in SUBSET Ids : \A f :
                       Reads(e, V, f)' => Reading(f, e, V, groups', after', n + 1)
    <3>1. ASSUME NEW e \in Seq(Tokens), NEW V \in SUBSET Ids, NEW f
          PROVE  Reading(f, e, V, groups, after, Len(expr))' = Reading(f, e, V, groups', after', n + 1)
      BY <2>3
    <3> QED BY <2>3, <2>5, <3>1 DEF ReadingInv
  <2>6. CASE t \in Ids /\ ReadId(t)
    <3> DEFINE m == {W \in SUBSET Ids : t \in W}
    <3>1. after = "operator" /\ groups' = TakeIn(groups, m) /\ after' = "operand"
      BY <2>6 DEF ReadId
    <3>2. m \in SUBSET SUBSET Ids
      OBVIOUS
    <3>3. groups' \in Seq(GroupSet) /\ Len(groups') = k
      <4> HIDE DEF m
      <4> QED BY <2>2, <3>1, <3>2, TakeInIs
    <3>4. ASSUME NEW e \in Seq(Tokens), NEW V \in SUBSET Ids, NEW f, Reads(e, V, f)'
          PROVE  Reading(f, e, V, groups', after', n + 1)
      <4>1. /\ IsParser(f, e, V) /\ n + 1 \in 1..Len(e) /\ e[n + 1] = t
            /\ Reading(f, e, V, groups, "operator", n)
        BY <2>4, <3>1, <3>4
      <4>2. Reading(f, e, V, TakeIn(groups, {W \in SUBSET Ids : e[n + 1] \in W}), "operand", n + 1)
        BY <2>2, <2>6, <4>1, IdRead
      <4> QED BY <3>1, <4>1, <4>2
    <3> QED BY <2>2, <3>1, <3>3, <3>4
  <2>7. CASE t \in Operators /\ ReadOperator(t)
    <3> DEFINE h == [groups[k] EXCEPT !.op = t]
    <3>1. after = "operand" /\ groups' = [groups EXCEPT ![k].op = t] /\ after' = "operator"
      BY <2>7 DEF ReadOperator
    <3>2. groups' \in Seq(GroupSet) /\ Len(groups') = k
      <4>1. groups[k] \in GroupSet
        BY <2>2
      <4>2. h \in GroupSet
        BY <2>7, <4>1 DEF GroupSet
      <4>3. groups' = [groups EXCEPT ![k] = h]
        BY <3>1
      <4> HIDE DEF h
      <4> QED BY <2>2, <4>2, <4>3
    <3>3. ASSUME NEW e \in Seq(Tokens), NEW V \in SUBSET Ids, NEW f, Reads(e, V, f)'
          PROVE  Reading(f, e, V, groups', after', n + 1)
      <4>1. /\ IsParser(f, e, V) /\ n + 1 \in 1..Len(e) /\ e[n + 1] = t
            /\ Reading(f, e, V, groups, "operand", n)
        BY <2>4, <3>1, <3>3
      <4>2. Reading(f, e, V, [groups EXCEPT ![k].op = e[n + 1]], "operator", n + 1)
        BY <2>2, <2>7, <4>1, OperatorRead
      <4> QED BY <3>1, <4>1, <4>2
    <3> QED BY <2>2, <3>1, <3>2, <3>3
  <2>8. CASE t = "(" /\ ReadOpen
    <3>1. after = "operator" /\ groups' = Append(groups, Open) /\ after' = "operator"
      BY <2>8 DEF ReadOpen
    <3>2. groups' \in Seq(GroupSet) /\ Len(groups') = k + 1
      <4>1. Open \in GroupSet
        BY DEF Open, GroupSet, Operators
      <4> QED BY <2>2, <3>1, <4>1
    <3>3. ASSUME NEW e \in Seq(Tokens), NEW V \in SUBSET Ids, NEW f, Reads(e, V, f)'
          PROVE  Reading(f, e, V, groups', after', n + 1)
      <4>1. /\ IsParser(f, e, V) /\ n + 1 \in 1..Len(e) /\ e[n + 1] = "("
            /\ Reading(f, e, V, groups, "operator", n)
        BY <2>4, <2>8, <3>1, <3>3
      <4>2. Reading(f, e, V, Append(groups, Open), "operator", n + 1)
        BY <2>2, <4>1, OpenRead
      <4> QED BY <3>1, <4>2
    <3> QED BY <2>2, <3>1, <3>2, <3>3
  <2>9. CASE t = ")" /\ ReadClose
    <3> DEFINE g1 == SubSeq(groups, 1, k - 1)
               m == groups[k].means
    <3>1. after = "operand" /\ k > 1 /\ groups' = TakeIn(g1, m) /\ after' = "operand"
      BY <2>9 DEF ReadClose, Top
    <3>2. groups' \in Seq(GroupSet) /\ Len(groups') >= 1
      <4>1. g1 \in Seq(GroupSet) /\ Len(g1) = k - 1 /\ Len(g1) >= 1
        BY <2>2, <3>1
      <4>2. groups[k] \in GroupSet
        BY <2>2
      <4>3. m \in SUBSET SUBSET Ids
        BY <4>2 DEF GroupSet
      <4> HIDE DEF g1, m
      <4> QED BY <3>1, <4>1, <4>3, TakeInIs
    <3>3. ASSUME NEW e \in Seq(Tokens), NEW V \in SUBSET Ids, NEW f, Reads(e, V, f)'
          PROVE  Reading(f, e, V, groups', after', n + 1)
      <4>1. /\ IsParser(f, e, V) /\ n + 1 \in 1..Len(e) /\ e[n + 1] = ")"
            /\ Reading(f, e, V, groups, "operand", n)
        BY <2>4, <2>9, <3>1, <3>3
      <4>2. Reading(f, e, V, TakeIn(g1, m), "operand", n + 1)
        BY <2>2, <3>1, <4>1, CloseRead
      <4> QED BY <3>1, <4>2
    <3> QED BY <2>2, <3>1, <3>2, <3>3
  <2>10. CASE Misplaced(t)
    <3>1. groups' = <<Open>> /\ after' = "bad"
      BY <2>10 DEF Misplaced
    <3>2. groups' \in Seq(GroupSet) /\ Len(groups') = 1
      <4>1. Open \in GroupSet
        BY DEF Open, GroupSet, Operators
      <4> QED BY <3>1, <4>1
    <3>3. /\ after = "operand" => t \notin Operators /\ (t = ")" => k = 1)
          /\ after = "operator" => t \notin Ids \cup {"("}
      BY <2>2, <2>10, IdsAssumption DEF Misplaced, Operators
    <3>4. ASSUME NEW e \in Seq(Tokens), NEW V \in SUBSET Ids, NEW f, Reads(e, V, f)'
          PROVE  Refused(f, e)
      <4> DEFINE x == n + 1
      <4>1. /\ IsParser(f, e, V) /\ x \in 1..Len(e) /\ Token(e, x) = t /\ x \in 1..Len(e) + 1
            /\ x # Len(e) + 1 /\ Reading(f, e, V, groups, after, n)
        BY <2>2, <2>4, <3>4
      <4>2. CASE after = "bad"
        BY <4>1, <4>2 DEF Reading
      <4>3. CASE after = "operand"
        <5>1. PICK s : Stack(f, e, V, groups, s) /\ Has(f, V, groups[k], s[k], x)
          BY <4>1, <4>3 DEF Reading
        <5> HIDE DEF x
        <5> QED BY <2>2, <3>3, <4>1, <4>3, <5>1, OperandRefused
      <4>4. CASE after = "operator"
        <5>1. PICK s : Stack(f, e, V, groups, s) /\ Waits(f, e, V, groups[k], s[k], x)
          BY <4>1, <4>4 DEF Reading
        <5> HIDE DEF x
        <5> QED BY <2>2, <3>3, <4>1, <4>4, <5>1, OperatorRefused
      <4> QED BY <2>2, <4>2, <4>3, <4>4
    <3> QED BY <3>1, <3>2, <3>4 DEF Reading
  <2> QED BY <2>1, <2>6, <2>7, <2>8, <2>9, <2>10
<1> QED BY <1>1, <1>2

\* At the end of the expression, f answers what was read.
LEMMA ReadingMeans == ReadingInv => EvaluatesLeftToRight
<1> SUFFICES ASSUME ReadingInv, NEW V \in SUBSET Ids
             PROVE  Evaluate(expr, V) = IF ~Complete THEN "error" ELSE IF V \in Top.means THEN "true" ELSE "false"
  BY DEF EvaluatesLeftToRight
<1> DEFINE k == Len(groups)
           x == Len(expr) + 1
<1>1. /\ expr \in Seq(Tokens) /\ groups \in Seq(GroupSet) /\ k >= 1 /\ k \in Nat
      /\ after \in {"operand", "operator", "bad"} /\ x \in 1..Len(expr) + 1
  BY DEF ReadingInv
<1>2. PICK f : IsParser(f, expr, V) /\ InitParser(expr, V) = f[<<"sum", 1, FALSE>>]
  BY <1>1, ParserExists
<1> DEFINE r == f[<<"sum", 1, FALSE>>]
<1>3. Reading(f, expr, V, groups, after, Len(expr))
  BY <1>1, <1>2 DEF ReadingInv, Reads
<1>4. Good(expr, "sum", 1, r)
  <2>1. 1 \in 1..Len(expr) + 1 /\ IsParser(f, expr, V)
    BY <1>1, <1>2
  <2> QED BY <2>1 DEF IsParser, Kinds
<1>5. r.ok \in BOOLEAN /\ r.val \in BOOLEAN
  BY <1>4 DEF Good
<1>6. Evaluate(expr, V) = IF ~r.ok \/ r.next # Len(expr) + 1 THEN "error" ELSE IF r.val THEN "true" ELSE "false"
  BY <1>2 DEF Evaluate
<1>7. x \notin DOMAIN expr
  BY <1>1
<1>8. Token(expr, x) = "" /\ "" \notin Operators /\ "" \notin Ids \cup {"("} /\ "" # ")"
  BY <1>7, IdsAssumption DEF Token, Operators
<1>9. CASE Complete
  <2>1. after = "operand" /\ k = 1
    BY <1>9 DEF Complete
  <2>2. PICK s : Stack(f, expr, V, groups, s) /\ Has(f, V, groups[k], s[k], x)
    BY <1>3, <2>1 DEF Reading
  <2>3. Has(f, V, Top, 1, x)
    BY <2>1, <2>2 DEF Stack, Top
  <2> HIDE DEF x
  <2> DEFINE b == Means(Top, V)
  <2>4. b \in BOOLEAN /\ r = f[<<"prodK", x, b>>] /\ (b <=> V \in Top.means)
    <3>1. r = f[<<"prodK", x, b>>]
      BY <2>3 DEF Has
    <3>2. b \in BOOLEAN /\ (b <=> V \in Top.means)
      BY DEF Means
    <3> QED BY <3>1, <3>2
  <2> HIDE DEF b
  <2>5. f[<<"prodK", x, b>>] = Match(b, x)
    <3>1. expr \in Seq(Tokens) /\ IsParser(f, expr, V) /\ x \in 1..Len(expr) + 1
      BY <1>1, <1>2
    <3>2. b \in BOOLEAN /\ Token(expr, x) \notin Operators
      BY <1>8, <2>4
    <3> QED BY <3>1, <3>2, LoopEnds
  <2>6. r = Match(b, x)
    BY <2>4, <2>5
  <2>7. r.ok /\ r.next = x /\ (r.val <=> V \in Top.means)
    BY <2>4, <2>6 DEF Match
  <2> HIDE DEF r
  <2> QED BY <1>6, <1>9, <2>7 DEF x
<1>10. CASE ~Complete
  <2>1. Refused(f, expr)
    <3>1. CASE after = "bad"
      BY <1>3, <3>1 DEF Reading
    <3>2. CASE after = "operand"
      <4>1. k # 1
        BY <1>10, <3>2 DEF Complete
      <4>2. PICK s : Stack(f, expr, V, groups, s) /\ Has(f, V, groups[k], s[k], x)
        BY <1>3, <3>2 DEF Reading
      <4> HIDE DEF x
      <4> QED BY <1>1, <1>2, <1>8, <4>1, <4>2, OperandRefused
    <3>3. CASE after = "operator"
      <4>1. PICK s : Stack(f, expr, V, groups, s) /\ Waits(f, expr, V, groups[k], s[k], x)
        BY <1>3, <3>3 DEF Reading
      <4> HIDE DEF x
      <4> QED BY <1>1, <1>2, <1>8, <4>1, OperatorRefused
    <3> QED BY <1>1, <3>1, <3>2, <3>3
  <2>2. Evaluate(expr, V) = "error"
    BY <1>5, <1>6, <2>1 DEF Refused
  <2> QED BY <1>10, <2>2
<1> QED BY <1>9, <1>10

\* EvaluatesLeftToRight: for policies of any length and nesting, over any
\* identities, the recursive parser takes each group from left to right.
THEOREM LeftToRightTheorem == Spec => []EvaluatesLeftToRight
<1> QED BY InitReading, NextReading, ReadingMeans, PTL DEF Spec

-----------------------------------------------------------------------------
(* Where no group mixes the operators, the grammar and the reading from    *)
(* left to right agree, group by group.                                    *)

TermSet == [all : SUBSET SUBSET Ids, any : SUBSET SUBSET Ids, ops : SUBSET Operators]

\* g and h read a group up to an operator, or up to its beginning.
AgreeOpen(g, h) ==
    \/ g.op = "&" /\ h.any = {} /\ g.means = h.all /\ h.ops \subseteq {"&"}
       /\ (h.ops = {} => h.all = SUBSET Ids)
    \/ g.op = "|" /\ h.all = SUBSET Ids /\ g.means = h.any /\ h.ops = {"|"}

\* g and h read a group up to an operand.
AgreeClosed(g, h) ==
    /\ g.means = h.all \cap h.any
    /\ h.ops # Operators
    /\ "&" \notin h.ops => h.all = SUBSET Ids

\* The groups below the last one wait for its value.
Agree(gs, ts, a) ==
    /\ \A j \in 1..Len(gs) - 1 : AgreeOpen(gs[j], ts[j])
    /\ IF a = "operand" THEN AgreeClosed(gs[Len(gs)], ts[Len(gs)])
                        ELSE AgreeOpen(gs[Len(gs)], ts[Len(gs)])

AgreeInv ==
    /\ terms \in Seq(TermSet)
    /\ Len(terms) = Len(groups)
    /\ mixed \in BOOLEAN
    /\ ~mixed => Agree(groups, terms, after)

\* A group takes in an operand.
LEMMA OperandAgrees ==
    ASSUME NEW g \in GroupSet, NEW h \in TermSet, NEW m \in SUBSET SUBSET Ids, AgreeOpen(g, h)
    PROVE  AgreeClosed([g EXCEPT !.means = Combined(g, m)], [h EXCEPT !.any = h.any \cup m])
<1> DEFINE x == [g EXCEPT !.means = Combined(g, m)]
           y == [h EXCEPT !.any = h.any \cup m]
<1>1. x.means = Combined(g, m) /\ y.all = h.all /\ y.any = h.any \cup m /\ y.ops = h.ops
  BY DEF GroupSet, TermSet
<1> HIDE DEF x, y
<1>2. CASE g.op = "&" /\ h.any = {} /\ g.means = h.all /\ h.ops \subseteq {"&"}
           /\ (h.ops = {} => h.all = SUBSET Ids)
  <2>1. x.means = h.all \cap m /\ y.any = m
    BY <1>1, <1>2 DEF Combined
  <2>2. "&" \notin h.ops => h.ops = {}
    BY <1>2
  <2>3. h.ops # Operators
    BY <1>2 DEF Operators
  <2> QED BY <1>1, <1>2, <2>1, <2>2, <2>3 DEF AgreeClosed
<1>3. CASE g.op = "|" /\ h.all = SUBSET Ids /\ g.means = h.any /\ h.ops = {"|"}
  <2>1. x.means = h.any \cup m
    BY <1>1, <1>3 DEF Combined
  <2>2. h.any \cup m \subseteq SUBSET Ids
    BY DEF TermSet
  <2>3. h.ops # Operators
    BY <1>3 DEF Operators
  <2> QED BY <1>1, <1>3, <2>1, <2>2, <2>3 DEF AgreeClosed
<1> QED BY <1>2, <1>3 DEF AgreeOpen, x, y

\* A group goes on with an operator that it does not mix with another.
LEMMA OperatorAgrees ==
    ASSUME NEW g \in GroupSet, NEW h \in TermSet, NEW op \in Operators,
           AgreeClosed(g, h), h.ops \cup {op} # Operators
    PROVE  AgreeOpen([g EXCEPT !.op = op], AddOperator(h, op))
<1> DEFINE x == [g EXCEPT !.op = op]
           y == AddOperator(h, op)
<1>1. x.op = op /\ x.means = g.means
  BY DEF GroupSet
<1>2. /\ y.all = IF op = "&" THEN h.all \cap h.any ELSE h.all
      /\ y.any = IF op = "&" THEN {} ELSE h.any
      /\ y.ops = h.ops \cup {op}
  BY DEF AddOperator
<1>3. h.ops \subseteq {"&", "|"} /\ h.any \subseteq SUBSET Ids
  BY DEF TermSet, Operators
<1> HIDE DEF x, y
<1>4. ASSUME op = "&" PROVE AgreeOpen(x, y)
  <2>1. h.ops \subseteq {"&"}
    BY <1>3, <1>4 DEF Operators
  <2>2. y.ops = {"&"} /\ y.any = {} /\ y.all = h.all \cap h.any
    BY <1>2, <1>4, <2>1
  <2>3. x.op = "&" /\ x.means = y.all
    BY <1>1, <1>4, <2>2 DEF AgreeClosed
  <2> QED BY <2>2, <2>3 DEF AgreeOpen
<1>5. ASSUME op = "|" PROVE AgreeOpen(x, y)
  <2>1. "&" \notin h.ops /\ h.ops \cup {"|"} = {"|"}
    BY <1>3, <1>5 DEF Operators
  <2>2. y.ops = {"|"} /\ y.any = h.any /\ y.all = h.all /\ h.all = SUBSET Ids
    BY <1>2, <1>5, <2>1 DEF AgreeClosed
  <2>3. x.op = "|" /\ x.means = y.any
    BY <1>1, <1>3, <1>5, <2>2 DEF AgreeClosed
  <2> QED BY <2>2, <2>3 DEF AgreeOpen
<1>6. AgreeOpen(x, y)
  BY <1>4, <1>5 DEF Operators
<1> QED BY <1>6 DEF x, y

\* Only the last group changes, in both readings.
LEMMA OperandJoins ==
    ASSUME NEW gs \in Seq(GroupSet), NEW ts \in Seq(TermSet), Len(gs) >= 1, Len(ts) = Len(gs),
           NEW m \in SUBSET SUBSET Ids
    PROVE  /\ AddFactor(ts, m) \in Seq(TermSet)
           /\ Len(AddFactor(ts, m)) = Len(ts)
           /\ Len(TakeIn(gs, m)) = Len(gs)
           /\ (\A j \in 1..Len(gs) : AgreeOpen(gs[j], ts[j]))
                 => Agree(TakeIn(gs, m), AddFactor(ts, m), "operand")
<1> DEFINE k == Len(gs)
           x == [gs[k] EXCEPT !.means = Combined(gs[k], m)]
           y == [ts[k] EXCEPT !.any = ts[k].any \cup m]
<1>1. k \in Nat /\ k \in 1..k /\ gs[k] \in GroupSet /\ ts[k] \in TermSet
  OBVIOUS
<1>2. x \in GroupSet /\ y \in TermSet
  BY <1>1 DEF GroupSet, TermSet, Combined
<1>3. TakeIn(gs, m) = [gs EXCEPT ![k] = x] /\ AddFactor(ts, m) = [ts EXCEPT ![k] = y]
  BY DEF TakeIn, AddFactor
<1>4. AgreeOpen(gs[k], ts[k]) => AgreeClosed(x, y)
  BY <1>1, OperandAgrees
<1> HIDE DEF x, y
<1>5. /\ [ts EXCEPT ![k] = y] \in Seq(TermSet) /\ Len([ts EXCEPT ![k] = y]) = k
      /\ [ts EXCEPT ![k] = y][k] = y
      /\ \A j \in 1..k - 1 : [ts EXCEPT ![k] = y][j] = ts[j]
  BY <1>1, <1>2
<1>6. /\ Len([gs EXCEPT ![k] = x]) = k
      /\ [gs EXCEPT ![k] = x][k] = x
      /\ \A j \in 1..k - 1 : [gs EXCEPT ![k] = x][j] = gs[j]
  BY <1>1, <1>2
<1>7. \A j \in 1..k - 1 : j \in 1..k
  BY <1>1
<1> HIDE DEF k
<1>8. ASSUME \A j \in 1..k : AgreeOpen(gs[j], ts[j])
      PROVE  Agree([gs EXCEPT ![k] = x], [ts EXCEPT ![k] = y], "operand")
  <2>1. \A j \in 1..k - 1 : AgreeOpen([gs EXCEPT ![k] = x][j], [ts EXCEPT ![k] = y][j])
    BY <1>5, <1>6, <1>7, <1>8
  <2>2. AgreeClosed([gs EXCEPT ![k] = x][k], [ts EXCEPT ![k] = y][k])
    BY <1>1, <1>4, <1>5, <1>6, <1>8
  <2> QED BY <1>6, <2>1, <2>2 DEF Agree
<1> QED BY <1>3, <1>5, <1>6, <1>8 DEF k

\* Every token keeps the two readings together, until a group mixes operators.
LEMMA AgreeStep == ReadingInv /\ AgreeInv /\ [Next]_vars => AgreeInv'
<1> SUFFICES ASSUME ReadingInv, AgreeInv, [Next]_vars PROVE AgreeInv'
  OBVIOUS
<1> DEFINE k == Len(groups)
<1>1. /\ groups \in Seq(GroupSet) /\ k \in Nat /\ k >= 1 /\ k \in 1..k
      /\ terms \in Seq(TermSet) /\ Len(terms) = k /\ mixed \in BOOLEAN
      /\ groups[k] \in GroupSet /\ terms[k] \in TermSet
  BY DEF ReadingInv, AgreeInv
<1>2. Open \in GroupSet /\ NoTerm \in TermSet /\ AgreeOpen(Open, NoTerm)
  BY DEF Open, NoTerm, GroupSet, TermSet, AgreeOpen, Operators
<1>o. ASSUME after # "operand", ~mixed PROVE \A j \in 1..k : AgreeOpen(groups[j], terms[j])
  BY <1>1, <1>o DEF AgreeInv, Agree
<1>3. CASE UNCHANGED vars
  BY <1>3 DEF vars, AgreeInv
<1>4. ASSUME NEW t \in Ids, ReadId(t) PROVE AgreeInv'
  <2> DEFINE m == {V \in SUBSET Ids : t \in V}
  <2>1. /\ groups' = TakeIn(groups, m) /\ terms' = AddFactor(terms, m)
        /\ after = "operator" /\ after' = "operand" /\ mixed' = mixed
    BY <1>4 DEF ReadId
  <2>2. m \in SUBSET SUBSET Ids
    OBVIOUS
  <2> HIDE DEF m
  <2>3. /\ terms' \in Seq(TermSet) /\ Len(terms') = Len(groups')
        /\ (\A j \in 1..k : AgreeOpen(groups[j], terms[j])) => Agree(groups', terms', "operand")
    BY <1>1, <2>1, <2>2, OperandJoins
  <2> QED BY <1>1, <1>o, <2>1, <2>3 DEF AgreeInv
<1>5. ASSUME NEW t \in Operators, ReadOperator(t) PROVE AgreeInv'
  <2> DEFINE x == [groups[k] EXCEPT !.op = t]
             y == AddOperator(terms[k], t)
  <2>1. /\ groups' = [groups EXCEPT ![k] = x] /\ terms' = [terms EXCEPT ![k] = y]
        /\ after = "operand" /\ after' = "operator"
        /\ mixed' = (mixed \/ terms[k].ops \cup {t} = Operators)
    BY <1>1, <1>5 DEF ReadOperator, LastTerm
  <2>2. x \in GroupSet /\ y \in TermSet
    BY <1>1 DEF GroupSet, TermSet, AddOperator
  <2>3. AgreeClosed(groups[k], terms[k]) /\ terms[k].ops \cup {t} # Operators => AgreeOpen(x, y)
    BY <1>1, OperatorAgrees
  <2> HIDE DEF x, y
  <2>4. /\ terms' \in Seq(TermSet) /\ Len(terms') = k /\ terms'[k] = y
        /\ \A j \in 1..k - 1 : terms'[j] = terms[j]
    BY <1>1, <2>1, <2>2
  <2>5. /\ Len(groups') = k /\ groups'[k] = x
        /\ \A j \in 1..k - 1 : groups'[j] = groups[j]
    BY <1>1, <2>1, <2>2
  <2> HIDE DEF k
  <2>6. mixed' \in BOOLEAN
    BY <1>1, <2>1
  <2>7. ASSUME ~mixed' PROVE Agree(groups', terms', after')
    <3>1. ~mixed /\ terms[k].ops \cup {t} # Operators
      BY <2>1, <2>7
    <3>2. /\ AgreeClosed(groups[k], terms[k])
          /\ \A j \in 1..k - 1 : AgreeOpen(groups[j], terms[j])
      BY <2>1, <3>1 DEF AgreeInv, Agree, k
    <3>3. AgreeOpen(groups'[k], terms'[k])
      BY <2>3, <2>4, <2>5, <3>1, <3>2
    <3>4. \A j \in 1..k - 1 : AgreeOpen(groups'[j], terms'[j])
      BY <2>4, <2>5, <3>2
    <3>5. after' # "operand"
      BY <2>1
    <3> QED BY <2>5, <3>3, <3>4, <3>5 DEF Agree
  <2> QED BY <2>4, <2>5, <2>6, <2>7 DEF AgreeInv
<1>6. ASSUME ReadOpen PROVE AgreeInv'
  <2>1. /\ groups' = Append(groups, Open) /\ terms' = Append(terms, NoTerm)
        /\ after = "operator" /\ after' = "operator" /\ mixed' = mixed
    BY <1>6 DEF ReadOpen
  <2>2. /\ terms' \in Seq(TermSet) /\ Len(terms') = k + 1 /\ terms'[k + 1] = NoTerm
        /\ \A j \in 1..k : terms'[j] = terms[j]
    BY <1>1, <1>2, <2>1
  <2>3. /\ Len(groups') = k + 1 /\ groups'[k + 1] = Open
        /\ \A j \in 1..k : groups'[j] = groups[j]
    BY <1>1, <1>2, <2>1
  <2>4. ASSUME ~mixed PROVE Agree(groups', terms', after')
    <3>1. \A j \in 1..k : AgreeOpen(groups[j], terms[j])
      BY <1>o, <2>1, <2>4
    <3>2. 1..Len(groups') - 1 = 1..k
      BY <1>1, <2>3
    <3> HIDE DEF k
    <3>3. \A j \in 1..Len(groups') - 1 : AgreeOpen(groups'[j], terms'[j])
      BY <2>2, <2>3, <3>1, <3>2
    <3> QED BY <1>2, <2>1, <2>2, <2>3, <3>3 DEF Agree
  <2> QED BY <1>1, <2>1, <2>2, <2>3, <2>4 DEF AgreeInv
<1>7. ASSUME ReadClose PROVE AgreeInv'
  <2> DEFINE gs == SubSeq(groups, 1, k - 1)
             ts == SubSeq(terms, 1, k - 1)
             m == groups[k].means
             u == terms[k].all \cap terms[k].any
  <2>1. /\ groups' = TakeIn(gs, m) /\ terms' = AddFactor(ts, u)
        /\ after = "operand" /\ after' = "operand" /\ mixed' = mixed /\ k > 1
    BY <1>1, <1>7 DEF ReadClose, Top, LastTerm, Grammar
  <2>2. /\ gs \in Seq(GroupSet) /\ Len(gs) = k - 1 /\ Len(gs) >= 1
        /\ ts \in Seq(TermSet) /\ Len(ts) = k - 1
        /\ \A j \in 1..k - 1 : gs[j] = groups[j] /\ ts[j] = terms[j]
    BY <1>1, <2>1, PrefixIs
  <2>3. m \in SUBSET SUBSET Ids /\ u \in SUBSET SUBSET Ids
    BY <1>1 DEF GroupSet, TermSet
  <2>4. ~mixed => m = u /\ \A j \in 1..k - 1 : AgreeOpen(groups[j], terms[j])
    BY <2>1 DEF AgreeInv, Agree, AgreeClosed
  <2> HIDE DEF gs, ts, m, u
  <2>5. /\ terms' \in Seq(TermSet) /\ Len(terms') = k - 1 /\ Len(groups') = k - 1
    BY <2>1, <2>2, <2>3, OperandJoins
  <2>6. ASSUME ~mixed PROVE Agree(groups', terms', "operand")
    <3>1. \A j \in 1..Len(gs) : AgreeOpen(gs[j], ts[j])
      BY <2>2, <2>4, <2>6
    <3>2. Agree(TakeIn(gs, m), AddFactor(ts, m), "operand")
      BY <2>2, <2>3, <3>1, OperandJoins
    <3> QED BY <2>1, <2>4, <2>6, <3>2
  <2> QED BY <1>1, <2>1, <2>5, <2>6 DEF AgreeInv
<1>8. ASSUME NEW t, Misplaced(t) PROVE AgreeInv'
  <2>1. groups' = <<Open>> /\ terms' = <<NoTerm>> /\ after' = "bad" /\ mixed' = mixed
    BY <1>8 DEF Misplaced
  <2>2. /\ terms' \in Seq(TermSet) /\ Len(terms') = 1 /\ Len(groups') = 1
        /\ groups'[1] = Open /\ terms'[1] = NoTerm
    BY <1>2, <2>1
  <2>3. Agree(groups', terms', after')
    <3>1. \A j \in 1..Len(groups') - 1 : FALSE
      BY <2>2
    <3>2. after' # "operand" /\ AgreeOpen(groups'[Len(groups')], terms'[Len(groups')])
      BY <1>2, <2>1, <2>2
    <3> QED BY <3>1, <3>2 DEF Agree
  <2> QED BY <1>1, <2>1, <2>2, <2>3 DEF AgreeInv
<1> QED BY <1>3, <1>4, <1>5, <1>6, <1>7, <1>8 DEF Next

\* What the two readings agree on is what Evaluate answers.
LEMMA AgreeingMeans == ReadingInv /\ AgreeInv => EvaluatesMeaning
<1> SUFFICES ASSUME ReadingInv, AgreeInv, NEW V \in SUBSET Ids
             PROVE  /\ Evaluate(expr, V) = "error" <=> ~Complete
                    /\ Complete /\ ~mixed => (Evaluate(expr, V) = "true" <=> V \in Grammar(LastTerm))
  BY DEF EvaluatesMeaning
<1>1. Evaluate(expr, V) = IF ~Complete THEN "error" ELSE IF V \in Top.means THEN "true" ELSE "false"
  BY ReadingMeans DEF EvaluatesLeftToRight
<1>2. Complete /\ ~mixed => Top.means = Grammar(LastTerm)
  BY DEF AgreeInv, Agree, AgreeClosed, Complete, Top, LastTerm, Grammar
<1> QED BY <1>1, <1>2

\* EvaluatesMeaning: for policies of any length and nesting, over any
\* identities, the recursive parser answers what the documented grammar means
\* as long as no group mixes "&" and "|", and an error on what is no policy.
THEOREM MeaningTheorem == Spec => []EvaluatesMeaning
<1>1. Init => AgreeInv
  <2> SUFFICES ASSUME Init PROVE AgreeInv
    OBVIOUS
  <2>1. NoTerm \in TermSet /\ AgreeOpen(Open, NoTerm)
    BY DEF Open, NoTerm, TermSet, AgreeOpen, Operators
  <2>2. /\ terms \in Seq(TermSet) /\ Len(terms) = 1 /\ Len(groups) = 1 /\ mixed = FALSE
        /\ groups[1] = Open /\ terms[1] = NoTerm /\ after # "operand"
    BY <2>1 DEF Init
  <2>3. \A j \in 1..Len(groups) - 1 : FALSE
    BY <2>2
  <2> QED BY <2>1, <2>2, <2>3 DEF AgreeInv, Agree
<1>2. Spec => []ReadingInv
  BY InitReading, NextReading, PTL DEF Spec
<1>3. Spec => []AgreeInv
  BY <1>1, <1>2, AgreeStep, PTL DEF Spec
<1> QED BY <1>2, <1>3, AgreeingMeans, PTL

=============================================================================
