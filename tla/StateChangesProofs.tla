-------------------------- MODULE StateChangesProofs --------------------------
(***************************************************************************)
(* Proofs about StateChanges, for all objects, transactions and batches.   *)
(* The loops of createStateChanges are compared with folds: Applied over   *)
(* the changes of an instruction, Run over the instructions of a           *)
(* transaction and Executed over the transactions of a batch, each an      *)
(* instance of Folding.                                                    *)
(***************************************************************************)
EXTENDS StateChanges, FiniteSetTheorems, FunctionTheorems, TLAPS

AF == INSTANCE Folding WITH Op <- ApplyOne
RF == INSTANCE Folding WITH Op <- RunOne
EF == INSTANCE Folding WITH Op <- ExecuteOne
XF == INSTANCE Folding WITH Op <- xor

-----------------------------------------------------------------------------
(* The folds *)

LEMMA FoldsAre ==
    ASSUME NEW c, NEW s
    PROVE  /\ Applied(c, s) = AF!Fold(c, s)
           /\ Run(c, s) = RF!Fold(c, s)
           /\ Executed(c, s) = EF!Fold(c, s)
<1>1. Applied(c, s) = AF!Fold(c, s)
  BY Zenon DEF Applied, AF!Fold, AF!FoldLeft, FoldLeft, AF!MapThenFoldSet, MapThenFoldSet, AF!Max, Max
<1>2. Run(c, s) = RF!Fold(c, s)
  BY Zenon DEF Run, RF!Fold, RF!FoldLeft, FoldLeft, RF!MapThenFoldSet, MapThenFoldSet, RF!Max, Max
<1>3. Executed(c, s) = EF!Fold(c, s)
  BY Zenon DEF Executed, EF!Fold, EF!FoldLeft, FoldLeft, EF!MapThenFoldSet, MapThenFoldSet, EF!Max, Max
<1> QED BY <1>1, <1>2, <1>3

LEMMA AppliedSteps ==
    ASSUME NEW c
    PROVE  /\ Applied(c, << >>) = c
           /\ \A s \in Seq(Changes) : \A n \in 1..Len(s) :
                 Applied(c, SubSeq(s, 1, n)) = ApplyOne(Applied(c, SubSeq(s, 1, n - 1)), s[n])
           /\ \A s \in Seq(Changes) : \A n \in 0..Len(s) :
                 Applied(c, SubSeq(s, 1, n)) = Failed => Applied(c, s) = Failed
<1>1. Applied(c, << >>) = c
  BY FoldsAre, AF!FoldEmpty
<1>2. ASSUME NEW s \in Seq(Changes), NEW n \in 1..Len(s)
      PROVE  Applied(c, SubSeq(s, 1, n)) = ApplyOne(Applied(c, SubSeq(s, 1, n - 1)), s[n])
  BY FoldsAre, AF!FoldStep
<1>3. ASSUME NEW s \in Seq(Changes), NEW n \in 0..Len(s), Applied(c, SubSeq(s, 1, n)) = Failed
      PROVE  Applied(c, s) = Failed
  <2>1. \A x \in Changes : ApplyOne(Failed, x) = Failed
    BY DEF ApplyOne
  <2> QED BY <1>3, <2>1, FoldsAre, AF!FoldAbsorbs
<1> QED BY <1>1, <1>2, <1>3

LEMMA RunSteps ==
    ASSUME NEW c
    PROVE  /\ Run(c, << >>) = c
           /\ \A s \in Seq(Instructions) : \A n \in 1..Len(s) :
                 Run(c, SubSeq(s, 1, n)) = RunOne(Run(c, SubSeq(s, 1, n - 1)), s[n])
           /\ \A s \in Seq(Instructions) : \A n \in 0..Len(s) :
                 Run(c, SubSeq(s, 1, n)) = Failed => Run(c, s) = Failed
<1>1. Run(c, << >>) = c
  BY FoldsAre, RF!FoldEmpty
<1>2. ASSUME NEW s \in Seq(Instructions), NEW n \in 1..Len(s)
      PROVE  Run(c, SubSeq(s, 1, n)) = RunOne(Run(c, SubSeq(s, 1, n - 1)), s[n])
  BY FoldsAre, RF!FoldStep
<1>3. ASSUME NEW s \in Seq(Instructions), NEW n \in 0..Len(s), Run(c, SubSeq(s, 1, n)) = Failed
      PROVE  Run(c, s) = Failed
  <2>1. \A x \in Instructions : RunOne(Failed, x) = Failed
    BY DEF RunOne
  <2> QED BY <1>3, <2>1, FoldsAre, RF!FoldAbsorbs
<1> QED BY <1>1, <1>2, <1>3

LEMMA ExecutedSteps ==
    ASSUME NEW c
    PROVE  /\ Executed(c, << >>) = c
           /\ \A s \in Seq(Transactions) : \A n \in 1..Len(s) :
                 Executed(c, SubSeq(s, 1, n)) = ExecuteOne(Executed(c, SubSeq(s, 1, n - 1)), s[n])
           /\ \A s \in Seq(Transactions), t \in Transactions :
                 Executed(c, Append(s, t)) = ExecuteOne(Executed(c, s), t)
<1>1. Executed(c, << >>) = c
  BY FoldsAre, EF!FoldEmpty
<1>2. ASSUME NEW s \in Seq(Transactions), NEW n \in 1..Len(s)
      PROVE  Executed(c, SubSeq(s, 1, n)) = ExecuteOne(Executed(c, SubSeq(s, 1, n - 1)), s[n])
  BY FoldsAre, EF!FoldStep
<1>3. ASSUME NEW s \in Seq(Transactions), NEW t \in Transactions
      PROVE  Executed(c, Append(s, t)) = ExecuteOne(Executed(c, s), t)
  BY FoldsAre, EF!FoldAppend
<1> QED BY <1>1, <1>2, <1>3

-----------------------------------------------------------------------------
(* Contracts and changes *)

\* A contract answers with changes, or fails.
LEMMA AnswerType ==
    ASSUME NEW c \in Collections, NEW i \in Instructions
    PROVE  CallContract(c, i) \in Seq(Changes) \cup {Failed}
<1>1. i.object \in Objects /\ ConfigID[i.object] \in Objects /\ Reference \in Objects
  BY BatchAssumption DEF Instructions
<1>2. ContractConfig(i) \in Seq(Changes) \cup {Failed}
  <2>1. /\ StateChange("create", Reference, "config", 0) \in Changes
        /\ StateChange("create", i.object, "darc", 0) \in Changes
        /\ StateChange("create", ConfigID[i.object], "config", 0) \in Changes
    BY <1>1 DEF Changes, StateChange
  <2> QED BY <2>1 DEF ContractConfig
<1>3. Counter(c, i) \in Seq(Changes) \cup {Failed}
  <2>1. c[i.object] # Absent => c[i.object].value + 1 \in Nat
    BY <1>1 DEF Collections, Values
  <2>2. /\ StateChange("create", i.object, "add", 0) \in Changes
        /\ StateChange("remove", i.object, "add", 0) \in Changes
        /\ c[i.object] # Absent => StateChange("update", i.object, "add", c[i.object].value + 1) \in Changes
    BY <1>1, <2>1 DEF Changes, StateChange
  <2> QED BY <2>2 DEF Counter
<1> QED BY <1>2, <1>3 DEF CallContract

\* A stored change leaves a collection.
LEMMA StoreType ==
    ASSUME NEW c \in Collections, NEW sc \in Changes
    PROVE  storeInColl(c, sc) \in Collections
<1>1. sc.object \in Objects /\ [value |-> sc.value, contract |-> sc.contract] \in Values
  BY DEF Changes, Values
<1> QED BY <1>1 DEF storeInColl, Collections

LEMMA AppliedType ==
    ASSUME NEW c \in Collections, NEW s \in Seq(Changes)
    PROVE  Applied(c, s) \in Collections \cup {Failed}
<1> DEFINE I == Collections \cup {Failed}
<1>1. c \in I /\ \A d \in I, x \in Changes : ApplyOne(d, x) \in I
  BY StoreType DEF ApplyOne
<1> HIDE DEF I
<1>2. AF!Fold(c, s) \in I
  BY <1>1, AF!FoldIn
<1> QED BY <1>2, FoldsAre DEF I

LEMMA RunType ==
    ASSUME NEW c \in Collections, NEW s \in Seq(Instructions)
    PROVE  Run(c, s) \in Collections \cup {Failed}
<1> DEFINE I == Collections \cup {Failed}
<1>1. c \in I /\ \A d \in I, x \in Instructions : RunOne(d, x) \in I
  BY AnswerType, AppliedType DEF RunOne
<1> HIDE DEF I
<1>2. RF!Fold(c, s) \in I
  BY <1>1, RF!FoldIn
<1> QED BY <1>2, FoldsAre DEF I

-----------------------------------------------------------------------------
(* Sorting *)

\* p puts the keys in ascending order up to position m.
Ascending(p, key, N, m) == \A i \in 1..m, j \in 1..N : i < j => key[p[i]] <= key[p[j]]

\* Any keys can be put in ascending order, by selecting the least of those
\* left again and again.
LEMMA OrderExists ==
    ASSUME NEW N \in Nat, NEW key \in [1..N -> Nat]
    PROVE  \E p \in Arrangements(N) : Ascending(p, key, N, N)
<1> DEFINE T == {m \in Nat : \E p \in Arrangements(N) : Ascending(p, key, N, m)}
<1>1. 0 \in T
  <2> DEFINE id == [i \in 1..N |-> i]
  <2>1. id \in Arrangements(N)
    BY DEF Arrangements, Bijection, Injection, Surjection, IsInjective
  <2>2. Ascending(id, key, N, 0)
    BY DEF Ascending
  <2> QED BY <2>1, <2>2
<1>2. ASSUME NEW m \in 0..N - 1, m \in T PROVE m + 1 \in T
  <2>1. PICK p \in Arrangements(N) : Ascending(p, key, N, m)
    BY <1>2
  <2>2. /\ p \in [1..N -> 1..N]
        /\ \A i, j \in 1..N : p[i] = p[j] => i = j
        /\ \A w \in 1..N : \E v \in 1..N : p[v] = w
    BY DEF Arrangements, Bijection, Injection, Surjection, IsInjective
  <2> DEFINE V == {key[p[j]] : j \in m + 1..N}
  <2>3. V \in SUBSET Nat /\ V # {}
    <3>1. \A j \in m + 1..N : j \in 1..N /\ key[p[j]] \in Nat
      BY <2>2
    <3>2. m + 1 \in m + 1..N
      OBVIOUS
    <3> QED BY <3>1, <3>2
  <2>4. PICK v \in V : \A x \in V : v <= x
    BY <2>3, AF!LeastNat
  <2>5. PICK k \in m + 1..N : \A j \in m + 1..N : key[p[k]] <= key[p[j]]
    BY <2>4
  <2>6. m \in Nat /\ m + 1 \in 1..N /\ k \in 1..N /\ k >= m + 1
    OBVIOUS
  <2> DEFINE swap == [i \in 1..N |-> IF i = m + 1 THEN k ELSE IF i = k THEN m + 1 ELSE i]
             q == [i \in 1..N |-> p[swap[i]]]
  <2>7. \A i \in 1..N : swap[i] \in 1..N /\ swap[swap[i]] = i
    BY <2>6
  <2>8. /\ \A i \in 1..m : swap[i] = i
        /\ swap[m + 1] = k
        /\ \A i \in m + 1..N : swap[i] \in m + 1..N
    BY <2>6
  <2> HIDE DEF swap
  <2>9. q \in Arrangements(N)
    <3>1. q \in [1..N -> 1..N]
      BY <2>2, <2>7
    <3>2. ASSUME NEW i \in 1..N, NEW j \in 1..N, q[i] = q[j] PROVE i = j
      <4>1. swap[i] = swap[j]
        BY <2>2, <2>7, <3>2
      <4>2. i = swap[swap[i]] /\ j = swap[swap[j]]
        BY <2>7
      <4> QED BY <4>1, <4>2, Zenon
    <3>3. ASSUME NEW w \in 1..N PROVE \E u \in 1..N : q[u] = w
      <4>1. PICK u \in 1..N : p[u] = w
        BY <2>2
      <4>2. swap[u] \in 1..N /\ swap[swap[u]] = u
        BY <2>7
      <4>3. q[swap[u]] = p[swap[swap[u]]]
        BY <4>2
      <4>4. q[swap[u]] = w
        BY <4>1, <4>2, <4>3, Zenon
      <4> QED BY <4>2, <4>4
    <3> HIDE DEF q
    <3> QED BY <3>1, <3>2, <3>3 DEF Arrangements, Bijection, Injection, Surjection, IsInjective
  <2>10. Ascending(q, key, N, m + 1)
    <3>1. SUFFICES ASSUME NEW i \in 1..m + 1, NEW j \in 1..N, i < j
                   PROVE  key[q[i]] <= key[q[j]]
      BY DEF Ascending
    <3>2. i \in 1..N /\ q[i] = p[swap[i]] /\ q[j] = p[swap[j]]
      BY <2>6
    <3>3. CASE i = m + 1
      <4>1. q[i] = p[k] /\ swap[j] \in m + 1..N
        BY <2>6, <2>8, <3>1, <3>2, <3>3
      <4> QED BY <2>5, <3>2, <4>1
    <3>4. CASE i \in 1..m
      <4>1. q[i] = p[i] /\ swap[j] \in 1..N /\ i < swap[j]
        <5>1. CASE j \in 1..m
          BY <2>7, <2>8, <3>1, <3>2, <3>4, <5>1
        <5>2. CASE j \in m + 1..N
          BY <2>6, <2>7, <2>8, <3>1, <3>2, <3>4, <5>2
        <5> QED BY <2>6, <5>1, <5>2
      <4> QED BY <2>1, <3>2, <3>4, <4>1 DEF Ascending
    <3> QED BY <2>6, <3>3, <3>4
  <2> HIDE DEF q
  <2> QED BY <2>6, <2>9, <2>10
<1> HIDE DEF T
<1>3. 0..N \subseteq T
  BY <1>1, <1>2, AF!BoundedInduction
<1>4. N \in T
  BY <1>3
<1> QED BY <1>4 DEF T

\* sortWithSalt gives an arrangement of its argument in which the salted
\* hashes ascend.
LEMMA SortProperty ==
    ASSUME NEW ts \in Seq(Transactions), NEW salt \in Hashes
    PROVE  \E p \in Arrangements(Len(ts)) :
              /\ sortWithSalt(ts, salt) = [i \in 1..Len(ts) |-> ts[p[i]]]
              /\ \A i, j \in 1..Len(ts) :
                    i < j => SaltedHash(salt, ts[p[i]]) <= SaltedHash(salt, ts[p[j]])
<1> DEFINE key == [i \in 1..Len(ts) |-> SaltedHash(salt, ts[i])]
           Sorts(p) == \A i, j \in 1..Len(ts) :
                          i < j => SaltedHash(salt, ts[p[i]]) <= SaltedHash(salt, ts[p[j]])
           order == CHOOSE p \in Arrangements(Len(ts)) : Sorts(p)
<1>1. Len(ts) \in Nat /\ key \in [1..Len(ts) -> Nat]
  BY BatchAssumption
<1>2. PICK p \in Arrangements(Len(ts)) : Ascending(p, key, Len(ts), Len(ts))
  <2> HIDE DEF key
  <2> QED BY <1>1, OrderExists
<1>3. \A i \in 1..Len(ts) : p[i] \in 1..Len(ts)
  BY DEF Arrangements, Bijection, Injection
<1>4. Sorts(p)
  BY <1>2, <1>3 DEF Ascending
<1> HIDE DEF Sorts
<1>5. order \in Arrangements(Len(ts)) /\ Sorts(order)
  BY <1>4
<1> HIDE DEF order
<1>6. sortWithSalt(ts, salt) = [i \in 1..Len(ts) |-> ts[order[i]]]
  BY Zenon DEF sortWithSalt, order, Sorts
<1> QED BY <1>5, <1>6, Zenon DEF Sorts

LEMMA SaltIsFold ==
    ASSUME NEW ts
    PROVE  xorTransactions(ts) = XF!Fold([b \in Bits |-> 0], ts)
BY Zenon DEF xorTransactions, XF!Fold, XF!FoldLeft, FoldLeft, XF!MapThenFoldSet, MapThenFoldSet, XF!Max, Max

LEMMA SaltType ==
    ASSUME NEW ts \in Seq(Transactions)
    PROVE  xorTransactions(ts) \in Hashes
<1> DEFINE zero == [b \in Bits |-> 0]
<1>1. zero \in Hashes
  BY DEF Hashes
<1>2. ASSUME NEW h \in Hashes, NEW t \in Transactions PROVE xor(h, t) \in Hashes
  <2>1. \A b \in Bits : (h[b] + Hash(t)[b]) % 2 \in {0, 1}
    <3>1. \A b \in Bits : h[b] \in {0, 1} /\ Hash(t)[b] \in {0, 1}
      BY BatchAssumption DEF Hashes
    <3> QED BY <3>1
  <2> QED BY <2>1 DEF xor, Hashes
<1> HIDE DEF zero
<1>3. XF!Fold(zero, ts) \in Hashes
  BY <1>1, <1>2, XF!FoldIn
<1> QED BY <1>3, SaltIsFold DEF zero

LEMMA SortType ==
    ASSUME NEW ts \in Seq(Transactions)
    PROVE  /\ sortTransactions(ts) \in Seq(Transactions)
           /\ Len(sortTransactions(ts)) = Len(ts)
<1>1. PICK p \in Arrangements(Len(ts)) :
         sortTransactions(ts) = [i \in 1..Len(ts) |-> ts[p[i]]]
  BY SortProperty, SaltType DEF sortTransactions
<1>2. \A i \in 1..Len(ts) : p[i] \in 1..Len(ts)
  BY DEF Arrangements, Bijection, Injection
<1> QED BY <1>1, <1>2

\* Counting the positions at which an arrangement falls into a set.
LEMMA CountArranged ==
    ASSUME NEW n \in Nat, NEW p \in Arrangements(n), NEW S \in SUBSET (1..n)
    PROVE  /\ IsFiniteSet(S)
           /\ Cardinality({i \in 1..n : p[i] \in S}) = Cardinality(S)
<1> DEFINE I == {i \in 1..n : p[i] \in S}
           f == [i \in I |-> p[i]]
<1>1. IsFiniteSet(1..n)
  BY FS_Interval
<1>2. IsFiniteSet(S) /\ IsFiniteSet(I)
  BY <1>1, FS_Subset
<1>3. f \in Bijection(I, S)
  BY DEF Arrangements, Bijection, Injection, Surjection, IsInjective
<1> HIDE DEF I, f
<1>4. Cardinality(S) = Cardinality(I)
  BY <1>2, <1>3, FS_Bijection DEF ExistsBijection
<1> QED BY <1>2, <1>4 DEF I

\* A set of positions that has with each one those before it is determined
\* by its size.
LEMMA InitialSegment ==
    ASSUME NEW n \in Nat, NEW D \in SUBSET (1..n),
           \A i \in D, j \in 1..n : j < i => j \in D
    PROVE  D = 1..Cardinality(D)
<1>1. CASE D = {}
  BY <1>1, FS_EmptySet
<1>2. CASE D # {}
  <2> DEFINE m == AF!Max(D)
  <2>1. m \in D /\ \A y \in D : y <= m
    BY <1>2, AF!MaxProperty
  <2> HIDE DEF m
  <2>2. m \in Nat /\ m \in 1..n
    BY <2>1
  <2>3. D = 1..m
    <3>1. \A y \in D : y \in 1..m
      BY <2>1, <2>2
    <3>2. \A y \in 1..m : y \in 1..n /\ (y = m \/ y < m)
      BY <2>2
    <3>3. \A y \in 1..m : y \in D
      BY <2>1, <3>2
    <3> QED BY <3>1, <3>3
  <2>4. Cardinality(1..m) = m
    BY <2>2, FS_Interval
  <2> QED BY <2>3, <2>4
<1> QED BY <1>1, <1>2

\* Two arrangements of the same keys that both ascend are equal.
LEMMA AscendingUnique ==
    ASSUME NEW n \in Nat, NEW key \in [1..n -> Nat],
           NEW p \in Arrangements(n), NEW q \in Arrangements(n),
           Ascending(p, key, n, n), Ascending(q, key, n, n),
           NEW i \in 1..n
    PROVE  key[p[i]] = key[q[i]]
<1> DEFINE S(x) == {k \in 1..n : key[k] <= x}
           D(r, x) == {j \in 1..n : r[j] \in S(x)}
<1>1. ASSUME NEW r \in Arrangements(n), Ascending(r, key, n, n), NEW x \in Nat, NEW k \in 1..n
      PROVE  key[r[k]] <= x <=> k \in 1..Cardinality(S(x))
  <2>1. \A j \in 1..n : r[j] \in 1..n
    BY DEF Arrangements, Bijection, Injection
  <2>2. \A j \in 1..n : j \in D(r, x) <=> key[r[j]] <= x
    BY <2>1
  <2>3. \A j \in D(r, x), l \in 1..n : l < j => l \in D(r, x)
    <3>1. SUFFICES ASSUME NEW j \in 1..n, key[r[j]] <= x, NEW l \in 1..n, l < j
                   PROVE  key[r[l]] <= x
      BY <2>2
    <3>2. key[r[l]] <= key[r[j]]
      BY <1>1, <3>1 DEF Ascending
    <3>3. key[r[l]] \in Nat /\ key[r[j]] \in Nat
      BY <2>1
    <3> QED BY <3>1, <3>2, <3>3
  <2>4. S(x) \in SUBSET (1..n) /\ D(r, x) \in SUBSET (1..n)
    OBVIOUS
  <2>5. Cardinality(D(r, x)) = Cardinality(S(x))
    <3> DEFINE Sx == S(x)
    <3>1. Sx \in SUBSET (1..n)
      OBVIOUS
    <3> HIDE DEF S
    <3> HIDE DEF Sx
    <3>2. Cardinality({j \in 1..n : r[j] \in Sx}) = Cardinality(Sx)
      BY <3>1, CountArranged
    <3> QED BY <3>2 DEF Sx
  <2> HIDE DEF D, S
  <2>6. D(r, x) = 1..Cardinality(D(r, x))
    BY <2>3, <2>4, InitialSegment
  <2> QED BY <2>2, <2>5, <2>6
<1>2. key[p[i]] \in Nat /\ key[q[i]] \in Nat
  BY DEF Arrangements, Bijection, Injection
<1> HIDE DEF S
<1>3. key[p[i]] <= key[q[i]]
  BY <1>1, <1>2
<1>4. key[q[i]] <= key[p[i]]
  BY <1>1, <1>2
<1> QED BY <1>2, <1>3, <1>4

\* A bit of the salt is the parity of the number of hashes with that bit.
Ones(ts, n, b) == {i \in 1..n : Hash(ts[i])[b] = 1}

LEMMA SaltCounts ==
    ASSUME NEW ts \in Seq(Transactions)
    PROVE  xorTransactions(ts) = [b \in Bits |-> Cardinality(Ones(ts, Len(ts), b)) % 2]
<1> DEFINE zero == [b \in Bits |-> 0]
           Salt(n) == XF!Fold(zero, SubSeq(ts, 1, n))
           T == {n \in Nat : Salt(n) = [b \in Bits |-> Cardinality(Ones(ts, n, b)) % 2]}
<1>1. 0 \in T
  <2>1. SubSeq(ts, 1, 0) = << >> /\ \A b \in Bits : Ones(ts, 0, b) = {}
    BY DEF Ones
  <2>2. Salt(0) = zero
    BY <2>1, XF!FoldEmpty
  <2>3. \A b \in Bits : Cardinality(Ones(ts, 0, b)) % 2 = 0
    <3>1. \A b \in Bits : Cardinality(Ones(ts, 0, b)) = 0
      BY <2>1, FS_EmptySet, Zenon
    <3>2. 0 % 2 = 0
      OBVIOUS
    <3> QED BY <3>1, <3>2, Zenon
  <2> QED BY <2>2, <2>3
<1>2. ASSUME NEW n \in 0..Len(ts) - 1, n \in T PROVE n + 1 \in T
  <2>1. n \in Nat /\ n + 1 \in 1..Len(ts) /\ (n + 1) - 1 = n /\ ts[n + 1] \in Transactions
    OBVIOUS
  <2>2. Salt(n) = [b \in Bits |-> Cardinality(Ones(ts, n, b)) % 2]
    BY <1>2
  <2>3. Salt(n + 1) = xor(Salt(n), ts[n + 1])
    <3> HIDE DEF zero
    <3>1. XF!Fold(zero, SubSeq(ts, 1, n + 1)) = xor(XF!Fold(zero, SubSeq(ts, 1, (n + 1) - 1)), ts[n + 1])
      BY <2>1, XF!FoldStep
    <3> QED BY <2>1, <3>1
  <2>4. ASSUME NEW b \in Bits
        PROVE  (Salt(n)[b] + Hash(ts[n + 1])[b]) % 2 = Cardinality(Ones(ts, n + 1, b)) % 2
    <3> DEFINE c == Cardinality(Ones(ts, n, b))
               h == Hash(ts[n + 1])[b]
    <3>1. h \in {0, 1}
      BY <2>1, BatchAssumption DEF Hashes
    <3>2. IsFiniteSet(Ones(ts, n, b)) /\ n + 1 \notin Ones(ts, n, b)
      <4>1. IsFiniteSet(1..n)
        BY <2>1, FS_Interval
      <4>2. Ones(ts, n, b) \in SUBSET (1..n)
        BY DEF Ones
      <4>3. n + 1 \notin 1..n
        BY <2>1
      <4> QED BY <4>1, <4>2, <4>3, FS_Subset
    <3>3. c \in Nat
      BY <3>2, FS_CardinalityType
    <3>4. Cardinality(Ones(ts, n + 1, b)) = c + h
      <4>1. CASE h = 1
        <5>1. Ones(ts, n + 1, b) = Ones(ts, n, b) \cup {n + 1}
          BY <2>1, <4>1 DEF Ones
        <5> QED BY <3>2, <4>1, <5>1, FS_AddElement
      <4>2. CASE h = 0
        <5>1. Ones(ts, n + 1, b) = Ones(ts, n, b)
          BY <2>1, <4>2 DEF Ones
        <5> QED BY <3>3, <4>2, <5>1
      <4> QED BY <3>1, <4>1, <4>2
    <3>5. Salt(n)[b] = c % 2
      BY <2>2
    <3> HIDE DEF c, h
    <3>6. ((c % 2) + h) % 2 = (c + h) % 2
      BY <3>1, <3>3
    <3> QED BY <3>4, <3>5, <3>6 DEF h
  <2> HIDE DEF Salt
  <2>5. Salt(n + 1) = [b \in Bits |-> Cardinality(Ones(ts, n + 1, b)) % 2]
    BY <2>3, <2>4 DEF xor
  <2> QED BY <2>1, <2>5
<1> HIDE DEF T
<1>3. Len(ts) \in Nat /\ SubSeq(ts, 1, Len(ts)) = ts
  OBVIOUS
<1>4. 0..Len(ts) \subseteq T
  BY <1>1, <1>2, <1>3, AF!BoundedInduction
<1>5. Len(ts) \in T
  BY <1>3, <1>4
<1>6. Salt(Len(ts)) = [b \in Bits |-> Cardinality(Ones(ts, Len(ts), b)) % 2]
  BY <1>5, Zenon DEF T
<1> QED BY <1>3, <1>6, SaltIsFold

\* The salt does not depend on the order of the transactions.
LEMMA SaltArranged ==
    ASSUME NEW ts \in Seq(Transactions), NEW p \in Arrangements(Len(ts)), NEW us \in Seq(Transactions),
           Len(us) = Len(ts), \A i \in 1..Len(ts) : us[i] = ts[p[i]]
    PROVE  xorTransactions(us) = xorTransactions(ts)
<1>1. Len(us) = Len(ts) /\ Len(ts) \in Nat
  OBVIOUS
<1>2. \A i \in 1..Len(ts) : p[i] \in 1..Len(ts) /\ us[i] = ts[p[i]]
  BY DEF Arrangements, Bijection, Injection
<1>3. ASSUME NEW b \in Bits
      PROVE  Cardinality(Ones(us, Len(us), b)) = Cardinality(Ones(ts, Len(ts), b))
  <2> DEFINE S == Ones(ts, Len(ts), b)
  <2>1. Ones(us, Len(us), b) = {i \in 1..Len(ts) : p[i] \in S}
    BY <1>1, <1>2 DEF Ones
  <2>2. S \in SUBSET (1..Len(ts))
    BY DEF Ones
  <2> HIDE DEF S
  <2>3. Cardinality({i \in 1..Len(ts) : p[i] \in S}) = Cardinality(S)
    BY <1>1, <2>2, CountArranged
  <2> QED BY <2>1, <2>3 DEF S
<1> QED BY <1>3, SaltCounts

\* Sorting gives the same result for every order of the same transactions.
LEMMA SortArranged ==
    ASSUME NEW ts \in Seq(Transactions), NEW r \in Arrangements(Len(ts)), NEW us \in Seq(Transactions),
           Len(us) = Len(ts), \A i \in 1..Len(ts) : us[i] = ts[r[i]]
    PROVE  sortTransactions(us) = sortTransactions(ts)
<1> DEFINE salt == xorTransactions(ts)
           n == Len(ts)
           key == [i \in 1..n |-> SaltedHash(salt, ts[i])]
<1>1. salt \in Hashes /\ xorTransactions(us) = salt
  BY SaltArranged, SaltType
<1>2. n \in Nat /\ Len(us) = n
  OBVIOUS
<1>3. \A i \in 1..n : r[i] \in 1..n /\ us[i] = ts[r[i]] /\ ts[i] \in Transactions
  BY DEF Arrangements, Bijection, Injection
<1> HIDE DEF salt, n
<1>4. PICK p \in Arrangements(n) :
         /\ sortWithSalt(ts, salt) = [i \in 1..n |-> ts[p[i]]]
         /\ \A i, j \in 1..n : i < j => SaltedHash(salt, ts[p[i]]) <= SaltedHash(salt, ts[p[j]])
  BY <1>1, SortProperty DEF n
<1>5. PICK q \in Arrangements(n) :
         /\ sortWithSalt(us, salt) = [i \in 1..n |-> us[q[i]]]
         /\ \A i, j \in 1..n : i < j => SaltedHash(salt, us[q[i]]) <= SaltedHash(salt, us[q[j]])
  <2>1. \E q \in Arrangements(Len(us)) :
           /\ sortWithSalt(us, salt) = [i \in 1..Len(us) |-> us[q[i]]]
           /\ \A i, j \in 1..Len(us) :
                 i < j => SaltedHash(salt, us[q[i]]) <= SaltedHash(salt, us[q[j]])
    BY <1>1, SortProperty
  <2>2. Len(us) = n
    BY <1>2
  <2> QED BY <2>1, <2>2
<1> DEFINE w == [i \in 1..n |-> r[q[i]]]
<1>6. \A i \in 1..n : p[i] \in 1..n /\ q[i] \in 1..n /\ w[i] \in 1..n /\ us[q[i]] = ts[w[i]]
  BY <1>3 DEF Arrangements, Bijection, Injection
<1>7. w \in Arrangements(n)
  BY Fun_BijTransitive DEF Arrangements, n
<1> HIDE DEF w
<1>8. key \in [1..n -> Nat]
  BY <1>1, <1>3, BatchAssumption
<1>9. Ascending(p, key, n, n) /\ Ascending(w, key, n, n)
  BY <1>4, <1>5, <1>6 DEF Ascending
<1> HIDE DEF key
<1>10. ASSUME NEW i \in 1..n PROVE ts[p[i]] = us[q[i]]
  <2>1. key[p[i]] = key[w[i]]
    BY <1>2, <1>7, <1>8, <1>9, AscendingUnique
  <2>2. SaltedHash(salt, ts[p[i]]) = SaltedHash(salt, ts[w[i]])
    BY <1>6, <2>1 DEF key
  <2>3. ts[p[i]] \in Transactions /\ ts[w[i]] \in Transactions
    BY <1>3, <1>6
  <2>4. ts[p[i]] = ts[w[i]]
    BY <1>1, <2>2, <2>3, BatchAssumption
  <2> QED BY <1>6, <2>4
<1> QED BY <1>1, <1>4, <1>5, <1>10 DEF sortTransactions, salt

-----------------------------------------------------------------------------
(* The type invariant *)

\* TypeOK with the sequences it leaves untyped; the batch is sorted.
Typed ==
    /\ TypeOK
    /\ cts \in Seq(Transactions)
    /\ sortTransactions(cts) = cts
    /\ ctsOK \in Seq(Transactions)
    /\ scs \in Seq(Changes)
    /\ left \in Seq(Changes)
    /\ Len(left) <= Len(scs)
    /\ at = "store" => instr <= Len(cts[current])

\* The first of the changes that are left, and the others.
LEMMA SuffixStep ==
    ASSUME NEW S, NEW s \in Seq(S), NEW u \in Seq(S), Len(u) <= Len(s), u # << >>,
           u = SubSeq(s, Len(s) - Len(u) + 1, Len(s))
    PROVE  /\ Head(u) = s[Len(s) - Len(u) + 1]
           /\ Tail(u) \in Seq(S)
           /\ Len(Tail(u)) = Len(u) - 1
           /\ Tail(u) = SubSeq(s, Len(s) - Len(Tail(u)) + 1, Len(s))
<1>1. Len(u) \in Nat /\ Len(s) \in Nat /\ Len(u) > 0
  OBVIOUS
<1>2. Tail(u) \in Seq(S) /\ Len(Tail(u)) = Len(u) - 1 /\ \A i \in 1..Len(u) - 1 : Tail(u)[i] = u[i + 1]
  OBVIOUS
<1>3. \A i \in 1..Len(u) : u[i] = s[Len(s) - Len(u) + i]
  BY <1>1
<1>4. Head(u) = s[Len(s) - Len(u) + 1]
  BY <1>1, <1>3
<1> DEFINE v == SubSeq(s, Len(s) - (Len(u) - 1) + 1, Len(s))
<1>5. v \in Seq(S) /\ Len(v) = Len(u) - 1
  BY <1>1
<1>6. \A i \in 1..Len(u) - 1 : v[i] = s[Len(s) - Len(u) + (i + 1)]
  BY <1>1
<1>7. \A i \in 1..Len(u) - 1 : Tail(u)[i] = v[i]
  BY <1>1, <1>2, <1>3, <1>6
<1> HIDE DEF v
<1>8. Tail(u) = v
  BY <1>2, <1>5, <1>7
<1> QED BY <1>2, <1>4, <1>8 DEF v

LEMMA TypedInit == Init => Typed
<1> SUFFICES ASSUME Init PROVE Typed
  OBVIOUS
<1>1. coll \in Collections /\ cdbI = coll /\ cdbTemp = coll
  BY BatchAssumption DEF Init
<1>2. sortTransactions(<< >>) = << >>
  <2> DEFINE e == << >>
             r == sortTransactions(e)
  <2>1. e \in Seq(Transactions) /\ Len(e) = 0
    OBVIOUS
  <2> HIDE DEF e, r
  <2>2. r \in Seq(Transactions) /\ Len(r) = 0
    BY <2>1, SortType DEF r
  <2>3. r = << >>
    BY <2>2
  <2> QED BY <2>3 DEF r, e
<1>3. << >> = SubSeq(<< >>, Len(<< >>) - Len(<< >>) + 1, Len(<< >>))
  OBVIOUS
<1> QED BY <1>1, <1>2, <1>3 DEF Init, Typed, TypeOK

LEMMA TypedNext == Typed /\ [Next]_vars => Typed'
<1> SUFFICES ASSUME Typed, [Next]_vars PROVE Typed'
  OBVIOUS
<1>1. /\ coll \in Collections /\ cdbI \in Collections /\ cdbTemp \in Collections
      /\ Len(cts) \in Nat /\ current \in 1..Len(cts) + 1 /\ Len(ctsOK) < current
  BY DEF Typed, TypeOK
<1>2. at \in {"instruction", "store"} =>
         /\ current \in 1..Len(cts)
         /\ instr \in 1..Len(cts[current]) + 1
         /\ cts[current] \in Seq(Instructions)
  <2>1. current \in 1..Len(cts) => cts[current] \in Transactions
    BY DEF Typed
  <2>2. at \in {"instruction", "store"} =>
           current \in 1..Len(cts) /\ instr \in 1..Len(cts[current]) + 1
    BY <1>1 DEF Typed, TypeOK
  <2>3. Transactions \subseteq Seq(Instructions)
    BY BatchAssumption
  <2> QED BY <2>1, <2>2, <2>3
<1>3. ASSUME NEW ts \in SeqOf(Transactions, MaxBatch) \ {<< >>}, Start(ts) PROVE Typed'
  <2>1. ts \in Seq(Transactions)
    BY DEF SeqOf
  <2>2. sortTransactions(ts) \in Seq(Transactions) /\ Len(sortTransactions(ts)) = Len(ts)
    BY <2>1, SortType
  <2>3. sortTransactions(sortTransactions(ts)) = sortTransactions(ts)
    <3>1. PICK p \in Arrangements(Len(ts)) :
             sortTransactions(ts) = [i \in 1..Len(ts) |-> ts[p[i]]]
      BY <2>1, SortProperty, SaltType DEF sortTransactions
    <3>2. \A i \in 1..Len(ts) : sortTransactions(ts)[i] = ts[p[i]]
      BY <3>1
    <3> HIDE DEF sortTransactions
    <3> QED BY <2>1, <2>2, <3>2, SortArranged
  <2>4. << >> = SubSeq(<< >>, Len(<< >>) - Len(<< >>) + 1, Len(<< >>))
    OBVIOUS
  <2> QED BY <1>1, <1>3, <2>2, <2>3, <2>4 DEF Start, Typed, TypeOK
<1>4. CASE Clone
  <2>1. current \in 1..Len(cts) /\ cts[current] \in Transactions
    BY <1>1, <1>4 DEF Clone, Typed
  <2>2. Len(cts[current]) \in Nat
    BY <2>1, BatchAssumption
  <2>3. 1 \in 1..Len(cts[current]) + 1
    BY <2>2
  <2> QED BY <1>1, <1>4, <2>1, <2>3 DEF Clone, Typed, TypeOK
<1>5. CASE Call
  <2> DEFINE answer == CallContract(cdbI, cts[current][instr])
  <2>1. answer \in Seq(Changes)
    BY <1>1, <1>2, <1>5, AnswerType DEF Call
  <2>2. answer = SubSeq(answer, Len(answer) - Len(answer) + 1, Len(answer))
    <3> HIDE DEF answer
    <3> QED BY <2>1
  <2>3. scs' = answer /\ left' = answer /\ Len(answer) <= Len(answer)
    BY <1>5, <2>1 DEF Call
  <2> HIDE DEF answer
  <2> QED BY <1>1, <1>5, <2>1, <2>2, <2>3 DEF Call, Typed, TypeOK
<1>6. CASE CallFails
  BY <1>1, <1>2, <1>6 DEF CallFails, Drop, Typed, TypeOK
<1>7. CASE Store
  <2>1. /\ Head(left) \in Changes
        /\ left' = Tail(left) /\ Tail(left) \in Seq(Changes) /\ Len(Tail(left)) = Len(left) - 1
        /\ Tail(left) = SubSeq(scs, Len(scs) - Len(Tail(left)) + 1, Len(scs))
    BY <1>7, SuffixStep DEF Store, Typed, TypeOK
  <2>2. cdbI' \in Collections
    BY <1>1, <1>7, <2>1, StoreType DEF Store
  <2>3. Len(Tail(left)) <= Len(scs)
    BY <2>1 DEF Typed
  <2> QED BY <1>1, <1>7, <2>1, <2>2, <2>3 DEF Store, Typed, TypeOK
<1>8. CASE StoreFails
  BY <1>1, <1>2, <1>8 DEF StoreFails, Drop, Typed, TypeOK
<1>9. CASE InstructionDone
  BY <1>1, <1>2, <1>9 DEF InstructionDone, Typed, TypeOK
<1>10. CASE TransactionDone
  <2>1. ctsOK' \in Seq(Transactions) /\ Len(ctsOK') = Len(ctsOK) + 1
    BY <1>2, <1>10 DEF TransactionDone, Typed
  <2> QED BY <1>1, <1>2, <1>10, <2>1 DEF TransactionDone, Typed, TypeOK
<1>11. CASE Return
  BY <1>1, <1>11 DEF Return, Typed, TypeOK
<1>12. CASE UNCHANGED vars
  BY <1>12 DEF vars, Typed, TypeOK
<1> QED BY <1>3, <1>4, <1>5, <1>6, <1>7, <1>8, <1>9, <1>10, <1>11, <1>12 DEF Next

\* The variables of createStateChanges have their types.
THEOREM TypeCorrect == Spec => []TypeOK
<1>1. Typed => TypeOK
  BY DEF Typed
<1> QED BY <1>1, TypedInit, TypedNext, PTL DEF Spec

\* The sorted order of a batch does not depend on the order of arrival.
THEOREM OrderTheorem == Spec => []OrderFree
<1>1. Typed => OrderFree
  <2> SUFFICES ASSUME Typed, NEW p \in Arrangements(Len(cts))
               PROVE  sortTransactions([i \in DOMAIN cts |-> cts[p[i]]]) = cts
    BY DEF OrderFree
  <2> DEFINE us == [i \in DOMAIN cts |-> cts[p[i]]]
  <2>1. cts \in Seq(Transactions) /\ sortTransactions(cts) = cts
    BY DEF Typed
  <2>2. \A i \in 1..Len(cts) : p[i] \in 1..Len(cts)
    BY DEF Arrangements, Bijection, Injection
  <2>3. us \in Seq(Transactions) /\ Len(us) = Len(cts) /\ \A i \in 1..Len(cts) : us[i] = cts[p[i]]
    BY <2>1, <2>2
  <2> HIDE DEF us
  <2>4. sortTransactions(us) = sortTransactions(cts)
    BY <2>1, <2>3, SortArranged
  <2> QED BY <2>1, <2>4 DEF us
<1> QED BY <1>1, TypedInit, TypedNext, PTL DEF Spec

-----------------------------------------------------------------------------
(* All or nothing *)

\* The collection before the instruction at hand.
Before == Run(cdbTemp, SubSeq(cts[current], 1, instr - 1))

\* Between two steps the clones are those of the folds: cdbTemp that of the
\* transactions done, cdbI that of the instructions and changes done.
Progress ==
    /\ cdbTemp = Executed(coll, SubSeq(cts, 1, current - 1))
    /\ at = "instruction" => cdbI = Before
    /\ at = "store" =>
          /\ Before \in Collections
          /\ scs = CallContract(Before, cts[current][instr])
          /\ cdbI = Applied(Before, SubSeq(scs, 1, Len(scs) - Len(left)))

\* A transaction that fails at one of its instructions fails as a whole.
LEMMA FailsAt ==
    ASSUME NEW c, NEW t \in Seq(Instructions), NEW n \in 1..Len(t),
           RunOne(Run(c, SubSeq(t, 1, n - 1)), t[n]) = Failed
    PROVE  Run(c, t) = Failed
<1>1. Run(c, SubSeq(t, 1, n)) = Failed
  BY RunSteps
<1>2. n \in 0..Len(t)
  OBVIOUS
<1> QED BY <1>1, <1>2, RunSteps

\* What a dropped or kept transaction does to the batch.
LEMMA ExecuteCurrent ==
    ASSUME Typed, Progress, current \in 1..Len(cts)
    PROVE  Executed(coll, SubSeq(cts, 1, (current + 1) - 1)) =
             IF Run(cdbTemp, cts[current]) = Failed THEN cdbTemp ELSE Run(cdbTemp, cts[current])
<1>1. (current + 1) - 1 = current /\ cts \in Seq(Transactions)
  BY DEF Typed
<1>2. Executed(coll, SubSeq(cts, 1, current))
        = ExecuteOne(Executed(coll, SubSeq(cts, 1, current - 1)), cts[current])
  BY <1>1, ExecutedSteps
<1>3. Executed(coll, SubSeq(cts, 1, current - 1)) = cdbTemp
  BY DEF Progress
<1> QED BY <1>1, <1>2, <1>3 DEF ExecuteOne

\* Where the loop over the instructions is.
LEMMA InLoop ==
    ASSUME Typed, at \in {"instruction", "store"}
    PROVE  /\ current \in 1..Len(cts)
           /\ cts[current] \in Transactions
           /\ cts[current] \in Seq(Instructions)
           /\ instr \in 1..Len(cts[current]) + 1
           /\ at = "store" => instr \in 1..Len(cts[current])
<1>1. /\ Len(cts) \in Nat /\ current \in 1..Len(cts) /\ instr \in 1..Len(cts[current]) + 1
      /\ cts[current] \in Transactions
      /\ at = "store" => instr <= Len(cts[current])
  BY DEF Typed, TypeOK
<1>2. Transactions \subseteq Seq(Instructions)
  BY BatchAssumption
<1>3. cts[current] \in Seq(Instructions)
  BY <1>1, <1>2
<1>4. Len(cts[current]) \in Nat
  BY <1>3
<1>5. at = "store" => instr \in 1..Len(cts[current])
  BY <1>1, <1>4
<1> QED BY <1>1, <1>3, <1>5

\* The instructions that fail: their transaction fails as a whole.
LEMMA CallFailsRun ==
    ASSUME Typed, Progress, CallFails
    PROVE  Run(cdbTemp, cts[current]) = Failed
<1>1. at = "instruction" /\ instr <= Len(cts[current]) /\ CallContract(cdbI, cts[current][instr]) = Failed
  BY DEF CallFails
<1>2. cts[current] \in Seq(Instructions) /\ instr \in 1..Len(cts[current])
  BY <1>1, InLoop
<1>3. cdbI = Run(cdbTemp, SubSeq(cts[current], 1, instr - 1))
  BY <1>1 DEF Progress, Before
<1>4. RunOne(Run(cdbTemp, SubSeq(cts[current], 1, instr - 1)), cts[current][instr]) = Failed
  BY <1>1, <1>3 DEF RunOne
<1> QED BY <1>2, <1>4, FailsAt

LEMMA StoreFailsRun ==
    ASSUME Typed, Progress, StoreFails
    PROVE  Run(cdbTemp, cts[current]) = Failed
<1>1. at = "store" /\ left # << >> /\ ~Accepts(cdbI, Head(left))
  BY DEF StoreFails
<1>2. cts[current] \in Seq(Instructions) /\ instr \in 1..Len(cts[current])
  BY <1>1, InLoop
<1> DEFINE k == Len(scs) - Len(left) + 1
<1>3. Head(left) = scs[k] /\ k \in 1..Len(scs) /\ k - 1 = Len(scs) - Len(left)
  <2>1. Head(left) = scs[k]
    BY <1>1, SuffixStep DEF Typed, TypeOK
  <2>2. Len(left) \in Nat /\ Len(scs) \in Nat /\ Len(left) > 0 /\ Len(left) <= Len(scs)
    BY <1>1 DEF Typed
  <2> QED BY <2>1, <2>2
<1> HIDE DEF k
<1>4. /\ scs = CallContract(Before, cts[current][instr])
      /\ cdbI = Applied(Before, SubSeq(scs, 1, k - 1))
  BY <1>1, <1>3 DEF Progress
<1>5. scs \in Seq(Changes) /\ scs # Failed
  BY BatchAssumption DEF Typed
<1>6. ApplyOne(Applied(Before, SubSeq(scs, 1, k - 1)), scs[k]) = Failed
  BY <1>1, <1>3, <1>4 DEF ApplyOne
<1>7. Applied(Before, SubSeq(scs, 1, k)) = Failed
  BY <1>3, <1>5, <1>6, AppliedSteps
<1>8. Applied(Before, scs) = Failed
  <2>1. k \in 0..Len(scs)
    BY <1>3
  <2> QED BY <1>5, <1>7, <2>1, AppliedSteps
<1>9. RunOne(Before, cts[current][instr]) = Failed
  BY <1>4, <1>8 DEF RunOne
<1> QED BY <1>2, <1>9, FailsAt DEF Before

\* A transaction at its end: the clone is what it gives as a whole.
LEMMA DoneRun ==
    ASSUME Typed, Progress, TransactionDone
    PROVE  Run(cdbTemp, cts[current]) = cdbI /\ cdbI # Failed
<1>1. at = "instruction" /\ instr > Len(cts[current])
  BY DEF TransactionDone
<1>2. cts[current] \in Seq(Instructions) /\ instr - 1 = Len(cts[current])
  BY <1>1, InLoop
<1>3. SubSeq(cts[current], 1, instr - 1) = cts[current]
  BY <1>2
<1>4. cdbI \in Collections
  BY DEF Typed, TypeOK
<1> QED BY <1>1, <1>3, <1>4, BatchAssumption DEF Progress, Before

LEMMA ProgressInit == Init => Progress
<1> SUFFICES ASSUME Init PROVE Progress
  OBVIOUS
<1>1. SubSeq(<< >>, 1, 1 - 1) = << >>
  OBVIOUS
<1>2. Executed(coll, << >>) = coll
  BY ExecutedSteps
<1> QED BY <1>1, <1>2 DEF Init, Progress

LEMMA ProgressNext == Typed /\ Typed' /\ Progress /\ [Next]_vars => Progress'
<1> SUFFICES ASSUME Typed, Typed', Progress, [Next]_vars PROVE Progress'
  OBVIOUS
<1>1. ASSUME NEW ts \in SeqOf(Transactions, MaxBatch) \ {<< >>}, Start(ts) PROVE Progress'
  <2>1. cts' \in Seq(Transactions)
    BY DEF Typed
  <2>2. SubSeq(cts', 1, 1 - 1) = << >>
    BY <2>1
  <2>3. Executed(coll, SubSeq(cts', 1, 1 - 1)) = coll
    BY <2>2, ExecutedSteps
  <2> QED BY <1>1, <2>3 DEF Start, Progress
<1>2. CASE Clone
  <2>1. current \in 1..Len(cts) /\ cts[current] \in Transactions
    BY <1>2 DEF Clone, Typed, TypeOK
  <2>2. cts[current] \in Seq(Instructions)
    BY <2>1, BatchAssumption
  <2>3. SubSeq(cts[current], 1, 1 - 1) = << >>
    BY <2>2
  <2>4. Run(cdbTemp, SubSeq(cts[current], 1, 1 - 1)) = cdbTemp
    BY <2>3, RunSteps
  <2> QED BY <1>2, <2>4 DEF Clone, Progress, Before
<1>3. CASE Call
  <2>1. scs' \in Seq(Changes) /\ left' = scs'
    BY <1>3 DEF Call, Typed
  <2>2. SubSeq(scs', 1, Len(scs') - Len(left')) = << >>
    <3>1. Len(scs') - Len(left') = 0
      BY <2>1
    <3> QED BY <2>1, <3>1
  <2>3. Applied(cdbI, SubSeq(scs', 1, Len(scs') - Len(left'))) = cdbI
    BY <2>2, AppliedSteps
  <2>4. cdbI = Before /\ Before' = Before /\ cdbI \in Collections
    BY <1>3 DEF Call, Progress, Before, Typed, TypeOK
  <2> QED BY <1>3, <2>3, <2>4 DEF Call, Progress
<1>4. CASE CallFails
  <2>1. current \in 1..Len(cts)
    BY <1>4, InLoop DEF CallFails
  <2>2. Executed(coll, SubSeq(cts, 1, (current + 1) - 1)) = cdbTemp
    BY <1>4, <2>1, ExecuteCurrent, CallFailsRun
  <2> QED BY <1>4, <2>2 DEF CallFails, Drop, Progress
<1>5. CASE Store
  <2> DEFINE k == Len(scs) - Len(left) + 1
  <2>1. at = "store" /\ left # << >> /\ Accepts(cdbI, Head(left)) /\ cdbI' = storeInColl(cdbI, Head(left))
    BY <1>5 DEF Store
  <2>2. /\ Head(left) = scs[k] /\ k \in 1..Len(scs)
        /\ k - 1 = Len(scs) - Len(left) /\ Len(scs) - Len(left') = k
    <3>1. Head(left) = scs[k] /\ left' = Tail(left) /\ Len(Tail(left)) = Len(left) - 1
      BY <1>5, SuffixStep DEF Store, Typed, TypeOK
    <3>2. Len(left) \in Nat /\ Len(scs) \in Nat /\ Len(left) > 0 /\ Len(left) <= Len(scs)
      BY <2>1 DEF Typed
    <3>3. Len(left') = Len(left) - 1
      BY <3>1, Zenon
    <3>4. k \in 1..Len(scs) /\ k - 1 = Len(scs) - Len(left)
      BY <3>2
    <3>5. Len(scs) - Len(left') = k
      BY <3>2, <3>3
    <3> QED BY <3>1, <3>4, <3>5, Zenon
  <2> HIDE DEF k
  <2>3. cdbI = Applied(Before, SubSeq(scs, 1, k - 1))
    BY <2>1, <2>2 DEF Progress
  <2>4. cdbI # Failed /\ scs \in Seq(Changes)
    BY BatchAssumption DEF Typed, TypeOK
  <2>5. Applied(Before, SubSeq(scs, 1, k)) = ApplyOne(Applied(Before, SubSeq(scs, 1, k - 1)), scs[k])
    <3>1. \A u \in Seq(Changes) : \A n \in 1..Len(u) :
             Applied(Before, SubSeq(u, 1, n)) = ApplyOne(Applied(Before, SubSeq(u, 1, n - 1)), u[n])
      BY AppliedSteps
    <3>2. k \in 1..Len(scs)
      BY <2>2
    <3> QED BY <2>4, <3>1, <3>2
  <2>6. Applied(Before, SubSeq(scs, 1, k)) = cdbI'
    BY <2>1, <2>2, <2>3, <2>4, <2>5 DEF ApplyOne
  <2>7. Before' = Before
    BY <1>5 DEF Store, Before
  <2> QED BY <1>5, <2>1, <2>2, <2>6, <2>7 DEF Store, Progress
<1>6. CASE StoreFails
  <2>1. current \in 1..Len(cts)
    BY <1>6, InLoop DEF StoreFails
  <2>2. Executed(coll, SubSeq(cts, 1, (current + 1) - 1)) = cdbTemp
    BY <1>6, <2>1, ExecuteCurrent, StoreFailsRun
  <2> QED BY <1>6, <2>2 DEF StoreFails, Drop, Progress
<1>7. CASE InstructionDone
  <2>1. at = "store" /\ left = << >>
    BY <1>7 DEF InstructionDone
  <2>2. cts[current] \in Seq(Instructions) /\ instr \in 1..Len(cts[current])
    BY <2>1, InLoop
  <2>3. scs \in Seq(Changes) /\ scs # Failed
    BY BatchAssumption DEF Typed
  <2>4. SubSeq(scs, 1, Len(scs) - Len(left)) = scs
    <3>1. Len(scs) - Len(left) = Len(scs)
      BY <2>1, <2>3
    <3> QED BY <2>3, <3>1
  <2>5. cdbI = Applied(Before, scs) /\ scs = CallContract(Before, cts[current][instr]) /\ Before # Failed
    BY <2>1, <2>4, BatchAssumption DEF Progress
  <2>6. RunOne(Before, cts[current][instr]) = cdbI
    BY <2>3, <2>5 DEF RunOne
  <2>7. Run(cdbTemp, SubSeq(cts[current], 1, instr)) = cdbI
    BY <2>2, <2>6, RunSteps DEF Before
  <2>8. (instr + 1) - 1 = instr
    BY <2>2
  <2>9. Before' = cdbI
    BY <1>7, <2>7, <2>8 DEF InstructionDone, Before
  <2> QED BY <1>7, <2>9 DEF InstructionDone, Progress
<1>8. CASE TransactionDone
  <2>1. current \in 1..Len(cts)
    BY <1>8, InLoop DEF TransactionDone
  <2>2. Executed(coll, SubSeq(cts, 1, (current + 1) - 1)) = cdbI
    BY <1>8, <2>1, ExecuteCurrent, DoneRun
  <2> QED BY <1>8, <2>2 DEF TransactionDone, Progress
<1>9. CASE Return
  BY <1>9 DEF Return, Progress
<1>10. CASE UNCHANGED vars
  BY <1>10 DEF vars, Progress, Before
<1> QED BY <1>1, <1>2, <1>3, <1>4, <1>5, <1>6, <1>7, <1>8, <1>9, <1>10 DEF Next

\* Whatever fails, a transaction is applied as a whole or not at all.
THEOREM AllOrNothingTheorem == Spec => []AllOrNothing
<1>1. Progress => AllOrNothing
  BY DEF Progress, AllOrNothing
<1> QED BY <1>1, TypedInit, TypedNext, ProgressInit, ProgressNext, PTL DEF Spec

-----------------------------------------------------------------------------
(* Replaying the block *)

\* The transactions kept so far all succeed and give cdbTemp.
Replay ==
    /\ \A i \in DOMAIN ctsOK : Run(Executed(coll, SubSeq(ctsOK, 1, i - 1)), ctsOK[i]) # Failed
    /\ Executed(coll, ctsOK) = cdbTemp

LEMMA ReplayInit == Init => Replay
<1> SUFFICES ASSUME Init PROVE Replay
  OBVIOUS
<1>1. Executed(coll, << >>) = coll /\ DOMAIN << >> = {}
  BY ExecutedSteps
<1> QED BY <1>1 DEF Init, Replay

LEMMA ReplayNext == Typed /\ Progress /\ Replay /\ [Next]_vars => Replay'
<1> SUFFICES ASSUME Typed, Progress, Replay, [Next]_vars PROVE Replay'
  OBVIOUS
<1>1. ASSUME NEW ts \in SeqOf(Transactions, MaxBatch) \ {<< >>}, Start(ts) PROVE Replay'
  <2>1. Executed(coll, << >>) = coll /\ DOMAIN << >> = {}
    BY ExecutedSteps
  <2> QED BY <1>1, <2>1 DEF Start, Replay
<1>2. CASE TransactionDone
  <2> DEFINE t == cts[current]
             n == Len(ctsOK) + 1
  <2>1. t \in Transactions /\ ctsOK \in Seq(Transactions) /\ coll' = coll
    BY <1>2, InLoop DEF TransactionDone, Typed
  <2>2. ctsOK' = Append(ctsOK, t) /\ cdbTemp' = cdbI
    BY <1>2 DEF TransactionDone
  <2>3. Run(cdbTemp, t) = cdbI /\ cdbI # Failed
    BY <1>2, DoneRun
  <2> HIDE DEF t
  <2>4. Executed(coll, Append(ctsOK, t)) = ExecuteOne(cdbTemp, t)
    BY <2>1, ExecutedSteps DEF Replay
  <2>5. Executed(coll, ctsOK') = cdbTemp'
    BY <2>2, <2>3, <2>4 DEF ExecuteOne
  <2>6. ASSUME NEW i \in DOMAIN ctsOK'
        PROVE  Run(Executed(coll, SubSeq(ctsOK', 1, i - 1)), ctsOK'[i]) # Failed
    <3>1. i \in 1..n /\ n \in Nat
      BY <2>1, <2>2
    <3>2. CASE i = n
      <4>1. SubSeq(ctsOK', 1, i - 1) = ctsOK /\ ctsOK'[i] = t
        BY <2>1, <2>2, <3>1, <3>2
      <4> QED BY <2>3, <4>1 DEF Replay
    <3>3. CASE i # n
      <4>1. i \in DOMAIN ctsOK
        BY <2>1, <3>1, <3>3
      <4>2. SubSeq(ctsOK', 1, i - 1) = SubSeq(ctsOK, 1, i - 1) /\ ctsOK'[i] = ctsOK[i]
        BY <2>1, <2>2, <4>1
      <4> QED BY <4>1, <4>2 DEF Replay
    <3> QED BY <3>2, <3>3
  <2> QED BY <2>1, <2>5, <2>6 DEF Replay
<1>3. CASE UNCHANGED <<coll, ctsOK, cdbTemp>>
  BY <1>3 DEF Replay
<1> QED BY <1>1, <1>2, <1>3 DEF Next, Clone, Call, CallFails, Store, StoreFails, Drop, InstructionDone,
                                Return, vars

\* A node that runs the transactions of the block, and only those, keeps
\* them all and gets the collection of the leader.
THEOREM ReproducibleTheorem == Spec => []Reproducible
<1>1. Replay => Reproducible
  BY DEF Replay, Reproducible
<1> QED BY <1>1, TypedInit, TypedNext, ProgressInit, ProgressNext, ReplayInit, ReplayNext, PTL DEF Spec

-----------------------------------------------------------------------------
(* The genesis configuration *)

Spawns(i) == i.action = "spawn" /\ i.contract = "config"

\* One change, applied.
LEMMA AppliedOne ==
    ASSUME NEW c, NEW s \in Seq(Changes), Len(s) = 1
    PROVE  Applied(c, s) = ApplyOne(c, s[1])
<1>1. SubSeq(s, 1, 1) = s
  OBVIOUS
<1>2. SubSeq(s, 1, 0) = << >>
  OBVIOUS
<1>3. 1 - 1 = 0 /\ 1 \in 1..Len(s)
  OBVIOUS
<1>4. Applied(c, SubSeq(s, 1, 1)) = ApplyOne(Applied(c, SubSeq(s, 1, 1 - 1)), s[1])
  BY <1>3, AppliedSteps
<1> QED BY <1>1, <1>2, <1>3, <1>4, AppliedSteps, Zenon

\* Three changes, applied.
LEMMA AppliedThree ==
    ASSUME NEW c, NEW s \in Seq(Changes), Len(s) = 3
    PROVE  Applied(c, s) = ApplyOne(ApplyOne(ApplyOne(c, s[1]), s[2]), s[3])
<1>1. /\ SubSeq(s, 1, 1 - 1) = << >> /\ SubSeq(s, 1, 2 - 1) = SubSeq(s, 1, 1)
      /\ SubSeq(s, 1, 3 - 1) = SubSeq(s, 1, 2) /\ SubSeq(s, 1, 3) = s
  <2>1. SubSeq(s, 1, 0) = << >>
    OBVIOUS
  <2>2. SubSeq(s, 1, 3) = s
    OBVIOUS
  <2>3. 1 - 1 = 0 /\ 2 - 1 = 1 /\ 3 - 1 = 2
    OBVIOUS
  <2> QED BY <2>1, <2>2, <2>3, Zenon
<1>2. \A n \in 1..3 : Applied(c, SubSeq(s, 1, n)) = ApplyOne(Applied(c, SubSeq(s, 1, n - 1)), s[n])
  BY AppliedSteps
<1> 1 \in 1..3 /\ 2 \in 1..3 /\ 3 \in 1..3
  OBVIOUS
<1>3. Applied(c, SubSeq(s, 1, 1)) = ApplyOne(c, s[1])
  BY <1>1, <1>2, AppliedSteps, Zenon
<1>4. Applied(c, SubSeq(s, 1, 2)) = ApplyOne(ApplyOne(c, s[1]), s[2])
  BY <1>1, <1>2, <1>3, Zenon
<1>5. Applied(c, SubSeq(s, 1, 3)) = ApplyOne(ApplyOne(ApplyOne(c, s[1]), s[2]), s[3])
  BY <1>1, <1>2, <1>4, Zenon
<1> QED BY <1>1, <1>5

\* ContractConfig wants a collection without the reference and creates it.
LEMMA ConfigCreates ==
    ASSUME NEW c \in Collections, NEW i \in Instructions,
           ContractConfig(i) # Failed, Applied(c, ContractConfig(i)) # Failed
    PROVE  c[Reference] = Absent /\ HasConfig(Applied(c, ContractConfig(i)))
<1> DEFINE s1 == StateChange("create", Reference, "config", 0)
           s2 == StateChange("create", i.object, "darc", 0)
           s3 == StateChange("create", ConfigID[i.object], "config", 0)
           c1 == ApplyOne(c, s1)
           c2 == ApplyOne(c1, s2)
           c3 == ApplyOne(c2, s3)
<1>1. i.object \in Objects /\ ConfigID[i.object] \in Objects /\ Reference \in Objects
  <2>1. ConfigID \in [Objects -> Objects] /\ Reference \in Objects
    BY BatchAssumption
  <2> QED BY <2>1 DEF Instructions
<1>2. /\ s1 \in Changes /\ s1.action = "create" /\ s1.object = Reference
      /\ s1.contract = "config" /\ s1.value = 0
      /\ s2 \in Changes /\ s2.action = "create" /\ s3 \in Changes /\ s3.action = "create"
  BY <1>1 DEF Changes, StateChange
<1>3. ContractConfig(i) = <<s1, s2, s3>>
  BY DEF ContractConfig
<1> HIDE DEF s1, s2, s3
<1>4. Applied(c, <<s1, s2, s3>>) = c3
  <2> DEFINE s == <<s1, s2, s3>>
  <2>1. s \in Seq(Changes) /\ Len(s) = 3 /\ s[1] = s1 /\ s[2] = s2 /\ s[3] = s3
    BY <1>2
  <2> HIDE DEF s
  <2>2. Applied(c, s) = ApplyOne(ApplyOne(ApplyOne(c, s[1]), s[2]), s[3])
    BY <2>1, AppliedThree
  <2> QED BY <2>1, <2>2 DEF s
<1>5. c3 # Failed
  BY <1>3, <1>4
<1>6. c2 # Failed /\ c1 # Failed
  BY <1>5 DEF ApplyOne
<1>7. Accepts(c, s1) /\ c1 = storeInColl(c, s1)
  BY <1>6 DEF ApplyOne
<1>8. Accepts(c1, s2) /\ c2 = storeInColl(c1, s2)
  BY <1>6 DEF ApplyOne
<1>9. Accepts(c2, s3) /\ c3 = storeInColl(c2, s3)
  BY <1>5, <1>6 DEF ApplyOne
<1> HIDE DEF c1, c2, c3
<1>10. c1 \in Collections /\ c2 \in Collections
  BY <1>2, <1>7, <1>8, StoreType
<1>11. c[Reference] = Absent
  BY <1>2, <1>7 DEF Accepts
<1> DEFINE entry == [value |-> 0, contract |-> "config"]
<1>12. entry \in Values /\ entry # Absent /\ entry.contract = "config"
  BY BatchAssumption DEF Values
<1> HIDE DEF entry
<1>13. c1[Reference] = entry
  BY <1>1, <1>2, <1>7 DEF storeInColl, Collections, entry
<1>14. s2.object # Reference
  BY <1>2, <1>8, <1>12, <1>13 DEF Accepts
<1>15. c2[Reference] = entry
  BY <1>1, <1>8, <1>10, <1>13, <1>14 DEF storeInColl, Collections
<1>16. s3.object # Reference
  BY <1>2, <1>9, <1>12, <1>15 DEF Accepts
<1>17. c3[Reference] = entry
  BY <1>1, <1>9, <1>10, <1>15, <1>16 DEF storeInColl, Collections
<1> QED BY <1>3, <1>4, <1>11, <1>12, <1>17 DEF HasConfig

\* The counter leaves an object of another contract alone.
LEMMA CounterKeeps ==
    ASSUME NEW c \in Collections, NEW i \in Instructions, HasConfig(c),
           GetContractState(c, i) = "add", Counter(c, i) # Failed, Applied(c, Counter(c, i)) # Failed
    PROVE  Applied(c, Counter(c, i))[Reference] = c[Reference]
<1>1. i.object \in Objects /\ Reference \in Objects
  BY BatchAssumption DEF Instructions
<1>2. PICK sc \in Changes : Counter(c, i) = <<sc>> /\ sc.object = i.object
  <2>1. c[i.object] # Absent => c[i.object].value + 1 \in Nat
    BY <1>1 DEF Collections, Values
  <2>2. \A a \in {"create", "update", "remove"}, v \in Nat :
           StateChange(a, i.object, "add", v) \in Changes /\ StateChange(a, i.object, "add", v).object = i.object
    BY <1>1 DEF StateChange, Changes
  <2> QED BY <2>1, <2>2 DEF Counter
<1>3. i.object # Reference
  <2>1. CASE c[i.object] = Absent
    BY <2>1 DEF HasConfig
  <2>2. CASE c[i.object] # Absent /\ i.action = "spawn"
    BY <2>2 DEF Counter
  <2>3. CASE c[i.object] # Absent /\ i.action # "spawn"
    BY <2>3 DEF HasConfig, GetContractState
  <2> QED BY <2>1, <2>2, <2>3
<1>4. Applied(c, Counter(c, i)) = ApplyOne(c, sc)
  <2> DEFINE s == Counter(c, i)
  <2>1. s \in Seq(Changes) /\ Len(s) = 1 /\ s[1] = sc
    BY <1>2
  <2> HIDE DEF s
  <2>2. Applied(c, s) = ApplyOne(c, s[1])
    BY <2>1, AppliedOne
  <2> QED BY <2>1, <2>2 DEF s
<1>5. Applied(c, Counter(c, i)) = storeInColl(c, sc)
  BY <1>4 DEF ApplyOne
<1> QED BY <1>1, <1>2, <1>3, <1>5 DEF storeInColl, Collections

\* What an instruction that succeeds does to the reference.
LEMMA RunOneConfig ==
    ASSUME NEW c \in Collections, NEW i \in Instructions, RunOne(c, i) # Failed
    PROVE  /\ HasConfig(c) => RunOne(c, i)[Reference] = c[Reference] /\ ~Spawns(i)
           /\ Spawns(i) => HasConfig(RunOne(c, i))
<1>1. CallContract(c, i) # Failed /\ RunOne(c, i) = Applied(c, CallContract(c, i))
  BY DEF RunOne
<1>2. CASE GetContractState(c, i) = "config"
  <2>1. CallContract(c, i) = ContractConfig(i)
    BY <1>2 DEF CallContract
  <2> QED BY <1>1, <2>1, ConfigCreates DEF HasConfig
<1>3. CASE GetContractState(c, i) = "add"
  <2>1. CallContract(c, i) = Counter(c, i)
    BY <1>3 DEF CallContract
  <2>2. ~Spawns(i)
    BY <1>3 DEF Spawns, GetContractState
  <2> QED BY <1>1, <1>3, <2>1, <2>2, CounterKeeps
<1>4. CASE GetContractState(c, i) # "config" /\ GetContractState(c, i) # "add"
  BY <1>1, <1>4 DEF CallContract
<1> QED BY <1>2, <1>3, <1>4

\* What a transaction that succeeds does to the reference.
LEMMA RunConfig ==
    ASSUME NEW c \in Collections, NEW t \in Seq(Instructions), Run(c, t) # Failed
    PROVE  /\ HasConfig(c) => Run(c, t)[Reference] = c[Reference] /\ ~SpawnsConfig(t)
           /\ SpawnsConfig(t) => HasConfig(Run(c, t))
<1> DEFINE R(n) == Run(c, SubSeq(t, 1, n))
           T == {n \in Nat :
                   /\ HasConfig(c) => R(n)[Reference] = c[Reference] /\ \A i \in 1..n : ~Spawns(t[i])
                   /\ (\E i \in 1..n : Spawns(t[i])) => HasConfig(R(n))}
<1>1. \A n \in 0..Len(t) : R(n) # Failed
  BY RunSteps
<1>2. \A n \in 0..Len(t) : R(n) \in Collections
  <2>1. ASSUME NEW n \in 0..Len(t) PROVE R(n) \in Collections
    <3>1. SubSeq(t, 1, n) \in Seq(Instructions)
      OBVIOUS
    <3> QED BY <1>1, <3>1, RunType
  <2> QED BY <2>1
<1>3. 0 \in T
  <2>1. SubSeq(t, 1, 0) = << >>
    OBVIOUS
  <2>2. R(0) = c
    BY <2>1, RunSteps
  <2>3. 1..0 = {}
    OBVIOUS
  <2> QED BY <2>2, <2>3
<1>4. ASSUME NEW n \in 0..Len(t) - 1, n \in T PROVE n + 1 \in T
  <2>1. /\ n \in Nat /\ n \in 0..Len(t) /\ n + 1 \in 0..Len(t) /\ n + 1 \in 1..Len(t)
        /\ (n + 1) - 1 = n /\ t[n + 1] \in Instructions
    OBVIOUS
  <2>2. Run(c, SubSeq(t, 1, n + 1)) = RunOne(Run(c, SubSeq(t, 1, (n + 1) - 1)), t[n + 1])
    BY <2>1, RunSteps
  <2>3. R(n + 1) = RunOne(R(n), t[n + 1])
    BY <2>1, <2>2
  <2>4. R(n) \in Collections /\ R(n + 1) # Failed
    BY <1>1, <1>2, <2>1
  <2>5. /\ HasConfig(c) => R(n)[Reference] = c[Reference] /\ \A i \in 1..n : ~Spawns(t[i])
        /\ (\E i \in 1..n : Spawns(t[i])) => HasConfig(R(n))
    BY <1>4
  <2> HIDE DEF R
  <2>6. /\ HasConfig(R(n)) => R(n + 1)[Reference] = R(n)[Reference] /\ ~Spawns(t[n + 1])
        /\ Spawns(t[n + 1]) => HasConfig(R(n + 1))
    BY <2>1, <2>3, <2>4, RunOneConfig
  <2>7. \A i \in 1..n + 1 : i \in 1..n \/ i = n + 1
    BY <2>1
  <2>8. HasConfig(R(n)) => HasConfig(R(n + 1))
    BY <2>6 DEF HasConfig
  <2>9. HasConfig(c) => R(n + 1)[Reference] = c[Reference] /\ \A i \in 1..n + 1 : ~Spawns(t[i])
    BY <2>5, <2>6, <2>7 DEF HasConfig
  <2>10. (\E i \in 1..n + 1 : Spawns(t[i])) => HasConfig(R(n + 1))
    BY <2>5, <2>6, <2>7, <2>8
  <2> QED BY <2>1, <2>9, <2>10
<1>5. Len(t) \in Nat /\ SubSeq(t, 1, Len(t)) = t /\ DOMAIN t = 1..Len(t)
  OBVIOUS
<1> HIDE DEF T
<1>6. 0..Len(t) \subseteq T
  BY <1>3, <1>4, <1>5, AF!BoundedInduction
<1>7. Len(t) \in T
  BY <1>5, <1>6
<1>8. R(Len(t)) = Run(c, t)
  BY <1>5
<1> HIDE DEF R
<1>9. /\ HasConfig(c) => R(Len(t))[Reference] = c[Reference] /\ \A i \in 1..Len(t) : ~Spawns(t[i])
      /\ (\E i \in 1..Len(t) : Spawns(t[i])) => HasConfig(R(Len(t)))
  BY <1>7, Zenon DEF T
<1> QED BY <1>5, <1>8, <1>9 DEF SpawnsConfig, Spawns

\* ConfigOnce, and the reference a kept transaction created is there.
ConfigKept ==
    /\ ConfigOnce
    /\ (\E k \in DOMAIN ctsOK : SpawnsConfig(ctsOK[k])) => HasConfig(cdbTemp)

LEMMA ConfigInit == Init => ConfigKept
<1> SUFFICES ASSUME Init PROVE ConfigKept
  OBVIOUS
<1>1. DOMAIN << >> = {}
  OBVIOUS
<1> QED BY <1>1 DEF Init, ConfigKept, ConfigOnce

LEMMA ConfigNext == Typed /\ Progress /\ ConfigKept /\ [Next]_vars => ConfigKept'
<1> SUFFICES ASSUME Typed, Progress, ConfigKept, [Next]_vars PROVE ConfigKept'
  OBVIOUS
<1>1. ASSUME NEW ts \in SeqOf(Transactions, MaxBatch) \ {<< >>}, Start(ts) PROVE ConfigKept'
  <2>1. DOMAIN << >> = {}
    OBVIOUS
  <2> QED BY <1>1, <2>1 DEF Start, ConfigKept, ConfigOnce
<1>2. CASE TransactionDone
  <2> DEFINE t == cts[current]
             n == Len(ctsOK) + 1
  <2>1. t \in Seq(Instructions) /\ ctsOK \in Seq(Transactions) /\ cdbTemp \in Collections
    BY <1>2, InLoop DEF TransactionDone, Typed, TypeOK
  <2>2. ctsOK' = Append(ctsOK, t) /\ cdbTemp' = cdbI /\ coll' = coll
    BY <1>2 DEF TransactionDone
  <2>3. Run(cdbTemp, t) = cdbI /\ cdbI # Failed
    BY <1>2, DoneRun
  <2> HIDE DEF t
  <2>4. /\ HasConfig(cdbTemp) => cdbI[Reference] = cdbTemp[Reference] /\ ~SpawnsConfig(t)
        /\ SpawnsConfig(t) => HasConfig(cdbI)
    BY <2>1, <2>3, RunConfig
  <2>5. /\ DOMAIN ctsOK' = DOMAIN ctsOK \cup {n}
        /\ \A k \in DOMAIN ctsOK : ctsOK'[k] = ctsOK[k]
        /\ ctsOK'[n] = t
    BY <2>1, <2>2
  <2> HIDE DEF n
  <2>6. HasConfig(cdbTemp) => HasConfig(cdbI)
    BY <2>4 DEF HasConfig
  <2>7. HasConfig(coll) => HasConfig(cdbTemp) /\ cdbTemp[Reference] = coll[Reference]
    BY DEF ConfigKept, ConfigOnce, HasConfig
  <2>8. HasConfig(coll') =>
          /\ cdbTemp'[Reference] = coll'[Reference]
          /\ \A k \in DOMAIN ctsOK' : ~SpawnsConfig(ctsOK'[k])
    BY <2>2, <2>4, <2>5, <2>7 DEF ConfigKept, ConfigOnce
  <2>9. \A k, l \in DOMAIN ctsOK' : SpawnsConfig(ctsOK'[k]) /\ SpawnsConfig(ctsOK'[l]) => k = l
    BY <2>4, <2>5 DEF ConfigKept, ConfigOnce
  <2>10. (\E k \in DOMAIN ctsOK' : SpawnsConfig(ctsOK'[k])) => HasConfig(cdbTemp')
    BY <2>2, <2>4, <2>5, <2>6 DEF ConfigKept
  <2> QED BY <2>8, <2>9, <2>10 DEF ConfigKept, ConfigOnce, HasConfig, SpawnsConfig
<1>3. CASE UNCHANGED <<coll, ctsOK, cdbTemp>>
  BY <1>3 DEF ConfigKept, ConfigOnce, HasConfig, SpawnsConfig
<1> QED BY <1>1, <1>2, <1>3 DEF Next, Clone, Call, CallFails, Store, StoreFails, Drop, InstructionDone,
                                Return, vars

\* A chain has one genesis configuration.
THEOREM ConfigTheorem == Spec => []ConfigOnce
<1>1. ConfigKept => ConfigOnce
  BY DEF ConfigKept
<1> QED BY <1>1, TypedInit, TypedNext, ProgressInit, ProgressNext, ConfigInit, ConfigNext, PTL DEF Spec

=============================================================================
