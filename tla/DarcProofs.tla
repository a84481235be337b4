------------------------------ MODULE DarcProofs ------------------------------
(***************************************************************************)
(* Proof that requests are accepted only as their signers made them, for   *)
(* any keys, darcs, rules and number of requests.                          *)
(***************************************************************************)
EXTENDS Darc, FiniteSetTheorems, TLAPS

\* What is proved of the evaluation of expressions holds for the identities
\* of darcs.  The theorems used are about operators, not about the reading.
EP == INSTANCE PoliciesProofs WITH
        Ids <- Keys \cup Chains, MaxTokens <- 0, expr <- <<>>, after <- "bad",
        terms <- <<>>, mixed <- FALSE, groups <- <<>>

HF == INSTANCE Folding WITH Op <- HoldOne

DF == INSTANCE Folding WITH Op <- DeepOne

\* Every request that was made carries the signatures of its identities over
\* its own content.
MadeInv ==
    \A r \in made :
        /\ r = InitAndSignRequest(r.base, r.action, r.msg, r.ids)
        /\ r.ids \in Seq(Keys)

\* The versions of each darc are a sequence.
ChainInv ==
    /\ chain = [b \in Chains |-> chain[b]]
    /\ \A b \in Chains : \E S : chain[b] \in Seq(S)

\* AcceptedAsSigned compares what was accepted with what was made, so it
\* holds only as long as the latter is signed by those it names.
Inv == MadeInv /\ ChainInv /\ AcceptedAsSigned

-----------------------------------------------------------------------------

\* What clients make is signed by those it names.
LEMMA MakeSigned ==
    ASSUME NEW base, NEW action, NEW msg, NEW s \in Seq(Keys), MadeInv,
           Make(InitAndSignRequest(base, action, msg, s))
    PROVE  MadeInv'
<1> DEFINE r == InitAndSignRequest(base, action, msg, s)
<1>1. made' = made \cup {r}
  BY DEF Make
<1>2. r.base = base /\ r.action = action /\ r.msg = msg /\ r.ids = s
  BY DEF InitAndSignRequest
<1>3. r = InitAndSignRequest(r.base, r.action, r.msg, r.ids) /\ r.ids \in Seq(Keys)
  BY <1>2
<1> HIDE DEF r
<1> QED
  BY <1>1, <1>3 DEF MadeInv, InitAndSignRequest, Hash, Sign

\* A request that verifies with signatures that were made for some requests
\* is one of these requests: the digest fixes its content and all signers.
LEMMA VerifiedIsMade ==
    ASSUME MadeInv,
           NEW base, NEW action, NEW msg, NEW ids \in Seq(Keys), NEW sigs \in Seq(Pool),
           NEW d, NEW cb,
           VerifyRequest([base |-> base, action |-> action, msg |-> msg, ids |-> ids, sigs |-> sigs], d, cb)
    PROVE  [base |-> base, action |-> action, msg |-> msg, ids |-> ids, sigs |-> sigs] \in made
<1> DEFINE h == Hash(base, action, msg, ids)
<1>1. /\ sigs # <<>>
      /\ Len(sigs) = Len(ids)
      /\ \A i \in DOMAIN ids : sigs[i] = Sign(ids[i], h)
  BY DEF VerifyRequest, SignedBy
<1>2. 1 \in DOMAIN sigs /\ DOMAIN sigs = DOMAIN ids /\ sigs[1] \in Pool
  BY <1>1
<1>3. PICK q \in made : sigs[1] \in Range(q.sigs)
  BY <1>2 DEF Pool
<1>4. PICK j \in DOMAIN q.sigs : q.sigs[j] = sigs[1]
  BY <1>3 DEF Range
<1>5. q = InitAndSignRequest(q.base, q.action, q.msg, q.ids) /\ q.ids \in Seq(Keys)
  BY DEF MadeInv
<1>6. q.sigs = [i \in DOMAIN q.ids |-> Sign(q.ids[i], Hash(q.base, q.action, q.msg, q.ids))]
  BY <1>5 DEF InitAndSignRequest
<1>7. Sign(q.ids[j], Hash(q.base, q.action, q.msg, q.ids)) = Sign(ids[1], h)
  BY <1>1, <1>2, <1>4, <1>6
<1>8. Hash(q.base, q.action, q.msg, q.ids) = h
  BY <1>7 DEF Sign
<1>9. q.base = base /\ q.action = action /\ q.msg = msg /\ q.ids = ids
  BY <1>8 DEF Hash
<1>10. sigs = [i \in DOMAIN ids |-> Sign(ids[i], h)]
  BY <1>1, <1>2
<1>11. q = [base |-> base, action |-> action, msg |-> msg, ids |-> ids, sigs |-> sigs]
  BY <1>5, <1>9, <1>10 DEF InitAndSignRequest
<1> QED
  BY <1>11

\* One or two elements are a sequence that has a last element.
LEMMA UpTo2IsSeq ==
    ASSUME NEW S, NEW s \in UpTo2(S)
    PROVE  s \in Seq(S) /\ Len(s) \in DOMAIN s
<1>1. CASE s \in {<<x>> : x \in S}
  <2>1. PICK x \in S : s = <<x>>
    BY <1>1
  <2> QED
    BY <2>1
<1>2. CASE s \in S \X S
  <2>1. PICK x \in S, y \in S : s = <<x, y>>
    BY <1>2
  <2> QED
    BY <2>1
<1> QED
  BY <1>1, <1>2 DEF UpTo2

\* Init has a function to one-element sequences.
LEMMA InitInv == Init => Inv
<1> SUFFICES ASSUME Init PROVE Inv
  OBVIOUS
<1>1. MadeInv
  BY DEF Init, MadeInv
<1>2. chain = [b \in Chains |-> chain[b]]
  BY DEF Init
<1>3. ASSUME NEW b \in Chains
      PROVE  \E d : chain[b] = <<d>>
  BY <1>3 DEF Init, FirstVersion
<1>4. ASSUME NEW b \in Chains
      PROVE  Len(chain[b]) = 1 /\ \E S : chain[b] \in Seq(S)
  <2>1. PICK d : chain[b] = <<d>>
    BY <1>3
  <2>2. chain[b] \in Seq({d}) /\ Len(chain[b]) = 1
    BY <2>1
  <2> QED
    BY <2>2
<1>5. AcceptedAsSigned
  <2>1. accepted \subseteq made
    BY DEF Init
  <2>2. ASSUME NEW b \in Chains, NEW i \in 2..Len(chain[b])
        PROVE  FALSE
    <3>1. Len(chain[b]) = 1
      BY <1>4
    <3> QED
      BY <2>2, <3>1
  <2> QED
    BY <2>1, <2>2 DEF AcceptedAsSigned
<1> QED
  BY <1>1, <1>2, <1>4, <1>5 DEF Inv, ChainInv

\* Making a request leaves darcs and accepted requests alone.
LEMMA MakeStep ==
    ASSUME Inv, NEW base, NEW action, NEW msg, NEW s \in Seq(Keys),
           Make(InitAndSignRequest(base, action, msg, s))
    PROVE  Inv'
<1>1. MadeInv'
  BY MakeSigned DEF Inv
<1>2. chain' = chain /\ accepted' = accepted /\ made \subseteq made'
  BY DEF Make
<1>3. ChainInv'
  BY <1>2 DEF Inv, ChainInv
<1>4. AcceptedAsSigned'
  BY <1>2 DEF Inv, AcceptedAsSigned, MsgToDarc
<1> QED
  BY <1>1, <1>3, <1>4 DEF Inv

\* Accepting a request for use: it is one that was made.
LEMMA AcceptStep ==
    ASSUME Inv, NEW x \in made, accepted' = accepted \cup {x}, UNCHANGED <<chain, made>>
    PROVE  Inv'
<1>1. MadeInv'
  BY DEF Inv, MadeInv, InitAndSignRequest, Hash, Sign
<1>2. ChainInv'
  BY DEF Inv, ChainInv
<1>3. AcceptedAsSigned'
  <2>1. accepted' \subseteq made'
    BY DEF Inv, AcceptedAsSigned
  <2>2. chain' = chain /\ made' = made
    OBVIOUS
  <2>3. \A b \in Chains : \A i \in 2..Len(chain[b]) :
           \E r \in made : r.action = "_evolve" /\ chain[b][i] = MsgToDarc(r)
    BY DEF Inv, AcceptedAsSigned
  <2> QED
    BY <2>1, <2>2, <2>3 DEF AcceptedAsSigned
<1> QED
  BY <1>1, <1>2, <1>3 DEF Inv

\* Publishing the darc of a request that was made.
LEMMA EvolveStep ==
    ASSUME Inv, NEW x \in made, x.action = "_evolve",
           chain' = [chain EXCEPT ![x.base] = Append(@, MsgToDarc(x))],
           UNCHANGED <<made, accepted>>
    PROVE  Inv'
<1> DEFINE d == MsgToDarc(x)
<1>1. MadeInv'
  BY DEF Inv, MadeInv, InitAndSignRequest, Hash, Sign
<1>2. ASSUME NEW b \in Chains
      PROVE  /\ \E S : chain'[b] \in Seq(S)
             /\ \A i \in 2..Len(chain'[b]) :
                   \E r \in made : r.action = "_evolve" /\ chain'[b][i] = MsgToDarc(r)
  <2>1. PICK S : chain[b] \in Seq(S)
    BY DEF Inv, ChainInv
  <2>2. \A i \in 2..Len(chain[b]) :
           \E r \in made : r.action = "_evolve" /\ chain[b][i] = MsgToDarc(r)
    BY DEF Inv, AcceptedAsSigned
  <2>3. CASE b = x.base
    <3> HIDE DEF d
    <3>1. chain'[b] = Append(chain[b], d)
      BY <2>3 DEF Inv, ChainInv, d
    <3>2. chain[b] \in Seq(S \cup {d})
      BY <2>1
    <3>3. chain'[b] \in Seq(S \cup {d})
      BY <3>1, <3>2
    <3>4. ASSUME NEW i \in 2..Len(chain'[b])
          PROVE  \E r \in made : r.action = "_evolve" /\ chain'[b][i] = MsgToDarc(r)
      <4>1. CASE i <= Len(chain[b])
        BY <4>1, <2>2, <3>1, <3>2
      <4>2. CASE i > Len(chain[b])
        <5>1. chain'[b][i] = d
          BY <4>2, <3>1, <3>2
        <5> QED
          BY <5>1 DEF d
      <4> QED
        BY <4>1, <4>2, <3>1, <3>2
    <3> QED
      BY <3>3, <3>4
  <2>4. CASE b # x.base
    <3>1. chain'[b] = chain[b]
      BY <2>4 DEF Inv, ChainInv
    <3> QED
      BY <2>1, <2>2, <3>1
  <2> QED
    BY <2>3, <2>4
<1>3. chain' = [b \in Chains |-> chain'[b]]
  BY DEF Inv, ChainInv
<1>4. ChainInv'
  BY <1>2, <1>3 DEF ChainInv
<1>5. AcceptedAsSigned'
  BY <1>2 DEF Inv, AcceptedAsSigned, MsgToDarc
<1> QED
  BY <1>1, <1>4, <1>5 DEF Inv

\* Every step of clients and of the service keeps the invariant.
LEMMA InvStep == Inv /\ [Next]_vars => Inv'
<1> SUFFICES ASSUME Inv, [Next]_vars PROVE Inv'
  OBVIOUS
<1>1. ASSUME NEW b \in Chains, NEW rules, NEW s \in Signers, AskToEvolve(b, rules, s)
      PROVE  Inv'
  BY <1>1, MakeStep, DarcAssumption DEF AskToEvolve, MakeEvolveRequest
<1>2. ASSUME NEW b \in Chains, NEW s \in Signers, AskToUse(b, s)
      PROVE  Inv'
  BY <1>2, MakeStep, DarcAssumption DEF AskToUse
<1>3. ASSUME NEW r \in made, NEW ids \in UpTo2(Keys), NEW sigs \in UpTo2(Pool),
             Evolve(Delivered(r, ids, sigs))
      PROVE  Inv'
  <2> DEFINE x == [base |-> r.base, action |-> r.action, msg |-> r.msg, ids |-> ids, sigs |-> sigs]
  <2>1. Delivered(r, ids, sigs) = x
    BY DEF Delivered
  <2>2. Evolve(x)
    BY <1>3, <2>1
  <2>3. x \in made
    BY <2>2, UpTo2IsSeq, VerifiedIsMade DEF Evolve, Evolves, Inv
  <2> HIDE DEF x
  <2> QED
    BY <2>2, <2>3, EvolveStep DEF Evolve
<1>4. ASSUME NEW r \in made, NEW ids \in UpTo2(Keys), NEW sigs \in UpTo2(Pool),
             Use(Delivered(r, ids, sigs))
      PROVE  Inv'
  <2> DEFINE x == [base |-> r.base, action |-> r.action, msg |-> r.msg, ids |-> ids, sigs |-> sigs]
  <2>1. Delivered(r, ids, sigs) = x
    BY DEF Delivered
  <2>2. Use(x)
    BY <1>4, <2>1
  <2>3. x \in made
    BY <2>2, UpTo2IsSeq, VerifiedIsMade DEF Use, Inv
  <2> HIDE DEF x
  <2> QED
    BY <2>2, <2>3, AcceptStep DEF Use
<1>5. ASSUME NEW r \in made, NEW ids \in UpTo2(Keys), NEW sigs \in UpTo2(Pool),
             UseInstruction(Delivered(r, ids, sigs))
      PROVE  Inv'
  <2> DEFINE x    == [base |-> r.base, action |-> r.action, msg |-> r.msg, ids |-> ids, sigs |-> sigs]
             last == [i \in DOMAIN ids |-> ids[Len(ids)]]
             y    == [base |-> r.base, action |-> r.action, msg |-> r.msg, ids |-> last, sigs |-> sigs]
  <2>1. Delivered(r, ids, sigs) = x
    BY DEF Delivered
  <2>2. ToDarcRequest(x) = y
    BY DEF ToDarcRequest
  <2>3. UseInstruction(x)
    BY <1>5, <2>1
  <2>4. VerifyRequest(y, getDarc(x.base), NoDarcs) /\ accepted' = accepted \cup {y} /\ UNCHANGED <<chain, made>>
    BY <2>2, <2>3 DEF UseInstruction
  <2>5. last \in Seq(Keys) /\ sigs \in Seq(Pool)
    <3>1. ids \in Seq(Keys) /\ Len(ids) \in DOMAIN ids
      BY UpTo2IsSeq
    <3> QED
      BY <3>1, UpTo2IsSeq
  <2>6. y \in made
    <3> HIDE DEF last
    <3> QED
      BY <2>4, <2>5, VerifiedIsMade DEF Inv
  <2> HIDE DEF y
  <2> QED
    BY <2>4, <2>6, AcceptStep
<1>6. CASE UNCHANGED vars
  <2>1. MadeInv'
    BY <1>6 DEF vars, Inv, MadeInv, InitAndSignRequest, Hash, Sign
  <2>2. ChainInv'
    BY <1>6 DEF vars, Inv, ChainInv
  <2>3. AcceptedAsSigned'
    <3>1. chain' = chain /\ made' = made /\ accepted' = accepted
      BY <1>6 DEF vars
    <3>2. AcceptedAsSigned
      BY DEF Inv
    <3> QED
      BY <3>1, <3>2 DEF AcceptedAsSigned
  <2> QED
    BY <2>1, <2>2, <2>3 DEF Inv
<1> QED
  BY <1>1, <1>2, <1>3, <1>4, <1>5, <1>6 DEF Next

\* For any keys, darcs, rules and signers, and however identities and
\* signatures are mixed up on the way, Request.VerifyWithCB (and
\* verifyInstruction of the ledger) accepts requests only as they were made by
\* those who signed them.
THEOREM RequestsAcceptedAsSigned == Spec => []AcceptedAsSigned
<1>1. Inv => AcceptedAsSigned
  BY DEF Inv
<1> QED
  BY InitInv, InvStep, <1>1, PTL DEF Spec

-----------------------------------------------------------------------------
(* Evaluation *)

LEMMA SameEvaluate == \A e, V : Evaluate(e, V) = EP!Evaluate(e, V)
BY Zenon DEF Evaluate, EP!Evaluate, InitParser, EP!InitParser, parse, EP!parse, value, EP!value,
             sum, EP!sum, prodK, EP!prodK, Match, EP!Match, NoMatch, EP!NoMatch, Kinds, EP!Kinds,
             Token, EP!Token, Operators, EP!Operators, sumNode, EP!sumNode

\* More valid identities never turn a rule false; only those it names count.
LEMMA Monotone ==
    ASSUME NEW S, NEW e \in Seq(S), NEW V, NEW W, V \cap Range(e) \subseteq W, Evaluate(e, V) = "true"
    PROVE  Evaluate(e, W) = "true"
<1>1. EP!More(e, V, W)
  BY DEF EP!More, Range
<1>2. (Keys \cup Chains) \cap {"&", "|", "(", ")", ""} = {}
  BY DarcAssumption
<1>3. 0 \in Nat
  OBVIOUS
<1>4. EP!Evaluate(e, V) = "true" => EP!Evaluate(e, W) = "true"
  BY <1>1, <1>2, <1>3, EP!EvaluateMonotone
<1> QED BY <1>4, SameEvaluate

LEMMA ChainsCounted == Cardinality(Chains) \in Nat
BY DarcAssumption, FS_CardinalityType

\* D has every darc that it satisfies: what Satisfied quantifies over.
Closed(D, keys) ==
    \A b \in Chains : /\ "_sign" \in DOMAIN getDarc(b).rules
                      /\ Evaluate(getDarc(b).rules["_sign"], keys \cup D) = "true"
                      => b \in D

\* The newest versions have rules that are expressions.
RulesRead ==
    \A b \in Chains : \A a \in DOMAIN getDarc(b).rules : getDarc(b).rules[a] \in Seq(Tokens)

\* The darcs that hold are in every closed set, by induction on the
\* delegations followed.
LEMMA HoldingClosed ==
    ASSUME RulesRead, NEW ids, NEW keys, ids \subseteq keys, NEW D \in SUBSET Chains, Closed(D, keys)
    PROVE  Holding(ids) \subseteq D
<1>1. ASSUME NEW held \in SUBSET D PROVE HoldOne(held, ids) \in SUBSET D
  <2> SUFFICES ASSUME NEW b \in HoldOne(held, ids) PROVE b \in D
    OBVIOUS
  <2> DEFINE e == getDarc(b).rules["_sign"]
  <2>1. b \in Chains /\ Usable(b) /\ Evaluate(e, ids \cup held) = "true"
    BY DEF HoldOne
  <2>2. "_sign" \in DOMAIN getDarc(b).rules
    BY <2>1 DEF Usable
  <2>3. e \in Seq(Tokens)
    BY <2>1, <2>2 DEF RulesRead
  <2>4. (ids \cup held) \cap Range(e) \subseteq keys \cup D
    OBVIOUS
  <2> HIDE DEF e
  <2>5. Evaluate(e, keys \cup D) = "true"
    BY <2>1, <2>3, <2>4, Monotone
  <2> QED BY <2>1, <2>2, <2>5 DEF Closed, e
<1>2. HF!Iterate({}, ids, Cardinality(Chains)) \in SUBSET D
  <2>1. {} \in SUBSET D
    OBVIOUS
  <2> DEFINE I == SUBSET D
  <2>2. {} \in I /\ \A held \in I : HoldOne(held, ids) \in I
    BY <1>1
  <2> HIDE DEF I
  <2>3. HF!Iterate({}, ids, Cardinality(Chains)) \in I
    BY <2>2, ChainsCounted, HF!IterateIn
  <2> QED BY <2>3 DEF I
<1>3. Holding(ids) = HF!Iterate({}, ids, Cardinality(Chains))
  BY Zenon DEF Holding, HF!Iterate
<1> QED BY <1>2, <1>3

LEMMA EndlessChains == Endless \subseteq Chains
<1> DEFINE I == SUBSET Chains
<1>1. Chains \in I /\ \A deep \in I : DeepOne(deep, Chains) \in I
  BY DEF DeepOne
<1> HIDE DEF I
<1>2. DF!Iterate(Chains, Chains, Cardinality(Chains)) \in I
  BY <1>1, ChainsCounted, DF!IterateIn
<1>3. Endless = DF!Iterate(Chains, Chains, Cardinality(Chains))
  BY Zenon DEF Endless, DF!Iterate
<1> QED BY <1>2, <1>3 DEF I

LEMMA HoldingChains ==
    ASSUME NEW ids
    PROVE  Holding(ids) \subseteq Chains
<1> DEFINE I == SUBSET Chains
<1>1. {} \in I /\ \A held \in I : HoldOne(held, ids) \in I
  BY DEF HoldOne
<1> HIDE DEF I
<1>2. HF!Iterate({}, ids, Cardinality(Chains)) \in I
  BY <1>1, ChainsCounted, HF!IterateIn
<1>3. Holding(ids) = HF!Iterate({}, ids, Cardinality(Chains))
  BY Zenon DEF Holding, HF!Iterate
<1> QED BY <1>2, <1>3 DEF I

\* What evalExpr accepts, with the callback or without, the rules allow.
LEMMA AcceptedSatisfied ==
    ASSUME RulesRead, NEW S, NEW e \in Seq(S), NEW ids \in SUBSET Keys, NEW keys, ids \subseteq keys,
           evalExpr(e, Darcs, ids) \/ evalExpr(e, NoDarcs, ids)
    PROVE  Satisfied(e, keys)
<1> SUFFICES ASSUME NEW D \in SUBSET Chains, Closed(D, keys)
             PROVE  Evaluate(e, keys \cup D) = "true"
  BY DEF Satisfied, Closed
<1>1. CASE evalExpr(e, Darcs, ids)
  <2>1. Darcs.holds[ids] = Holding(ids)
    BY DEF Darcs
  <2>2. Evaluate(e, ids \cup Holding(ids)) = "true"
    BY <1>1, <2>1 DEF evalExpr
  <2>3. Holding(ids) \subseteq D
    BY HoldingClosed
  <2>4. (ids \cup Holding(ids)) \cap Range(e) \subseteq keys \cup D
    BY <2>3
  <2> QED BY <2>2, <2>4, Monotone
<1>2. CASE evalExpr(e, NoDarcs, ids)
  <2>1. NoDarcs.holds[ids] = {}
    BY DEF NoDarcs
  <2>2. Evaluate(e, ids \cup {}) = "true"
    BY <1>2, <2>1 DEF evalExpr
  <2>3. (ids \cup {}) \cap Range(e) \subseteq keys \cup D
    OBVIOUS
  <2> QED BY <2>2, <2>3, Monotone
<1> QED BY <1>1, <1>2

\* A rule that names no darc does not need the callback.
LEMMA KeysDecide ==
    ASSUME NEW S, NEW e \in Seq(S), Range(e) \cap Chains = {}, NEW ids \in SUBSET Keys,
           NEW D \in SUBSET Chains
    PROVE  /\ Evaluate(e, ids \cup D) = "true" => Evaluate(e, ids) = "true"
           /\ Evaluate(e, ids) = "true" <=> evalExpr(e, Darcs, ids)
<1>1. ASSUME NEW H \in SUBSET Chains, Evaluate(e, ids \cup H) = "true"
      PROVE  Evaluate(e, ids) = "true"
  <2>1. (ids \cup H) \cap Range(e) \subseteq ids
    OBVIOUS
  <2> QED BY <1>1, <2>1, Monotone
<1>2. ASSUME Evaluate(e, ids) = "true" PROVE Evaluate(e, ids \cup Holding(ids)) = "true"
  <2>1. ids \cap Range(e) \subseteq ids \cup Holding(ids)
    OBVIOUS
  <2> QED BY <1>2, <2>1, Monotone
<1>3. Darcs.holds[ids] = Holding(ids) /\ Darcs.endless = Endless
  BY DEF Darcs
<1>4. Range(e) \cap Endless = {}
  BY EndlessChains
<1>5. evalExpr(e, Darcs, ids) <=> Evaluate(e, ids \cup Holding(ids)) = "true"
  BY <1>3, <1>4 DEF evalExpr
<1>6. Evaluate(e, ids \cup Holding(ids)) = "true" => Evaluate(e, ids) = "true"
  BY <1>1, HoldingChains
<1> QED BY <1>1, <1>2, <1>5, <1>6

-----------------------------------------------------------------------------
(* Versions *)

IsDarc(d) ==
    d = [version |-> d.version, desc |-> d.desc, base |-> d.base, digest |-> d.digest,
         rules |-> d.rules, sigs |-> d.sigs]

\* The default actions are there and every rule is made of tokens.
IsRules(rules) == Default \subseteq DOMAIN rules /\ \A a \in DOMAIN rules : rules[a] \in Seq(Tokens)

\* What verifyOneEvolution sees of two versions when the rule names no darc.
SignedOff(d, prev) ==
    /\ d.sigs # <<>>
    /\ AllSigned(d)
    /\ Range(SignersOf(d)) \subseteq Keys
    /\ Range(prev.rules["_evolve"]) \cap Chains = {} =>
          Evaluate(prev.rules["_evolve"], Range(SignersOf(d))) = "true"

VersionOK(b, path, i) ==
    /\ IsDarc(path[i])
    /\ path[i].version = i - 1
    /\ GetBaseID(path[i]) = b
    /\ IsRules(path[i].rules)
    /\ path[i].digest = PathDigest(SubSeq(path, 1, i - 1))
    /\ i > 1 => SignedOff(path[i], path[i - 1])

\* Versions are numbered, and each was signed off under the one before it and
\* for the path that leads to it.
VersionInv ==
    \A b \in Chains : /\ Len(chain[b]) >= 1
                      /\ \A i \in 1..Len(chain[b]) : VersionOK(b, chain[b], i)

\* The darc in a request to evolve was made from the end of some path.
Evolution(r) ==
    /\ IsDarc(r.msg)
    /\ r.msg.sigs = <<>>
    /\ r.msg.version # 0
    /\ r.msg.version = r.msg.digest[Len(r.msg.digest)].version + 1
    /\ GetBaseID(r.msg) = r.base
    /\ IsRules(r.msg.rules)

EvolveInv ==
    \A r \in made : /\ r.base \in Chains
                    /\ r.ids # <<>>
                    /\ r.action = "_evolve" => Evolution(r)

\* Inv is needed to know whose signatures a version carries.
DarcInv == Inv /\ EvolveInv /\ VersionInv

LEMMA JoinedTokens ==
    ASSUME NEW ids \in Seq(Keys \cup Chains), NEW op \in Operators
    PROVE  Joined(ids, op) \in Seq(Tokens)
<1> DEFINE n == IF ids = <<>> THEN 0 ELSE 2 * Len(ids) - 1
<1>1. n \in Nat
  OBVIOUS
<1>2. ASSUME NEW i \in 1..n
      PROVE  (IF i % 2 = 1 THEN ids[(i + 1) \div 2] ELSE op) \in Tokens
  <2>1. (i + 1) \div 2 \in 1..Len(ids)
    OBVIOUS
  <2>2. ids[(i + 1) \div 2] \in Keys \cup Chains
    BY <2>1
  <2> QED BY <2>2 DEF Tokens
<1> HIDE DEF n
<1>3. [i \in 1..n |-> IF i % 2 = 1 THEN ids[(i + 1) \div 2] ELSE op] \in Seq(Tokens)
  BY <1>1, <1>2
<1> QED BY <1>3 DEF Joined, n

LEMMA PutRules ==
    ASSUME NEW rules, IsRules(rules), NEW a, NEW e \in Seq(Tokens)
    PROVE  IsRules(Put(rules, a, e))
BY DEF IsRules, Put

LEMMA EditedRules ==
    ASSUME NEW rules, IsRules(rules), NEW new \in Edited(rules)
    PROVE  IsRules(new)
<1>1. CASE new \in {Put(rules, a, e) : a \in Default \cup {"use"}, e \in Policies}
  <2>1. PICK a \in Default \cup {"use"}, e \in Policies : new = Put(rules, a, e)
    BY <1>1
  <2>2. e \in Seq(Tokens)
    BY DarcAssumption
  <2> QED BY <2>1, <2>2, PutRules
<1>2. CASE new \in {Restrict(rules, DOMAIN rules \ {a}) : a \in DOMAIN rules \ Default}
  <2>1. PICK a \in DOMAIN rules \ Default : new = Restrict(rules, DOMAIN rules \ {a})
    BY <1>2
  <2> QED BY <2>1 DEF Restrict, IsRules
<1> QED BY <1>1, <1>2 DEF Edited

LEMMA FirstRules ==
    ASSUME NEW b \in Chains, NEW o \in Groups[b], NEW s \in Groups[b]
    PROVE  IsRules(Put(InitRules(o, s), "use", InitRules(o, s)["_sign"]))
<1>1. o \in Seq(Keys \cup Chains) /\ s \in Seq(Keys \cup Chains)
  <2>1. Groups[b] \subseteq Seq((Keys \cup Chains) \ {b})
    BY DarcAssumption
  <2> QED BY <2>1
<1>2. InitAndExpr(o) \in Seq(Tokens) /\ InitOrExpr(s) \in Seq(Tokens)
  BY <1>1, JoinedTokens DEF InitAndExpr, InitOrExpr, Operators
<1> DEFINE rules == InitRules(o, s)
<1>3. DOMAIN rules = Default /\ rules["_evolve"] = InitAndExpr(o) /\ rules["_sign"] = InitOrExpr(s)
  BY DEF InitRules, Default
<1>4. IsRules(rules)
  BY <1>2, <1>3 DEF IsRules, Default
<1>5. rules["_sign"] \in Seq(Tokens)
  BY <1>2, <1>3
<1> HIDE DEF rules
<1>6. IsRules(Put(rules, "use", rules["_sign"]))
  BY <1>4, <1>5, PutRules
<1> QED BY <1>6 DEF rules

LEMMA InitVersions == Init => VersionInv /\ EvolveInv
<1> SUFFICES ASSUME Init PROVE VersionInv /\ EvolveInv
  OBVIOUS
<1>1. EvolveInv
  BY DEF Init, EvolveInv
<1>2. ASSUME NEW b \in Chains
      PROVE  Len(chain[b]) >= 1 /\ \A i \in 1..Len(chain[b]) : VersionOK(b, chain[b], i)
  <2>1. PICK o \in Groups[b], s \in Groups[b] : chain[b] = FirstVersion(b, o, s)
    BY DEF Init
  <2> DEFINE rules == Put(InitRules(o, s), "use", InitRules(o, s)["_sign"])
             d     == NewDarc(b, rules)
  <2>2. chain[b] = <<d>>
    BY <2>1 DEF FirstVersion
  <2>3. IsRules(rules)
    BY FirstRules
  <2> HIDE DEF rules
  <2>4. d.version = 0 /\ d.rules = rules /\ d.digest = <<>> /\ GetBaseID(d) = b /\ IsDarc(d)
    BY DEF NewDarc, GetBaseID, IsDarc
  <2> HIDE DEF d
  <2>5. Len(chain[b]) = 1 /\ chain[b][1] = d
    BY <2>2
  <2>6. PathDigest(SubSeq(chain[b], 1, 1 - 1)) = <<>>
    <3>1. SubSeq(chain[b], 1, 1 - 1) = <<>>
      BY <2>2
    <3>2. PathDigest(<<>>) = <<>>
      BY DEF PathDigest
    <3> QED BY <3>1, <3>2
  <2>7. VersionOK(b, chain[b], 1)
    BY <2>3, <2>4, <2>5, <2>6 DEF VersionOK
  <2> QED BY <2>5, <2>7
<1> QED BY <1>1, <1>2 DEF VersionInv

\* What a client makes to evolve a darc.
LEMMA AskedEvolution ==
    ASSUME DarcInv, NEW b \in Chains, NEW rules \in Edited(getDarc(b).rules), NEW s
    PROVE  LET d == EvolveFrom([getDarc(b) EXCEPT !.rules = rules, !.sigs = <<>>], chain[b])
               r == MakeEvolveRequest(d, s)
           IN  r = InitAndSignRequest(b, "_evolve", GetID(d), s) /\ Evolution(r)
<1> DEFINE path == chain[b]
           prev == getDarc(b)
           d0 == [prev EXCEPT !.rules = rules, !.sigs = <<>>]
           d == EvolveFrom(d0, path)
           r == MakeEvolveRequest(d, s)
           i == Len(path)
<1>1. i \in 1..Len(path) /\ VersionOK(b, path, i)
  BY DEF DarcInv, VersionInv, Inv, ChainInv
<1>2. prev = path[i]
  BY DEF getDarc, Newest
<1>3. IsDarc(prev) /\ prev.version = i - 1 /\ GetBaseID(prev) = b /\ IsRules(prev.rules)
  BY <1>1, <1>2 DEF VersionOK
<1>4. IsRules(rules)
  BY <1>3, EditedRules
<1> HIDE DEF prev
<1>5. d0 = [version |-> prev.version, desc |-> prev.desc, base |-> prev.base, digest |-> prev.digest,
            rules |-> rules, sigs |-> <<>>]
  <2> DEFINE d1 == [prev EXCEPT !.rules = rules]
  <2>1. IsDarc(prev)
    BY <1>3
  <2>2. d1 = [version |-> prev.version, desc |-> prev.desc, base |-> prev.base, digest |-> prev.digest,
              rules |-> rules, sigs |-> prev.sigs]
    BY <2>1 DEF IsDarc
  <2>3. d0 = [d1 EXCEPT !.sigs = <<>>]
    BY Zenon
  <2> HIDE DEF d1, d0
  <2> QED BY <2>2, <2>3
<1> HIDE DEF d0
<1> DEFINE v == prev.version + 1
           g == PathDigest(path)
<1>6. v = i /\ v # 0
  BY <1>1, <1>3
<1>7. Newest(path) = prev
  BY <1>2 DEF Newest
<1>8. d = [d0 EXCEPT !.version = v, !.base = b, !.digest = g]
  BY <1>2, <1>3 DEF EvolveFrom
<1> HIDE DEF v, g, d
<1>9. d = [version |-> v, desc |-> prev.desc, base |-> b, digest |-> g, rules |-> rules, sigs |-> <<>>]
  BY <1>5, <1>8
<1>10. GetID(d) = d /\ IsDarc(d) /\ GetBaseID(d) = b
  BY <1>6, <1>9 DEF GetID, IsDarc, GetBaseID
<1>11. r = InitAndSignRequest(b, "_evolve", GetID(d), s)
  BY <1>10 DEF MakeEvolveRequest
<1> HIDE DEF r
<1>12. r.base = b /\ r.msg = d /\ r.action = "_evolve"
  BY <1>10, <1>11 DEF InitAndSignRequest
<1>13. Len(g) = i /\ g[i] = GetID(prev)
  <2>1. DOMAIN path = 1..i /\ i \in Nat
    BY <1>1 DEF DarcInv, Inv, ChainInv
  <2>2. g = [j \in 1..i |-> GetID(path[j])]
    BY <2>1 DEF g, PathDigest
  <2> HIDE DEF i
  <2> QED BY <1>1, <1>2, <2>1, <2>2
<1>14. GetID(prev).version = prev.version
  BY <1>3 DEF GetID, IsDarc
<1>15. d.version = d.digest[Len(d.digest)].version + 1
  BY <1>9, <1>13, <1>14 DEF v
<1>16. d.sigs = <<>> /\ d.version # 0 /\ IsRules(d.rules)
  BY <1>4, <1>6, <1>9
<1>17. Evolution(r)
  BY <1>10, <1>12, <1>15, <1>16 DEF Evolution
<1> QED BY <1>11, <1>17 DEF r, d, d0, prev

\* The darc of a request: its content with the signatures of the request.
LEMMA MsgDarc ==
    ASSUME NEW x, IsDarc(x.msg), x.msg.sigs = <<>>, x.ids \in Seq(Keys), x.ids # <<>>
    PROVE  /\ IsDarc(MsgToDarc(x))
           /\ MsgToDarc(x).version = x.msg.version
           /\ MsgToDarc(x).digest = x.msg.digest
           /\ MsgToDarc(x).rules = x.msg.rules
           /\ GetBaseID(MsgToDarc(x)) = GetBaseID(x.msg)
           /\ GetID(MsgToDarc(x)) = x.msg
           /\ MsgToDarc(x).sigs = [i \in DOMAIN x.ids |-> [signer |-> x.ids[i], sig |-> x.sigs[i]]]
           /\ MsgToDarc(x).sigs # <<>>
           /\ SignersOf(MsgToDarc(x)) = x.ids
<1> DEFINE m == x.msg
           sg == [i \in DOMAIN x.ids |-> [signer |-> x.ids[i], sig |-> x.sigs[i]]]
           d == MsgToDarc(x)
<1>1. d = [m EXCEPT !.sigs = sg]
  BY DEF MsgToDarc
<1>2. sg # <<>> /\ DOMAIN sg = DOMAIN x.ids /\ \A i \in DOMAIN x.ids : sg[i].signer = x.ids[i]
  OBVIOUS
<1>3. m = [version |-> m.version, desc |-> m.desc, base |-> m.base, digest |-> m.digest,
           rules |-> m.rules, sigs |-> m.sigs] /\ m.sigs = <<>>
  BY Zenon DEF IsDarc
<1> HIDE DEF m, sg, d
<1>4. d = [version |-> m.version, desc |-> m.desc, base |-> m.base, digest |-> m.digest,
           rules |-> m.rules, sigs |-> sg]
  BY <1>1, <1>3
<1>5. IsDarc(d) /\ d.version = m.version /\ d.digest = m.digest /\ d.rules = m.rules /\ d.sigs = sg
  BY <1>4 DEF IsDarc
<1>6. GetBaseID(d) = GetBaseID(m)
  BY <1>4 DEF GetBaseID
<1>7. GetID(d) = m
  BY <1>3, <1>4 DEF GetID
<1>8. SignersOf(d) = x.ids
  <2>1. SignersOf(d) = [i \in DOMAIN x.ids |-> x.ids[i]]
    BY <1>2, <1>5 DEF SignersOf
  <2> QED BY <2>1
<1> QED BY <1>2, <1>5, <1>6, <1>7, <1>8 DEF m, sg, d

\* The newest version.
LEMMA NewestOK ==
    ASSUME DarcInv, NEW b \in Chains
    PROVE  /\ chain[b] # <<>> /\ Len(chain[b]) \in Nat /\ Len(chain[b]) \in 1..Len(chain[b])
           /\ Newest(chain[b]) = chain[b][Len(chain[b])]
           /\ getDarc(b) = Newest(chain[b])
           /\ VersionOK(b, chain[b], Len(chain[b]))
<1>1. Len(chain[b]) \in Nat /\ Len(chain[b]) >= 1
  BY DEF DarcInv, VersionInv, Inv, ChainInv
<1>2. VersionOK(b, chain[b], Len(chain[b]))
  BY <1>1 DEF DarcInv, VersionInv
<1> QED BY <1>1, <1>2 DEF getDarc, Newest

LEMMA NewestRules == DarcInv => RulesRead
<1> SUFFICES ASSUME DarcInv, NEW b \in Chains, NEW a \in DOMAIN getDarc(b).rules
             PROVE  getDarc(b).rules[a] \in Seq(Tokens)
  BY DEF RulesRead
<1>1. VersionOK(b, chain[b], Len(chain[b])) /\ getDarc(b) = chain[b][Len(chain[b])]
  BY NewestOK
<1> QED BY <1>1 DEF VersionOK, IsRules

\* What an accepted evolution appends.
LEMMA AcceptedVersion ==
    ASSUME DarcInv, NEW x \in made, x.action = "_evolve", Evolves(x)
    PROVE  VersionOK(x.base, Append(chain[x.base], MsgToDarc(x)), Len(chain[x.base]) + 1)
<1> DEFINE b == x.base
           path == chain[b]
           d == MsgToDarc(x)
           prev == Newest(path)
           n == Len(path)
           new == Append(path, d)
           e == prev.rules["_evolve"]
<1>1. b \in Chains /\ x.ids # <<>> /\ Evolution(x) /\ x.ids \in Seq(Keys)
  BY DEF DarcInv, EvolveInv, Inv, MadeInv
<1>2. IsDarc(x.msg) /\ x.msg.sigs = <<>> /\ x.msg.version # 0 /\ GetBaseID(x.msg) = b /\ IsRules(x.msg.rules)
  BY <1>1 DEF Evolution
<1>3. /\ IsDarc(d) /\ d.version = x.msg.version /\ d.digest = x.msg.digest /\ d.rules = x.msg.rules
      /\ GetBaseID(d) = b /\ d.sigs # <<>> /\ SignersOf(d) = x.ids
  BY <1>1, <1>2, MsgDarc
<1>4. path # <<>> /\ n \in Nat /\ prev = path[n] /\ VersionOK(b, path, n)
  BY <1>1, NewestOK
<1>5. PICK S : path \in Seq(S)
  BY <1>1 DEF DarcInv, Inv, ChainInv
<1>6. d.digest = PathDigest(path) /\ VerifyWithCB(d, path)
  BY DEF Evolves
<1> HIDE DEF d, b
<1>7. verifyOneEvolution(d, prev, Darcs)
  <2>1. findPath(d, path) = path
    BY <1>4 DEF findPath
  <2>2. VerifyAlong(d, path, Darcs)
    BY <1>6, <2>1 DEF VerifyWithCB
  <2> QED BY <1>2, <1>3, <2>2 DEF VerifyAlong
<1>8. prev.version = n - 1 /\ IsRules(prev.rules)
  BY <1>4 DEF VersionOK
<1>9. d.version = n /\ AllSigned(d) /\ evalExpr(e, Darcs, Range(x.ids))
  <2> HIDE DEF e, n, prev, path, new
  <2>1. d.version = prev.version + 1 /\ AllSigned(d)
    BY <1>7, Zenon DEF verifyOneEvolution
  <2>2. evalExpr(prev.rules["_evolve"], Darcs, Range(SignersOf(d)))
    BY <1>7, Zenon DEF verifyOneEvolution
  <2>3. d.version = n
    BY <1>4, <1>8, <2>1
  <2> QED BY <1>3, <2>1, <2>2, <2>3, Zenon DEF e
<1>10. Range(x.ids) \in SUBSET Keys
  BY <1>1 DEF Range
<1>11. e \in Seq(Tokens)
  BY <1>8 DEF IsRules, Default
<1>12. Range(e) \cap Chains = {} => Evaluate(e, Range(x.ids)) = "true"
  <2> HIDE DEF e
  <2> QED BY <1>9, <1>10, <1>11, KeysDecide
<1>13. SignedOff(d, prev)
  BY <1>3, <1>9, <1>10, <1>12 DEF SignedOff
<1>14. new[n + 1] = d /\ new[n] = prev /\ SubSeq(new, 1, n) = path
  BY <1>4, <1>5
<1> HIDE DEF new, path, prev
<1>15. (n + 1) - 1 = n /\ n + 1 > 1
  BY <1>4 DEF path
<1> HIDE DEF n
<1>16. VersionOK(b, new, n + 1)
  BY <1>2, <1>3, <1>6, <1>9, <1>13, <1>14, <1>15 DEF VersionOK
<1> QED BY <1>16 DEF new, n, path, b, d

\* The versions that are there stay as they are.
LEMMA AppendKeeps ==
    ASSUME NEW S, NEW path \in Seq(S), NEW d, NEW b, NEW i \in 1..Len(path), VersionOK(b, path, i)
    PROVE  VersionOK(b, Append(path, d), i)
<1> DEFINE new == Append(path, d)
<1>1. new[i] = path[i] /\ SubSeq(new, 1, i - 1) = SubSeq(path, 1, i - 1) /\ (i > 1 => new[i - 1] = path[i - 1])
  OBVIOUS
<1> HIDE DEF new
<1>2. VersionOK(b, new, i)
  BY <1>1 DEF VersionOK
<1> QED BY <1>2 DEF new

LEMMA DarcMake ==
    ASSUME DarcInv, NEW b \in Chains, NEW action, NEW msg, NEW s \in Signers,
           Make(InitAndSignRequest(b, action, msg, s)),
           action = "_evolve" => Evolution(InitAndSignRequest(b, action, msg, s))
    PROVE  EvolveInv' /\ VersionInv'
<1> DEFINE r == InitAndSignRequest(b, action, msg, s)
<1>1. made' = made \cup {r} /\ chain' = chain
  BY DEF Make
<1>2. r.base = b /\ r.ids = s /\ r.action = action /\ s # <<>>
  BY DarcAssumption DEF InitAndSignRequest
<1>3. action = "_evolve" => Evolution(r)
  OBVIOUS
<1> HIDE DEF r
<1>4. ASSUME NEW q \in made' PROVE q.base \in Chains /\ q.ids # <<>> /\ (q.action = "_evolve" => Evolution(q))
  <2>1. CASE q \in made
    BY <2>1 DEF DarcInv, EvolveInv
  <2>2. CASE q = r
    BY <1>2, <1>3, <2>2
  <2> QED BY <1>1, <1>4, <2>1, <2>2
<1>5. EvolveInv'
  <2>1. ASSUME NEW q PROVE Evolution(q)' <=> Evolution(q)
    BY DEF Evolution, IsDarc, IsRules, GetBaseID
  <2> QED BY <1>4, <2>1 DEF EvolveInv
<1>6. VersionInv'
  BY <1>1 DEF DarcInv, VersionInv
<1> QED BY <1>5, <1>6

LEMMA DarcEvolve ==
    ASSUME DarcInv, NEW x \in made, x.action = "_evolve", Evolves(x),
           chain' = [chain EXCEPT ![x.base] = Append(@, MsgToDarc(x))], made' = made
    PROVE  EvolveInv' /\ VersionInv'
<1> DEFINE d == MsgToDarc(x)
           b == x.base
           n == Len(chain[b])
<1>1. EvolveInv'
  BY DEF DarcInv, EvolveInv
<1>2. b \in Chains /\ chain = [c \in Chains |-> chain[c]]
  BY DEF DarcInv, EvolveInv, Inv, ChainInv
<1>3. VersionOK(b, Append(chain[b], d), n + 1)
  BY AcceptedVersion
<1>4. chain'[b] = Append(chain[b], d) /\ \A c \in Chains : c # b => chain'[c] = chain[c]
  BY <1>2
<1> HIDE DEF d, b
<1>5. ASSUME NEW c \in Chains
      PROVE  Len(chain'[c]) >= 1 /\ \A i \in 1..Len(chain'[c]) : VersionOK(c, chain'[c], i)
  <2>1. Len(chain[c]) >= 1 /\ \A i \in 1..Len(chain[c]) : VersionOK(c, chain[c], i)
    BY DEF DarcInv, VersionInv
  <2>2. CASE c # b
    BY <1>4, <2>1, <2>2
  <2>3. CASE c = b
    <3>1. PICK S : chain[b] \in Seq(S)
      BY <1>2 DEF DarcInv, Inv, ChainInv
    <3>2. Len(chain'[b]) = n + 1 /\ n \in Nat
      <4>1. chain[b] \in Seq(S \cup {d})
        BY <3>1
      <4> QED BY <1>4, <4>1
    <3>3. ASSUME NEW i \in 1..Len(chain'[b]) PROVE VersionOK(b, chain'[b], i)
      <4>1. CASE i = n + 1
        BY <1>3, <1>4, <4>1
      <4>2. CASE i # n + 1
        <5>1. i \in 1..n
          BY <3>2, <4>2
        <5>2. VersionOK(b, chain[b], i)
          BY <2>1, <2>3, <5>1
        <5>3. VersionOK(b, Append(chain[b], d), i)
          BY <3>1, <5>1, <5>2, AppendKeeps
        <5> QED BY <1>4, <5>3
      <4> QED BY <4>1, <4>2
    <3> QED BY <2>3, <3>2, <3>3
  <2> QED BY <2>2, <2>3
<1>6. VersionInv'
  BY <1>5 DEF VersionInv
<1> QED BY <1>1, <1>6

\* A delivered request that verifies is one that was made.
LEMMA DeliveredIsMade ==
    ASSUME DarcInv, NEW r \in made, NEW ids \in UpTo2(Keys), NEW sigs \in UpTo2(Pool), NEW d, NEW cb,
           VerifyRequest(Delivered(r, ids, sigs), d, cb)
    PROVE  Delivered(r, ids, sigs) \in made
<1>1. ids \in Seq(Keys) /\ sigs \in Seq(Pool)
  BY UpTo2IsSeq
<1> DEFINE x == [base |-> r.base, action |-> r.action, msg |-> r.msg, ids |-> ids, sigs |-> sigs]
<1>2. Delivered(r, ids, sigs) = x
  BY DEF Delivered
<1>3. VerifyRequest(x, d, cb)
  BY <1>2
<1>4. x \in made
  BY <1>1, <1>3, VerifiedIsMade DEF DarcInv, Inv
<1> QED BY <1>2, <1>4

LEMMA DarcStep == DarcInv /\ [Next]_vars => DarcInv'
<1> SUFFICES ASSUME DarcInv, [Next]_vars PROVE DarcInv'
  OBVIOUS
<1>0. Inv'
  BY InvStep DEF DarcInv
<1>1. ASSUME NEW b \in Chains, NEW rules \in Edited(getDarc(b).rules), NEW s \in Signers,
             AskToEvolve(b, rules, s)
      PROVE  EvolveInv' /\ VersionInv'
  <2> DEFINE d == EvolveFrom([getDarc(b) EXCEPT !.rules = rules, !.sigs = <<>>], chain[b])
             r == InitAndSignRequest(b, "_evolve", GetID(d), s)
  <2>1. Make(MakeEvolveRequest(d, s))
    BY <1>1 DEF AskToEvolve
  <2>2. MakeEvolveRequest(d, s) = r /\ Evolution(MakeEvolveRequest(d, s))
    BY AskedEvolution
  <2>3. Make(r) /\ Evolution(r)
    BY <2>1, <2>2
  <2> HIDE DEF d
  <2> QED BY <2>3, DarcMake
<1>2. ASSUME NEW b \in Chains, NEW s \in Signers, AskToUse(b, s)
      PROVE  EvolveInv' /\ VersionInv'
  <2>1. Make(InitAndSignRequest(b, "use", "m", s))
    BY <1>2 DEF AskToUse
  <2>2. "use" # "_evolve"
    OBVIOUS
  <2> QED BY <2>1, <2>2, DarcMake
<1>3. ASSUME NEW r \in made, NEW ids \in UpTo2(Keys), NEW sigs \in UpTo2(Pool),
             Evolve(Delivered(r, ids, sigs))
      PROVE  EvolveInv' /\ VersionInv'
  <2> DEFINE x == Delivered(r, ids, sigs)
  <2>1. /\ x.action = "_evolve" /\ Evolves(x) /\ made' = made
        /\ chain' = [chain EXCEPT ![x.base] = Append(@, MsgToDarc(x))]
    BY <1>3 DEF Evolve
  <2>2. x \in made
    BY <2>1, DeliveredIsMade DEF Evolves
  <2> HIDE DEF x
  <2> QED BY <2>1, <2>2, DarcEvolve
<1>4. ASSUME chain' = chain, made' = made PROVE EvolveInv' /\ VersionInv'
  BY <1>4 DEF DarcInv, EvolveInv, VersionInv
<1>5. ASSUME NEW r, Use(r) PROVE EvolveInv' /\ VersionInv'
  BY <1>4, <1>5 DEF Use
<1>6. ASSUME NEW r, UseInstruction(r) PROVE EvolveInv' /\ VersionInv'
  BY <1>4, <1>6 DEF UseInstruction
<1>7. ASSUME UNCHANGED vars PROVE EvolveInv' /\ VersionInv'
  BY <1>4, <1>7 DEF vars
<1>8. EvolveInv' /\ VersionInv'
  BY <1>1, <1>2, <1>3, <1>4, <1>5, <1>6, <1>7 DEF Next
<1> QED BY <1>0, <1>8 DEF DarcInv

LEMMA DarcInvariant == Spec => []DarcInv
<1>1. Init => DarcInv
  BY InitInv, InitVersions DEF DarcInv
<1> QED BY <1>1, DarcStep, PTL DEF Spec

-----------------------------------------------------------------------------
(* Authorisation *)

\* What Request.VerifyWithCB or Verify accepts, the rules allow to the keys
\* that signed this content.
LEMMA AcceptedRequest ==
    ASSUME DarcInv, NEW x \in made, NEW cb, cb = Darcs \/ cb = NoDarcs,
           VerifyRequest(x, getDarc(x.base), cb)
    PROVE  /\ x.base \in Chains
           /\ x.action \in DOMAIN getDarc(x.base).rules
           /\ Satisfied(getDarc(x.base).rules[x.action], SignedFor(x.base, x.action, x.msg))
<1> DEFINE rules == getDarc(x.base).rules
           e == rules[x.action]
           ids == Range(x.ids)
           keys == SignedFor(x.base, x.action, x.msg)
<1>1. x.base \in Chains /\ x.ids \in Seq(Keys)
  BY DEF DarcInv, EvolveInv, Inv, MadeInv
<1>2. x.action \in DOMAIN rules /\ evalExpr(e, cb, ids)
  BY DEF VerifyRequest
<1>3. RulesRead
  BY NewestRules
<1>4. e \in Seq(Tokens)
  BY <1>1, <1>2, <1>3 DEF RulesRead
<1>5. ids \in SUBSET Keys
  BY <1>1 DEF Range
<1>6. ids \subseteq keys
  BY <1>5 DEF SignedFor
<1>7. evalExpr(e, Darcs, ids) \/ evalExpr(e, NoDarcs, ids)
  BY <1>2
<1> HIDE DEF e, ids, keys
<1>8. Satisfied(e, keys)
  BY <1>3, <1>4, <1>5, <1>6, <1>7, AcceptedSatisfied
<1> QED BY <1>1, <1>2, <1>8 DEF e, keys

\* What a step may publish and accept.
Authorised ==
    /\ \A b \in Chains : chain'[b] # chain[b] =>
          Satisfied(getDarc(b).rules["_evolve"], SignedFor(b, "_evolve", GetID(Newest(chain'[b]))))
    /\ \A r \in accepted' \ accepted :
          /\ "use" \in DOMAIN getDarc(r.base).rules
          /\ Satisfied(getDarc(r.base).rules["use"], SignedFor(r.base, "use", r.msg))

LEMMA AuthorisedStep == DarcInv /\ [Next]_vars => [Authorised]_vars
<1> SUFFICES ASSUME DarcInv, Next PROVE Authorised
  BY Zenon
<1>1. ASSUME chain' = chain, accepted' = accepted PROVE Authorised
  BY <1>1 DEF Authorised
<1>2. ASSUME NEW r, Make(r) PROVE Authorised
  BY <1>1, <1>2 DEF Make
<1>3. ASSUME NEW r \in made, NEW ids \in UpTo2(Keys), NEW sigs \in UpTo2(Pool),
             Evolve(Delivered(r, ids, sigs))
      PROVE  Authorised
  <2> DEFINE x == Delivered(r, ids, sigs)
             d == MsgToDarc(x)
  <2>1. /\ x.action = "_evolve" /\ Evolves(x) /\ accepted' = accepted
        /\ chain' = [chain EXCEPT ![x.base] = Append(@, d)]
    BY <1>3 DEF Evolve
  <2>2. VerifyRequest(x, getDarc(x.base), Darcs)
    BY <2>1 DEF Evolves
  <2>3. x \in made
    BY <2>2, DeliveredIsMade
  <2> HIDE DEF x
  <2>4. Satisfied(getDarc(x.base).rules["_evolve"], SignedFor(x.base, "_evolve", x.msg)) /\ x.base \in Chains
    BY <2>1, <2>2, <2>3, AcceptedRequest
  <2>5. GetID(d) = x.msg
    <3>1. x.ids \in Seq(Keys) /\ x.ids # <<>> /\ Evolution(x)
      BY <2>1, <2>3 DEF DarcInv, EvolveInv, Inv, MadeInv
    <3>2. IsDarc(x.msg) /\ x.msg.sigs = <<>>
      BY <3>1 DEF Evolution
    <3> QED BY <3>1, <3>2, MsgDarc
  <2>6. chain = [c \in Chains |-> chain[c]]
    BY DEF DarcInv, Inv, ChainInv
  <2> HIDE DEF d
  <2>7. ASSUME NEW b \in Chains, chain'[b] # chain[b]
        PROVE  b = x.base /\ GetID(Newest(chain'[b])) = x.msg
    <3>1. b = x.base
      BY <2>1, <2>6, <2>7
    <3>2. chain'[b] = Append(chain[b], d)
      BY <2>1, <2>6, <3>1
    <3>3. PICK S : chain[b] \in Seq(S)
      BY DEF DarcInv, Inv, ChainInv
    <3>4. Newest(chain'[b]) = d
      <4>1. chain[b] \in Seq(S \cup {d})
        BY <3>3
      <4> QED BY <3>2, <4>1 DEF Newest
    <3> QED BY <2>5, <3>1, <3>4
  <2> QED BY <2>1, <2>4, <2>7 DEF Authorised
<1>4. ASSUME NEW x \in made, x.action = "use", NEW cb, cb = Darcs \/ cb = NoDarcs,
             VerifyRequest(x, getDarc(x.base), cb), accepted' = accepted \cup {x}, chain' = chain
      PROVE  Authorised
  <2>1. /\ "use" \in DOMAIN getDarc(x.base).rules
        /\ Satisfied(getDarc(x.base).rules["use"], SignedFor(x.base, "use", x.msg))
    BY <1>4, AcceptedRequest
  <2> QED BY <1>4, <2>1 DEF Authorised
<1>5. ASSUME NEW r \in made, NEW ids \in UpTo2(Keys), NEW sigs \in UpTo2(Pool),
             Use(Delivered(r, ids, sigs))
      PROVE  Authorised
  <2> DEFINE x == Delivered(r, ids, sigs)
  <2>1. /\ x.action = "use" /\ VerifyRequest(x, getDarc(x.base), Darcs)
        /\ accepted' = accepted \cup {x} /\ chain' = chain
    BY <1>5 DEF Use
  <2>2. x \in made
    BY <2>1, DeliveredIsMade
  <2> HIDE DEF x
  <2> QED BY <1>4, <2>1, <2>2
<1>6. ASSUME NEW r \in made, NEW ids \in UpTo2(Keys), NEW sigs \in UpTo2(Pool),
             UseInstruction(Delivered(r, ids, sigs))
      PROVE  Authorised
  <2> DEFINE x    == [base |-> r.base, action |-> r.action, msg |-> r.msg, ids |-> ids, sigs |-> sigs]
             last == [i \in DOMAIN ids |-> ids[Len(ids)]]
             y    == [base |-> r.base, action |-> r.action, msg |-> r.msg, ids |-> last, sigs |-> sigs]
  <2>1. Delivered(r, ids, sigs) = x
    BY DEF Delivered
  <2>2. ToDarcRequest(x) = y
    BY DEF ToDarcRequest
  <2>3. UseInstruction(x)
    BY <1>6, <2>1
  <2>4. /\ VerifyRequest(y, getDarc(x.base), NoDarcs) /\ accepted' = accepted \cup {y}
        /\ chain' = chain /\ x.action = "use"
    BY <2>2, <2>3 DEF UseInstruction
  <2>5. last \in Seq(Keys) /\ sigs \in Seq(Pool)
    <3>1. ids \in Seq(Keys) /\ Len(ids) \in DOMAIN ids
      BY UpTo2IsSeq
    <3> QED BY <3>1, UpTo2IsSeq
  <2>6. y \in made
    <3> HIDE DEF last
    <3> QED BY <2>4, <2>5, VerifiedIsMade DEF DarcInv, Inv
  <2>7. y.action = "use" /\ y.base = x.base
    BY <2>4
  <2> HIDE DEF y, x
  <2> QED BY <1>4, <2>4, <2>6, <2>7
<1> QED BY <1>2, <1>3, <1>5, <1>6 DEF Next, AskToEvolve, AskToUse

\* OnlyAuthorised: for any keys, darcs, policies and delegations, and however
\* requests are delayed, repeated and mixed up, an evolution is published and
\* a use accepted only when keys that signed it satisfy the newest rules.
THEOREM AuthorisedTheorem == Spec => OnlyAuthorised
<1>1. [Authorised]_vars => [/\ \A b \in Chains : chain'[b] # chain[b] =>
                                  Satisfied(getDarc(b).rules["_evolve"],
                                            SignedFor(b, "_evolve", GetID(Newest(chain'[b]))))
                            /\ \A r \in accepted' \ accepted :
                                  /\ "use" \in DOMAIN getDarc(r.base).rules
                                  /\ Satisfied(getDarc(r.base).rules["use"],
                                               SignedFor(r.base, "use", r.msg))]_vars
  BY DEF Authorised
<1> QED BY <1>1, DarcInvariant, AuthorisedStep, PTL DEF Spec, OnlyAuthorised

-----------------------------------------------------------------------------
(* Verification of published versions *)

\* Where the versions of b are, and that they are numbered.
LEMMA VersionAt ==
    ASSUME DarcInv, NEW b \in Chains, NEW i \in 1..Len(chain[b])
    PROVE  /\ VersionOK(b, chain[b], i)
           /\ Len(chain[b]) \in Nat
           /\ \E S : chain[b] \in Seq(S)
BY DEF DarcInv, VersionInv, Inv, ChainInv

LEMMA KeptEvolution ==
    ASSUME DarcInv, NEW b \in Chains, ByKeys(b), NEW i \in 2..Len(chain[b])
    PROVE  verifyOneEvolution(chain[b][i], chain[b][i - 1], Darcs)
<1> DEFINE d == chain[b][i]
           prev == chain[b][i - 1]
           e == prev.rules["_evolve"]
           ids == Range(SignersOf(d))
<1>1. Len(chain[b]) \in Nat
  BY DEF DarcInv, Inv, ChainInv
<1>2. i \in 1..Len(chain[b]) /\ i - 1 \in 1..Len(chain[b]) /\ i > 1
  BY <1>1
<1>3. VersionOK(b, chain[b], i) /\ VersionOK(b, chain[b], i - 1)
  BY <1>2, VersionAt
<1>4. GetBaseID(d) = GetBaseID(prev) /\ d.version = prev.version + 1 /\ IsRules(prev.rules) /\ SignedOff(d, prev)
  BY <1>2, <1>3 DEF VersionOK
<1>5. e \in Seq(Tokens) /\ Range(e) \cap Chains = {}
  BY <1>2, <1>4 DEF IsRules, Default, ByKeys
<1>6. AllSigned(d) /\ ids \in SUBSET Keys /\ Evaluate(e, ids) = "true"
  BY <1>4, <1>5 DEF SignedOff
<1>7. evalExpr(e, Darcs, ids)
  <2> HIDE DEF e, ids
  <2> QED BY <1>5, <1>6, KeysDecide
<1> QED BY <1>4, <1>6, <1>7 DEF verifyOneEvolution

\* A version that is not the first verifies along the path that leads to it.
LEMMA KeptVersion ==
    ASSUME DarcInv, NEW b \in Chains, ByKeys(b), NEW i \in 1..Len(chain[b])
    PROVE  VerifyWithCB(chain[b][i], SubSeq(chain[b], 1, i - 1))
<1> DEFINE path == SubSeq(chain[b], 1, i - 1)
           d == chain[b][i]
<1>1. VersionOK(b, chain[b], i) /\ Len(chain[b]) \in Nat
  BY VersionAt
<1>2. d.version = i - 1 /\ (i > 1 => d.sigs # <<>>)
  BY <1>1 DEF VersionOK, SignedOff
<1>3. CASE i = 1
  BY <1>2, <1>3 DEF VerifyWithCB, VerifyAlong
<1>4. CASE i > 1
  <2>1. PICK S : chain[b] \in Seq(S)
    BY VersionAt
  <2>2. /\ path # <<>> /\ Len(path) = i - 1
        /\ \A j \in 1..i - 1 : path[j] = chain[b][j]
    BY <1>1, <1>4, <2>1
  <2> HIDE DEF path
  <2>3. ASSUME NEW j \in 2..Len(path) PROVE verifyOneEvolution(path[j], path[j - 1], Darcs)
    <3>1. j \in 2..Len(chain[b]) /\ j \in 1..i - 1 /\ j - 1 \in 1..i - 1
      BY <1>1, <2>2
    <3>2. verifyOneEvolution(chain[b][j], chain[b][j - 1], Darcs)
      BY <3>1, KeptEvolution
    <3> QED BY <2>2, <3>1, <3>2
  <2>4. verifyOneEvolution(d, Newest(path), Darcs)
    <3>1. i \in 2..Len(chain[b]) /\ i - 1 \in 1..i - 1
      BY <1>1, <1>4
    <3>2. Newest(path) = chain[b][i - 1]
      BY <2>2, <3>1 DEF Newest
    <3>3. verifyOneEvolution(chain[b][i], chain[b][i - 1], Darcs)
      BY <3>1, KeptEvolution
    <3> QED BY <3>2, <3>3
  <2>5. findPath(d, path) = path
    BY <2>2 DEF findPath
  <2>6. VerifyAlong(d, path, Darcs)
    BY <1>2, <1>4, <2>2, <2>3, <2>4 DEF VerifyAlong
  <2>7. VerifyWithCB(d, path)
    BY <2>5, <2>6 DEF VerifyWithCB
  <2> QED BY <2>7 DEF path
<1> QED BY <1>3, <1>4

\* KeptVersionsVerify: however often a darc evolved and whoever lost the right
\* to evolve it, VerifyWithCB goes on to accept each published version.
THEOREM KeptVersionsTheorem == Spec => []KeptVersionsVerify
<1>1. DarcInv => KeptVersionsVerify
  BY KeptVersion DEF KeptVersionsVerify
<1> QED BY <1>1, DarcInvariant, PTL

\* findPath of a published version stops right in front of it.
LEMMA FoundPath ==
    ASSUME DarcInv, NEW b \in Chains, NEW i \in 1..Len(chain[b]), i > 1
    PROVE  findPath(chain[b][i], <<>>) = SubSeq(chain[b], 1, i - 1)
<1> DEFINE path == chain[b]
           n == Len(path)
           d == path[i]
           latest == Older(path)
           k == CHOOSE m \in 0..Len(latest) : BreaksAt(d, latest, m)
<1>1. VersionOK(b, path, i) /\ n \in Nat
  BY VersionAt
<1>2. PICK S : path \in Seq(S)
  BY VersionAt
<1>3. d.version = i - 1 /\ GetBaseID(d) = b /\ d.digest = PathDigest(SubSeq(path, 1, i - 1))
  BY <1>1 DEF VersionOK
<1>4. Len(latest) = n - 1 /\ (\A j \in 1..n - 1 : latest[j] = path[j]) /\ latest \in Seq(S)
  BY <1>1, <1>2 DEF Older
<1>5. \A j \in 1..n : path[j].version = j - 1
  BY VersionAt DEF VersionOK
<1>6. \A j \in 1..n - 1 : latest[j].version = j - 1
  BY <1>1, <1>4, <1>5
<1> HIDE DEF latest, d
<1>7. BreaksAt(d, latest, i - 1) /\ i - 1 \in 0..Len(latest)
  BY <1>1, <1>3, <1>4, <1>6 DEF BreaksAt
<1>8. ASSUME NEW m \in 0..Len(latest), BreaksAt(d, latest, m) PROVE m = i - 1
  <2>1. CASE m > i - 1
    <3>1. i \in 1..m /\ i \in 1..n - 1
      BY <1>1, <1>4, <2>1
    <3>2. d.version > latest[i].version
      BY <1>8, <3>1 DEF BreaksAt
    <3> QED BY <1>3, <1>6, <3>1, <3>2
  <2>2. CASE m < i - 1
    <3>1. m < Len(latest) /\ m + 1 \in 1..n - 1
      BY <1>1, <1>4, <2>2
    <3>2. ~(d.version > latest[m + 1].version)
      BY <1>8, <3>1 DEF BreaksAt
    <3>3. latest[m + 1].version = m
      BY <1>6, <3>1
    <3> QED BY <1>3, <2>2, <3>2, <3>3
  <2> QED BY <1>1, <2>1, <2>2
<1>9. k = i - 1
  BY <1>7, <1>8
<1> HIDE DEF k
<1>10. SubSeq(latest, 1, i - 1) = SubSeq(path, 1, i - 1)
  BY <1>1, <1>2, <1>4 DEF latest, Older
<1>11. findPath(d, <<>>) = IF PathDigest(SubSeq(latest, 1, k)) = d.digest THEN SubSeq(latest, 1, k) ELSE <<>>
  BY <1>3 DEF findPath, latest, k
<1>12. findPath(d, <<>>) = SubSeq(path, 1, i - 1)
  BY <1>3, <1>9, <1>10, <1>11
<1> QED BY <1>12 DEF d

\* LightVerifies: findPath restores, from the newest version, the very path a
\* version was signed with, so nothing is lost in sending it without.
THEOREM LightTheorem == Spec => []LightVerifies
<1>1. DarcInv => LightVerifies
  <2> SUFFICES ASSUME DarcInv, NEW b \in Chains, NEW i \in 1..Len(chain[b])
               PROVE  VerifyWithCB(chain[b][i], <<>>) = VerifyWithCB(chain[b][i], SubSeq(chain[b], 1, i - 1))
    BY DEF LightVerifies
  <2>1. PICK S : chain[b] \in Seq(S)
    BY VersionAt
  <2>2. CASE i = 1
    <3>1. SubSeq(chain[b], 1, i - 1) = <<>>
      BY <2>1, <2>2
    <3> QED BY <3>1
  <2>3. CASE i > 1
    <3> DEFINE path == SubSeq(chain[b], 1, i - 1)
    <3>1. path # <<>>
      BY <2>1, <2>3
    <3>2. findPath(chain[b][i], <<>>) = path
      BY <2>3, FoundPath
    <3> HIDE DEF path
    <3>3. findPath(chain[b][i], path) = path
      BY <3>1 DEF findPath
    <3>4. VerifyWithCB(chain[b][i], <<>>) = VerifyWithCB(chain[b][i], path)
      BY <3>2, <3>3 DEF VerifyWithCB
    <3> QED BY <3>4 DEF path
  <2> QED BY <2>2, <2>3
<1> QED BY <1>1, DarcInvariant, PTL

\* HonestEvolves: a request made from the versions that are still there is
\* never refused to keys that satisfy the rule.
THEOREM HonestTheorem == Spec => []HonestEvolves
<1>1. DarcInv => HonestEvolves
  <2> SUFFICES ASSUME DarcInv, NEW x \in made, x.action = "_evolve",
                      x.msg.digest = PathDigest(chain[x.base]), ByKeys(x.base),
                      Satisfied(getDarc(x.base).rules["_evolve"], Range(x.ids))
               PROVE  Evolves(x)
    BY DEF HonestEvolves
  <2> DEFINE b == x.base
             path == chain[b]
             n == Len(path)
             prev == Newest(path)
             d == MsgToDarc(x)
             e == prev.rules["_evolve"]
             ids == Range(x.ids)
             h == Hash(b, "_evolve", x.msg, x.ids)
  <2>1. /\ b \in Chains /\ x.ids # <<>> /\ Evolution(x) /\ x.ids \in Seq(Keys)
        /\ x = InitAndSignRequest(b, "_evolve", x.msg, x.ids)
    BY DEF DarcInv, EvolveInv, Inv, MadeInv
  <2>2. /\ IsDarc(x.msg) /\ x.msg.sigs = <<>> /\ GetBaseID(x.msg) = b
        /\ x.msg.version = x.msg.digest[Len(x.msg.digest)].version + 1
    BY <2>1 DEF Evolution
  <2>3. /\ d.digest = x.msg.digest /\ d.version = x.msg.version /\ GetBaseID(d) = b /\ GetID(d) = x.msg
        /\ d.sigs = [i \in DOMAIN x.ids |-> [signer |-> x.ids[i], sig |-> x.sigs[i]]]
        /\ d.sigs # <<>> /\ SignersOf(d) = x.ids
    BY <2>1, <2>2, MsgDarc
  <2>4. /\ path # <<>> /\ n \in Nat /\ n \in 1..n /\ prev = path[n] /\ getDarc(b) = prev
        /\ VersionOK(b, path, n)
    BY <2>1, NewestOK
  <2>5. prev.version = n - 1 /\ GetBaseID(prev) = b /\ IsRules(prev.rules) /\ IsDarc(prev)
    BY <2>4 DEF VersionOK
  <2>6. x.sigs = [i \in DOMAIN x.ids |-> Sign(x.ids[i], h)]
    BY <2>1 DEF InitAndSignRequest
  <2>7. /\ x.sigs # <<>> /\ Len(x.sigs) = Len(x.ids)
        /\ \A i \in DOMAIN x.ids : SignedBy(x.ids[i], h, x.sigs[i])
    <3> HIDE DEF h
    <3> QED BY <2>1, <2>6 DEF SignedBy
  <2>8. e \in Seq(Tokens) /\ Range(e) \cap Chains = {} /\ "_evolve" \in DOMAIN prev.rules
    BY <2>4, <2>5 DEF IsRules, Default, ByKeys
  <2>9. ids \in SUBSET Keys
    BY <2>1 DEF Range
  <2>10. Satisfied(e, ids)
    BY <2>4
  <2> HIDE DEF e, ids
  <2>11. Evaluate(e, ids \cup Chains) = "true"
    BY <2>10 DEF Satisfied
  <2>12. Evaluate(e, ids) = "true" /\ evalExpr(e, Darcs, ids)
    BY <2>8, <2>9, <2>11, KeysDecide
  <2>13. VerifyRequest(x, getDarc(b), Darcs)
    <3>1. evalExpr(prev.rules[x.action], Darcs, Range(x.ids))
      BY <2>12 DEF e, ids
    <3>2. x.action \in DOMAIN prev.rules
      BY <2>8
    <3>3. \A i \in DOMAIN x.ids : SignedBy(x.ids[i], Hash(x.base, x.action, x.msg, x.ids), x.sigs[i])
      BY <2>7
    <3> QED BY <2>4, <2>5, <2>7, <3>1, <3>2, <3>3 DEF VerifyRequest
  <2>14. d.version = prev.version + 1
    <3> DEFINE g == PathDigest(path)
    <3>1. DOMAIN path = 1..n
      BY <2>1 DEF DarcInv, Inv, ChainInv
    <3>2. g = [j \in 1..n |-> GetID(path[j])]
      BY <3>1 DEF PathDigest
    <3>3. Len(g) = n /\ g[n] = GetID(prev)
      <4> HIDE DEF g, n
      <4> QED BY <2>4, <3>2
    <3>4. GetID(prev).version = prev.version
      BY <2>5 DEF GetID, IsDarc
    <3> HIDE DEF g
    <3>5. x.msg.digest = g
      BY DEF g
    <3> QED BY <2>2, <2>3, <3>3, <3>4, <3>5
  <2>15. AllSigned(d)
    <3> HIDE DEF d
    <3>1. ASSUME NEW i \in DOMAIN d.sigs
          PROVE  SignedBy(d.sigs[i].signer, Hash(GetBaseID(d), "_evolve", GetID(d), SignersOf(d)), d.sigs[i].sig)
      <4>1. i \in DOMAIN x.ids /\ d.sigs[i].signer = x.ids[i] /\ d.sigs[i].sig = x.sigs[i]
        BY <2>3
      <4>2. Hash(GetBaseID(d), "_evolve", GetID(d), SignersOf(d)) = h
        BY <2>3
      <4> QED BY <2>7, <4>1, <4>2
    <3> QED BY <3>1 DEF AllSigned
  <2>16. verifyOneEvolution(d, prev, Darcs)
    <3>1. evalExpr(prev.rules["_evolve"], Darcs, Range(SignersOf(d)))
      BY <2>3, <2>12 DEF e, ids
    <3>2. GetBaseID(d) = GetBaseID(prev)
      BY <2>3, <2>5
    <3> HIDE DEF d, prev
    <3> QED BY <2>14, <2>15, <3>1, <3>2 DEF verifyOneEvolution
  <2>17. \A j \in 2..n : verifyOneEvolution(path[j], path[j - 1], Darcs)
    BY <2>1, KeptEvolution
  <2>18. VerifyAlong(d, path, Darcs)
    <3> HIDE DEF d
    <3> QED BY <2>3, <2>4, <2>16, <2>17 DEF VerifyAlong
  <2>19. findPath(d, path) = path
    BY <2>4 DEF findPath
  <2>20. VerifyWithCB(d, path)
    BY <2>18, <2>19 DEF VerifyWithCB
  <2>21. d.digest = PathDigest(path)
    BY <2>3
  <2> HIDE DEF d
  <2> QED BY <2>13, <2>20, <2>21 DEF Evolves, d
<1> QED BY <1>1, DarcInvariant, PTL

=============================================================================
