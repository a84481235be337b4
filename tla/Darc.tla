--------------------------------- MODULE Darc ---------------------------------
(***************************************************************************)
(* Access control by darcs (omniledger/darc): rules that say which         *)
(* identities may act, chains of versions in which each version is signed  *)
(* off under the rules of the one before it, delegation from a darc to     *)
(* another, and the requests that are verified against the newest version. *)
(*                                                                         *)
(* A digest is what it digests, so equal digests mean equal content, and a *)
(* signature is the key with the digest it signs.  The ID of version 0 is  *)
(* the name of its chain.  Clients make requests from the chains as they   *)
(* are at that moment; requests are delivered late, repeatedly, in any     *)
(* order, and with their identities and signatures mixed up.               *)
(***************************************************************************)
EXTENDS Naturals, Sequences, FiniteSets, Functions

CONSTANTS
    Keys,         \* ed25519 identities
    Chains,       \* darc identities: a chain stands for the ID of its base
    Policies,     \* the expressions clients put into rules
    Groups,       \* Groups[b]: the owners and signers the first version of b
                  \* may have; darcs that delegate to each other have to
                  \* evolve to it, as an ID is a digest
    Signers,      \* the keys that sign a request together
    MaxRequests,  \* bound: the requests made
    MaxVersion    \* bound: the newest version of a chain

INSTANCE Expression WITH Ids <- Keys \cup Chains

\* An identity is written with its type and is no operator; nothing is signed
\* by nobody.
ASSUME DarcAssumption ==
    /\ Keys \cap Chains = {}
    /\ (Keys \cup Chains) \cap {"&", "|", "(", ")", ""} = {}
    /\ IsFiniteSet(Chains)
    /\ Policies \subseteq Seq(Tokens)
    /\ \A b \in Chains : Groups[b] \subseteq Seq((Keys \cup Chains) \ {b})
    /\ Signers \subseteq Seq(Keys) \ {<<>>}
    /\ MaxRequests \in Nat
    /\ MaxVersion \in Nat

VARIABLES
    chain,     \* the published versions of each darc, oldest first
    made,      \* the requests clients made and signed
    accepted   \* history: the requests for "use" that were accepted

vars == <<chain, made, accepted>>

-----------------------------------------------------------------------------
(* Rules *)

Default == {"_evolve", "_sign"}

InitRules(owners, signers) ==
    [a \in Default |-> IF a = "_evolve" THEN InitAndExpr(owners) ELSE InitOrExpr(signers)]

\* AddRule for an action that has none, updateRule for one that has.
Put(rules, a, e) == [x \in DOMAIN rules \cup {a} |-> IF x = a THEN e ELSE rules[x]]

\* What AddRule, UpdateRule, UpdateEvolution, UpdateSign and DeleteRules make
\* of the rules; the default actions cannot be deleted.
Edited(rules) ==
    {Put(rules, a, e) : a \in Default \cup {"use"}, e \in Policies} \cup
    {Restrict(rules, DOMAIN rules \ {a}) : a \in DOMAIN rules \ Default}

-----------------------------------------------------------------------------
(* Darcs *)

NewDarc(b, rules) ==
    [version |-> 0, desc |-> b, base |-> {}, digest |-> <<>>, rules |-> rules, sigs |-> <<>>]

\* GetID digests everything but the signatures and the path.
GetID(d) == [d EXCEPT !.sigs = <<>>]

GetBaseID(d) == IF d.version = 0 THEN d.desc ELSE d.base

\* hashAll(darcsMsg(path))
PathDigest(path) == [i \in DOMAIN path |-> GetID(path[i])]

EvolveFrom(d, path) ==
    LET prev == path[Len(path)]
    IN  [d EXCEPT !.version = prev.version + 1,
                  !.base = GetBaseID(prev),
                  !.digest = PathDigest(path)]

Newest(path) == path[Len(path)]

\* The path of the newest darc.
Older(path) == SubSeq(path, 1, Len(path) - 1)

\* The callback: the newest version of the chain that has the ID.
getDarc(b) == Newest(chain[b])

-----------------------------------------------------------------------------
(* Requests *)

\* Mutant of Hash: the digest leaves out the identities.
HashWithoutIdentities(base, action, msg, ids) ==
    [base |-> base, action |-> action, msg |-> msg, ids |-> <<>>]

\* innerRequest.Hash, and DarcHash with the ID of a darc as msg.
Hash(base, action, msg, ids) == [base |-> base, action |-> action, msg |-> msg, ids |-> ids]

Sign(k, digest) == [key |-> k, digest |-> digest]

\* Mutant of SignedBy: what was signed is not looked at.
SignedSomething(k, digest, sig) == k \in Keys /\ sig.key = k

\* Identity.Verify: a darc identity cannot sign.
SignedBy(k, digest, sig) == k \in Keys /\ sig = Sign(k, digest)

\* InitAndSignRequest, and SignBy for an instruction.
InitAndSignRequest(base, action, msg, signers) ==
    [base |-> base, action |-> action, msg |-> msg, ids |-> signers,
     sigs |-> [i \in DOMAIN signers |-> Sign(signers[i], Hash(base, action, msg, signers))]]

MakeEvolveRequest(d, signers) ==
    InitAndSignRequest(GetBaseID(d), "_evolve", GetID(d), signers)

\* ToDarcRequest takes the address of the loop variable: every identity is
\* the last one.
ToDarcRequest(r) == [r EXCEPT !.ids = [i \in DOMAIN r.ids |-> r.ids[Len(r.ids)]]]

-----------------------------------------------------------------------------
(* Evaluation and verification.  "cb" is what the callback leads to: the   *)
(* darcs that hold for a set of keys, and those evalExpr never returns     *)
(* from.                                                                   *)

\* The callback of Verify, which finds no darc.
NoDarcs == [holds |-> [ids \in SUBSET Keys |-> {}], endless |-> {}]

\* evalExpr returned nil.
evalExpr(expr, cb, ids) ==
    /\ Range(expr) \cap cb.endless = {}
    /\ Evaluate(expr, ids \cup cb.holds[ids]) = "true"

SignersOf(d) == [i \in DOMAIN d.sigs |-> d.sigs[i].signer]

\* Mutant of AllSigned: the digest names the one signer only.
AllSignedAlone(d) ==
    \A i \in DOMAIN d.sigs :
        SignedBy(d.sigs[i].signer, Hash(GetBaseID(d), "_evolve", GetID(d), <<d.sigs[i].signer>>),
                 d.sigs[i].sig)

\* Every signer signed the darc, for its base and with the other signers.
AllSigned(d) ==
    \A i \in DOMAIN d.sigs :
        SignedBy(d.sigs[i].signer, Hash(GetBaseID(d), "_evolve", GetID(d), SignersOf(d)),
                 d.sigs[i].sig)

\* Mutant of verifyOneEvolution: the rule is that of the newest version.
verifyByNewest(newDarc, prevDarc, cb) ==
    /\ GetBaseID(newDarc) = GetBaseID(prevDarc)
    /\ newDarc.version = prevDarc.version + 1
    /\ evalExpr(getDarc(GetBaseID(prevDarc)).rules["_evolve"], cb, Range(SignersOf(newDarc)))
    /\ AllSigned(newDarc)

\* The signers satisfy the evolve rule of the previous version.
verifyOneEvolution(newDarc, prevDarc, cb) ==
    /\ GetBaseID(newDarc) = GetBaseID(prevDarc)
    /\ newDarc.version = prevDarc.version + 1
    /\ evalExpr(prevDarc.rules["_evolve"], cb, Range(SignersOf(newDarc)))
    /\ AllSigned(newDarc)

\* Mutant of BreaksAt: the version itself is taken into its path.
BreaksLate(d, path, n) ==
    /\ \A i \in 1..n : d.version >= path[i].version
    /\ n < Len(path) => ~(d.version >= path[n + 1].version)

\* Where the loop of findPath breaks: n versions of the path are older than d.
BreaksAt(d, path, n) ==
    /\ \A i \in 1..n : d.version > path[i].version
    /\ n < Len(path) => ~(d.version > path[n + 1].version)

\* The path of d; for a darc without one, the older versions on the path of
\* the newest, if they have the digest that d was signed with.
findPath(d, path) ==
    IF path # <<>> THEN path
    ELSE LET latest == Older(chain[GetBaseID(d)])
             found  == SubSeq(latest, 1, CHOOSE n \in 0..Len(latest) : BreaksAt(d, latest, n))
         IN  IF PathDigest(found) = d.digest THEN found ELSE <<>>

\* Darc.VerifyWithCB once the path is there.
VerifyAlong(d, path, cb) ==
    \/ d.version = 0
    \/ /\ d.sigs # <<>>
       /\ path # <<>>
       /\ \A i \in 2..Len(path) : verifyOneEvolution(path[i], path[i - 1], cb)
       /\ verifyOneEvolution(d, Newest(path), cb)

\* A darc that evalExpr goes on to: it verifies, without a callback, and has
\* a sign rule.
Usable(b) ==
    /\ VerifyAlong(getDarc(b), Older(chain[b]), NoDarcs)
    /\ "_sign" \in DOMAIN getDarc(b).rules

\* The darcs whose sign rule is satisfied, when those in held are.
HoldOne(held, ids) ==
    {b \in Chains : /\ Usable(b)
                    /\ Evaluate(getDarc(b).rules["_sign"], ids \cup held) = "true"}

\* The darcs whose sign rule the keys satisfy, following n delegations.
Holding(ids) ==
    LET holds[n \in 0..Cardinality(Chains)] ==
            IF n = 0 THEN {} ELSE HoldOne(holds[n - 1], ids)
    IN  holds[Cardinality(Chains)]

\* The darcs that delegate to one in deep.
DeepOne(deep, darcs) ==
    {b \in darcs : Usable(b) /\ Range(getDarc(b).rules["_sign"]) \cap deep # {}}

\* The darcs from which n delegations can be followed in a row.  Every
\* operand is evaluated, so with as many delegations as there are darcs the
\* recursion has met a cycle and has no end.
Endless ==
    LET deep[n \in 0..Cardinality(Chains)] ==
            IF n = 0 THEN Chains ELSE DeepOne(deep[n - 1], Chains)
    IN  deep[Cardinality(Chains)]

Darcs == [holds |-> [ids \in SUBSET Keys |-> Holding(ids)], endless |-> Endless]

VerifyWithCB(d, path) == VerifyAlong(d, findPath(d, path), Darcs)

\* Request.VerifyWithCB and, with NoDarcs, Request.Verify.
VerifyRequest(r, d, cb) ==
    /\ r.sigs # <<>>
    /\ Len(r.sigs) = Len(r.ids)
    /\ GetBaseID(d) = r.base
    /\ r.action \in DOMAIN d.rules
    /\ \A i \in DOMAIN r.ids :
          SignedBy(r.ids[i], Hash(r.base, r.action, r.msg, r.ids), r.sigs[i])
    /\ evalExpr(d.rules[r.action], cb, Range(r.ids))

\* The darc of a request, with the signatures of the request.  Only a darc
\* with the ID in the request is accepted for it.
MsgToDarc(r) ==
    [r.msg EXCEPT !.sigs = [i \in DOMAIN r.ids |-> [signer |-> r.ids[i], sig |-> r.sigs[i]]]]

-----------------------------------------------------------------------------
(* Clients and the service that keeps the darcs *)

\* DefaultGenesisMsg: an application's rule starts as the sign rule.
FirstVersion(b, owners, signers) ==
    LET rules == InitRules(owners, signers)
    IN  <<NewDarc(b, Put(rules, "use", rules["_sign"]))>>

Init ==
    /\ chain \in [Chains -> UNION {{FirstVersion(b, o, s) : o, s \in Groups[b]} : b \in Chains}]
    /\ \A b \in Chains : chain[b] \in {FirstVersion(b, o, s) : o, s \in Groups[b]}
    /\ made = {}
    /\ accepted = {}

Make(r) ==
    /\ Cardinality(made) < MaxRequests
    /\ made' = made \cup {r}
    /\ UNCHANGED <<chain, accepted>>

\* A client edits a copy of the newest version and has the keys sign it.
AskToEvolve(b, rules, signers) ==
    /\ getDarc(b).version < MaxVersion
    /\ Make(MakeEvolveRequest(EvolveFrom([getDarc(b) EXCEPT !.rules = rules, !.sigs = <<>>], chain[b]),
                              signers))

AskToUse(b, signers) == Make(InitAndSignRequest(b, "use", "m", signers))

\* What may be delivered: the content of a request that was made, under any
\* one or two identities and signatures that were made.
UpTo2(S) == {<<x>> : x \in S} \cup (S \X S)

Pool == UNION {Range(r.sigs) : r \in made}

Delivered(r, ids, sigs) ==
    [base |-> r.base, action |-> r.action, msg |-> r.msg, ids |-> ids, sigs |-> sigs]

\* Whether an evolution is accepted: the request by the newest version, then
\* the darc in it along the path that is there now.
Evolves(r) ==
    LET path == chain[r.base]
        d    == MsgToDarc(r)
    IN  /\ VerifyRequest(r, getDarc(r.base), Darcs)
        /\ d.digest = PathDigest(path)
        /\ VerifyWithCB(d, path)

Evolve(r) ==
    /\ r.action = "_evolve"
    /\ Evolves(r)
    /\ chain' = [chain EXCEPT ![r.base] = Append(@, MsgToDarc(r))]
    /\ UNCHANGED <<made, accepted>>

Use(r) ==
    /\ r.action = "use"
    /\ VerifyRequest(r, getDarc(r.base), Darcs)
    /\ accepted' = accepted \cup {r}
    /\ UNCHANGED <<chain, made>>

\* verifyInstruction: an instruction of the ledger, verified without callback.
UseInstruction(r) ==
    /\ r.action = "use"
    /\ VerifyRequest(ToDarcRequest(r), getDarc(r.base), NoDarcs)
    /\ accepted' = accepted \cup {ToDarcRequest(r)}
    /\ UNCHANGED <<chain, made>>

Next ==
    \/ \E b \in Chains : \E rules \in Edited(getDarc(b).rules), s \in Signers : AskToEvolve(b, rules, s)
    \/ \E b \in Chains, s \in Signers : AskToUse(b, s)
    \/ \E r \in made, ids \in UpTo2(Keys), sigs \in UpTo2(Pool) : Evolve(Delivered(r, ids, sigs))
    \/ \E r \in made, ids \in UpTo2(Keys), sigs \in UpTo2(Pool) : Use(Delivered(r, ids, sigs))
    \/ \E r \in made, ids \in UpTo2(Keys), sigs \in UpTo2(Pool) : UseInstruction(Delivered(r, ids, sigs))

Spec == Init /\ [][Next]_vars

-----------------------------------------------------------------------------
(* Properties *)

\* The keys that signed a request of this content.
SignedFor(base, action, msg) ==
    {k \in Keys : \E r \in made : /\ r.base = base /\ r.action = action /\ r.msg = msg
                                  /\ k \in Range(r.ids)}

\* What the rules say of a set of keys: an expression is satisfied if it is
\* true in every set of darcs that contains each darc whose sign rule is
\* true in it.
Satisfied(expr, keys) ==
    \A D \in SUBSET Chains :
        (\A b \in Chains : /\ "_sign" \in DOMAIN getDarc(b).rules
                           /\ Evaluate(getDarc(b).rules["_sign"], keys \cup D) = "true"
                           => b \in D)
        => Evaluate(expr, keys \cup D) = "true"

\* An evolution, and the use of a darc, is accepted only when keys that
\* signed exactly this content satisfy the rule of the newest version at
\* that moment, through the newest versions of the darcs it delegates to:
\* keys revoked in the meantime count for nothing.
OnlyAuthorised ==
    [][/\ \A b \in Chains : chain'[b] # chain[b] =>
            Satisfied(getDarc(b).rules["_evolve"],
                      SignedFor(b, "_evolve", GetID(Newest(chain'[b]))))
       /\ \A r \in accepted' \ accepted :
            /\ "use" \in DOMAIN getDarc(r.base).rules
            /\ Satisfied(getDarc(r.base).rules["use"], SignedFor(r.base, "use", r.msg))]_vars

\* Whatever becomes of identities and signatures on the way, what is accepted
\* is a request as its signers made it: none was left out or joined later.
AcceptedAsSigned ==
    /\ accepted \subseteq made
    /\ \A b \in Chains : \A i \in 2..Len(chain[b]) :
          \E r \in made : r.action = "_evolve" /\ chain[b][i] = MsgToDarc(r)

\* A published version verifies without its path as it does with it,
\* however many versions came after.
LightVerifies ==
    \A b \in Chains : \A i \in 1..Len(chain[b]) :
        VerifyWithCB(chain[b][i], <<>>) = VerifyWithCB(chain[b][i], SubSeq(chain[b], 1, i - 1))

\* The rules that decided over the versions of b name no darc.
ByKeys(b) ==
    \A i \in 1..Len(chain[b]) : Range(chain[b][i].rules["_evolve"]) \cap Chains = {}

\* A published version of a darc that is evolved by keys verifies for good,
\* even after later versions revoked the keys that signed it.
KeptVersionsVerify ==
    \A b \in Chains : ByKeys(b) =>
        \A i \in 1..Len(chain[b]) : VerifyWithCB(chain[b][i], SubSeq(chain[b], 1, i - 1))

\* An evolution made from the versions that are still there, by keys that
\* satisfy the rule, is accepted.
HonestEvolves ==
    \A r \in made :
        /\ r.action = "_evolve"
        /\ r.msg.digest = PathDigest(chain[r.base])
        /\ ByKeys(r.base)
        /\ Satisfied(getDarc(r.base).rules["_evolve"], Range(r.ids))
        => Evolves(r)

=============================================================================
