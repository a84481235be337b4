----------------------------- MODULE StateChanges -----------------------------
(***************************************************************************)
(* How a leader turns a batch of client transactions into the content of a *)
(* block (omniledger/service: createStateChanges with sortTransactions,    *)
(* GetContractState, the contracts and storeInColl).  Every transaction    *)
(* runs on a clone of the collection that replaces it when all of its      *)
(* instructions succeed and is dropped otherwise.                          *)
(*                                                                         *)
(* A collection is the map it stores (Collection shows that it is one).    *)
(* Hash and SaltedHash stand for sha256; arguments are reduced to whether  *)
(* the contract accepts them.                                              *)
(***************************************************************************)
EXTENDS Naturals, Sequences, FiniteSets, SequencesExt

CONSTANTS
    Objects,           \* object IDs
    Reference,         \* GenesisReferenceID
    ConfigID,          \* ConfigID[o]: the darc of o with OneNonce
    Absent,            \* no entry in a collection
    Failed,            \* an error
    Transactions,      \* client transactions: sequences of instructions
    Bases,             \* the collections a batch may start from
    Bits,              \* the bits of a hash
    Hash(_),           \* the hash of a transaction
    SaltedHash(_, _),  \* the place of a transaction in the salted order
    MaxBatch           \* bound: the transactions of a batch

Instructions ==
    [action : {"spawn", "invoke", "delete"}, object : Objects, contract : STRING, valid : BOOLEAN]

\* What a collection holds for an object.
Values == [value : Nat, contract : {"config", "darc", "add"}]
Collections == [Objects -> Values \cup {Absent}]

Changes ==
    [action : {"create", "update", "remove"}, object : Objects,
     contract : {"config", "darc", "add"}, value : Nat]

Hashes == [Bits -> {0, 1}]

\* Absent and Failed are none of these, and sha256 has no collisions.
ASSUME BatchAssumption ==
    /\ Reference \in Objects
    /\ ConfigID \in [Objects -> Objects]
    /\ MaxBatch \in Nat
    /\ Transactions \subseteq Seq(Instructions)
    /\ Bases \subseteq Collections
    /\ Absent \notin Values
    /\ Failed \notin Collections \cup Seq(Changes)
    /\ \A t \in Transactions : Hash(t) \in Hashes
    /\ \A salt \in Hashes, t, u \in Transactions :
          /\ SaltedHash(salt, t) \in Nat
          /\ SaltedHash(salt, t) = SaltedHash(salt, u) => t = u

VARIABLES
    coll,     \* the collection of the ledger
    cts,      \* the sorted batch
    at,       \* where createStateChanges is
    current,  \* the transaction it works on
    instr,    \* and the instruction of it
    scs,      \* the changes the contract answered with
    left,     \* those of them that are not stored yet
    cdbI,     \* the clone the transaction runs on
    cdbTemp,  \* the collection after the transactions kept so far
    ctsOK,    \* the transactions kept so far
    states    \* the changes for the block

vars == <<coll, cts, at, current, instr, scs, left, cdbI, cdbTemp, ctsOK, states>>

-----------------------------------------------------------------------------
(* sortTransactions *)

\* Mutant of xorTransactions: the salt is the hash of the first transaction.
FirstTransaction(ts) == Hash(ts[1])

\* The salt: bitwise XOR of the hashes of all transactions.
xor(salt, t) == [b \in Bits |-> (salt[b] + Hash(t)[b]) % 2]

xorTransactions(ts) ==
    FoldLeft(xor, [b \in Bits |-> 0], ts)

\* The orders n transactions can be put in.
Arrangements(n) == Bijection(1..n, 1..n)

\* sort.Slice puts the salted hashes in ascending order.
sortWithSalt(ts, salt) ==
    LET order == CHOOSE p \in Arrangements(Len(ts)) : \A i, j \in 1..Len(ts) :
                    i < j => SaltedHash(salt, ts[p[i]]) <= SaltedHash(salt, ts[p[j]])
    IN  [i \in 1..Len(ts) |-> ts[order[i]]]

sortTransactions(ts) == sortWithSalt(ts, xorTransactions(ts))

-----------------------------------------------------------------------------
(* Contracts.  An answer is a sequence of state changes, or Failed. *)

StateChange(action, o, contract, value) ==
    [action |-> action, object |-> o, contract |-> contract, value |-> value]

ContractConfig(i) ==
    IF i.action = "spawn" /\ i.valid
    THEN << StateChange("create", Reference, "config", 0),
            StateChange("create", i.object, "darc", 0),
            StateChange("create", ConfigID[i.object], "config", 0) >>
    ELSE Failed

\* A contract registered by another service: a counter that is spawned with
\* zero, counts its calls and can be deleted.
Counter(c, i) ==
    IF c[i.object] = Absent
    THEN IF i.action = "spawn" THEN <<StateChange("create", i.object, "add", 0)>> ELSE Failed
    ELSE IF i.action = "invoke"
    THEN <<StateChange("update", i.object, "add", c[i.object].value + 1)>>
    ELSE IF i.action = "delete" THEN <<StateChange("remove", i.object, "add", 0)>>
    ELSE Failed

\* GetContractState: a spawn names its contract, other instructions use the
\* one stored with their object.
GetContractState(c, i) ==
    IF i.action = "spawn" THEN i.contract
    ELSE IF c[i.object] = Absent THEN Failed
    ELSE c[i.object].contract

\* The answer of the contract, Failed when there is none; ContractDarc is
\* not implemented and always answers with an error.
CallContract(c, i) ==
    CASE GetContractState(c, i) = "config" -> ContractConfig(i)
      [] GetContractState(c, i) = "add"    -> Counter(c, i)
      [] OTHER                             -> Failed

\* Mutant of Accepts: Create overwrites.
AcceptsAll(c, sc) == TRUE

\* storeInColl: Add wants a new key, Set and Remove an existing one.
Accepts(c, sc) == (sc.action = "create") = (c[sc.object] = Absent)

\* Mutant of storeInColl: a removal leaves an empty entry.
storeBlank(c, sc) ==
    [c EXCEPT ![sc.object] =
        IF sc.action = "remove" THEN [value |-> 0, contract |-> ""]
        ELSE [value |-> sc.value, contract |-> sc.contract]]

storeInColl(c, sc) ==
    [c EXCEPT ![sc.object] =
        IF sc.action = "remove" THEN Absent ELSE [value |-> sc.value, contract |-> sc.contract]]

-----------------------------------------------------------------------------
(* createStateChanges *)

Init ==
    /\ coll \in Bases
    /\ cts = <<>>
    /\ at = "done"
    /\ current = 1
    /\ instr = 1
    /\ scs = <<>>
    /\ left = <<>>
    /\ cdbI = coll
    /\ cdbTemp = coll
    /\ ctsOK = <<>>
    /\ states = <<>>

\* A new batch arrives, in any order.
Start(ts) ==
    /\ at = "done"
    /\ cts' = sortTransactions(ts)
    /\ at' = "transaction"
    /\ current' = 1
    /\ instr' = 1
    /\ cdbTemp' = coll
    /\ cdbI' = coll
    /\ ctsOK' = <<>>
    /\ states' = <<>>
    /\ scs' = <<>>
    /\ left' = <<>>
    /\ UNCHANGED coll

Clone ==
    /\ at = "transaction"
    /\ current <= Len(cts)
    /\ cdbI' = cdbTemp
    /\ instr' = 1
    /\ at' = "instruction"
    /\ UNCHANGED <<coll, cts, current, scs, left, cdbTemp, ctsOK, states>>

\* Mutant of Drop: the clone is kept.
DropKeepsClone ==
    /\ at' = "transaction"
    /\ current' = current + 1
    /\ cdbTemp' = cdbI
    /\ UNCHANGED <<coll, cts, instr, scs, left, cdbI, ctsOK, states>>

\* continue clientTransactions
Drop ==
    /\ at' = "transaction"
    /\ current' = current + 1
    /\ UNCHANGED <<coll, cts, instr, scs, left, cdbI, cdbTemp, ctsOK, states>>

Call ==
    LET answer == CallContract(cdbI, cts[current][instr])
    IN  /\ at = "instruction"
        /\ instr <= Len(cts[current])
        /\ answer # Failed
        /\ scs' = answer
        /\ left' = answer
        /\ at' = "store"
        /\ UNCHANGED <<coll, cts, current, instr, cdbI, cdbTemp, ctsOK, states>>

CallFails ==
    /\ at = "instruction"
    /\ instr <= Len(cts[current])
    /\ CallContract(cdbI, cts[current][instr]) = Failed
    /\ Drop

Store ==
    /\ at = "store"
    /\ left # <<>>
    /\ Accepts(cdbI, Head(left))
    /\ cdbI' = storeInColl(cdbI, Head(left))
    /\ left' = Tail(left)
    /\ UNCHANGED <<coll, cts, at, current, instr, scs, cdbTemp, ctsOK, states>>

StoreFails ==
    /\ at = "store"
    /\ left # <<>>
    /\ ~Accepts(cdbI, Head(left))
    /\ Drop

\* The changes of an instruction go to the block as soon as it succeeded.
InstructionDone ==
    /\ at = "store"
    /\ left = <<>>
    /\ states' = states \o scs
    /\ instr' = instr + 1
    /\ at' = "instruction"
    /\ UNCHANGED <<coll, cts, current, scs, left, cdbI, cdbTemp, ctsOK>>

TransactionDone ==
    /\ at = "instruction"
    /\ instr > Len(cts[current])
    /\ cdbTemp' = cdbI
    /\ ctsOK' = Append(ctsOK, cts[current])
    /\ current' = current + 1
    /\ at' = "transaction"
    /\ UNCHANGED <<coll, cts, instr, scs, left, cdbI, states>>

Return ==
    /\ at = "transaction"
    /\ current > Len(cts)
    /\ at' = "done"
    /\ UNCHANGED <<coll, cts, current, instr, scs, left, cdbI, cdbTemp, ctsOK, states>>

Next ==
    \/ \E ts \in SeqOf(Transactions, MaxBatch) \ {<<>>} : Start(ts)
    \/ Clone
    \/ Call
    \/ CallFails
    \/ Store
    \/ StoreFails
    \/ InstructionDone
    \/ TransactionDone
    \/ Return

Spec == Init /\ [][Next]_vars

-----------------------------------------------------------------------------
(* Properties *)

\* The type invariant of the variables of createStateChanges.
TypeOK ==
    /\ {coll, cdbI, cdbTemp} \subseteq Collections
    /\ at \in {"transaction", "instruction", "store", "done"}
    /\ current \in 1..Len(cts) + 1
    /\ at \in {"instruction", "store"} => current <= Len(cts) /\ instr \in 1..Len(cts[current]) + 1
    /\ left = SubSeq(scs, Len(scs) - Len(left) + 1, Len(scs))
    /\ Len(ctsOK) < current

\* The collection after all the changes of a sequence, Failed when one of
\* them is refused.
ApplyOne(c, sc) == IF c = Failed \/ ~Accepts(c, sc) THEN Failed ELSE storeInColl(c, sc)

Applied(c, changes) == FoldLeft(ApplyOne, c, changes)

\* The collection after one transaction run as a whole, Failed when any of
\* its instructions fails.
RunOne(c, i) ==
    IF c = Failed \/ CallContract(c, i) = Failed THEN Failed ELSE Applied(c, CallContract(c, i))

Run(c, t) == FoldLeft(RunOne, c, t)

\* The collection after a batch in which failing transactions have no effect.
ExecuteOne(c, t) == IF Run(c, t) = Failed THEN c ELSE Run(c, t)

Executed(c, ts) == FoldLeft(ExecuteOne, c, ts)

\* "If any of the instructions fails, none of them will be applied": whatever
\* instruction or state change of whatever transaction fails, the collection
\* between two transactions is that of the ones before, run as a whole.
AllOrNothing ==
    at \in {"transaction", "done"} =>
        cdbTemp = Executed(coll, SubSeq(cts, 1, current - 1))

\* Every node that runs the transactions of the block, and only those, keeps
\* them all and gets the collection of the leader.
Reproducible ==
    at = "done" =>
        /\ \A i \in DOMAIN ctsOK : Run(Executed(coll, SubSeq(ctsOK, 1, i - 1)), ctsOK[i]) # Failed
        /\ Executed(coll, ctsOK) = cdbTemp

HasConfig(c) == c[Reference] # Absent /\ c[Reference].contract = "config"

SpawnsConfig(t) == \E i \in DOMAIN t : t[i].action = "spawn" /\ t[i].contract = "config"

\* "ContractConfig can only be instantiated once per skipchain" (the rest of
\* the sentence, "and only for the genesis block", no code checks): once the
\* reference to the genesis darc is there no batch replaces it and no
\* transaction that spawns another one is kept, in one batch neither.
ConfigOnce ==
    /\ HasConfig(coll) =>
          /\ cdbTemp[Reference] = coll[Reference]
          /\ \A k \in DOMAIN ctsOK : ~SpawnsConfig(ctsOK[k])
    /\ \A k, l \in DOMAIN ctsOK : SpawnsConfig(ctsOK[k]) /\ SpawnsConfig(ctsOK[l]) => k = l

\* The order of a batch does not depend on the order in which the
\* transactions reached the queue, repeated transactions included.
OrderFree ==
    cts # <<>> =>
        \A p \in Arrangements(Len(cts)) : sortTransactions([i \in DOMAIN cts |-> cts[p[i]]]) = cts

\* The changes listed for the block are those of its transactions: applied in
\* order they give the collection whose root is in the block.
StatesMatchBlock == at = "done" => Applied(coll, states) = cdbTemp

=============================================================================
