---------------------------- MODULE MCStateChanges ----------------------------
(* Transactions of one and two instructions on four objects. *)
EXTENDS StateChanges

MCObjects == {"ref", "darc", "config", "a"}
MCConfigID == [o \in Objects |-> "config"]

Instruction(action, o, contract, valid) ==
    [action |-> action, object |-> o, contract |-> contract, valid |-> valid]
Genesis == Instruction("spawn", "darc", "config", TRUE)
SpawnA == Instruction("spawn", "a", "add", TRUE)
InvokeA == Instruction("invoke", "a", "", TRUE)
DeleteA == Instruction("delete", "a", "", TRUE)
DeleteRef == Instruction("delete", "ref", "", TRUE)

\* The last three can fail after an instruction that succeeded.
Single == << <<Genesis>>, <<SpawnA>>, <<InvokeA>>, <<DeleteA>>, <<DeleteRef>> >>
Several == << <<SpawnA, InvokeA>>, <<InvokeA, Genesis>>, <<DeleteA, InvokeA>> >>
All == Single \o Several
MCTransactions == ToSet(All)

Empty == [o \in Objects |-> Absent]
MCBases == {Empty, Run(Empty, <<Genesis>>), Run(Empty, <<SpawnA>>)}

Index(t) == CHOOSE i \in DOMAIN All : All[i] = t
MCHash(t) == <<Index(t) % 2, (Index(t) \div 2) % 2>>
MCSaltedHash(salt, t) == (Index(t) * (1 + salt[1] + 3 * salt[2])) % 11

=============================================================================
