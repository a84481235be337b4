# OmniLedger: a TLA+ verification project

The repository is a Go implementation of the OmniLedger / ByzCoin ledger service
on top of onet and skipchains. Its own logic is in `src/omniledger`: an
authenticated key-value store (`collection`), the ledger service (`service`) and
access control (`darc`). Under `vendor/` is third-party code; of it the skipchain
service and the propagation protocol, which every block goes through, are part of
the models, and of the rest only what the service relies on is assumed.

## Inventory

| Part | State | Operations | Used by |
|---|---|---|---|
| Collection tree (`collection/{collection,node,singlenode,manipulators,transaction,getters,record}.go`) | a binary Merkle tree of nodes (label, key, values, `known`, backup, `inconsistent`), `transaction.ongoing`, `transaction.id` | `New`, `Clone`, `Add`, `Set`, `SetField`, `Remove`, `Begin`, `End`, `Rollback`, `Collect`, `Get().Record()` | updates, service |
| Fields (`field.go`) | none | `Encode`, `Decode`, `Placeholder`, `Parent`, `Navigate` | tree, navigators |
| Proofs, verifiers, scopes (`proof.go`, `verifiers.go`, `scope.go`) | known and unknown nodes of a partial tree | `Proof`, `Consistent`, `Verify`, `Collect` | updates, service proofs |
| Updates (`update.go`) | the transaction id an update was prepared in | `Prepare`, `Apply`, proxy | callers of the library |
| Navigators (`navigators.go`) | the query, rewritten on the way | `Navigate().Record()` | callers of the library |
| Ledger service (`service/service.go`) | skipchain database, map of collections, map of queue workers, `createSkipChainMut`, `CloseQueues` | `CreateGenesisBlock`, `AddTransaction`, queue worker, `createNewBlock`, `updateCollection`, `tryLoad`, `GetProof` | clients |
| Block content (`service.go` `createStateChanges`, `transaction.go`, `contracts.go`) | the clones `cdbTemp` and `cdbI`, `ctsOK`, `states` | `sortTransactions`, contract calls, `storeInColl` | `createNewBlock` |
| Collection database (`service/struct.go`) | collection in memory, bucket on disk | `newCollectionDB`, `Store`, `tryHash`, `GetValueContract` | service |
| Propagation and skipchain service (vendored `messaging/propagate.go`, `skipchain/skipchain.go`) | replies received, the channel of the caller; block database | `PropagationFunc`, `Dispatch`, `StoreSkipBlock` | `createNewBlock` |
| Service proofs (`service/proof.go`) | none | `NewProof`, `Verify` | clients |
| Darcs (`darc/darc.go`) | rules, versions, evolution paths | `EvolveFrom`, `Verify`, `MakeEvolveRequest`, `Request.Verify` | service |
| Expressions (`darc/expression`) | none | `Evaluate`, `InitAndExpr`, `InitOrExpr` | darcs |
| Client API, `app.go`, conode, Java client | none of the ledger's | one request each | users |

How they interact: a client's `AddTransaction` hands a transaction over an
unbuffered channel to the worker goroutine of its ledger. At the end of an epoch
the worker calls `createNewBlock`, which checks signatures against darcs found in
the collection, sorts the batch, runs the contracts on clones of the collection
(`createStateChanges`) and gives the block to the skipchain service. That service
and then `propagateTransactions` reach the other nodes, which store the block and
run `updateCollection`; both wait until enough nodes replied. On restart `tryLoad`
reads each ledger's configuration from its collection, which `newCollectionDB` fills from the bucket. A client that keeps
a verifier follows a collection through its root label, proofs and updates.

What is hard to test: the order of genesis creation, registration and answers;
propagations that too few nodes answer; crashes between storing a block and
registering its queue; transactions arriving
while a block is made; a batch of which some part fails; restarts with what is on
disk; in the tree, long sequences of calls inside one transaction whose backups
and marks must still be found by `End` and `Rollback`; in a partial tree, proofs
and updates that arrive late or damaged, after nodes were learned and collected;
and in access control, requests that overtake the evolution of a darc or of one it
delegates to. `PROJECT.json` lists these hazards at their lines with the
properties that would catch them.

## Modules

| Module | Models |
|---|---|
| `MerkleTree` | nodes, labels and the effect of each tree operation, as functions of trees |
| `Collection` | the state machine over a tree: calls and transactions, their properties |
| `KeyValueStore` | the abstract specification: a map with transactions |
| `Verifier` | composes a full tree and a partial one: proofs, scopes, updates, navigators |
| `StateChanges` | `createStateChanges` with sorting, contracts and clones |
| `CollectionDB` | collection and bucket: `Store`, restart, `tryHash` |
| `Expression` | the parser and evaluator of policies |
| `Policies` | every sequence of tokens up to a length, with the reference meaning |
| `Darc` | rules, versions, delegation, requests and their verification |
| `OmniLedger` | nodes, clients, queue workers, blocks, crashes and restarts |
| `MerkleTreeProofs` | what each operation does to the nodes of a tree of any depth |
| `CollectionProofs`, `VerifierProofs`, `OmniLedgerProofs`, `StateChangesProofs`, `PoliciesProofs`, `DarcProofs` | theorems |
| `Folding` | induction and what folds compute, for the proofs |
| `MC*` | small instances for TLC |

The components meet through their abstract states. `Collection` is shown to
implement the map `KeyValueStore`; `StateChanges` and `CollectionDB` use such maps
as collections; `Verifier` works on the trees of `MerkleTree`; `Darc` evaluates
rules with `Expression`. `OmniLedger` reduces a collection to which of the genesis
objects are in it and a transaction to whether its signatures (`Signed`) and its
contracts (`Good`) are accepted, which is what `Darc` and `StateChanges` decide.

### MerkleTree and Collection

A node is identified by its path, a sequence of bits; a tree is a function from
paths to nodes. sha256 of a key is `PathOf` (an injective function to `Depth`
bits), a label is the structure that is hashed, so equal labels mean equal
content. `backup` is empty or holds the copy of `node.backup`, `inconsistent` is
the mark. A backup of an internal node keeps its old children alive: they are
`detached`, together with which of them share their values slice with a linked
node (`shares`), because `Remove` assigns the survivor's slice and `Set` writes
into it. The loops of the code appear as what they compute: `Split` is the loop of
`Add` that pushes a colliding leaf down, `Collapsing` the set of nodes that the
upward loop of `Remove` turns into leaves, `Propagate` the upward loop that
updates or marks, `RolledBack`, `Confirmed` and `Fixed` the recursive `explore`
functions, each with its own condition for descending. In `Collection` the scope
is `All`, as for the ledger's collections, so every node is known and `Collect`
removes nothing. `AnySet` says whether callers `Set` a key after it was moved by a
`Remove` of the same transaction, or the empty key; the passing runs leave those
calls out because of what they do (see Findings) and the hazard list names both.

### Verifier

A server with a full tree broadcasts updates with proofs of the records they
declare and the label they lead to. A verifier (`NewVerifier`) starts with the
label of the empty tree and knows nothing else: `unknown` is the set of nodes
without `known`, of which only the label is there. `Learned` is `dump.to` on every
node of a proof, `Collect` what `transaction.go` does with the scope, `match`
included as it is called (with a depth two less than that of the node),
`FixedKnown` is `fix`, which leaves alone what has unknown children. `Arriving`
gives what a proof may have become on the way: another key, fewer steps, other
values or keys in the last step, with the label left alone or recomputed.

`prepared` is the result of `Prepare` as long as `transaction.id` is unchanged;
after that `Apply` panics, which stops the program and is not a step, as is
`Verify` or `Prepare` with a marked root. `Direct` is a call outside a transaction,
which leaves `transaction.id` alone, so a prepared update may be applied to another
state, or after what its proofs told has been collected: `mixed` records that this
happened. `stored` and `atBegin` are the
associations that the verifier's successful calls left, and those a `Rollback`
brings back. A failing call of an update's `Apply` changes nothing and the next one
is made. `Navigated` is `Navigator.Record` with the query that `Navigate` rewrites.

### StateChanges

One step per contract call, stored change, finished instruction and finished
transaction, so every failure point of a transaction is a state. `Drop` is
`continue clientTransactions`. The counter contract is external: it stands for the
contracts other services register, and creates, updates and removes. A hash is a
function from `Bits` to 0 and 1, of which the salt is the bitwise XOR; `SaltedHash`
orders the transactions and does not collide on them.

### CollectionDB

`Store` changes memory first and the bucket second; `StoreDiskFails` is the case in
which the bolt transaction fails. The keys of the bucket keep their endings, as
`Store` writes contracts under one ending and `loadAll` reads another. `Addable`
are the keys `tryHash` adds before the first that is there already; the deferred
calls remove these.

### Expression, Policies and Darc

`Expression` has the parser combinators as a recursive function over token
positions. `Policies` writes token sequences one token at a time and keeps two
readings of them: by the documented grammar, in which `|` binds tighter than `&`
(`terms`), and from left to right (`groups`). The parser agrees with the first on
expressions in which no group mixes the operators and with the second on all. An identity is
none of the operators and parentheses (`IdsAssumption`), as it starts with its type.

In `Darc` a digest is what it digests and a signature is a key with a digest. The
ID of version 0 is a name, so darcs can delegate to each other only from version 1
on, as in the code. `chain` are the published versions, `made` the requests that
clients signed; a step delivers the content of one of these under any one or two
identities and any one or two signatures ever made. `VerifyRequest` is
`Request.VerifyWithCB`, `VerifyAlong` and `findPath` are `Darc.VerifyWithCB`,
`BreaksAt` the place where the loop over the newest path breaks,
`UseInstruction` is the ledger's `verifyInstruction` with the identities that
`ToDarcRequest` gives. A request has at least one signer, as `InitAndSignRequest` refuses one
without. The recursion of `evalExpr` through other darcs is computed
in rounds, as many as there are darcs; from a darc in `Endless` it does not return,
and the request is not accepted. The one who keeps the darcs and accepts evolutions
is in the repository's tests only and marked external.

### OmniLedger

`call` says where each client's request is: waiting for the lock, storing the
genesis block (`StoreSkipBlock`), updating the collections
(`propagateTransactions`), registering the queue, sending a transaction, or hung.
`worker` and `ts` are the goroutines of `createQueueWorker`. A block goes out in two
propagations. `Propagations` says which nodes one reaches and which replies come
back: nodes that are down are missed and up to `Losses` others. It calls back to its
caller if no more than a third of the others (`AllowedFailures`) are missing, at the
latest with the timeout; otherwise `Dispatch` returns an error nobody reads, and the
caller waits on its channel for ever (`Completes`): `CreateGenesisBlock` with
`createSkipChainMut` held, a queue worker away from its `select`. What the nodes
reached have stored stays. A node that stores after the timeout counts as reached
at once; the order of sends and replies within one propagation is left out.

`StoreSkipBlock` refuses a block before it stores anything (`GenesisRefuse`); the new
ledger's identifier is fresh, as a genesis block has a random back-link. It is used
as the ledger finds it installed: no followed chains and no client keys, with which
it would refuse blocks. `updateCollection`, which each node reached runs, has its body
commented out in this commit, so collections stay empty (`stored`). Therefore no
transaction of an existing ledger passes `verifyClientTx`, `createNewBlock` returns
before `StoreSkipBlock`, and a worker does not hang in a propagation; the second
disjunct of `CreateBlock` is what the rest of the code does once collections are
filled, and `QueueDrains` rests on the first. A crash loses memory and keeps
databases; `Restart` is `newService` with `tryLoad`, which starts a worker for every
*block* in the database and takes its hash for a ledger. The model ranges over
ledgers, which is the same as long as no ledger has a second block, as here. A data
race on the map of collections ends a Go program, so it is a crash too.

## Runs

| Run | Shows |
|---|---|
| `collection_tree` | `Rules` (canonical shape), `BackupsReachable`, `RollbackRestoresLabels`, `StaleIsMarked`, `HistoryIndependent`; `Collection` implements `KeyValueStore` (`ImplementsStore`) |
| `verifier_follow` | `ProofsTell` (an accepted proof, damaged or not, tells what the server has), `KnowsTruth` (what a verifier knows is what the full tree has), `UpdatesTransfer` (a broadcast update is enough to follow), `FollowsServer`, `ScopeKept` (`Collect` keeps what the scope needs), `NavigatorsSelect` (as many queries per key as it has stakes) |
| `ledger_queue` | `GenesisExclusive`, `NoPanic`, `AcceptedOnce`, `QueueBeforeReply`; under fairness `CallsReturn` (unless a creation of a ledger hangs on that node, or its queues are closed) and `QueueDrains` |
| `block_batch` | `AllOrNothing`, `Reproducible`, `ConfigOnce`, `OrderFree` |
| `bucket_reload` | `BucketHasStored`, `ValuesSurvive` |
| `expr_policies` | `EvaluatesMeaning`, `MoreSignersNeverHurt` |
| `darc_chains` | `OnlyAuthorised` (the newest rules decide, and only over what was signed), `AcceptedAsSigned`, `LightVerifies`, `KeptVersionsVerify`, `HonestEvolves` |
| `collection_moved`, `block_states`, `verifier_header`, `ledger_propagation`, `expr_grammar` | the findings below |

Bounds. Trees have depth 3 and up to three keys that part at the second and third
bit (plus the empty key, next to one of them): this gives splits over several
levels, collapses over several levels and a sibling that is internal. Two
transactions of three calls each are enough to split, collapse and split again at
one place within a transaction and to see what the first leaves for the second;
`MaxTransactions` and `MaxCalls` name the bounds. `collection_tree` takes states
that differ in the last answer only as one (`WithoutResult`): no step depends on
it, and each step is compared with those of the map as it is taken. Two stakes of two
bits make sums wrap. The verifier has four keys in a tree of depth 4, scope None or one mask
of one or two bits, nine updates and three broadcasts (`MaxChanges`): enough to be two
states behind with an update prepared, to have a key of the scope split and collapse
next to nodes that are collected, and to have an update declare a record that is absent
in a part of the tree its other record does not reach. The ledger has two
nodes, a leader and a follower for the one ledger, two callers, two transactions and
one crash (`MaxCrashes`): two callers at one lock or one queue, and a propagation that
misses the other node or its reply (`Losses` 1) and hangs, as two nodes allow for none
to be missing. Larger rosters, on which a propagation completes without some nodes, and
several ledgers are covered by the theorems, which hold for any. Batches have up to
three of eight transactions (`MaxBatch`), some failing in their second instruction, and
start from three collections. `CollectionDB` needs no bound. Policies have up to seven tokens
(`MaxTokens`): a group with an operator inside and one outside. Darcs: two chains,
two keys, two requests (`MaxRequests`) and three versions (`MaxVersion` 2): a request
is overtaken by an evolution of its darc or of the one it delegates to.

Deadlock is not checked in `ledger_queue` and `ledger_propagation`, where all callers
may wait on channels nobody reads after `CloseQueues`, or behind a creation that hangs,
nor in `expr_policies`, `expr_grammar` and `darc_chains`, where all tokens or requests
may be used up.

Fairness (`ledger_queue` and `ledger_propagation`). Weak fairness for the steps of a
goroutine that can run and for the timer; strong fairness for getting the mutex and for
being received from, as Go mutexes do not starve a waiter and `select` chooses at random
among ready cases. Of a propagation nothing is assumed but that it completes or hangs.
No fairness is assumed of clients, crashes, restarts or `CloseQueues`: a call to a node
that crashes ends with an error, and what its queues held is lost.

## Findings

* `Rollback` after `Remove` and `Set` in one transaction brings back the new value
  (`collection_moved`).
* The state changes of a block include those of dropped transactions
  (`block_states`).
* `GetRoot` returns the key of the root node, which is empty; the root in every
  header is empty, and a proof of any state is accepted with any header
  (`verifier_header`). `ProofsTell` shows that the labels, compared instead, tell.
* A propagation that too few nodes answer never returns to its caller, although its
  comment says that it blocks until the timeout (`ledger_propagation`). The creation
  of a ledger then keeps its lock, and every later one on that node waits for it.
* The comments on expressions (`expression.go:6`, `darc.go:31`, `README.md:341`) have
  `|` bind tighter than `&`; the parser has one strength, from left to right
  (`expr_grammar`). `EvaluatesMeaning` is therefore stated for the grammar where no
  group mixes the two.

Where the code does other than the repository says, and the models follow the code:

* `omniledger/README.md` has transactions queued at each node (22) and sent to any
  (399); only the node that created a ledger takes them (`service.go:155`); a restart
  would start queues for all blocks in the database (648), but fails at this commit.
* `TestService_LoadBlockInterval` (`service_test.go:252`) reads the configuration of a
  new ledger at the node that created it; as `updateCollection` does nothing, it is
  not there (`IntervalLoads`).
* `createStateChanges` leaves out transactions that fail; its comment
  (`service.go:557`) says that it returns an error if any is invalid.
* The digest of a request includes the identities (`darc.go:837`); its comment (826)
  says that it does not. `AcceptedAsSigned` depends on what the code does: its mutant
  is the comment.
* `Navigate` goes right from the stake of the left child on (`field.go:149`), where its
  comment (122) goes left. As the code has it each key is found for as many queries as
  it has stakes, which is what `NavigatorsSelect` says; by the comment a leaf would be
  found for as many as its sibling has.
* `Navigate` overwrites the query (`field.go:150`), which is the one that the record
  keeps: `Query`, "the original query" by its comment (`record.go:34`), is what was left
  of it. `Navigated` rewrites it too, and `NavigatorsSelect` says nothing of it.

What else the models take over from the code, and a reader should know:

* `Rollback` leaves the root marked inconsistent, on which `Verify` and `Prepare`
  panic until a transaction ends (`transaction.go:27`).
* `updateCollection` does nothing in this commit: every accepted transaction is
  dropped, as its signatures are checked against an empty collection, and no node
  with a ledger can restart.
* Contracts are lost when a collection is loaded from its bucket (`struct.go:60`), so
  a restarted node would find no configuration even with `updateCollection` in force
  (`Loaded`, `IntervalLoads`).
* "Only for the genesis block" of `ContractConfig` (`contracts.go:51`) is checked
  nowhere. That a ledger gets no second configuration, `ConfigOnce`, rests on the key
  being taken.
* A prepared update survives a direct call, even one that changes no value; applied
  afterwards some of its calls may succeed and others not (`update.go:154`), and the
  verifier is in a state the server never had. If the call changed the tree, the update
  starts from another state than its own. If not, the call has collected what the proofs
  of the update told, and `Check` still accepts a record that the update expects to be
  absent, because an unknown record counts as absent (`proxy.Get` ignores the error),
  while its `Add` then fails. `FollowsServer` excludes both (`mixed`).
* A version that was accepted under an evolve rule that names a darc may stop
  verifying when that darc evolves, as the past is verified with the newest versions
  and those without a callback (`darc.go:571`). `KeptVersionsVerify` and
  `HonestEvolves` are therefore stated for rules that name keys.
* `evalExpr` does not return for darcs that delegate to each other (`darc.go:566`).
* `ToDarcRequest` takes the address of its loop variable, so an instruction with
  several different signers is never accepted (`transaction.go:237`). The nonce of
  an instruction is never checked (`transaction.go:33`).

## Theorems

`OmniLedgerProofs` proves for any finite set of nodes, any sets of ledgers, clients and
transactions and any number of crashes, from `LedgerAssumption` only:

* `TypeCorrect`: the type invariant is inductive (`TypeStep`, one step per action).
* `GenesisIsExclusive`: from `LockInv`, a caller between `Lock` and `Unlock` is the
  one recorded in the mutex of its node. Exclusion itself says nothing about the
  mutex and is not inductive.
* `WorkersNeverPanic`, `AnnouncedHasQueue`: from `LedgerInv`. `StoredFirst` says
  that a worker, an announced ledger and the ledger of a call about to register
  are in the node's database; it is needed because the panic depends on a database
  filled several steps earlier. Databases only grow.
* `HangsBeyondThreshold`: a node that is down has crashed and not come up again, so
  there are no more of these than crashes (`HangInv`, by counting), and those a
  propagation misses are down or among its `Losses`. With `CallsReturn` this says that
  a roster that misses no more nodes than the threshold answers every caller.
* `AcceptedIsInOnePlace`: from `AcceptInv`, which adds that a transaction being
  sent is in no queue, not yet accepted, and sent by one client, and that only
  accepted transactions have an outcome.

`MerkleTreeProofs` and `CollectionProofs` prove for keys, fields and values of any
kind, hashes of any length, any number of transactions and calls in them, from
`KeyAssumption`, `PathAssumption` and `CallAssumption`:

* `CollectionTyped`, `CollectionRules`: `Regular` states the rules by which path is a
  prefix of which (`On`), and adds that nodes have both children or none (`Shape`). Add,
  Set and Remove are described by what they do to the nodes (`Rewritten`, `Divided`,
  `Merged`), each followed by the upward loop (`Lifted`), and keep trees regular.
* `CollectionBackups`, `CollectionRollback`: `Undo` says that the linked nodes, the
  unlinked ones and their backups remember the tree of Begin (`Remembers`). It needs
  that an internal node below a backup has one itself (`BackupsClosed`), that a node
  made where another was unlinked lies below a backup (`Covered`), and that the descent
  of `Rollback` meets every backup and unlinked node (`Reachables`, `DetachedReached`):
  `RolledBack` restores what it reaches and keeps what it does not.
* `CollectionStale`: `Marked` and `Fresh` say that a leaf has the label of its pair and
  that a node out of date is marked with all nodes above it. Assumes `~AnySet`.
* `CollectionImplementsStore`: the refinement of `KeyValueStore`, with the associations
  of the tree as the store and those of the tree at `Begin` as the saved ones, which
  `Rollback` brings back (`SavedContents`). Each
  call maps to the same call of the map, by what it does to the associations
  (`AddedContents`, `WrittenContents`, `RemovedContents`). A call with the
  empty key changes no association (`StoreEmpty`). Assumes `~AnySet`, without which it
  is false (run `collection_moved`).
* `CollectionHistory`: `HistoryIndependent` for callers as above. Two regular trees with
  the same associations have the same nodes and keys, and if nothing in them is out of
  date the same values and labels, from the leaves upwards (`SameLabels`); `Fresh` says
  for this that placeholders hold placeholder values. The fold of `Built` adds the keys
  in some order (`BuiltFold`), keys are finitely many (`KeysFinite`), and every tree it
  goes through stores its associations with nothing out of date (`BuiltFacts`).
* `CollectionRollbackValues`: with `~AnySet`, the property that `collection_moved`
  refutes without it.

The recursion of `Updated` is over the length of paths and the facts about it are
proved by induction on the depth below a node.

The last part of `CollectionProofs` proves `BucketIsComplete` and `RestartKeepsValues`
of `CollectionDB` for any objects and values. A restart takes the values from the
bucket, so the second needs the first, and both need that only objects are stored
(`ObjectsOnly`): the key of a contract must not be mistaken for an object (`KindKeys`).

`VerifierProofs` proves `ProofsAlwaysTell` for any keys, depth, fields, updates and
scopes, and for everything `Arriving` allows to happen to a proof. Nodes with the same
label have the same content (`AgreeTells`); so a consistent proof with the label of the
root agrees with the tree at every step, by induction along its steps (`ProofAgrees`),
and ends where the key's walk ends in the tree. That the server's own proofs are
consistent needs that nothing in its tree is out of date (`ProofForm`), which is `Still`:
an update is a sequence of calls in a transaction, which keep the parts of
`CollectionProofs`' invariant (`AppliedSane`), and `End` repairs what they marked.

`VerifierKnowsTruth` is `KnowsTruth` for any of these. Its inductive invariant
`VerifierInv` says that there is a full tree with nothing out of date and the
associations `stored` (`PartOf`), of which what the verifier has is a part (`Knows`):
known leaves are leaves of the full tree with the same content, other known nodes agree
with it unless they are marked and `fix` can update them, and unknown nodes have its
labels. `KnowsTruth` alone is not inductive, as it says nothing during a transaction:
there (`Pending`) the marked nodes are out of date, and the tree of Begin, of which
`Rollback` restores what the calls changed, must have been such a part of the full tree
of Begin. The steps are:

* a call whose walk meets known nodes only ends at the same leaf, and does to it what
  the same call does to the full tree (`WalkMeets`, `KnowsRewritten`, `KnowsDivided`,
  `KnowsMerged`; for a Remove the two trees drop as many levels, `SameStem`);
* a call whose walk meets an unknown node fails and changes nothing (`CallTracks`);
* a verified proof is made of nodes of the full tree, as it has the label of the root,
  and what `Learned` adds is true (`DumpsFacts`, `LearnsKnows`), in whatever order
  `Prepare` takes its proofs (`LearnedAllTakes`, by `FoldSetSteps` of `Folding`);
* `fix` makes true again all that is known (`FixedKnows`), `Collect` only forgets
  (`CollectKnows`), and `Rollback` comes back to the tree of Begin (`RolledBackKnows`).

The theorem assumes `[][SetsUnmoved]_vars`: no Set of an update that is applied in a
transaction writes into values a Remove of the same transaction moved. There `Rollback`
does not bring the values back (`collection_moved`), so what the verifier knows would be
wrong for the reason of that finding. No update of `verifier_follow` has such a Set; the
run shows the property without the assumption.

`DarcProofs` proves for any keys, any finite set of darcs, any rules, any number of
versions and requests, from `DarcAssumption`:

* `RequestsAcceptedAsSigned`: `MadeInv` says that requests carry the signatures of
  those they name; then a request that verifies with signatures taken from anywhere
  has the digest, and so the content and all signers, of one that was made
  (`VerifiedIsMade`).
* `AuthorisedTheorem`, the action property `OnlyAuthorised`: the rounds in which
  `evalExpr` follows delegations stay below the least set of darcs whose sign rules
  hold, by induction over the rounds and the monotonicity of the parser.
* `LightTheorem`, `KeptVersionsTheorem`, `HonestTheorem`: from `DarcInv`. Besides
  `Inv` it says of every version (`VersionInv`) that its number is its place, that
  its digest is that of the versions before it, that its rules are expressions and
  that, if the rule before it names keys only, its signers satisfy that rule; and of
  every request to evolve (`EvolveInv`) that it was made from the end of a path.
  None of the three properties mentions requests, yet a version is appended as the
  request says, so they are inductive only together with it.

`StateChangesProofs` proves for any objects, transactions, hashes and batches, from
`BatchAssumption`:

* `TypeCorrect`: with `Typed`, which adds the types of the batch and that it is
  sorted already.
* `OrderTheorem`: the salt does not change when a batch is rearranged (XOR commutes,
  by induction over the batch), and two ascending arrangements of the same
  transactions are equal, because different transactions have different hashes.
* `AllOrNothingTheorem`: `Progress` relates every position inside a transaction to
  the run of the instructions, and of the changes of one instruction, before it.
* `ReproducibleTheorem`: `Replay` says the same of the kept transactions only, at
  every transaction boundary and not just at the end.
* `ConfigTheorem`: `ConfigKept` adds that the collection has a configuration as soon
  as a transaction that spawns one was kept.

`PoliciesProofs` proves for any identities and token sequences of any length:

* `EvaluateMonotone`, `MoreSignersTheorem`: of two sets of identities that check out,
  one within the other, the parser consumes the same tokens for both and its value
  only grows. The induction is over the number of tokens left.
* `LeftToRightTheorem`: `ReadingInv` says, for every continuation of the tokens read so
  far, in which calls the parser is nested at this point and what their values are:
  the parser decides on the whole input while the meaning is built token by token.
* `MeaningTheorem`: where no group mixes the operators the two readings agree, group
  by group (`AgreeInv`): up to an operator, a group read from left to right is worth
  what its finished terms are, or what its last term is.

`Folding` is the part of the library that these proofs share: induction over the
naturals and over sequences, and the recursion equations of `FoldLeft` and of
iteration. The installed provers cannot instantiate an operator parameter of a
theorem; here the operator is a constant of the module, which `INSTANCE` replaces,
and induction is stated on sets (`SetInduction`), as the set of the numbers at which
a statement holds. That a recursive function exists (`ParserExists`, `FoldStep`) is
proved, not assumed: `CHOOSE` picks it, and its equations need a witness. `FoldSetSteps` and
`SubsetInduction` do the same for the fold over a finite set, which takes its elements in
an order that `CHOOSE` decides.

`VerifierScopeKept`, the action property `ScopeKept`, rests on `WalkableOff`: whether the
walk to a key meets known nodes only depends on the unknown nodes alone (`Off`: none lies
on the way to the key or next to it), not on where the walk ends. A verified proof only
makes known (`OffLearned`, `OffLearnedAll`), and `Collect` of a key of the scope drops
nothing next to its way (`OffCollected`), as `match` leaves the last two bits of a path
out of the comparison.

`VerifierUpdatesTransfer` and `VerifierFollowsServer` compare two collections by the label
of their root alone, as the code does. `SameRoot` is what justifies that: full trees with
nothing out of date whose roots have the same label have the same associations, level by
level from the root down, as `NodeLabel` and `LeafLabel` are injective. `PlainAll` is what
the calls of an update do to the associations of a full tree; where all their keys can be
reached (`AllOff`), the calls on a partial tree do the same (`NotedPlain`) and end with
that label (`EndedLabel`). `SentOK`, an invariant of its own, says that each message was
made from some tree the server had (`SentFrom`).

* `VerifierUpdatesTransfer`: a verifier that has the label of a message's proofs has the
  associations of that tree (`SentStart`); each proof verifies; after them the keys of the
  update can be reached (`OffLearnedAll`), `Get` answers as on the server (`GetTells`) and
  the calls lead to the label that was sent (`SentAfter`).
* `VerifierFollowsServer`: `FollowsServer` is about the label between transactions, and
  it is not inductive, as a rollback returns to another state and an open transaction
  shows neither. `FollowInv` says, unless `mixed`, that the associations now and those at
  Begin are both of states the server was in. The root shows the label of Begin during a
  transaction (`PendingRoot`), so that an update that still fits that label (`Fresh`) and
  is the first of its transaction was made for exactly these associations
  (`FreshFollows`).

Both assume `[][SetsUnmoved]_vars` like `VerifierKnowsTruth`, for the same reason.

Only model-checked: the liveness properties, which need fairness and ENABLED, and
`NavigatorsSelect`, which adds up the stakes of sets of keys.

## Plan

1. `NavigatorsSelect` of `Verifier`, from `VerifierInv` and lemmas on sums over sets of keys.
2. `ServiceProof`: `GetProof` and `Proof.Verify` over forward links, with blocks stored
   in between.
3. A composed run of `StateChanges` with the decisions of `Darc` in place of `Signed`.

## Not modelled

* The forward links of service proofs, which the skipchain service makes and signs.
  By reading: `GetProof` starts them at the latest block (`service.go:199`), so
  usually there is only the first link, of which `Verify` checks nothing; when a block
  is stored between `GetLatest` and `NewProof`, there is a second link that does not
  come from the ledger's first block, and `Verify` refuses the proof. `Verify` does
  not compare the end of the links with `Latest`.
* The client API, `app.go`, the conode binary and the Java client hold no state of
  the ledger; generated protobuf code and cryptography; the skipchain consensus
  itself, of which `OmniLedger` states what the service relies on.
* The test helpers of the collection package (`testctx.go`): the rules they assert
  are the invariants of `Collection`.
* `Serialize` and `Deserialize` of proofs, and `Encode` and `Decode` of fields: the
  models use what they carry.
