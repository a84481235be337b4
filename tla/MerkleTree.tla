------------------------------ MODULE MerkleTree ------------------------------
(***************************************************************************)
(* The authenticated binary tree behind a collection                       *)
(* (omniledger/collection: node.go, singlenode.go, manipulators.go and     *)
(* transaction.go): a node is identified by its path from the root, a      *)
(* sequence of bits, and a tree is a function from paths to nodes.  Every  *)
(* operator here is a function of trees; the state machine that applies    *)
(* them is in Collection.                                                  *)
(*                                                                         *)
(* What is abstracted.  sha256 of a key is PathOf, an injective function   *)
(* to Depth bits.  A label is the hashed structure itself, so two labels   *)
(* are equal exactly when what was hashed is equal.  The field encodings   *)
(* are the constants PlaceholderValue and ParentValue (field.go).  The     *)
(* collection has scope All, as the one the ledger keeps: every node is    *)
(* known, so the "unknown subtree" errors cannot occur and Collect removes *)
(* nothing.                                                                *)
(***************************************************************************)
EXTENDS Integers, Sequences, FiniteSetsExt

CONSTANTS
    Keys,              \* the non-empty keys callers use
    NoKey,             \* the empty byte slice: the key of a placeholder
    Depth,             \* the number of bits of a path
    PathOf,            \* the bits of sha256(key), for the empty key as well
    Fields,            \* the fields of the collection
    Values,            \* the values callers store in a field
    Same,              \* marks a field that Set leaves alone
    PlaceholderValue,  \* Field.Placeholder()
    ParentValue(_, _)  \* Field.Parent(left, right)

ASSUME KeyAssumption ==
    /\ Depth \in Nat \ {0}
    /\ NoKey \notin Keys

ASSUME PathAssumption ==
    /\ PathOf \in [Keys \cup {NoKey} -> [1..Depth -> {0, 1}]]
    /\ \A k, c \in Keys : PathOf[k] = PathOf[c] => k = c

-----------------------------------------------------------------------------
(* Paths *)

Root == <<>>

Child(p, b) == Append(p, b)

\* The first n steps of a walk along p.
Prefix(p, n) == SubSeq(p, 1, n)

Parent(p) == Prefix(p, Len(p) - 1)

Sibling(p) == Child(Parent(p), 1 - p[Len(p)])

Children(S) == {Child(q, b) : q \in S, b \in {0, 1}}

\* The nodes a walk to p passes before it arrives.
Ancestors(p) == {Prefix(p, n) : n \in 0..Len(p) - 1}

-----------------------------------------------------------------------------
(* Nodes *)

\* generateHash: what a leaf and an internal node hash.
LeafLabel(k, v) == [leaf |-> TRUE, key |-> k, values |-> v]
NodeLabel(v, l, r) == [leaf |-> FALSE, values |-> v, left |-> l, right |-> r]

\* A node outside any transaction.  "backup" is empty or holds the one copy
\* taken by node.backup; "shares" are the unlinked nodes whose values slice
\* this node uses as its own (Remove assigns the slice, it does not copy it).
Node(k, v, l) ==
    [key |-> k, values |-> v, label |-> l,
     inconsistent |-> FALSE, backup |-> {}, shares |-> {}]

LeafNode(k, v) == Node(k, v, LeafLabel(k, v))

PlaceholderValues == [f \in Fields |-> PlaceholderValue]

IsLeaf(T, p) == Child(p, 0) \notin DOMAIN T

IsPlaceholder(T, p) == IsLeaf(T, p) /\ T[p].key = NoKey

Touched(n) == n.inconsistent \/ n.backup # {}

\* The leaf at which the walk of Add, Set, Remove and Record along the bits
\* of k ends.
Landing(T, k) ==
    CHOOSE p \in DOMAIN T : IsLeaf(T, p) /\ p = Prefix(PathOf[k], Len(p))

\* Mutant of Backup: every call overwrites the copy taken before.
LatestBackup(n, tx) ==
    IF tx
    THEN {[key |-> n.key, values |-> n.values, label |-> n.label, inconsistent |-> n.inconsistent]}
    ELSE {}

\* Mutant of Backup: the copies pile up.
EveryBackup(n, tx) == n.backup \cup LatestBackup(n, tx)

\* node.backup: only the first backup of a transaction is kept.  The children
\* it points to are those in the tree, or the ones Remove unlinks.
Backup(n, tx) ==
    IF tx /\ n.backup = {}
    THEN {[key |-> n.key, values |-> n.values, label |-> n.label, inconsistent |-> n.inconsistent]}
    ELSE n.backup

\* node.restore
Restore(n) ==
    IF n.backup = {} THEN n
    ELSE LET b == CHOOSE b \in n.backup : TRUE
         IN  [Node(b.key, b.values, b.label) EXCEPT !.inconsistent = b.inconsistent]

\* Collection.update on the node p, whose children are in N.
update(T, N, p) ==
    IF IsLeaf(T, p)
    THEN [T[p] EXCEPT !.label = LeafLabel(T[p].key, T[p].values)]
    ELSE LET l == N[Child(p, 0)]
             r == N[Child(p, 1)]
             v == [f \in Fields |-> ParentValue(l.values[f], r.values[f])]
         IN  [T[p] EXCEPT !.values = v, !.label = NodeLabel(v, l.label, r.label)]

\* update on every node of S, children before parents.
Updated(T, S) ==
    LET N[p \in DOMAIN T] == IF p \in S THEN update(T, N, p) ELSE T[p]
    IN  N

\* Mutant of Propagate: the loop stops at the parent.
PropagateOnce(T, p, tx) ==
    LET S == {a \in Ancestors(p) : Len(a) = Len(p) - 1}
    IN  IF tx
        THEN [q \in DOMAIN T |-> IF q \in S THEN [T[q] EXCEPT !.inconsistent = TRUE] ELSE T[q]]
        ELSE Updated(T, S)

\* The upward loop that ends Add, Set and Remove: inside a transaction the
\* ancestors are only marked, outside they are updated at once.
Propagate(T, p, tx) ==
    IF tx
    THEN [q \in DOMAIN T |-> IF q \in Ancestors(p)
                             THEN [T[q] EXCEPT !.inconsistent = TRUE]
                             ELSE T[q]]
    ELSE Updated(T, Ancestors(p))

-----------------------------------------------------------------------------
(* New: a root with two placeholders *)

EmptyTree ==
    Updated([p \in {Root, Child(Root, 0), Child(Root, 1)} |-> LeafNode(NoKey, PlaceholderValues)],
            {Root})

-----------------------------------------------------------------------------
(* Add *)

\* Storing a pair in the placeholder at p.
Fill(T, p, k, v, tx) ==
    [T EXCEPT ![p] = [LeafNode(k, v) EXCEPT !.inconsistent = T[p].inconsistent,
                                            !.backup = Backup(T[p], tx)]]

\* The number of bits two different keys share.
CommonBits(k, c) ==
    CHOOSE n \in 0..Depth - 1 :
        /\ \A i \in 1..n : PathOf[k][i] = PathOf[c][i]
        /\ PathOf[k][n + 1] # PathOf[c][n + 1]

\* The nodes from p down to the last one on the way of both keys.
Inner(p, k, c) == {Prefix(PathOf[k], m) : m \in Len(p)..CommonBits(k, c)}

\* The leaf at p holds another key c: the leaf is pushed down, one bit per
\* turn of the loop, until the paths of k and c part.  Each node the loop
\* splits was a leaf holding c and is backed up as such; on the way of c the
\* siblings become placeholders, and the last placeholder receives k.
Split(T, p, k, v, tx) ==
    LET c      == T[p].key
        n      == CommonBits(k, c)
        inner  == Inner(p, k, c)
        home   == Prefix(PathOf[k], n + 1)
        moved  == [LeafNode(c, T[p].values) EXCEPT !.label = T[p].label,
                                                   !.shares = T[p].shares]
        open(m) == [m EXCEPT !.key = NoKey, !.shares = {}, !.backup = Backup(m, tx)]
        below  == Children(inner)
        split  == [q \in DOMAIN T \cup below |->
                      IF q = Prefix(PathOf[c], n + 1) THEN moved
                      ELSE IF q = p THEN open(T[p])
                      ELSE IF q \in inner THEN open(moved)
                      ELSE IF q \in below THEN LeafNode(NoKey, PlaceholderValues)
                      ELSE T[q]]
    IN  Fill(split, home, k, v, tx)

AddedAt(T, k) ==
    LET p == Landing(T, k)
    IN  IF T[p].key = NoKey THEN p ELSE Prefix(PathOf[k], CommonBits(k, T[p].key) + 1)

Added(T, k, v, tx) ==
    LET p == Landing(T, k)
        S == IF T[p].key = NoKey THEN Fill(T, p, k, v, tx) ELSE Split(T, p, k, v, tx)
    IN  Propagate(S, AddedAt(T, k), tx)

-----------------------------------------------------------------------------
(* Set *)

\* Mutant of Overwrite: Same is stored like a value.
OverwriteAll(old, upd) == upd

\* The values of a field marked Same are kept.
Overwrite(old, upd) == [f \in Fields |-> IF upd[f] = Same THEN old[f] ELSE upd[f]]

Written(T, k, upd, tx) ==
    LET p == Landing(T, k)
        v == Overwrite(T[p].values, upd)
        W == [T EXCEPT ![p] = [T[p] EXCEPT !.values = v, !.label = LeafLabel(T[p].key, v),
                                           !.backup = Backup(T[p], tx)]]
    IN  Propagate(W, p, tx)

\* The write goes through the values slice, so the unlinked nodes that share
\* the slice see it too.
WrittenDetached(T, D, k, upd) ==
    LET p == Landing(T, k)
    IN  [q \in DOMAIN D |-> IF q \in T[p].shares
                            THEN [D[q] EXCEPT !.values = Overwrite(@, upd)]
                            ELSE D[q]]

-----------------------------------------------------------------------------
(* Remove *)

\* setPlaceholder on the leaf at p
Cleared(T, p, tx) == Fill(T, p, NoKey, PlaceholderValues, tx)

\* Mutant of Collapsing: only the parent collapses.
CollapsingOnce(T, p) ==
    IF Len(p) < 2 \/ ~IsLeaf(T, Sibling(p)) THEN {} ELSE {Parent(p)}

\* The internal nodes above the cleared leaf p that the upward loop turns
\* into leaves: the parent when p's sibling is a leaf, then every node up to
\* which all siblings met are placeholders; never the root.
Collapsing(T, p) ==
    IF Len(p) < 2 \/ ~IsLeaf(T, Sibling(p)) THEN {}
    ELSE {Prefix(p, m) : m \in {m \in 1..Len(p) - 1 :
              \A j \in m + 1..Len(p) - 1 : IsPlaceholder(T, Sibling(Prefix(p, j)))}}

\* The topmost of them, or p itself: the node whose ancestors stay internal.
Top(T, p) ==
    CHOOSE q \in Collapsing(T, p) \cup {p} : \A o \in Collapsing(T, p) : Len(q) <= Len(o)

\* The node at q of Collapsing once it holds the surviving sibling s of p.
Collapse(T, q, s, held, tx) ==
    [T[q] EXCEPT !.key = T[s].key, !.values = T[s].values, !.label = T[s].label,
                 !.backup = Backup(T[q], tx),
                 !.shares = (T[s].shares \cup {s}) \cap held]

\* Mutant of Unlinked: a backup does not hold the children.
UnlinkedNone(T, p, tx) == {}

\* The nodes that stay reachable from a backup taken by this Remove: the
\* children of a collapsing node that had no backup yet.
Unlinked(T, p, tx) ==
    Children({q \in Collapsing(T, p) : tx /\ T[q].backup = {}})

Removed(T, D, k, tx) ==
    LET p    == Landing(T, k)
        C    == Cleared(T, p, tx)
        up   == Collapsing(C, p)
        top  == Top(C, p)
        gone == Unlinked(C, p, tx)
        held == gone \cup DOMAIN D
        S    == [q \in DOMAIN C |-> IF q \in up
                                    THEN Collapse(C, q, Sibling(p), held, tx) ELSE C[q]]
        live == {q \in DOMAIN C : up = {} \/ top \notin Ancestors(q)}
    IN  [tree     |-> Propagate([q \in live |-> S[q]], top, tx),
         detached |-> [q \in held |-> IF q \in gone THEN S[q] ELSE D[q]]]

-----------------------------------------------------------------------------
(* Rollback and End *)

\* The node that is at q once every backup is restored: an unlinked node
\* comes back in place of a node created at the same path since.
Held(T, D, q) == IF q \in DOMAIN D THEN D[q] ELSE T[q]

\* Rollback: explore descends from the root through touched nodes only.
RolledBack(T, D) ==
    LET old == DOMAIN D \cup {q \in DOMAIN T : \A a \in Ancestors(q) : T[a].backup = {}}
    IN  [q \in old |->
            IF \A a \in Ancestors(q) \cup {q} : Touched(Held(T, D, a))
            THEN Restore(Held(T, D, q)) ELSE Held(T, D, q)]

\* confirm: the backups of the nodes reached through touched nodes go.
Confirmed(T) ==
    [q \in DOMAIN T |->
        IF \A a \in Ancestors(q) \cup {q} : Touched(T[a])
        THEN [T[q] EXCEPT !.backup = {}, !.shares = {}] ELSE T[q]]

\* Mutant of Fixed: parents are updated before their children.
FixedTopDown(T) ==
    LET S == {q \in DOMAIN T : \A a \in Ancestors(q) \cup {q} : T[a].inconsistent}
    IN  [q \in DOMAIN T |-> IF q \in S THEN [Updated(T, {q})[q] EXCEPT !.inconsistent = FALSE]
                            ELSE T[q]]

\* fix: the nodes reached through inconsistent nodes are updated and cleared.
Fixed(T) ==
    LET S == {q \in DOMAIN T : \A a \in Ancestors(q) \cup {q} : T[a].inconsistent}
        U == Updated(T, S)
    IN  [q \in DOMAIN T |-> IF q \in S THEN [U[q] EXCEPT !.inconsistent = FALSE] ELSE U[q]]

-----------------------------------------------------------------------------
(* Reading a tree *)

\* Getter.Record: whether the key is found, and with which values.
Found(T, k) == k # NoKey /\ T[Landing(T, k)].key = k

Stored(T) == {k \in Keys : Found(T, k)}

Contents(T) == [k \in Stored(T) |-> T[Landing(T, k)].values]

\* The tree that adding the associations C one by one to an empty collection
\* builds.
Built(C) == FoldSet(LAMBDA k, T : Added(T, k, C[k], FALSE), EmptyTree, DOMAIN C)

-----------------------------------------------------------------------------
(* What a tree must be *)

\* A node holds a key or none and at most one backup, of which the same is
\* true (struct node).
NodeOK(n) ==
    /\ n.key \in Keys \cup {NoKey}
    /\ n.inconsistent \in BOOLEAN
    /\ \A b \in n.backup : /\ b.key \in Keys \cup {NoKey}
                           /\ b.inconsistent \in BOOLEAN
                           /\ n.backup = {b}

\* Whether at least two of the keys S lie below p.
Crowded(p, S) ==
    \E k, c \in S : k # c /\ p = Prefix(PathOf[k], Len(p)) /\ p = Prefix(PathOf[c], Len(p))

\* The nodes that a split on the way of k puts below the second level.
Steps(k) == {Child(Prefix(PathOf[k], n), b) : n \in 1..Depth - 1, b \in {0, 1}}

\* The shape of a tree that stores the keys S, whatever calls led to it: the
\* root and its children, and the children of every node with two keys below.
CanonicalPaths(S) ==
    {Root, Child(Root, 0), Child(Root, 1)} \cup
    {q \in UNION {Steps(k) : k \in S} : Crowded(Parent(q), S)}

KeysIn(T) == {T[p].key : p \in DOMAIN T} \ {NoKey}

\* The rules of a collection tree (collection/README.md): keys do not repeat,
\* the root is internal, a leaf lies on the path of its key, a node other than
\* the root never has just one leaf below it.  The last one says that the
\* shape is the canonical one of the stored keys, so it also rules out trees
\* that depend on the order of the calls that built them.
WellFormed(T) ==
    /\ \A p, q \in DOMAIN T : T[p].key = T[q].key /\ T[p].key # NoKey => p = q
    /\ \A p \in DOMAIN T : T[p].key # NoKey =>
            IsLeaf(T, p) /\ p = Prefix(PathOf[T[p].key], Len(p))
    /\ DOMAIN T = CanonicalPaths(KeysIn(T))

\* A node carries the values and the label its children (or its own pair)
\* give, which update computes.
UpToDate(T, p) ==
    IF IsLeaf(T, p) THEN T[p].label = LeafLabel(T[p].key, T[p].values)
    ELSE LET l == T[Child(p, 0)]
             r == T[Child(p, 1)]
         IN  /\ T[p].values = [f \in Fields |-> ParentValue(l.values[f], r.values[f])]
             /\ T[p].label = NodeLabel(T[p].values, l.label, r.label)

=============================================================================
