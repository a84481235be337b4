------------------------------ MODULE MCVerifier ------------------------------
(* A verifier of four keys, with scope None or a scope of one mask. *)
EXTENDS Verifier

\* b and d part at the fourth bit, a leaves them at the third and c at the first.
MCPathOf ==
    [k \in Keys \cup {NoKey} |->
        CASE k = "a" -> <<0, 0, 0, 0>>
          [] k = "b" -> <<0, 0, 1, 0>>
          [] k = "c" -> <<1, 0, 0, 0>>
          [] k = "d" -> <<0, 0, 1, 1>>
          [] OTHER   -> <<0, 1, 0, 0>>]

\* Stake64.Parent, as in MCCollection.
StakeParent(l, r) == (l + r) % 4

MCScopes == {{}, {<<1>>}, {<<0, 0>>}}

Call(n, k, v) == [name |-> n, key |-> k, values |-> [f \in Fields |-> v]]

Update(present, absent, ops) ==
    [need |-> [k \in present \cup absent |-> k \in present], ops |-> ops]

\* Accounts are opened, three at once or one, a stake changes or stays what it
\* was, another changes as an account is opened beside one that is left alone,
\* and one is closed alone or as another gets more.
MCUpdates ==
    {Update({}, {"a", "b", "c"}, <<Call("Add", "a", 1), Call("Add", "b", 1), Call("Add", "c", 1)>>),
     Update({"a", "b"}, {}, <<Call("Set", "b", 2), Call("Remove", "a", 1)>>),
     Update({"c"}, {}, <<Call("Set", "c", 1)>>),
     Update({"c"}, {"d"}, <<Call("Set", "c", 2), Call("Add", "d", 1)>>),
     Update({"b"}, {"d"}, <<Call("Remove", "b", 1), Call("Add", "d", 2)>>),
     Update({"b"}, {}, <<Call("Remove", "b", 1)>>),
     Update({"b"}, {}, <<Call("Set", "b", 1)>>),
     Update({}, {"c"}, <<Call("Add", "c", 1)>>),
     Update({}, {"a"}, <<Call("Add", "a", 2)>>)}

=============================================================================
