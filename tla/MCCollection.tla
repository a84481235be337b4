---------------------------- MODULE MCCollection ----------------------------
(* Small collections for TLC: the fields hold stakes of two bits. *)
EXTENDS Collection

TwoKeys == {"a", "b"}
ThreeKeys == {"a", "b", "c"}
WithEmptyKey == ThreeKeys \cup {""}

\* a and b part at the third bit, c leaves them at the second; the empty key
\* lies next to c.
MCPathOf ==
    [k \in Keys \cup {NoKey} |->
        CASE k = "a" -> <<0, 0, 0>>
          [] k = "b" -> <<0, 0, 1>>
          [] k = "c" -> <<0, 1, 0>>
          [] OTHER   -> <<0, 1, 1>>]

\* Stake64.Parent: the sum, as an unsigned integer of two bits.
StakeParent(l, r) == (l + r) % 4

\* No step depends on the answer to the call before.
WithoutResult == <<tree, detached, ongoing, id, atBegin, calls>>

=============================================================================
