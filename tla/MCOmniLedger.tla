---------------------------- MODULE MCOmniLedger ----------------------------
(* Small rosters for TLC. *)
EXTENDS OmniLedger

CONSTANTS n1, n2, x, k1, k2, t1, t2

TwoNodes == {n1, n2}
OneChain == {x}
TwoClients == {k1, k2}
TwoTxs == {t1, t2}
OneTx == {t1}

=============================================================================
