-------------------------------- MODULE MCDarc --------------------------------
(* Two darcs and two keys for TLC. *)
EXTENDS Darc

MCPolicies == {<<"k1">>, <<"k2">>, <<"a">>}
MCGroups == [a |-> {<<"k1">>, <<"b">>}, b |-> {<<"k1">>, <<"k1", "k2">>}]
MCSigners == {<<"k1">>, <<"k2">>, <<"k1", "k2">>}

=============================================================================
