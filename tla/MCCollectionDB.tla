--------------------------- MODULE MCCollectionDB ---------------------------
(* Two objects, two values, two contracts. *)
EXTENDS CollectionDB

MCObjects == {"o", "p"}
MCValues == {"v", "w"}
MCContracts == {"config", "darc"}

=============================================================================
