------------------------------ MODULE MCPhiCore ------------------------------
(***************************************************************************)
(* A table of three slots and up to five tickets.  The names "TKT-1" to    *)
(* "TKT-9" differ in the last character, so their hashes are consecutive.  *)
(***************************************************************************)
EXTENDS PhiCore

MCHash == [n \in Ids |-> n]

=============================================================================
