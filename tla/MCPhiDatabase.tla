---------------------------- MODULE MCPhiDatabase ----------------------------
(***************************************************************************)
(* Four slots and three keys, two of which share their home slot.  The     *)
(* probe sequence visits the offsets 0, 2, 0, 3: it repeats one and misses *)
(* one, as the sequence of the real capacity does.                         *)
(***************************************************************************)
EXTENDS PhiDatabase, TLC

CONSTANTS k1, k2, k3

MCHash == k1 :> 0 @@ k2 :> 0 @@ k3 :> 2

=============================================================================
