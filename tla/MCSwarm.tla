------------------------------ MODULE MCSwarm ------------------------------
(* Two base cores, as every program starts.  With the threshold of 1.5 tasks *)
(* per core, two callers add cores at the same time only when four others    *)
(* have tasks queued.  MCSwarm.cfg lowers the threshold to a third, so that  *)
(* two callers do: one has decided to add the third core, the other reads    *)
(* the size before it is added, and decides while the first one's next task  *)
(* is queued.  The swarm then has four cores with a MaxCores of three.       *)
EXTENDS Swarm

CONSTANTS c1, c2

TwoCallers == {c1, c2}

=============================================================================
