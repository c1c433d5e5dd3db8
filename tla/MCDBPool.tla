------------------------------ MODULE MCDBPool ------------------------------
(* Two connections and four threads: the pool must grow twice, and every     *)
(* order of returns permutes the queue.                                      *)
EXTENDS DBPool

CONSTANTS a, b, c, d

MCThreads == {a, b, c, d}

=============================================================================
