---------------------------- MODULE MCThreadPool ----------------------------
(* Two workers, two enqueuing threads and three closures: enough for a       *)
(* worker to be between the predicate and the block while the other pops,    *)
(* for two notifications to be under way at once, and for a queue longer     *)
(* than one.  Word = 4 lets the counter wrap.                                *)
EXTENDS ThreadPool, TLC

CONSTANTS w1, w2, p1, p2, t1, t2, t3

MCWorkers == {w1, w2}
MCProducers == {p1, p2}
MCTasks == {t1, t2, t3}

=============================================================================
