------------------------------ MODULE TaskPool ------------------------------
(***************************************************************************)
(* What divine::ThreadPool (src/src/phi_threadpool.h) promises the code     *)
(* that hands it closures: every closure is started at most once, closures  *)
(* are started in the order they were submitted, and the pool is gone only  *)
(* when nothing it accepted is left.  No thread, lock or wake-up appears    *)
(* here; module ThreadPool implements this one.                             *)
(***************************************************************************)
EXTENDS Naturals, Sequences

CONSTANT Tasks          \* the closures that may be submitted, all distinct

VARIABLES
  pending,              \* submitted and not started, oldest first
  inProgress,           \* being executed by some thread
  finished,             \* executed to the end
  open                  \* FALSE once the owner has destroyed the pool

poolVars == <<pending, inProgress, finished, open>>

Queued == {pending[i] : i \in 1..Len(pending)}

Init ==
  /\ pending = <<>>
  /\ inProgress = {}
  /\ finished = {}
  /\ open = TRUE

Submit(t) ==
  /\ open
  /\ t \notin Queued \cup inProgress \cup finished
  /\ pending' = Append(pending, t)
  /\ UNCHANGED <<inProgress, finished, open>>

Start ==
  /\ pending # <<>>
  /\ pending' = Tail(pending)
  /\ inProgress' = inProgress \cup {Head(pending)}
  /\ UNCHANGED <<finished, open>>

Complete(t) ==
  /\ t \in inProgress
  /\ inProgress' = inProgress \ {t}
  /\ finished' = finished \cup {t}
  /\ UNCHANGED <<pending, open>>

Close ==
  /\ open
  /\ pending = <<>>
  /\ inProgress = {}
  /\ open' = FALSE
  /\ UNCHANGED <<pending, inProgress, finished>>

Next ==
  \/ \E t \in Tasks : Submit(t) \/ Complete(t)
  \/ Start
  \/ Close

Spec == Init /\ [][Next]_poolVars

=============================================================================
