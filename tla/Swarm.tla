------------------------------- MODULE Swarm -------------------------------
(***************************************************************************)
(* divine::PhiSwarm, src/src/phi_swarm.h: the engine that answers tickets in *)
(* the v13 to v20 programs.  process() leaves pointers into its own stack    *)
(* frame in a queue, wakes a core, waits for the promise and then looks at   *)
(* the number of cores and the load, without the mutex, to decide whether to *)
(* add cores.  What it read goes stale while other callers add cores.        *)
(*                                                                          *)
(* A critical section that does not block is one step; the exception is a    *)
(* core that has found nothing to do and holds the mutex until it blocks     *)
(* ("block").  An append to the vectors is one step, as if they were locked. *)
(* A core is known here by its place in threads, which is unique; the id it  *)
(* is given (the loop's i) need not be.  What the cores count is left out:   *)
(* tasks_processed, active and consciousness decide nothing.                 *)
(***************************************************************************)
EXTENDS Naturals, Sequences, FiniteSets

CONSTANTS
  Callers,      \* threads that call process
  BaseCores,    \* cores that start() creates
  MaxCores,     \* 50 in the code, where the loop that adds cores stops
  LoadNum,      \* more cores are added when there are more than
  LoadDen,      \* LoadNum / LoadDen tasks per core: 3 / 2 in the code
  NoTicket      \* a core has no task

ASSUME SwarmAssumption ==
  /\ BaseCores \in Nat \ {0, 1}
  /\ MaxCores \in Nat /\ BaseCores <= MaxCores
  /\ LoadNum \in Nat /\ LoadDen \in Nat \ {0}
  /\ NoTicket \notin Callers /\ IsFiniteSet(Callers)

(* The most cores there may be: every caller adds those from BaseCores on.   *)
Most == BaseCores + Cardinality(Callers) * (MaxCores - BaseCores)
Ids == 0..Most-1

VARIABLES
  task_queue,   \* tasks: the caller whose frame each one points into
  running,
  waiters,      \* cores blocked on the condition variable
  ncores,       \* cores.size()
  pc,           \* where each core is
  task,         \* the task a core has popped
  call,         \* where each caller is in process()
  answered,     \* *result has been written, for the call under way
  ready,        \* the promise of the call under way is set
  current,      \* scale()'s current, then its loop's i; BaseCores outside it
  stopper       \* progress of stop()

vars == <<task_queue, running, waiters, ncores, pc, task, call, answered, ready,
          current, stopper>>

TypeOK ==
  /\ task_queue \in Seq(Callers)
  /\ running \in BOOLEAN
  /\ waiters \subseteq Ids
  /\ ncores \in BaseCores..Most
  /\ pc \in [Ids -> {"unborn", "top", "lock", "block", "waiting", "work",
                     "publish", "exited"}]
  /\ task \in [Ids -> Callers \cup {NoTicket}]
  /\ call \in [Callers -> {"idle", "notify", "wait", "scale", "load", "grow"}]
  /\ answered \in [Callers -> BOOLEAN]
  /\ ready \in [Callers -> BOOLEAN]
  /\ current \in [Callers -> BaseCores..Most]
  /\ stopper \in {"none", "flagged", "joining", "stopped"}

(* The state start() leaves. *)
Init ==
  /\ task_queue = <<>>
  /\ running = TRUE
  /\ waiters = {}
  /\ ncores = BaseCores
  /\ pc = [i \in Ids |-> IF i < BaseCores THEN "top" ELSE "unborn"]
  /\ task = [i \in Ids |-> NoTicket]
  /\ call = [c \in Callers |-> "idle"]
  /\ answered = [c \in Callers |-> FALSE]
  /\ ready = [c \in Callers |-> FALSE]
  /\ current = [c \in Callers |-> BaseCores]
  /\ stopper = "none"

MutexFree == \A i \in Ids : pc[i] # "block"
Goto(i, label) == pc' = [pc EXCEPT ![i] = label]
Step(c, label) == call' = [call EXCEPT ![c] = label]

-----------------------------------------------------------------------------
(* A core. *)

(* while (running), read without the mutex. *)
Top(i) ==
  /\ pc[i] = "top"
  /\ Goto(i, IF running THEN "lock" ELSE "exited")
  /\ UNCHANGED <<task_queue, running, waiters, ncores, task, call, answered,
                 ready, current, stopper>>

(* The predicate is false: the core keeps the mutex until it blocks.         *)
FindNothing(i) ==
  /\ pc[i] = "lock" /\ MutexFree
  /\ running /\ task_queue = <<>>
  /\ Goto(i, "block")
  /\ UNCHANGED <<task_queue, running, waiters, ncores, task, call, answered,
                 ready, current, stopper>>

Block(i) ==
  /\ pc[i] = "block"
  /\ waiters' = waiters \cup {i}
  /\ Goto(i, "waiting")
  /\ UNCHANGED <<task_queue, running, ncores, task, call, answered, ready, current, stopper>>

Woken(i) ==
  /\ pc[i] = "waiting"
  /\ i \notin waiters
  /\ Goto(i, "lock")
  /\ UNCHANGED <<task_queue, running, waiters, ncores, task, call, answered,
                 ready, current, stopper>>

SpuriousWakeup(i) ==
  /\ pc[i] = "waiting"
  /\ i \in waiters
  /\ waiters' = waiters \ {i}
  /\ UNCHANGED <<task_queue, running, ncores, pc, task, call, answered, ready,
                 current, stopper>>

Leave(i) ==
  /\ pc[i] = "lock" /\ MutexFree
  /\ ~running /\ task_queue = <<>>
  /\ Goto(i, "exited")
  /\ UNCHANGED <<task_queue, running, waiters, ncores, task, call, answered,
                 ready, current, stopper>>

(* Seeded fault: front() without pop().                                      *)
Pop_Twice(i) ==
  /\ pc[i] = "lock" /\ MutexFree
  /\ task_queue # <<>>
  /\ task' = [task EXCEPT ![i] = Head(task_queue)]
  /\ Goto(i, "work")
  /\ UNCHANGED <<task_queue, running, waiters, ncores, call, answered, ready,
                 current, stopper>>

Pop(i) ==
  /\ pc[i] = "lock" /\ MutexFree
  /\ task_queue # <<>>
  /\ task' = [task EXCEPT ![i] = Head(task_queue)]
  /\ task_queue' = Tail(task_queue)
  /\ Goto(i, "work")
  /\ UNCHANGED <<running, waiters, ncores, call, answered, ready, current, stopper>>

(* Seeded fault: the promise is set before the answer is written.            *)
Work_EarlyPromise(i) ==
  /\ pc[i] = "work"
  /\ ready' = [ready EXCEPT ![task[i]] = TRUE]
  /\ Goto(i, "publish")
  /\ UNCHANGED <<task_queue, running, waiters, ncores, task, call, answered,
                 current, stopper>>

(* *task.result = ai_engine.process_ticket(...), and the core's own counters.*)
Work(i) ==
  /\ pc[i] = "work"
  /\ answered' = [answered EXCEPT ![task[i]] = TRUE]
  /\ Goto(i, "publish")
  /\ UNCHANGED <<task_queue, running, waiters, ncores, task, call, ready, current, stopper>>

(* total_processed++ and set_value(), the last use of the caller's frame.    *)
Publish(i) ==
  /\ pc[i] = "publish"
  /\ ready' = [ready EXCEPT ![task[i]] = TRUE]
  /\ task' = [task EXCEPT ![i] = NoTicket]
  /\ Goto(i, "top")
  /\ UNCHANGED <<task_queue, running, waiters, ncores, call, answered, current, stopper>>

-----------------------------------------------------------------------------
(* process(). *)

Push(c) ==
  /\ call[c] = "idle" /\ stopper = "none"
  /\ MutexFree
  /\ task_queue' = Append(task_queue, c)
  /\ answered' = [answered EXCEPT ![c] = FALSE]
  /\ ready' = [ready EXCEPT ![c] = FALSE]
  /\ Step(c, "notify")
  /\ UNCHANGED <<running, waiters, ncores, pc, task, current, stopper>>

(* Seeded fault: wake a core only when the queue has grown to two.           *)
NotifyOne_Lazy(c) ==
  /\ call[c] = "notify"
  /\ \/ (Len(task_queue) < 2 \/ waiters = {}) /\ UNCHANGED waiters
     \/ Len(task_queue) >= 2 /\ \E i \in waiters : waiters' = waiters \ {i}
  /\ Step(c, "wait")
  /\ UNCHANGED <<task_queue, running, ncores, pc, task, answered, ready, current, stopper>>

NotifyOne(c) ==
  /\ call[c] = "notify"
  /\ \/ waiters = {} /\ UNCHANGED waiters
     \/ \E i \in waiters : waiters' = waiters \ {i}
  /\ Step(c, "wait")
  /\ UNCHANGED <<task_queue, running, ncores, pc, task, answered, ready, current, stopper>>

Await(c) ==
  /\ call[c] = "wait"
  /\ ready[c]
  /\ Step(c, "scale")
  /\ UNCHANGED <<task_queue, running, waiters, ncores, pc, task, answered, ready,
                 current, stopper>>

(* The end of the call, and of scale()'s local variable. *)
Return(c) ==
  /\ Step(c, "idle")
  /\ current' = [current EXCEPT ![c] = BaseCores]

(* scale() reads the number of cores, without the mutex. *)
Scale(c) ==
  /\ call[c] = "scale"
  /\ current' = [current EXCEPT ![c] = ncores]
  /\ Step(c, "load")
  /\ UNCHANGED <<task_queue, running, waiters, ncores, pc, task, answered, ready,
                 stopper>>

(* Then the length of the queue, without the mutex either: load > 1.5.  The  *)
(* loop runs from the count it read.                                         *)
LookAtLoad(c) ==
  /\ call[c] = "load"
  /\ IF LoadDen * Len(task_queue) > LoadNum * current[c] /\ current[c] < MaxCores
     THEN Step(c, "grow") /\ UNCHANGED current
     ELSE Return(c)
  /\ UNCHANGED <<task_queue, running, waiters, ncores, pc, task, answered, ready,
                 stopper>>

(* Seeded fault: the loop that adds cores does not stop at 50.               *)
Grow_Unbounded(c) ==
  /\ call[c] = "grow"
  /\ ncores' = ncores + 1
  /\ pc' = [pc EXCEPT ![ncores] = "top"]
  /\ \/ Return(c)
     \/ current' = [current EXCEPT ![c] = @ + 1] /\ UNCHANGED call
  /\ UNCHANGED <<task_queue, running, waiters, task, answered, ready, stopper>>

(* One round of the loop.  It goes up to base * phi^(cores - base + 1),      *)
(* which reads the size anew and is more than current when base is at least  *)
(* 2, and stops at MaxCores.  How many rounds there are is left open.        *)
Grow(c) ==
  /\ call[c] = "grow"
  /\ ncores' = ncores + 1
  /\ pc' = [pc EXCEPT ![ncores] = "top"]
  /\ \/ Return(c)
     \/ /\ current[c] + 1 < MaxCores
        /\ current' = [current EXCEPT ![c] = @ + 1] /\ UNCHANGED call
  /\ UNCHANGED <<task_queue, running, waiters, task, answered, ready, stopper>>

-----------------------------------------------------------------------------
(* stop(), called when no process() is under way, as the programs do. *)

ClearRunning ==
  /\ stopper = "none"
  /\ \A c \in Callers : call[c] = "idle"
  /\ running' = FALSE
  /\ stopper' = "flagged"
  /\ UNCHANGED <<task_queue, waiters, ncores, pc, task, call, answered, ready, current>>

NotifyAll ==
  /\ stopper = "flagged"
  /\ waiters' = {}
  /\ stopper' = "joining"
  /\ UNCHANGED <<task_queue, running, ncores, pc, task, call, answered, ready, current>>

Join ==
  /\ stopper = "joining"
  /\ \A i \in Ids : pc[i] \in {"unborn", "exited"}
  /\ stopper' = "stopped"
  /\ UNCHANGED <<task_queue, running, waiters, ncores, pc, task, call, answered,
                 ready, current>>

-----------------------------------------------------------------------------
Core(i) ==
  \/ Top(i) \/ FindNothing(i) \/ Block(i) \/ Woken(i) \/ Leave(i)
  \/ Pop(i) \/ Work(i) \/ Publish(i)

Process(c) == NotifyOne(c) \/ Await(c) \/ Scale(c) \/ LookAtLoad(c) \/ Grow(c)

Next ==
  \/ \E i \in Ids : Core(i) \/ SpuriousWakeup(i)
  \/ \E c \in Callers : Push(c) \/ Process(c)
  \/ ClearRunning \/ NotifyAll \/ Join

(* Cores and callers inside process() are scheduled.  Nobody has to call     *)
(* process() or stop().                                                      *)
Fairness ==
  /\ \A i \in Ids : WF_vars(Core(i))
  /\ \A c \in Callers : WF_vars(Process(c))

SafetySpec == Init /\ [][Next]_vars
Spec == SafetySpec /\ Fairness

-----------------------------------------------------------------------------
(* Properties. *)

(* A core writes *result and sets *done through pointers into the caller's   *)
(* stack (line 112): while a task is queued or a core still holds it, the    *)
(* call has not returned, and no two tasks point into one frame.             *)
FrameAlive ==
  /\ \A i \in Ids : task[i] # NoTicket =>
       /\ call[task[i]] \in {"notify", "wait"}
       /\ \A j \in Ids : task[j] = task[i] => j = i
  /\ \A k \in 1..Len(task_queue) :
       /\ call[task_queue[k]] \in {"notify", "wait"}
       /\ \A i \in Ids : task[i] # task_queue[k]
       /\ \A l \in 1..Len(task_queue) : task_queue[l] = task_queue[k] => l = k

(* process() returns an answer, never the empty string it started with.      *)
ReturnsAnswer == \A c \in Callers : call[c] \in {"scale", "load", "grow"} => answered[c]

(* Every call of process() returns. *)
EveryTicketAnswered == \A c \in Callers : call[c] = "notify" ~> call[c] = "idle"

=============================================================================
