----------------------------- MODULE ThreadPool -----------------------------
(***************************************************************************)
(* divine::ThreadPool, src/src/phi_threadpool.h: worker threads that share  *)
(* one queue of closures under one mutex and one condition variable.        *)
(*                                                                         *)
(* The lock hand-off is modelled step by step, because the destructor      *)
(* writes `running` without taking the mutex: a worker that has evaluated   *)
(* the wait predicate and has not yet blocked is a state of its own         *)
(* ("block"), and a notification sent while a worker is in it reaches       *)
(* nobody.  active_tasks is a plain size_t, incremented under the mutex     *)
(* and decremented outside it: each update is a load into a register        *)
(* (reg) and a store.                                                       *)
(***************************************************************************)
EXTENDS Naturals, Sequences, FiniteSets

CONSTANTS
  Workers,      \* the threads the constructor starts
  Producers,    \* the threads that call enqueue
  Tasks,        \* the closures submitted; a bound on the number of enqueues
  Word,         \* 2^64 in the build: size_t arithmetic is modulo Word
  NoOne,        \* the mutex is free
  NoTask        \* a worker holds no closure

ASSUME ThreadPoolAssumption ==
  /\ Workers # {}              \* the constructor starts four or more by default
  /\ Workers \cap Producers = {}
  /\ NoOne \notin Workers \cup Producers
  /\ NoTask \notin Tasks
  /\ Word \in Nat \ {0}

VARIABLES
  tasks,          \* the queue
  running,        \* the atomic flag the destructor clears
  active_tasks,   \* the counter active() returns
  queue_mutex,    \* the thread that holds the mutex, or NoOne
  waiters,        \* workers blocked in condition.wait
  pc,             \* where each worker and each producer is
  task,           \* the closure a worker holds
  reg,            \* the counter value a worker has loaded and not stored back
  submitted,      \* every closure ever pushed
  finished,       \* the closures that ran to the end, in no order
  dtor            \* progress of ~ThreadPool

vars == <<tasks, running, active_tasks, queue_mutex, waiters, pc, task, reg,
          submitted, finished, dtor>>

WorkerPC == {"acquire", "block", "waiting", "fetch", "count", "run", "uncount",
             "exited"}
ProducerPC == {"idle", "push", "notify"}
Threads == Workers \cup Producers

TypeOK ==
  /\ tasks \in Seq(Tasks)
  /\ running \in BOOLEAN
  /\ active_tasks \in 0..Word-1
  /\ queue_mutex \in Threads \cup {NoOne}
  /\ waiters \subseteq Workers
  /\ pc \in [Threads -> WorkerPC \cup ProducerPC]
  /\ \A w \in Workers : pc[w] \in WorkerPC
  /\ \A p \in Producers : pc[p] \in ProducerPC
  /\ task \in [Workers -> Tasks \cup {NoTask}]
  /\ reg \in [Workers -> 0..Word-1]
  /\ submitted \subseteq Tasks
  /\ finished \subseteq Tasks
  /\ dtor \in {"alive", "flagged", "joining", "destroyed"}

Init ==
  /\ tasks = <<>>
  /\ running = TRUE
  /\ active_tasks = 0
  /\ queue_mutex = NoOne
  /\ waiters = {}
  /\ pc = [t \in Threads |-> IF t \in Workers THEN "acquire" ELSE "idle"]
  /\ task = [w \in Workers |-> NoTask]
  /\ reg = [w \in Workers |-> 0]
  /\ submitted = {}
  /\ finished = {}
  /\ dtor = "alive"

Goto(t, label) == pc' = [pc EXCEPT ![t] = label]

-----------------------------------------------------------------------------
(* The worker loop. *)

WaitPredicate == ~running \/ tasks # <<>>

(* Seeded fault: wait(lock) without a predicate.                             *)
Acquire_NoPredicate(w) ==
  /\ pc[w] = "acquire"
  /\ queue_mutex = NoOne
  /\ queue_mutex' = w
  /\ Goto(w, "fetch")
  /\ UNCHANGED <<tasks, running, active_tasks, waiters, task, reg, submitted,
                 finished, dtor>>

(* Take the mutex, on entry or after a wake-up, and evaluate the predicate   *)
(* of condition.wait.                                                        *)
Acquire(w) ==
  /\ pc[w] = "acquire"
  /\ queue_mutex = NoOne
  /\ queue_mutex' = w
  /\ Goto(w, IF WaitPredicate THEN "fetch" ELSE "block")
  /\ UNCHANGED <<tasks, running, active_tasks, waiters, task, reg, submitted,
                 finished, dtor>>

(* Release the mutex and block, in one step as the condition variable does.  *)
Block(w) ==
  /\ pc[w] = "block"
  /\ queue_mutex' = NoOne
  /\ waiters' = waiters \cup {w}
  /\ Goto(w, "waiting")
  /\ UNCHANGED <<tasks, running, active_tasks, task, reg, submitted, finished,
                 dtor>>

Woken(w) ==
  /\ pc[w] = "waiting"
  /\ w \notin waiters
  /\ Goto(w, "acquire")
  /\ UNCHANGED <<tasks, running, active_tasks, queue_mutex, waiters, task, reg,
                 submitted, finished, dtor>>

(* The standard lets a wait return without a notification. *)
SpuriousWakeup(w) ==
  /\ pc[w] = "waiting"
  /\ w \in waiters
  /\ waiters' = waiters \ {w}
  /\ UNCHANGED <<tasks, running, active_tasks, queue_mutex, pc, task, reg,
                 submitted, finished, dtor>>

(* Seeded fault: return as soon as the pool is stopped.                      *)
Exit_Undrained(w) ==
  /\ pc[w] = "fetch"
  /\ ~running
  /\ queue_mutex' = NoOne
  /\ Goto(w, "exited")
  /\ UNCHANGED <<tasks, running, active_tasks, waiters, task, reg, submitted,
                 finished, dtor>>

(* A stopped pool with an empty queue ends the worker; otherwise it pops.    *)
Exit(w) ==
  /\ pc[w] = "fetch"
  /\ ~running /\ tasks = <<>>
  /\ queue_mutex' = NoOne
  /\ Goto(w, "exited")
  /\ UNCHANGED <<tasks, running, active_tasks, waiters, task, reg, submitted,
                 finished, dtor>>

(* Seeded fault: front() without pop().                                      *)
Fetch_NoPop(w) ==
  /\ pc[w] = "fetch"
  /\ running \/ tasks # <<>>
  /\ task' = [task EXCEPT ![w] = Head(tasks)]
  /\ reg' = [reg EXCEPT ![w] = active_tasks]
  /\ Goto(w, "count")
  /\ UNCHANGED <<tasks, running, active_tasks, queue_mutex, waiters, submitted,
                 finished, dtor>>

(* Seeded fault: the newest closure first.                                   *)
Fetch_Newest(w) ==
  /\ pc[w] = "fetch"
  /\ running \/ tasks # <<>>
  /\ task' = [task EXCEPT ![w] = tasks[Len(tasks)]]
  /\ tasks' = SubSeq(tasks, 1, Len(tasks) - 1)
  /\ reg' = [reg EXCEPT ![w] = active_tasks]
  /\ Goto(w, "count")
  /\ UNCHANGED <<running, active_tasks, queue_mutex, waiters, submitted,
                 finished, dtor>>

Fetch(w) ==
  /\ pc[w] = "fetch"
  /\ running \/ tasks # <<>>
  /\ task' = [task EXCEPT ![w] = Head(tasks)]
  /\ tasks' = Tail(tasks)
  /\ reg' = [reg EXCEPT ![w] = active_tasks]
  /\ Goto(w, "count")
  /\ UNCHANGED <<running, active_tasks, queue_mutex, waiters, submitted,
                 finished, dtor>>

(* The store of active_tasks++ and the unlock at the end of the block. *)
CountUp(w) ==
  /\ pc[w] = "count"
  /\ active_tasks' = (reg[w] + 1) % Word
  /\ queue_mutex' = NoOne
  /\ Goto(w, "run")
  /\ UNCHANGED <<tasks, running, waiters, task, reg, submitted, finished, dtor>>

(* The closure runs to its end; then active_tasks-- loads the counter. *)
RunTask(w) ==
  /\ pc[w] = "run"
  /\ finished' = finished \cup {task[w]}
  /\ task' = [task EXCEPT ![w] = NoTask]
  /\ reg' = [reg EXCEPT ![w] = active_tasks]
  /\ Goto(w, "uncount")
  /\ UNCHANGED <<tasks, running, active_tasks, queue_mutex, waiters, submitted,
                 dtor>>

(* Seeded fault: a counter that does not wrap as size_t does.                *)
CountDown_NoWrap(w) ==
  /\ pc[w] = "uncount"
  /\ active_tasks' = reg[w] - 1
  /\ Goto(w, "acquire")
  /\ UNCHANGED <<tasks, running, queue_mutex, waiters, task, reg, submitted,
                 finished, dtor>>

CountDown(w) ==
  /\ pc[w] = "uncount"
  /\ active_tasks' = (reg[w] + Word - 1) % Word
  /\ Goto(w, "acquire")
  /\ UNCHANGED <<tasks, running, queue_mutex, waiters, task, reg, submitted,
                 finished, dtor>>

-----------------------------------------------------------------------------
(* enqueue: push under the mutex, notify one waiter after releasing it. *)

EnqueueLock(p) ==
  /\ pc[p] = "idle"
  /\ dtor = "alive"
  /\ Tasks \ submitted # {}
  /\ queue_mutex = NoOne
  /\ queue_mutex' = p
  /\ Goto(p, "push")
  /\ UNCHANGED <<tasks, running, active_tasks, waiters, task, reg, submitted,
                 finished, dtor>>

EnqueuePush(p) ==
  /\ pc[p] = "push"
  /\ \E t \in Tasks \ submitted :
       /\ tasks' = Append(tasks, t)
       /\ submitted' = submitted \cup {t}
  /\ queue_mutex' = NoOne
  /\ Goto(p, "notify")
  /\ UNCHANGED <<running, active_tasks, waiters, task, reg, finished, dtor>>

(* Seeded fault: no notification.                                            *)
NotifyOne_Dropped(p) ==
  /\ pc[p] = "notify"
  /\ Goto(p, "idle")
  /\ UNCHANGED <<tasks, running, active_tasks, queue_mutex, waiters, task, reg,
                 submitted, finished, dtor>>

NotifyOne(p) ==
  /\ pc[p] = "notify"
  /\ \/ waiters = {} /\ UNCHANGED waiters
     \/ \E w \in waiters : waiters' = waiters \ {w}
  /\ Goto(p, "idle")
  /\ UNCHANGED <<tasks, running, active_tasks, queue_mutex, task, reg,
                 submitted, finished, dtor>>

-----------------------------------------------------------------------------
(* ~ThreadPool.  Its caller has no enqueue under way: the owner that calls   *)
(* g_pool.reset() is the thread that called enqueue.                         *)

ClearRunning ==
  /\ dtor = "alive"
  /\ \A p \in Producers : pc[p] = "idle"
  /\ running' = FALSE
  /\ dtor' = "flagged"
  /\ UNCHANGED <<tasks, active_tasks, queue_mutex, waiters, pc, task, reg,
                 submitted, finished>>

NotifyAll ==
  /\ dtor = "flagged"
  /\ waiters' = {}
  /\ dtor' = "joining"
  /\ UNCHANGED <<tasks, running, active_tasks, queue_mutex, pc, task, reg,
                 submitted, finished>>

Join ==
  /\ dtor = "joining"
  /\ \A w \in Workers : pc[w] = "exited"
  /\ dtor' = "destroyed"
  /\ UNCHANGED <<tasks, running, active_tasks, queue_mutex, waiters, pc, task,
                 reg, submitted, finished>>

-----------------------------------------------------------------------------
Worker(w) ==
  \/ Acquire(w) \/ Block(w) \/ Woken(w) \/ Exit(w) \/ Fetch(w)
  \/ CountUp(w) \/ RunTask(w) \/ CountDown(w)

Enqueue(p) == EnqueueLock(p) \/ EnqueuePush(p) \/ NotifyOne(p)

Destructor == ClearRunning \/ NotifyAll \/ Join

Next ==
  \/ \E w \in Workers : Worker(w) \/ SpuriousWakeup(w)
  \/ \E p \in Producers : Enqueue(p)
  \/ Destructor

(* A thread that can run is eventually scheduled and a closure returns.  No  *)
(* call of enqueue, no destruction and no spurious wake-up is ever promised; *)
(* one that has begun goes on.                                               *)
Fairness ==
  /\ \A w \in Workers : WF_vars(Worker(w))
  /\ \A p \in Producers : WF_vars(EnqueuePush(p) \/ NotifyOne(p))
  /\ WF_vars(NotifyAll \/ Join)

SafetySpec == Init /\ [][Next]_vars
Spec == SafetySpec /\ Fairness

-----------------------------------------------------------------------------
(* Properties. *)

Queued == {tasks[i] : i \in 1..Len(tasks)}
Held == {task[w] : w \in Workers} \ {NoTask}

(* A closure that was pushed is in exactly one place -- once in the queue,   *)
(* in the hands of one worker, or finished: none is lost between the pop,    *)
(* the unlock and the call (lines 42-46), and none runs twice.               *)
TasksConserved ==
  /\ submitted = Queued \cup Held \cup finished
  /\ Queued \cap Held = {} /\ Queued \cap finished = {} /\ Held \cap finished = {}
  /\ \A i, j \in 1..Len(tasks) : tasks[i] = tasks[j] => i = j
  /\ \A v, w \in Workers : task[v] = task[w] /\ task[v] # NoTask => v = w

(* A worker about to pop finds a closure: front() and pop() of an empty      *)
(* std::queue (lines 42-43) are undefined, and `running` may change between  *)
(* the wait predicate and the test of line 41.                               *)
PopIsDefined ==
  \A w \in Workers : pc[w] = "fetch" /\ running => tasks # <<>>

(* The destructor returns only after everything the pool accepted has run:   *)
(* no worker leaves the loop (line 41) over a closure that is still queued.  *)
ShutdownDrains ==
  /\ \A w \in Workers : pc[w] = "exited" => tasks = <<>>
  /\ dtor = "destroyed" => submitted = finished

(* The notification is sent after the mutex is released (line 59), to any    *)
(* waiter or to none: still a pushed closure is eventually run, even when    *)
(* the pool is being destroyed.                                              *)
EveryTaskRuns == \A t \in Tasks : t \in submitted ~> t \in finished

(* The pool is a TaskPool. *)
AbstractPool == INSTANCE TaskPool WITH
  pending <- tasks, inProgress <- Held, open <- dtor # "destroyed"

ImplementsTaskPool == AbstractPool!Spec

(* "GRACEFUL SHUTDOWN" (src/src/phi_prod_v23.cpp:130-133): g_pool.reset()    *)
(* returns, after which the program reports that all data is persisted.      *)
ShutdownCompletes == dtor = "flagged" ~> dtor = "destroyed"

=============================================================================
