-------------------------- MODULE ThreadPoolProofs --------------------------
(***************************************************************************)
(* Proofs about ThreadPool for every set of workers, producers and          *)
(* closures.  The invariant IInv adds to the properties of ThreadPool what  *)
(* makes them inductive: who holds the mutex in which line of the code,     *)
(* when a worker holds a closure, and how far the destructor has got.       *)
(***************************************************************************)
EXTENDS ThreadPool, SequenceTheorems, TLAPS

(* The mutex is held in exactly the lines between a lock and its unlock.     *)
MutexInv ==
  /\ \A w \in Workers : pc[w] \in {"block", "fetch", "count"} <=> queue_mutex = w
  /\ \A p \in Producers : pc[p] = "push" <=> queue_mutex = p

(* A worker holds a closure from the pop to the end of the call. *)
HoldInv == \A w \in Workers : pc[w] \in {"count", "run"} <=> task[w] # NoTask

DtorInv ==
  /\ dtor = "alive" <=> running
  /\ dtor # "alive" => \A p \in Producers : pc[p] = "idle"
  /\ \A w \in Workers : pc[w] = "exited" => ~running /\ tasks = <<>>
  /\ dtor = "destroyed" => \A w \in Workers : pc[w] = "exited"

IInv ==
  /\ TypeOK
  /\ MutexInv
  /\ HoldInv
  /\ PopIsDefined
  /\ DtorInv
  /\ TasksConserved

(* The initial state satisfies the invariant. *)
LEMMA InitInv == Init => IInv
  <1> SUFFICES ASSUME Init PROVE IInv
    OBVIOUS
  <1> USE ThreadPoolAssumption DEF Init, Threads
  <1>1. TypeOK
    BY DEF TypeOK, WorkerPC, ProducerPC
  <1>2. MutexInv
    BY DEF MutexInv
  <1>3. HoldInv /\ PopIsDefined /\ DtorInv
    BY DEF HoldInv, PopIsDefined, DtorInv
  <1>4. TasksConserved
    BY DEF TasksConserved, Queued, Held
  <1>5. QED
    BY <1>1, <1>2, <1>3, <1>4 DEF IInv

(* Every step keeps every variable in its range. *)
LEMMA TypeStep == TypeOK /\ HoldInv /\ PopIsDefined /\ [Next]_vars => TypeOK'
  <1> SUFFICES ASSUME TypeOK, HoldInv, PopIsDefined, [Next]_vars PROVE TypeOK'
    OBVIOUS
  <1> USE ThreadPoolAssumption DEF TypeOK, Threads, WorkerPC, ProducerPC, Goto
  <1>1. ASSUME NEW w \in Workers, Acquire(w) \/ Block(w) \/ Woken(w) \/ Exit(w)
                                  \/ SpuriousWakeup(w)
        PROVE TypeOK'
    <2>1. /\ \E l \in WorkerPC : pc' = [pc EXCEPT ![w] = l]
          /\ queue_mutex' \in Threads \cup {NoOne} /\ waiters' \subseteq Workers
          /\ UNCHANGED <<tasks, running, active_tasks, task, reg, submitted, finished, dtor>>
      <3>1. CASE Acquire(w)
        BY <3>1 DEF Acquire
      <3>2. CASE Block(w)
        BY <3>2 DEF Block
      <3>3. CASE Woken(w)
        BY <3>3 DEF Woken
      <3>4. CASE Exit(w)
        BY <3>4 DEF Exit
      <3>5. CASE SpuriousWakeup(w)
        <4>1. pc' = [pc EXCEPT ![w] = pc[w]] /\ pc[w] \in WorkerPC
          BY <3>5 DEF SpuriousWakeup
        <4>2. QED
          BY <3>5, <4>1 DEF SpuriousWakeup
      <3>6. QED
        BY <1>1, <3>1, <3>2, <3>3, <3>4, <3>5
    <2>2. /\ pc' \in [Threads -> WorkerPC \cup ProducerPC]
          /\ \A v \in Workers : pc'[v] \in WorkerPC
          /\ \A p \in Producers : pc'[p] \in ProducerPC
      BY <2>1
    <2>3. QED
      BY <2>1, <2>2
  <1>2. ASSUME NEW w \in Workers, Fetch(w) PROVE TypeOK'
    <2>1. tasks # <<>>
      BY <1>2 DEF Fetch, PopIsDefined
    <2>2. Tail(tasks) \in Seq(Tasks) /\ Head(tasks) \in Tasks
      BY <2>1, HeadTailProperties
    <2>3. QED
      BY <1>2, <2>2 DEF Fetch
  <1>3. ASSUME NEW w \in Workers, CountUp(w) \/ CountDown(w) PROVE TypeOK'
    <2>1. active_tasks' \in 0..Word-1
      BY <1>3 DEF CountUp, CountDown
    <2>2. QED
      BY <1>3, <2>1 DEF CountUp, CountDown
  <1>4. ASSUME NEW w \in Workers, RunTask(w) PROVE TypeOK'
    <2>1. task[w] \in Tasks
      BY <1>4 DEF RunTask, HoldInv
    <2>2. task' \in [Workers -> Tasks \cup {NoTask}] /\ reg' \in [Workers -> 0..Word-1]
      BY <1>4 DEF RunTask
    <2>3. QED
      BY <1>4, <2>1, <2>2 DEF RunTask
  <1>5. ASSUME NEW p \in Producers, Enqueue(p) PROVE TypeOK'
    <2>1. CASE EnqueueLock(p) \/ NotifyOne(p)
      BY <2>1, SMTT(30) DEF EnqueueLock, NotifyOne
    <2>2. CASE EnqueuePush(p)
      <3>1. PICK t \in Tasks : tasks' = Append(tasks, t) /\ submitted' = submitted \cup {t}
        BY <2>2 DEF EnqueuePush
      <3>2. tasks' \in Seq(Tasks)
        BY <3>1, AppendProperties
      <3>3. QED
        BY <2>2, <3>1, <3>2 DEF EnqueuePush
    <2>3. QED
      BY <1>5, <2>1, <2>2 DEF Enqueue
  <1>6. CASE Destructor
    BY <1>6 DEF Destructor, ClearRunning, NotifyAll, Join
  <1>7. CASE UNCHANGED vars
    BY <1>7 DEF vars
  <1> HIDE DEF TypeOK, WorkerPC, ProducerPC, Goto
  <1>8. QED
    BY <1>1, <1>2, <1>3, <1>4, <1>5, <1>6, <1>7 DEF Next, Worker

(* Every step keeps the mutex between its lock and its unlock, and a worker  *)
(* that is about to pop in front of a closure.                               *)
LEMMA LockStep == IInv /\ [Next]_vars => MutexInv' /\ HoldInv' /\ PopIsDefined'
  <1> SUFFICES ASSUME IInv, [Next]_vars
               PROVE  MutexInv' /\ HoldInv' /\ PopIsDefined'
    OBVIOUS
  <1> USE ThreadPoolAssumption
      DEF IInv, TypeOK, Threads, WorkerPC, ProducerPC, Goto, MutexInv, HoldInv,
          PopIsDefined
  <1>1. ASSUME NEW w \in Workers, Acquire(w)
        PROVE  MutexInv' /\ HoldInv' /\ PopIsDefined'
    BY <1>1 DEF Acquire, WaitPredicate
  <1>2. ASSUME NEW w \in Workers, Block(w) \/ Woken(w) \/ SpuriousWakeup(w) \/ Exit(w)
        PROVE  MutexInv' /\ HoldInv' /\ PopIsDefined'
    BY <1>2, SMTT(30) DEF Block, Woken, SpuriousWakeup, Exit
  <1>3. ASSUME NEW w \in Workers, Fetch(w)
        PROVE  MutexInv' /\ HoldInv' /\ PopIsDefined'
    <2>1. tasks # <<>> /\ Head(tasks) \in Tasks
      BY <1>3, HeadTailProperties DEF Fetch
    <2>2. MutexInv'
      BY <1>3 DEF Fetch
    <2>3. HoldInv'
      BY <1>3, <2>1 DEF Fetch
    <2>4. PopIsDefined'
      BY <1>3 DEF Fetch
    <2>5. QED
      BY <2>2, <2>3, <2>4
  <1>4. ASSUME NEW w \in Workers, CountUp(w) \/ RunTask(w) \/ CountDown(w)
        PROVE  MutexInv' /\ HoldInv' /\ PopIsDefined'
    <2>1. CASE CountUp(w)
      BY <2>1 DEF CountUp
    <2>2. CASE RunTask(w)
      BY <2>2 DEF RunTask
    <2>3. CASE CountDown(w)
      BY <2>3 DEF CountDown
    <2>4. QED
      BY <1>4, <2>1, <2>2, <2>3
  <1>5. ASSUME NEW p \in Producers, EnqueueLock(p) \/ NotifyOne(p)
        PROVE  MutexInv' /\ HoldInv' /\ PopIsDefined'
    BY <1>5 DEF EnqueueLock, NotifyOne
  <1>6. ASSUME NEW p \in Producers, EnqueuePush(p)
        PROVE  MutexInv' /\ HoldInv' /\ PopIsDefined'
    BY <1>6, AppendProperties DEF EnqueuePush
  <1>7. CASE Destructor
    BY <1>7 DEF Destructor, ClearRunning, NotifyAll, Join
  <1>8. CASE UNCHANGED vars
    BY <1>8 DEF vars
  <1> HIDE DEF IInv, TypeOK, Threads, WorkerPC, ProducerPC, Goto, MutexInv, HoldInv,
               PopIsDefined
  <1>9. QED
    BY <1>1, <1>2, <1>3, <1>4, <1>5, <1>6, <1>7, <1>8 DEF Next, Worker, Enqueue

(* Every step keeps what is known of the destructor. *)
LEMMA DtorStep == IInv /\ [Next]_vars => DtorInv'
  <1> SUFFICES ASSUME IInv, [Next]_vars PROVE DtorInv'
    OBVIOUS
  <1> USE ThreadPoolAssumption
      DEF IInv, TypeOK, Threads, WorkerPC, ProducerPC, Goto, DtorInv
  <1>1. ASSUME NEW w \in Workers,
               Worker(w) \/ SpuriousWakeup(w)
        PROVE DtorInv'
    <2>1. CASE Fetch(w)
      <3>1. tasks # <<>>
        BY <2>1 DEF Fetch, PopIsDefined
      <3>2. QED
        BY <2>1, <3>1 DEF Fetch
    <2>2. CASE Acquire(w) \/ Block(w) \/ Woken(w) \/ SpuriousWakeup(w)
      BY <2>2 DEF Acquire, Block, Woken, SpuriousWakeup
    <2>3. CASE Exit(w)
      BY <2>3 DEF Exit
    <2>4. CASE CountUp(w) \/ RunTask(w) \/ CountDown(w)
      BY <2>4 DEF CountUp, RunTask, CountDown
    <2>5. QED
      BY <1>1, <2>1, <2>2, <2>3, <2>4 DEF Worker
  <1>2. ASSUME NEW p \in Producers, Enqueue(p) PROVE DtorInv'
    <2>1. dtor = "alive"
      BY <1>2 DEF Enqueue, EnqueueLock, EnqueuePush, NotifyOne
    <2>2. QED
      BY <1>2, <2>1 DEF Enqueue, EnqueueLock, EnqueuePush, NotifyOne
  <1>3. CASE Destructor
    BY <1>3 DEF Destructor, ClearRunning, NotifyAll, Join
  <1>4. CASE UNCHANGED vars
    BY <1>4 DEF vars
  <1>5. QED
    BY <1>1, <1>2, <1>3, <1>4 DEF Next

(* What the three steps that move a closure do to the sets it moves between. *)
LEMMA FetchMoves ==
  ASSUME IInv, NEW w \in Workers, Fetch(w)
  PROVE  /\ tasks # <<>> /\ Head(tasks) \in Queued
         /\ Queued' = Queued \ {Head(tasks)}
         /\ Held' = Held \cup {Head(tasks)}
         /\ UNCHANGED <<submitted, finished>>
         /\ \A i, j \in 1..Len(tasks') : tasks'[i] = tasks'[j] => i = j
         /\ \A v \in Workers : task'[v] = IF v = w THEN Head(tasks) ELSE task[v]
  <1> USE ThreadPoolAssumption DEF IInv
  <1>1. /\ tasks # <<>> /\ tasks' = Tail(tasks) /\ task[w] = NoTask
        /\ task' = [task EXCEPT ![w] = Head(tasks)]
        /\ UNCHANGED <<submitted, finished>>
    BY DEF Fetch, PopIsDefined, HoldInv, TypeOK
  <1>2. /\ Tail(tasks) \in Seq(Tasks) /\ Head(tasks) = tasks[1]
        /\ Len(tasks) \in Nat /\ Len(tasks) >= 1
        /\ Len(Tail(tasks)) = Len(tasks) - 1
        /\ \A i \in 1..Len(tasks) - 1 : Tail(tasks)[i] = tasks[i + 1]
        /\ Head(tasks) \in Tasks
    BY <1>1, HeadTailProperties DEF TypeOK
  <1>3. \A i, j \in 1..Len(tasks) : tasks[i] = tasks[j] => i = j
    BY DEF TasksConserved
  <1>4. Head(tasks) \in Queued
    BY <1>2 DEF Queued
  <1>5. \A i, j \in 1..Len(tasks') : tasks'[i] = tasks'[j] => i = j
    <2>1. SUFFICES ASSUME NEW i \in 1..Len(tasks'), NEW j \in 1..Len(tasks'),
                          tasks'[i] = tasks'[j]
                   PROVE  i = j
      OBVIOUS
    <2>2. tasks[i + 1] = tasks[j + 1] /\ i + 1 \in 1..Len(tasks) /\ j + 1 \in 1..Len(tasks)
      BY <1>1, <1>2, <2>1
    <2>3. QED
      BY <2>2, <1>3, <1>2, <1>1
  <1>6. Queued' = Queued \ {Head(tasks)}
    <2>1. ASSUME NEW x \in Queued' PROVE x \in Queued /\ x # Head(tasks)
      <3>1. PICK i \in 1..Len(tasks') : x = tasks'[i]
        BY <2>1 DEF Queued
      <3>2. x = tasks[i + 1] /\ i + 1 \in 1..Len(tasks) /\ i + 1 # 1
        BY <3>1, <1>1, <1>2
      <3>3. x # tasks[1]
        BY <3>2, <1>3, <1>2
      <3>4. QED
        BY <3>2, <3>3, <1>2 DEF Queued
    <2>2. ASSUME NEW x \in Queued, x # Head(tasks) PROVE x \in Queued'
      <3>1. PICK i \in 1..Len(tasks) : x = tasks[i]
        BY <2>2 DEF Queued
      <3>2. i - 1 \in 1..Len(tasks') /\ tasks'[i - 1] = x
        BY <3>1, <2>2, <1>1, <1>2
      <3>3. QED
        BY <3>2 DEF Queued
    <2>3. QED
      BY <2>1, <2>2
  <1>7. \A v \in Workers : task'[v] = IF v = w THEN Head(tasks) ELSE task[v]
    BY <1>1 DEF TypeOK
  <1>8. Held' = Held \cup {Head(tasks)}
    BY <1>1, <1>2, <1>7 DEF Held
  <1>9. QED
    BY <1>1, <1>4, <1>5, <1>6, <1>7, <1>8

LEMMA RunMoves ==
  ASSUME IInv, NEW w \in Workers, RunTask(w)
  PROVE  /\ task[w] \in Held
         /\ Held' = Held \ {task[w]}
         /\ finished' = finished \cup {task[w]}
         /\ UNCHANGED <<tasks, submitted>>
         /\ Queued' = Queued
         /\ \A v \in Workers : task'[v] = IF v = w THEN NoTask ELSE task[v]
  <1> USE ThreadPoolAssumption DEF IInv
  <1>1. /\ task[w] # NoTask /\ task[w] \in Held
        /\ finished' = finished \cup {task[w]}
        /\ UNCHANGED <<tasks, submitted>>
    BY DEF RunTask, HoldInv, Held, TypeOK
  <1>2. \A v \in Workers : task'[v] = IF v = w THEN NoTask ELSE task[v]
    BY DEF RunTask, TypeOK
  <1>3. \A v \in Workers : v # w /\ task[v] # NoTask => task[v] # task[w]
    BY DEF TasksConserved
  <1>4. Held' = Held \ {task[w]}
    BY <1>1, <1>2, <1>3 DEF Held
  <1>5. QED
    BY <1>1, <1>2, <1>4 DEF Queued

LEMMA PushMoves ==
  ASSUME IInv, NEW p \in Producers, EnqueuePush(p)
  PROVE  \E t \in Tasks \ submitted :
           /\ Queued' = Queued \cup {t}
           /\ tasks' = Append(tasks, t)
           /\ submitted' = submitted \cup {t}
           /\ UNCHANGED <<task, finished>>
           /\ \A i, j \in 1..Len(tasks') : tasks'[i] = tasks'[j] => i = j
  <1>1. PICK t \in Tasks \ submitted :
          /\ tasks' = Append(tasks, t)
          /\ submitted' = submitted \cup {t}
          /\ UNCHANGED <<task, finished>>
    BY DEF EnqueuePush
  <1>2. /\ Len(tasks) \in Nat
        /\ Len(Append(tasks, t)) = Len(tasks) + 1
        /\ \A i \in 1..Len(tasks) : Append(tasks, t)[i] = tasks[i]
        /\ Append(tasks, t)[Len(tasks) + 1] = t
    BY AppendProperties DEF IInv, TypeOK
  <1>3. t \notin Queued
    BY DEF IInv, TasksConserved
  <1>4. Queued' = Queued \cup {t}
    <2>1. \A i \in 1..Len(tasks') : i \in 1..Len(tasks) \/ i = Len(tasks) + 1
      BY <1>1, <1>2
    <2>2. \A i \in 1..Len(tasks) : i \in 1..Len(tasks') /\ tasks'[i] = tasks[i]
      BY <1>1, <1>2
    <2>3. Len(tasks) + 1 \in 1..Len(tasks') /\ tasks'[Len(tasks) + 1] = t
      BY <1>1, <1>2
    <2>4. QED
      BY <2>1, <2>2, <2>3 DEF Queued
  <1>5. \A i, j \in 1..Len(tasks') : tasks'[i] = tasks'[j] => i = j
    <2>1. \A i \in 1..Len(tasks) : tasks[i] # t
      BY <1>3 DEF Queued
    <2>2. \A i, j \in 1..Len(tasks) : tasks[i] = tasks[j] => i = j
      BY DEF IInv, TasksConserved
    <2>3. QED
      BY <1>1, <1>2, <2>1, <2>2
  <1>6. QED
    BY <1>1, <1>4, <1>5

(* Every step leaves each submitted closure in exactly one place. *)
LEMMA ConservedStep == IInv /\ [Next]_vars => TasksConserved'
  <1> SUFFICES ASSUME IInv, [Next]_vars PROVE TasksConserved'
    OBVIOUS
  <1>0. TasksConserved
    BY DEF IInv
  <1>1. ASSUME UNCHANGED <<tasks, task, submitted, finished>>
        PROVE  TasksConserved'
    BY <1>0, <1>1 DEF TasksConserved, Queued, Held
  <1>2. ASSUME NEW w \in Workers, Fetch(w) PROVE TasksConserved'
    <2>1. /\ tasks # <<>> /\ Head(tasks) \in Queued
          /\ Queued' = Queued \ {Head(tasks)}
          /\ Held' = Held \cup {Head(tasks)}
          /\ UNCHANGED <<submitted, finished>>
          /\ \A i, j \in 1..Len(tasks') : tasks'[i] = tasks'[j] => i = j
          /\ \A v \in Workers : task'[v] = IF v = w THEN Head(tasks) ELSE task[v]
      BY <1>2, FetchMoves
    <2>2. \A v \in Workers : task[v] # NoTask => task[v] # Head(tasks)
      BY <2>1, <1>0 DEF TasksConserved, Held
    <2>3. \A u, v \in Workers : task'[u] = task'[v] /\ task'[u] # NoTask => u = v
      BY <2>1, <2>2, <1>0 DEF TasksConserved
    <2>4. QED
      BY <2>1, <2>3, <1>0 DEF TasksConserved
  <1>3. ASSUME NEW w \in Workers, RunTask(w) PROVE TasksConserved'
    <2>1. /\ task[w] \in Held
          /\ Held' = Held \ {task[w]}
          /\ finished' = finished \cup {task[w]}
          /\ UNCHANGED <<tasks, submitted>>
          /\ Queued' = Queued
          /\ \A v \in Workers : task'[v] = IF v = w THEN NoTask ELSE task[v]
      BY <1>3, RunMoves
    <2>2. \A u, v \in Workers : task'[u] = task'[v] /\ task'[u] # NoTask => u = v
      BY <2>1, <1>0 DEF TasksConserved
    <2>3. QED
      BY <2>1, <2>2, <1>0 DEF TasksConserved
  <1>4. ASSUME NEW p \in Producers, EnqueuePush(p) PROVE TasksConserved'
    <2>1. PICK t \in Tasks \ submitted :
           /\ Queued' = Queued \cup {t}
           /\ submitted' = submitted \cup {t}
           /\ UNCHANGED <<task, finished>>
           /\ \A i, j \in 1..Len(tasks') : tasks'[i] = tasks'[j] => i = j
      BY <1>4, PushMoves
    <2>2. Held' = Held
      BY <2>1 DEF Held
    <2>3. QED
      BY <2>1, <2>2, <1>0 DEF TasksConserved
  <1>5. \/ \E w \in Workers : Fetch(w) \/ RunTask(w)
        \/ \E p \in Producers : EnqueuePush(p)
        \/ UNCHANGED <<tasks, task, submitted, finished>>
    BY DEF Next, Worker, Enqueue, Destructor, Acquire, Block, Woken, Exit, CountUp,
           CountDown, SpuriousWakeup, EnqueueLock, NotifyOne, ClearRunning, NotifyAll,
           Join, vars
  <1>6. QED
    BY <1>1, <1>2, <1>3, <1>4, <1>5

(* The inductive invariant holds in every reachable state. *)
THEOREM Invariance == SafetySpec => []IInv
  <1>1. IInv /\ [Next]_vars => IInv'
    BY TypeStep, LockStep, DtorStep, ConservedStep DEF IInv
  <1>2. QED
    BY InitInv, <1>1, PTL DEF SafetySpec

(* Variables keep their ranges: the counter wraps, indices stay in bounds.   *)
THEOREM TypeCorrect == SafetySpec => []TypeOK
  BY Invariance, PTL DEF IInv

(* No closure is lost or run twice, for any number of workers, producers and *)
(* closures and whatever the order of locks and wake-ups.                    *)
THEOREM TasksAreConserved == SafetySpec => []TasksConserved
  BY Invariance, PTL DEF IInv

(* The pop of lines 42-43 never meets an empty queue. *)
THEOREM PopsAreDefined == SafetySpec => []PopIsDefined
  BY Invariance, PTL DEF IInv

(* When the destructor returns, every accepted closure has run. *)
THEOREM ShutdownIsClean == SafetySpec => []ShutdownDrains
  <1>1. IInv => ShutdownDrains
    <2> SUFFICES ASSUME IInv PROVE ShutdownDrains
      OBVIOUS
    <2>1. \A w \in Workers : pc[w] = "exited" => tasks = <<>>
      BY DEF IInv, DtorInv
    <2>2. ASSUME dtor = "destroyed" PROVE submitted = finished
      <3>1. tasks = <<>> /\ \A w \in Workers : task[w] = NoTask
        BY <2>2, ThreadPoolAssumption DEF IInv, DtorInv, HoldInv
      <3>2. Queued = {} /\ Held = {}
        BY <3>1 DEF Queued, Held
      <3>3. QED
        BY <3>2 DEF IInv, TasksConserved
    <2>3. QED
      BY <2>1, <2>2 DEF ShutdownDrains
  <1>2. QED
    BY <1>1, Invariance, PTL

(* The pool implements TaskPool: pushes submit, pops start in submission     *)
(* order, calls complete, the end of the destructor closes; every other      *)
(* step is invisible.                                                        *)
LEMMA QuietStep ==
  ASSUME UNCHANGED <<tasks, task, finished>>, (dtor # "destroyed")' = (dtor # "destroyed")
  PROVE  UNCHANGED AbstractPool!poolVars
  BY DEF AbstractPool!poolVars, Held

LEMMA RefinementStep == IInv /\ [Next]_vars => [AbstractPool!Next]_AbstractPool!poolVars
  <1> SUFFICES ASSUME IInv, [Next]_vars
               PROVE  AbstractPool!Next \/ UNCHANGED AbstractPool!poolVars
    OBVIOUS
  <1>1. ASSUME NEW w \in Workers, Fetch(w) PROVE AbstractPool!Start
    BY <1>1, FetchMoves DEF AbstractPool!Start, Fetch
  <1>2. ASSUME NEW w \in Workers, RunTask(w)
        PROVE  \E t \in Tasks : AbstractPool!Complete(t)
    <2>1. task[w] \in Tasks
      BY <1>2 DEF IInv, TypeOK, HoldInv, RunTask
    <2>2. AbstractPool!Complete(task[w])
      BY <1>2, RunMoves DEF AbstractPool!Complete, RunTask
    <2>3. QED
      BY <2>1, <2>2
  <1>3. ASSUME NEW p \in Producers, EnqueuePush(p)
        PROVE  \E t \in Tasks : AbstractPool!Submit(t)
    <2>1. PICK t \in Tasks \ submitted :
            /\ tasks' = Append(tasks, t)
            /\ UNCHANGED <<task, finished>>
      BY <1>3, PushMoves
    <2>2. dtor = "alive" /\ UNCHANGED dtor
      BY <1>3 DEF EnqueuePush, IInv, DtorInv
    <2>3. Held' = Held
      BY <2>1 DEF Held
    <2>4. t \notin Queued \cup Held \cup finished
      BY <2>1 DEF IInv, TasksConserved
    <2>5. AbstractPool!Queued = Queued
      BY DEF AbstractPool!Queued, Queued
    <2>6. AbstractPool!Submit(t)
      BY <2>1, <2>2, <2>3, <2>4, <2>5 DEF AbstractPool!Submit
    <2>7. QED
      BY <2>6
  <1>4. ASSUME Join PROVE AbstractPool!Close
    <2>1. \A w \in Workers : pc[w] = "exited" /\ tasks = <<>> /\ task[w] = NoTask
      BY <1>4 DEF Join, IInv, DtorInv, HoldInv
    <2>2. tasks = <<>> /\ Held = {}
      BY <2>1, ThreadPoolAssumption DEF Held
    <2>3. UNCHANGED <<tasks, Held, finished>>
      BY <1>4 DEF Join, Held
    <2>4. QED
      BY <1>4, <2>2, <2>3 DEF AbstractPool!Close, Join
  <1>5. CASE ClearRunning \/ NotifyAll \/ UNCHANGED vars
    BY <1>5, QuietStep DEF ClearRunning, NotifyAll, vars
  <1>6. ASSUME NEW w \in Workers,
               Acquire(w) \/ Block(w) \/ Woken(w) \/ Exit(w) \/ CountUp(w)
               \/ CountDown(w) \/ SpuriousWakeup(w)
        PROVE  UNCHANGED AbstractPool!poolVars
    BY <1>6, QuietStep
       DEF Acquire, Block, Woken, Exit, CountUp, CountDown, SpuriousWakeup
  <1>7. ASSUME NEW p \in Producers, EnqueueLock(p) \/ NotifyOne(p)
        PROVE  UNCHANGED AbstractPool!poolVars
    BY <1>7, QuietStep DEF EnqueueLock, NotifyOne
  <1>8. QED
    BY <1>1, <1>2, <1>3, <1>4, <1>5, <1>6, <1>7
       DEF Next, Worker, Enqueue, Destructor, AbstractPool!Next

THEOREM PoolImplementsTaskPool == SafetySpec => ImplementsTaskPool
  <1>1. Init => AbstractPool!Init
    BY ThreadPoolAssumption DEF Init, AbstractPool!Init, Held
  <1>2. QED
    BY <1>1, Invariance, RefinementStep, PTL
       DEF SafetySpec, ImplementsTaskPool, AbstractPool!Spec

=============================================================================
