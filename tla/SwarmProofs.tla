---------------------------- MODULE SwarmProofs ----------------------------
(***************************************************************************)
(* Proofs about Swarm for every number of callers and cores and every load  *)
(* threshold: no core ever writes into a stack frame that process() has     *)
(* left, process() never returns without an answer, and callers that add    *)
(* cores at the same time, each from the count it read, pass MaxCores by no  *)
(* more than each one's share.  The invariant says of each call who          *)
(* remembers it -- the queue, one core, or its promise -- and IInv adds when *)
(* a core holds a task, when the answer is written, and how many cores the   *)
(* callers inside scale() may still add.                                     *)
(***************************************************************************)
EXTENDS Swarm, SequenceTheorems, FiniteSetTheorems, TLAPS

-----------------------------------------------------------------------------
(* The task queue, a std::queue: what push and pop do to its elements. *)
Elements(s) == {s[i] : i \in 1..Len(s)}
NoRepeat(s) == \A i, j \in 1..Len(s) : s[i] = s[j] => i = j

(* pop takes the head and nothing else out of a queue without repetitions.   *)
LEMMA PopElements ==
  ASSUME NEW S, NEW s \in Seq(S), s # <<>>, NoRepeat(s)
  PROVE  /\ NoRepeat(Tail(s))
         /\ Head(s) \in Elements(s)
         /\ Elements(Tail(s)) = Elements(s) \ {Head(s)}
  <1>1. /\ Head(s) = s[1] /\ Len(s) \in Nat /\ Len(s) >= 1
        /\ Len(Tail(s)) = Len(s) - 1
        /\ \A i \in 1..Len(s) - 1 : Tail(s)[i] = s[i + 1]
    BY HeadTailProperties
  <1>2. \A i, j \in 1..Len(s) : s[i] = s[j] => i = j
    BY DEF NoRepeat
  <1>3. \A i \in 1..Len(Tail(s)) : i + 1 \in 1..Len(s) /\ i + 1 # 1
                                  /\ Tail(s)[i] = s[i + 1]
    BY <1>1
  <1>4. NoRepeat(Tail(s))
    <2>1. SUFFICES ASSUME NEW i \in 1..Len(Tail(s)), NEW j \in 1..Len(Tail(s)),
                          Tail(s)[i] = Tail(s)[j]
                   PROVE  i = j
      BY DEF NoRepeat
    <2>2. i + 1 = j + 1
      BY <1>2, <1>3, <2>1
    <2>3. QED
      BY <2>2
  <1>5. ASSUME NEW x \in Elements(Tail(s)) PROVE x \in Elements(s) /\ x # Head(s)
    <2>1. PICK i \in 1..Len(Tail(s)) : x = Tail(s)[i]
      BY DEF Elements
    <2>2. x = s[i + 1] /\ i + 1 \in 1..Len(s) /\ i + 1 # 1 /\ 1 \in 1..Len(s)
      BY <1>1, <1>3, <2>1
    <2>3. QED
      BY <1>1, <1>2, <2>2 DEF Elements
  <1>6. ASSUME NEW x \in Elements(s), x # Head(s) PROVE x \in Elements(Tail(s))
    <2>1. PICK i \in 1..Len(s) : x = s[i]
      BY DEF Elements
    <2>2. i - 1 \in 1..Len(Tail(s)) /\ Tail(s)[i - 1] = x
      BY <1>1, <1>6, <2>1
    <2>3. QED
      BY <2>2 DEF Elements
  <1>7. Head(s) \in Elements(s)
    BY <1>1 DEF Elements
  <1>8. QED
    BY <1>4, <1>5, <1>6, <1>7

(* push adds its argument and, if it was not there, no repetition.           *)
LEMMA PushElements ==
  ASSUME NEW S, NEW s \in Seq(S), NEW x \in S
  PROVE  /\ Elements(Append(s, x)) = Elements(s) \cup {x}
         /\ NoRepeat(s) /\ x \notin Elements(s) => NoRepeat(Append(s, x))
  <1>1. /\ Len(s) \in Nat
        /\ Len(Append(s, x)) = Len(s) + 1
        /\ \A i \in 1..Len(s) : Append(s, x)[i] = s[i]
        /\ Append(s, x)[Len(s) + 1] = x
    BY AppendProperties
  <1>2. /\ \A i \in 1..Len(Append(s, x)) : i \in 1..Len(s) \/ i = Len(s) + 1
        /\ \A i \in 1..Len(s) : i \in 1..Len(Append(s, x))
        /\ Len(s) + 1 \in 1..Len(Append(s, x))
    BY <1>1
  <1>3. Elements(Append(s, x)) = Elements(s) \cup {x}
    BY <1>1, <1>2 DEF Elements
  <1>4. ASSUME NoRepeat(s), x \notin Elements(s) PROVE NoRepeat(Append(s, x))
    <2>1. \A i \in 1..Len(s) : s[i] # x
      BY <1>4 DEF Elements
    <2>2. \A i, j \in 1..Len(s) : s[i] = s[j] => i = j
      BY <1>4 DEF NoRepeat
    <2>3. QED
      BY <1>1, <1>2, <2>1, <2>2 DEF NoRepeat
  <1>5. QED
    BY <1>3, <1>4

-----------------------------------------------------------------------------
Queued == Elements(task_queue)
InCall(c) == call[c] \in {"notify", "wait"}

(* A core holds a task exactly while it works; unborn ids do nothing.        *)
HoldInv ==
  /\ \A i \in Ids : pc[i] \in {"work", "publish"} <=> task[i] # NoTicket
  /\ \A i \in Ids : i >= ncores => pc[i] = "unborn"

(* FrameAlive in terms of the queue's elements. *)
PlaceInv ==
  /\ NoRepeat(task_queue)
  /\ \A c \in Queued : InCall(c)
  /\ \A i \in Ids : task[i] # NoTicket => InCall(task[i]) /\ task[i] \notin Queued
  /\ \A i, j \in Ids : task[i] = task[j] /\ task[i] # NoTicket => i = j

(* A set promise means an answer, and that nobody will touch the frame.      *)
AnswerInv ==
  /\ \A i \in Ids : pc[i] = "publish" => answered[task[i]]
  /\ \A c \in Callers : InCall(c) /\ ready[c] =>
       answered[c] /\ c \notin Queued /\ \A i \in Ids : task[i] # c
  /\ \A c \in Callers : call[c] \in {"scale", "load", "grow"} => answered[c]

(* The rounds of scale()'s loop that each caller inside it has still before  *)
(* it: with the cores there are, never more than Most.                       *)
Scaling(c) == call[c] \in {"load", "grow"}
Slots == Callers \X (BaseCores..MaxCores-1)
Pending == {s \in Slots : Scaling(s[1]) /\ s[2] >= current[s[1]]}

GrowInv ==
  /\ ncores + Cardinality(Pending) <= Most
  /\ \A c \in Callers : call[c] = "grow" => current[c] < MaxCores

IInv ==
  /\ TypeOK
  /\ HoldInv
  /\ GrowInv
  /\ PlaceInv
  /\ AnswerInv

-----------------------------------------------------------------------------
(* Sets of rounds are finite, and counted. *)
LEMMA SlotsFinite ==
  ASSUME NEW C \in SUBSET Callers
  PROVE  LET S == C \X (BaseCores..MaxCores-1) IN
         /\ IsFiniteSet(S)
         /\ Cardinality(C) \in Nat
         /\ Cardinality(S) = Cardinality(C) * (MaxCores - BaseCores)
  <1>1. IsFiniteSet(C) /\ Cardinality(C) \in Nat
    BY SwarmAssumption, FS_Subset, FS_CardinalityType
  <1>2. IsFiniteSet(BaseCores..MaxCores-1)
        /\ Cardinality(BaseCores..MaxCores-1) = MaxCores - BaseCores
    BY SwarmAssumption, FS_Interval
  <1>3. QED
    BY <1>1, <1>2, FS_Product

LEMMA MostType == Most \in Nat /\ BaseCores <= Most
  <1>1. Cardinality(Callers) \in Nat
    BY SwarmAssumption, FS_CardinalityType
  <1>2. MaxCores - BaseCores \in Nat
    BY SwarmAssumption
  <1>3. \A m, n \in Nat : m * n \in Nat
    OBVIOUS
  <1>4. Cardinality(Callers) * (MaxCores - BaseCores) \in Nat
    BY <1>1, <1>2, <1>3
  <1>5. QED
    BY <1>4, SwarmAssumption DEF Most

(* One caller can bring the cores to MaxCores. *)
LEMMA MostMax ==
  ASSUME NEW c \in Callers
  PROVE  MaxCores <= Most
  <1>1. Cardinality(Callers) \in Nat /\ Cardinality(Callers) # 0
    BY SwarmAssumption, FS_CardinalityType, FS_EmptySet
  <1>2. MaxCores - BaseCores \in Nat /\ Cardinality(Callers) - 1 \in Nat
    BY <1>1, SwarmAssumption
  <1>3. /\ \A m, n \in Nat : m * n \in Nat
        /\ \A m, n \in Int : (m - 1) * n = m * n - n
    OBVIOUS
  <1>4. /\ (Cardinality(Callers) - 1) * (MaxCores - BaseCores) \in Nat
        /\ (Cardinality(Callers) - 1) * (MaxCores - BaseCores)
             = Cardinality(Callers) * (MaxCores - BaseCores) - (MaxCores - BaseCores)
    BY <1>1, <1>2, <1>3
  <1>5. Cardinality(Callers) * (MaxCores - BaseCores) \in Nat
    BY <1>1, <1>2, <1>3
  <1>6. QED
    BY <1>2, <1>4, <1>5, SwarmAssumption DEF Most

LEMMA PendingFinite == IsFiniteSet(Pending) /\ Cardinality(Pending) \in Nat
  <1>1. IsFiniteSet(Slots)
    BY SlotsFinite DEF Slots
  <1>2. QED
    BY <1>1, FS_Subset, FS_CardinalityType DEF Pending

(* A step that adds no core and no round keeps the bound. *)
LEMMA FewerPending ==
  ASSUME GrowInv, ncores \in Nat, ncores' = ncores, Pending' \subseteq Pending
  PROVE  ncores' + Cardinality(Pending') <= Most
  <1>1. IsFiniteSet(Pending) /\ Cardinality(Pending) \in Nat
    BY PendingFinite
  <1>2. Cardinality(Pending') \in Nat /\ Cardinality(Pending') <= Cardinality(Pending)
    BY <1>1, FS_Subset, FS_CardinalityType
  <1>3. QED
    BY <1>1, <1>2, MostType DEF GrowInv

(* The state start() leaves satisfies the invariant. *)
LEMMA InitInv == Init => IInv
  <1> SUFFICES ASSUME Init PROVE IInv
    OBVIOUS
  <1> USE SwarmAssumption, MostType DEF Init, Ids
  <1>1. TypeOK
    BY DEF TypeOK
  <1>2. HoldInv
    BY DEF HoldInv
  <1>0. GrowInv
    <2>1. Pending = {}
      BY DEF Pending, Slots, Scaling
    <2>2. QED
      BY <2>1, FS_EmptySet DEF GrowInv
  <1>3. Queued = {} /\ NoRepeat(task_queue)
    BY DEF Queued, Elements, NoRepeat
  <1>4. PlaceInv
    BY <1>3 DEF PlaceInv
  <1>5. AnswerInv
    BY <1>3 DEF AnswerInv, InCall
  <1>6. QED
    BY <1>0, <1>1, <1>2, <1>4, <1>5 DEF IInv

(* Steps outside scale() add no core and no round. *)
LEMMA NotScaling ==
  ASSUME IInv, UNCHANGED <<ncores, current>>,
         \A c \in Callers : Scaling(c)' => call'[c] = call[c]
  PROVE  GrowInv'
  <1>1. Pending' \subseteq Pending
    BY DEF Pending, Slots, Scaling
  <1>2. ncores \in Nat
    BY SwarmAssumption DEF IInv, TypeOK
  <1>3. ncores' + Cardinality(Pending') <= Most
    BY <1>1, <1>2, FewerPending DEF IInv
  <1>4. \A c \in Callers : call'[c] = "grow" => current'[c] < MaxCores
    BY DEF IInv, GrowInv, Scaling
  <1>5. Most' = Most
    BY DEF Most
  <1>6. QED
    BY <1>3, <1>4 DEF GrowInv

(* Steps that neither move a task nor touch an answer or a call.             *)
LEMMA QuietStep ==
  ASSUME IInv, TypeOK', HoldInv',
         UNCHANGED <<task_queue, ncores, task, call, answered, ready, current>>,
         \A i \in Ids : pc'[i] = "publish" => pc[i] = "publish"
  PROVE  IInv'
  <1>1. PlaceInv'
    BY DEF IInv, PlaceInv, Queued, InCall
  <1>2. AnswerInv'
    BY DEF IInv, AnswerInv, Queued, InCall
  <1>3. GrowInv'
    BY NotScaling
  <1>4. QED
    BY <1>1, <1>2, <1>3 DEF IInv

(* Cores that look for work. *)
LEMMA IdleStep ==
  ASSUME IInv,
         NEW i \in Ids,
         Top(i) \/ FindNothing(i) \/ Block(i) \/ Woken(i) \/ Leave(i) \/ SpuriousWakeup(i)
  PROVE  IInv'
  <1> USE DEF IInv, TypeOK, HoldInv, Goto
  <1>1. TypeOK'
    BY DEF Top, FindNothing, Block, Woken, Leave, SpuriousWakeup
  <1>2. HoldInv'
    BY DEF Top, FindNothing, Block, Woken, Leave, SpuriousWakeup
  <1>3. /\ UNCHANGED <<task_queue, ncores, task, call, answered, ready, current>>
        /\ \A j \in Ids : pc'[j] = "publish" => pc[j] = "publish"
    BY DEF Top, FindNothing, Block, Woken, Leave, SpuriousWakeup
  <1> HIDE DEF IInv, TypeOK, HoldInv, Goto
  <1>4. QED
    BY <1>1, <1>2, <1>3, QuietStep

(* A core takes the head of the queue: the task changes hands.               *)
LEMMA PopStep ==
  ASSUME IInv, NEW i \in Ids, Pop(i)
  PROVE  IInv'
  <1>1. /\ task_queue # <<>> /\ task_queue' = Tail(task_queue)
        /\ task' = [task EXCEPT ![i] = Head(task_queue)]
        /\ pc' = [pc EXCEPT ![i] = "work"]
        /\ pc[i] = "lock"
        /\ UNCHANGED <<running, waiters, ncores, call, answered, ready, current, stopper>>
    BY DEF Pop, Goto
  <1>2. /\ Tail(task_queue) \in Seq(Callers)
        /\ Head(task_queue) \in Callers /\ Head(task_queue) # NoTicket
    BY <1>1, HeadTailProperties, SwarmAssumption DEF IInv, TypeOK
  <1>3. /\ NoRepeat(task_queue') /\ Head(task_queue) \in Queued
        /\ Queued' = Queued \ {Head(task_queue)}
    BY <1>1, PopElements DEF IInv, TypeOK, PlaceInv, Queued
  <1>4. \A j \in Ids : task'[j] = IF j = i THEN Head(task_queue) ELSE task[j]
    BY <1>1 DEF IInv, TypeOK
  <1>5. TypeOK'
    BY <1>1, <1>2 DEF IInv, TypeOK
  <1>6. HoldInv'
    BY <1>1, <1>2, <1>4 DEF IInv, TypeOK, HoldInv
  <1>7. PlaceInv'
    <2>1. \A j \in Ids : task[j] # Head(task_queue)
      BY <1>2, <1>3 DEF IInv, PlaceInv
    <2>2. QED
      BY <1>1, <1>2, <1>3, <1>4, <2>1 DEF IInv, PlaceInv, InCall
  <1>8. AnswerInv'
    <2>1. \A c \in Callers : InCall(c) /\ ready[c] => c # Head(task_queue)
      BY <1>3 DEF IInv, AnswerInv
    <2>2. \A j \in Ids : pc'[j] = "publish" => pc[j] = "publish" /\ j # i
      BY <1>1 DEF IInv, TypeOK
    <2>3. QED
      BY <1>1, <1>3, <1>4, <2>1, <2>2 DEF IInv, AnswerInv, InCall
  <1>9. GrowInv'
    BY <1>1, NotScaling
  <1>10. QED
    BY <1>5, <1>6, <1>7, <1>8, <1>9 DEF IInv

(* A core answers, then sets the promise and forgets the frame. *)
LEMMA WorkStep ==
  ASSUME IInv, NEW i \in Ids, Work(i)
  PROVE  IInv'
  <1> USE SwarmAssumption DEF IInv, TypeOK
  <1>1. /\ task[i] \in Callers /\ pc[i] = "work"
        /\ answered' = [answered EXCEPT ![task[i]] = TRUE]
        /\ pc' = [pc EXCEPT ![i] = "publish"]
        /\ UNCHANGED <<task_queue, running, waiters, ncores, task, call, ready, current, stopper>>
    BY DEF Work, Goto, HoldInv
  <1>2. TypeOK'
    BY <1>1
  <1>3. HoldInv'
    BY <1>1 DEF HoldInv
  <1>4. PlaceInv'
    BY <1>1 DEF PlaceInv, Queued, InCall
  <1>5. \A c \in Callers : answered[c] => answered'[c]
    BY <1>1
  <1>6. AnswerInv'
    <2>1. ASSUME NEW j \in Ids, pc'[j] = "publish" PROVE answered'[task'[j]]
      <3>1. CASE j = i
        BY <1>1, <3>1
      <3>2. CASE j # i
        <4>1. pc[j] = "publish" /\ task[j] \in Callers /\ answered[task[j]]
          BY <1>1, <2>1, <3>2 DEF HoldInv, AnswerInv
        <4>2. QED
          BY <1>1, <1>5, <4>1
      <3>3. QED
        BY <3>1, <3>2
    <2>2. QED
      BY <1>1, <1>5, <2>1 DEF AnswerInv, Queued, InCall
  <1>7. GrowInv'
    BY <1>1, NotScaling
  <1>8. QED
    BY <1>2, <1>3, <1>4, <1>6, <1>7

LEMMA PublishStep ==
  ASSUME IInv, NEW i \in Ids, Publish(i)
  PROVE  IInv'
  <1> USE SwarmAssumption DEF IInv, TypeOK
  <1>1. /\ task[i] \in Callers /\ pc[i] = "publish"
        /\ ready' = [ready EXCEPT ![task[i]] = TRUE]
        /\ task' = [task EXCEPT ![i] = NoTicket]
        /\ pc' = [pc EXCEPT ![i] = "top"]
        /\ UNCHANGED <<task_queue, running, waiters, ncores, call, answered, current, stopper>>
    BY DEF Publish, Goto, HoldInv
  <1>2. TypeOK'
    BY <1>1
  <1>3. HoldInv'
    BY <1>1 DEF HoldInv
  <1>4. PlaceInv'
    BY <1>1 DEF PlaceInv, Queued, InCall
  <1>5. /\ answered[task[i]] /\ task[i] \notin Queued
        /\ \A j \in Ids : j # i => task[j] # task[i]
    BY <1>1 DEF PlaceInv, AnswerInv
  <1>6. AnswerInv'
    <2>1. ASSUME NEW c \in Callers, InCall(c)', ready'[c]
          PROVE  answered'[c] /\ c \notin Queued' /\ \A j \in Ids : task'[j] # c
      <3>1. CASE c = task[i]
        BY <1>1, <1>5, <3>1 DEF Queued
      <3>2. CASE c # task[i]
        BY <1>1, <2>1, <3>2 DEF AnswerInv, Queued, InCall
      <3>3. QED
        BY <3>1, <3>2
    <2>2. QED
      BY <1>1, <2>1 DEF AnswerInv
  <1>7. GrowInv'
    BY <1>1, NotScaling
  <1>8. QED
    BY <1>2, <1>3, <1>4, <1>6, <1>7

(* process() queues a pointer to a frame that nobody else points into.       *)
LEMMA PushStep ==
  ASSUME IInv, NEW c \in Callers, Push(c)
  PROVE  IInv'
  <1> USE SwarmAssumption
  <1>1. /\ call[c] = "idle"
        /\ task_queue' = Append(task_queue, c)
        /\ answered' = [answered EXCEPT ![c] = FALSE]
        /\ ready' = [ready EXCEPT ![c] = FALSE]
        /\ call' = [call EXCEPT ![c] = "notify"]
        /\ UNCHANGED <<running, waiters, ncores, pc, task, current, stopper>>
    BY DEF Push, Step
  <1>2. c \notin Queued /\ \A i \in Ids : task[i] # c
    BY <1>1 DEF IInv, PlaceInv, InCall
  <1>3. Queued' = Queued \cup {c} /\ NoRepeat(task_queue')
    BY <1>1, <1>2, PushElements DEF IInv, TypeOK, PlaceInv, Queued
  <1>4. TypeOK'
    BY <1>1, AppendProperties DEF IInv, TypeOK
  <1>5. HoldInv'
    BY <1>1 DEF IInv, HoldInv
  <1>6. \A d \in Callers :
          /\ call'[d] = IF d = c THEN "notify" ELSE call[d]
          /\ ready'[d] = IF d = c THEN FALSE ELSE ready[d]
          /\ answered'[d] = IF d = c THEN FALSE ELSE answered[d]
    BY <1>1 DEF IInv, TypeOK
  <1>7. Queued \subseteq Callers /\ \A i \in Ids : task[i] # NoTicket => task[i] \in Callers
    BY DEF IInv, TypeOK, Queued, Elements
  <1>8. PlaceInv'
    <2>1. /\ call'[c] \in {"notify", "wait"}
          /\ \A d \in Callers : call[d] \in {"notify", "wait"} => call'[d] \in {"notify", "wait"}
      BY <1>1, <1>6
    <2>2. \A d \in Queued' : call'[d] \in {"notify", "wait"}
      BY <1>3, <1>7, <2>1 DEF IInv, PlaceInv, InCall
    <2>3. \A i \in Ids : task'[i] # NoTicket =>
            call'[task'[i]] \in {"notify", "wait"} /\ task'[i] \notin Queued'
      BY <1>1, <1>2, <1>3, <1>7, <2>1 DEF IInv, PlaceInv, InCall
    <2>4. \A i, j \in Ids : task'[i] = task'[j] /\ task'[i] # NoTicket => i = j
      BY <1>1 DEF IInv, PlaceInv
    <2>5. QED
      BY <1>3, <2>2, <2>3, <2>4 DEF PlaceInv, InCall
  <1>9. AnswerInv'
    <2>1. \A i \in Ids : pc[i] = "publish" => task[i] \in Callers /\ task[i] # c
      BY <1>2, <1>7 DEF IInv, HoldInv
    <2>2. \A i \in Ids : pc'[i] = "publish" => answered'[task'[i]]
      BY <1>1, <1>6, <2>1 DEF IInv, AnswerInv
    <2>3. \A d \in Callers : d # c /\ InCall(d)' /\ ready'[d] =>
            answered'[d] /\ d \notin Queued' /\ \A i \in Ids : task'[i] # d
      BY <1>1, <1>3, <1>6 DEF IInv, AnswerInv, InCall
    <2>4. \A d \in Callers : call'[d] \in {"scale", "load", "grow"} => answered'[d]
      BY <1>6 DEF IInv, AnswerInv
    <2>5. ~ready'[c]
      BY <1>6
    <2>6. QED
      BY <2>2, <2>3, <2>4, <2>5 DEF AnswerInv
  <1>10. GrowInv'
    BY <1>1, <1>6, NotScaling DEF Scaling
  <1>11. QED
    BY <1>4, <1>5, <1>8, <1>9, <1>10 DEF IInv

(* The rest of process(), up to the return: no task changes hands, and a     *)
(* call goes on from its wait only when its promise is set.                  *)
LEMMA CallStep ==
  ASSUME IInv, NEW c \in Callers, TypeOK', HoldInv', GrowInv',
         UNCHANGED <<task_queue, task, answered, ready>>,
         \A d \in Callers : d # c => call'[d] = call[d],
         \/ call[c] = "notify" /\ call'[c] = "wait"
         \/ call[c] = "wait" /\ call'[c] = "scale" /\ ready[c]
         \/ call[c] \in {"scale", "load", "grow"} /\ ~InCall(c)',
         \A i \in Ids : pc'[i] = "publish" => pc[i] = "publish"
  PROVE  IInv'
  <1>4. Queued' = Queued
    BY DEF Queued
  <1>6. Queued \subseteq Callers /\ \A i \in Ids : task[i] # NoTicket => task[i] \in Callers
    BY DEF IInv, TypeOK, Queued, Elements
  <1>7. InCall(c) /\ ~InCall(c)' =>
          answered[c] /\ c \notin Queued /\ \A i \in Ids : task[i] # c
    BY DEF IInv, AnswerInv, InCall
  <1>8. PlaceInv'
    <2>1. \A d \in Callers : InCall(d) /\ ~InCall(d)' => d = c
      BY DEF InCall
    <2>2. (\A d \in Queued : InCall(d)) /\ (\A d \in Queued : InCall(d)')
      BY <1>6, <1>7, <2>1 DEF IInv, PlaceInv
    <2>3. \A i \in Ids : task[i] # NoTicket => call'[task[i]] \in {"notify", "wait"}
      BY <1>6, <1>7, <2>1 DEF IInv, PlaceInv, InCall
    <2>4. QED
      BY <1>4, <2>2, <2>3 DEF IInv, PlaceInv, InCall
  <1>9. AnswerInv'
    <2>1. ASSUME NEW d \in Callers, InCall(d)', ready'[d]
          PROVE  InCall(d) /\ ready[d]
      BY <2>1 DEF InCall
    <2>2. ASSUME NEW d \in Callers, call'[d] \in {"scale", "load", "grow"} PROVE answered[d]
      BY <1>7, <2>2 DEF IInv, AnswerInv, InCall
    <2>3. QED
      BY <1>4, <2>1, <2>2 DEF IInv, AnswerInv
  <1>10. QED
    BY <1>8, <1>9 DEF IInv

(* Notify, wait for the promise, look at the load and leave it at that.      *)
LEMMA ProcessStep ==
  ASSUME IInv, NEW c \in Callers, NotifyOne(c) \/ Await(c) \/ LookAtLoad(c)
  PROVE  IInv'
  <1> USE SwarmAssumption, MostType
  <1>1. /\ call' = [call EXCEPT ![c] = call'[c]]
        /\ \/ call[c] = "notify" /\ call'[c] = "wait"
           \/ call[c] = "wait" /\ call'[c] = "scale" /\ ready[c]
           \/ call[c] = "load" /\ call'[c] = "grow" /\ current[c] < MaxCores
           \/ call[c] = "load" /\ call'[c] = "idle"
        /\ waiters' \subseteq waiters
        /\ UNCHANGED <<task_queue, running, ncores, pc, task, answered, ready, stopper>>
    BY DEF IInv, TypeOK, NotifyOne, Await, LookAtLoad, Step, Return
  <1>2. /\ current' \in [Callers -> BaseCores..Most]
        /\ \A d \in Callers : d # c \/ call'[c] = "grow" => current'[d] = current[d]
    <2>1. current \in [Callers -> BaseCores..Most] /\ BaseCores \in BaseCores..Most
      BY DEF IInv, TypeOK
    <2>2. \/ UNCHANGED current
          \/ call' = [call EXCEPT ![c] = "idle"] /\ current' = [current EXCEPT ![c] = BaseCores]
      BY DEF NotifyOne, Await, LookAtLoad, Step, Return
    <2>3. call \in [Callers -> {"idle", "notify", "wait", "scale", "load", "grow"}]
      BY DEF IInv, TypeOK
    <2>4. QED
      BY <2>1, <2>2, <2>3
  <1>3. TypeOK'
    BY <1>1, <1>2 DEF IInv, TypeOK
  <1>4. HoldInv'
    BY <1>1 DEF IInv, HoldInv
  <1>5. \A d \in Callers : d # c => call'[d] = call[d]
    BY <1>1 DEF IInv, TypeOK
  <1>6. GrowInv'
    <2>1. \A d \in Callers : Scaling(d)' => Scaling(d) /\ current'[d] = current[d]
      BY <1>1, <1>2, <1>5 DEF Scaling
    <2>2. Pending' \subseteq Pending
      BY <2>1 DEF Pending, Slots
    <2>3. ncores' = ncores /\ ncores \in Nat
      BY <1>1 DEF IInv, TypeOK
    <2>4. ncores' + Cardinality(Pending') <= Most
      BY <2>2, <2>3, FewerPending DEF IInv
    <2>5. \A d \in Callers : call'[d] = "grow" => current'[d] < MaxCores
      BY <1>1, <1>2, <1>5 DEF IInv, GrowInv
    <2>6. Most' = Most
      BY DEF Most
    <2>7. QED
      BY <2>4, <2>5, <2>6 DEF GrowInv
  <1>7. /\ \/ call[c] = "notify" /\ call'[c] = "wait"
           \/ call[c] = "wait" /\ call'[c] = "scale" /\ ready[c]
           \/ call[c] \in {"scale", "load", "grow"} /\ ~InCall(c)'
        /\ UNCHANGED <<task_queue, task, answered, ready>>
        /\ \A i \in Ids : pc'[i] = "publish" => pc[i] = "publish"
    BY <1>1 DEF InCall
  <1>8. QED
    BY <1>3, <1>4, <1>5, <1>6, <1>7, CallStep

(* scale() reads the size: the rounds it may run bring the cores to MaxCores *)
(* and no further, unless others add theirs meanwhile.                       *)
LEMMA ScaleStep ==
  ASSUME IInv, NEW c \in Callers, Scale(c)
  PROVE  IInv'
  <1> USE SwarmAssumption, MostType
  <1>1. /\ call[c] = "scale" /\ call' = [call EXCEPT ![c] = "load"]
        /\ current' = [current EXCEPT ![c] = ncores]
        /\ UNCHANGED <<task_queue, running, waiters, ncores, pc, task, answered, ready,
                      stopper>>
    BY DEF Scale, Step
  <1>2. /\ \A d \in Callers : d # c => call'[d] = call[d] /\ current'[d] = current[d]
        /\ call'[c] = "load" /\ current'[c] = ncores
    BY <1>1 DEF IInv, TypeOK
  <1>3. TypeOK'
    BY <1>1 DEF IInv, TypeOK
  <1>4. HoldInv'
    BY <1>1 DEF IInv, HoldInv
  <1>5. ncores + Cardinality(Pending') <= Most
    <2> DEFINE A == (Callers \ {c}) \X (BaseCores..MaxCores-1)
               B == {c} \X (ncores..MaxCores-1)
    <2>0. ncores \in Nat /\ ncores >= BaseCores /\ ncores <= Most
      BY DEF IInv, TypeOK
    <2>1. CASE ncores >= MaxCores
      <3>1. Pending' \subseteq Pending
        BY <1>2, <2>0, <2>1 DEF Pending, Slots, Scaling
      <3>2. QED
        BY <1>1, <2>0, <3>1, FewerPending DEF IInv
    <2>2. CASE ncores < MaxCores
      <3>1. Pending' \subseteq A \cup B
        BY <1>2, <2>0 DEF Pending, Slots, Scaling
      <3>2. /\ IsFiniteSet(Callers \ {c})
            /\ Cardinality(Callers \ {c}) = Cardinality(Callers) - 1
            /\ Cardinality(Callers) \in Nat
        BY FS_RemoveElement, FS_CardinalityType
      <3>3. /\ IsFiniteSet(A)
            /\ Cardinality(A) = Cardinality(Callers \ {c}) * (MaxCores - BaseCores)
        BY SlotsFinite
      <3>4. IsFiniteSet(B) /\ Cardinality(B) = MaxCores - ncores
        <4>1. IsFiniteSet(ncores..MaxCores-1) /\ Cardinality(ncores..MaxCores-1) = MaxCores - ncores
          BY <2>0, <2>2, FS_Interval
        <4>2. IsFiniteSet({c}) /\ Cardinality({c}) = 1
          BY FS_Singleton
        <4>3. IsFiniteSet(B) /\ Cardinality(B) = 1 * (MaxCores - ncores)
          BY <4>1, <4>2, FS_Product
        <4>4. QED
          BY <2>0, <4>3
      <3>5. /\ IsFiniteSet(A \cup B)
            /\ Cardinality(A \cup B) <= Cardinality(A) + Cardinality(B)
        <4>1. /\ IsFiniteSet(A \cup B) /\ IsFiniteSet(A \cap B)
              /\ Cardinality(A \cup B) = Cardinality(A) + Cardinality(B) - Cardinality(A \cap B)
          BY <3>3, <3>4, FS_Union, FS_Intersection
        <4>2. /\ Cardinality(A) \in Nat /\ Cardinality(B) \in Nat
              /\ Cardinality(A \cap B) \in Nat
          BY <3>3, <3>4, <4>1, FS_CardinalityType
        <4>3. QED
          BY <4>1, <4>2
      <3>6. /\ Cardinality(Pending') <= Cardinality(A \cup B)
            /\ Cardinality(Pending') \in Nat /\ Cardinality(A \cup B) \in Nat
            /\ Cardinality(A) \in Nat /\ Cardinality(B) \in Nat
        BY <3>1, <3>3, <3>4, <3>5, FS_Subset, FS_CardinalityType
      <3>7. \A n, w \in Int : (n - 1) * w = n * w - w
        OBVIOUS
      <3>8. Cardinality(A) = Cardinality(Callers) * (MaxCores - BaseCores) - (MaxCores - BaseCores)
        BY <3>2, <3>3, <3>7
      <3>9. Cardinality(Callers) * (MaxCores - BaseCores) = Most - BaseCores
        <4>1. Cardinality(Callers) * (MaxCores - BaseCores) \in Int
          BY <3>2
        <4>2. QED
          BY <4>1 DEF Most
      <3>10. Cardinality(A) = Most - MaxCores
        BY <3>8, <3>9
      <3>11. QED
        BY <2>0, <3>4, <3>5, <3>6, <3>10
    <2>3. QED
      BY <2>0, <2>1, <2>2
  <1>6. GrowInv'
    <2>1. \A d \in Callers : call'[d] = "grow" => current'[d] < MaxCores
      BY <1>2 DEF IInv, GrowInv
    <2>2. Most' = Most
      BY DEF Most
    <2>3. QED
      BY <1>1, <1>5, <2>1, <2>2 DEF GrowInv
  <1>7. /\ call[c] \in {"scale", "load", "grow"} /\ ~InCall(c)'
        /\ UNCHANGED <<task_queue, task, answered, ready>>
        /\ \A i \in Ids : pc'[i] = "publish" => pc[i] = "publish"
        /\ \A d \in Callers : d # c => call'[d] = call[d]
    BY <1>1, <1>2 DEF InCall
  <1>8. QED
    BY <1>3, <1>4, <1>6, <1>7, CallStep

(* A round of the loop: one core more, one round less. *)
LEMMA GrowStep ==
  ASSUME IInv, NEW c \in Callers, Grow(c)
  PROVE  IInv'
  <1> USE SwarmAssumption, MostType DEF Ids
  <1>1. /\ call[c] = "grow" /\ ncores' = ncores + 1
        /\ pc' = [pc EXCEPT ![ncores] = "top"]
        /\ \/ /\ call' = [call EXCEPT ![c] = "idle"]
              /\ current' = [current EXCEPT ![c] = BaseCores]
           \/ /\ call' = call /\ current[c] + 1 < MaxCores
              /\ current' = [current EXCEPT ![c] = current[c] + 1]
        /\ UNCHANGED <<task_queue, running, waiters, task, answered, ready, stopper>>
    BY DEF Grow, Return, Step
  <1>2. /\ current[c] \in Nat /\ current[c] >= BaseCores /\ current[c] < MaxCores
        /\ ncores \in Nat /\ ncores >= BaseCores
    BY <1>1 DEF IInv, TypeOK, GrowInv
  <1>3. \A d \in Callers : d # c => call'[d] = call[d] /\ current'[d] = current[d]
    BY <1>1 DEF IInv, TypeOK
  <1>4. ncores' + Cardinality(Pending') <= Most /\ Cardinality(Pending') \in Nat
    <2> DEFINE s == <<c, current[c]>>
    <2>1. s \in Pending
      BY <1>1, <1>2 DEF Pending, Slots, Scaling
    <2>2. Scaling(c)' => call' = call /\ current'[c] = current[c] + 1
      BY <1>1 DEF IInv, TypeOK, Scaling
    <2>3. ASSUME NEW t \in Slots, t \in Pending' PROVE t \in Pending /\ t # s
      <3>1. /\ t[1] \in Callers /\ t[2] \in Int /\ Scaling(t[1])' /\ t[2] >= current'[t[1]]
        BY <2>3 DEF Pending, Slots, Scaling
      <3>2. CASE t[1] = c
        <4>1. Scaling(c) /\ t[2] >= current[c] + 1
          BY <1>1, <2>2, <3>1, <3>2 DEF Scaling
        <4>2. QED
          BY <1>2, <3>1, <3>2, <4>1 DEF Pending
      <3>3. CASE t[1] # c
        BY <1>3, <3>1, <3>3 DEF Pending, Scaling
      <3>4. QED
        BY <3>2, <3>3
    <2>4. Pending' \subseteq Pending \ {s}
      BY <2>3 DEF Pending, Slots
    <2>5. IsFiniteSet(Pending) /\ Cardinality(Pending) \in Nat
      BY PendingFinite
    <2>6. IsFiniteSet(Pending \ {s}) /\ Cardinality(Pending \ {s}) = Cardinality(Pending) - 1
      BY <2>1, <2>5, FS_RemoveElement
    <2>7. /\ Cardinality(Pending') <= Cardinality(Pending \ {s})
          /\ Cardinality(Pending') \in Nat
      BY <2>4, <2>6, FS_Subset, FS_CardinalityType
    <2>8. ncores + Cardinality(Pending) <= Most
      BY DEF IInv, GrowInv
    <2>9. QED
      BY <1>1, <1>2, <2>5, <2>6, <2>7, <2>8
  <1>5. GrowInv'
    <2>1. \A d \in Callers : call'[d] = "grow" => current'[d] < MaxCores
      BY <1>1, <1>2, <1>3 DEF IInv, TypeOK, GrowInv
    <2>2. Most' = Most
      BY DEF Most
    <2>3. QED
      BY <1>4, <2>1, <2>2 DEF GrowInv
  <1>6. ncores' \in BaseCores..Most /\ ncores \in 0..Most-1
    BY <1>1, <1>2, <1>4
  <1>7. TypeOK'
    <2>1. current' \in [Callers -> BaseCores..Most]
      <3>1. current[c] + 1 < MaxCores => current[c] + 1 \in BaseCores..Most
        BY <1>2, MostMax
      <3>2. /\ current \in [Callers -> BaseCores..Most] /\ BaseCores \in BaseCores..Most
            /\ \/ current' = [current EXCEPT ![c] = BaseCores]
               \/ current[c] + 1 < MaxCores /\ current' = [current EXCEPT ![c] = current[c] + 1]
        BY <1>1 DEF IInv, TypeOK
      <3>3. QED
        BY <3>1, <3>2
    <2>2. call' \in [Callers -> {"idle", "notify", "wait", "scale", "load", "grow"}]
      BY <1>1 DEF IInv, TypeOK
    <2>3. pc' \in [Ids -> {"unborn", "top", "lock", "block", "waiting", "work",
                            "publish", "exited"}]
      BY <1>1 DEF IInv, TypeOK
    <2>4. /\ task_queue' \in Seq(Callers) /\ running' \in BOOLEAN /\ waiters' \subseteq Ids
          /\ task' \in [Ids -> Callers \cup {NoTicket}]
          /\ answered' \in [Callers -> BOOLEAN] /\ ready' \in [Callers -> BOOLEAN]
          /\ stopper' \in {"none", "flagged", "joining", "stopped"}
      BY <1>1 DEF IInv, TypeOK
    <2>5. ncores' \in BaseCores..Most
      BY <1>6
    <2> HIDE DEF Ids
    <2>6. QED
      BY <2>1, <2>2, <2>3, <2>4, <2>5, Zenon DEF TypeOK, Ids, Most
  <1>8. HoldInv'
    <2>1. /\ \A i \in 0..Most-1 : pc'[i] = IF i = ncores THEN "top" ELSE pc[i]
          /\ pc[ncores] = "unborn" /\ task[ncores] = NoTicket /\ task' = task
      BY <1>1, <1>2, <1>6 DEF IInv, TypeOK, HoldInv
    <2>2. \A i \in 0..Most-1 : i >= ncores + 1 => i >= ncores /\ i # ncores
      BY <1>2
    <2>3. QED
      BY <1>1, <2>1, <2>2 DEF IInv, HoldInv
  <1>9. /\ call[c] \in {"scale", "load", "grow"} /\ ~InCall(c)'
        /\ \A i \in 0..Most-1 : pc'[i] = "publish" => pc[i] = "publish"
    BY <1>1 DEF IInv, TypeOK, InCall
  <1>10. QED
    BY <1>1, <1>3, <1>5, <1>7, <1>8, <1>9, CallStep

(* stop() moves no task. *)
LEMMA StopStep ==
  ASSUME IInv, ClearRunning \/ NotifyAll \/ Join
  PROVE  IInv'
  <1>1. TypeOK'
    BY DEF IInv, TypeOK, ClearRunning, NotifyAll, Join
  <1>2. HoldInv'
    BY DEF IInv, HoldInv, ClearRunning, NotifyAll, Join
  <1>3. UNCHANGED <<task_queue, ncores, task, call, answered, ready, current, pc>>
    BY DEF ClearRunning, NotifyAll, Join
  <1>4. QED
    BY <1>1, <1>2, <1>3, QuietStep

(* The inductive invariant holds in every reachable state. *)
THEOREM Invariance == SafetySpec => []IInv
  <1>1. IInv /\ [Next]_vars => IInv'
    <2> SUFFICES ASSUME IInv, [Next]_vars PROVE IInv'
      OBVIOUS
    <2>1. CASE UNCHANGED vars
      BY <2>1, NotScaling DEF vars, IInv, TypeOK, HoldInv, PlaceInv, AnswerInv, Queued, InCall
    <2>2. ASSUME NEW i \in Ids, Core(i) \/ SpuriousWakeup(i) PROVE IInv'
      BY <2>2, IdleStep, PopStep, WorkStep, PublishStep DEF Core
    <2>3. ASSUME NEW c \in Callers, Push(c) \/ Process(c) PROVE IInv'
      BY <2>3, PushStep, ProcessStep, ScaleStep, GrowStep DEF Process
    <2>4. CASE ClearRunning \/ NotifyAll \/ Join
      BY <2>4, StopStep
    <2>5. QED
      BY <2>1, <2>2, <2>3, <2>4 DEF Next
  <1>2. QED
    BY InitInv, <1>1, PTL DEF SafetySpec

(* Variables keep their ranges: however many callers find the swarm loaded   *)
(* at once, each with the count it read, there are never more cores than     *)
(* BaseCores and each caller's MaxCores - BaseCores.                         *)
THEOREM TypeCorrect == SafetySpec => []TypeOK
  BY Invariance, PTL DEF IInv

(* No task outlives the stack frame it points into, however many callers and *)
(* cores there are and whenever scale() adds some.                           *)
THEOREM FramesStayAlive == SafetySpec => []FrameAlive
  <1>1. IInv => FrameAlive
    <2> SUFFICES ASSUME IInv PROVE FrameAlive
      OBVIOUS
    <2>1. \A k \in 1..Len(task_queue) : task_queue[k] \in Queued /\ task_queue[k] # NoTicket
      BY SwarmAssumption DEF IInv, TypeOK, Queued, Elements
    <2>2. QED
      BY <2>1 DEF IInv, PlaceInv, FrameAlive, InCall, NoRepeat
  <1>2. QED
    BY <1>1, Invariance, PTL

(* process() never returns the empty string it started with. *)
THEOREM AnswersAreReturned == SafetySpec => []ReturnsAnswer
  <1>1. IInv => ReturnsAnswer
    BY DEF IInv, AnswerInv, ReturnsAnswer
  <1>2. QED
    BY <1>1, Invariance, PTL

=============================================================================
