------------------------------- MODULE DBPool -------------------------------
(***************************************************************************)
(* divine::DBPool, src/src/phi_dbpool.h: SQLite connections lent to         *)
(* threads.  acquire and release each run under the mutex, so each is one   *)
(* step; query_int is an acquire, the statement, and a release, and other   *)
(* threads run between them.                                                *)
(***************************************************************************)
EXTENDS Naturals, Sequences, FiniteSets

CONSTANTS
  Threads,       \* threads that call query_int
  InitialSize,   \* connections the constructor opens
  NoConn         \* the thread holds no connection

ASSUME DBPoolAssumption ==
  /\ IsFiniteSet(Threads)
  /\ InitialSize \in Nat
  /\ NoConn \notin Nat

VARIABLES
  size,          \* pool.size(); connections are 0..size-1
  in_use,        \* the flag of each connection
  available,     \* the queue of indices ready to be lent
  held           \* the connection a thread's query_int works with

vars == <<size, in_use, available, held>>

Conns == 0..size-1
Listed == {available[i] : i \in 1..Len(available)}
Holders == {t \in Threads : held[t] # NoConn}

TypeOK ==
  /\ size \in Nat
  /\ in_use \in [Conns -> BOOLEAN]
  /\ available \in Seq(Conns)
  /\ held \in [Threads -> Conns \cup {NoConn}]

Init ==
  /\ size = InitialSize
  /\ in_use = [c \in 0..InitialSize-1 |-> FALSE]
  /\ available = [i \in 1..InitialSize |-> i - 1]
  /\ held = [t \in Threads |-> NoConn]

(* Lend connection c, the head of the queue. *)
LendHead(t) ==
  /\ held' = [held EXCEPT ![t] = Head(available)]
  /\ in_use' = [in_use EXCEPT ![Head(available)] = TRUE]
  /\ available' = Tail(available)
  /\ UNCHANGED size

(* With no connection ready the pool opens one more, queues it and lends it. *)
Expand(t) ==
  /\ held' = [held EXCEPT ![t] = size]
  /\ in_use' = [c \in 0..size |-> IF c = size THEN TRUE ELSE in_use[c]]
  /\ size' = size + 1
  /\ UNCHANGED available

(* Seeded fault: front() without pop().                                      *)
AcquireNoPop(t) ==
  /\ held[t] = NoConn
  /\ \/ /\ available # <<>>
        /\ held' = [held EXCEPT ![t] = Head(available)]
        /\ in_use' = [in_use EXCEPT ![Head(available)] = TRUE]
        /\ UNCHANGED <<size, available>>
     \/ available = <<>> /\ Expand(t)

(* Seeded fault: the pool grows while a connection is ready.                 *)
AcquireEager(t) ==
  /\ held[t] = NoConn
  /\ \/ available # <<>> /\ LendHead(t)
     \/ Len(available) <= 1 /\ Expand(t)

Acquire(t) ==
  /\ held[t] = NoConn
  /\ \/ available # <<>> /\ LendHead(t)
     \/ available = <<>> /\ Expand(t)

(* Seeded fault: the connection is not queued again.                         *)
ReleaseLeak(t) ==
  /\ held[t] # NoConn
  /\ in_use' = [in_use EXCEPT ![held[t]] = FALSE]
  /\ held' = [held EXCEPT ![t] = NoConn]
  /\ UNCHANGED <<size, available>>

(* Seeded fault: the pool lists connections 1..size instead of 0..size-1.    *)
ReleaseOffByOne(t) ==
  /\ held[t] # NoConn
  /\ in_use' = [in_use EXCEPT ![held[t]] = FALSE]
  /\ available' = Append(available, held[t] + 1)
  /\ held' = [held EXCEPT ![t] = NoConn]
  /\ UNCHANGED size

Release(t) ==
  /\ held[t] # NoConn
  /\ in_use' = [in_use EXCEPT ![held[t]] = FALSE]
  /\ available' = Append(available, held[t])
  /\ held' = [held EXCEPT ![t] = NoConn]
  /\ UNCHANGED size

Next == \E t \in Threads : Acquire(t) \/ Release(t)

Spec == Init /\ [][Next]_vars

-----------------------------------------------------------------------------
(* Properties. *)

(* Two threads never work with one SQLite handle: acquire and release keep   *)
(* that through every hand-over (lines 44-67).                               *)
Exclusive ==
  \A s, t \in Threads : held[s] = held[t] /\ held[s] # NoConn => s = t

(* The queue and the flags tell the same story: a connection is queued once  *)
(* and idle, or lent to a thread and flagged; none has been forgotten.       *)
BooksBalance ==
  /\ \A i, j \in 1..Len(available) : available[i] = available[j] => i = j
  /\ Listed = {c \in Conns : ~in_use[c]}
  /\ {held[t] : t \in Holders} = {c \in Conns : in_use[c]}

(* The pool grows with the number of threads that query at once, not with    *)
(* the number of queries.                                                    *)
PoolBounded ==
  size <= InitialSize \/ size <= Cardinality(Threads)

=============================================================================
