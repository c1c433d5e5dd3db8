---------------------------- MODULE AsyncServer ----------------------------
(***************************************************************************)
(* http::AsyncPhiServer (src/src/phi_async_http.h) and its successor with a  *)
(* rate limiter (phi_async_http_v2.h): one thread in epoll_wait that accepts *)
(* connections and hands every readable descriptor to the thread pool as a   *)
(* closure.  The closure holds a descriptor NUMBER; the kernel reuses the    *)
(* number once it is closed.                                                 *)
(*                                                                          *)
(* The pool is the abstract TaskPool, which ThreadPool implements: FIFO      *)
(* start, at most NumWorkers closures at a time.  The kernel's part (accept  *)
(* queue, edge-triggered readiness, descriptor table) is modelled from what  *)
(* the code relies on.  A connection is a client.                            *)
(***************************************************************************)
EXTENDS Naturals, Integers, Sequences, FiniteSets

CONSTANTS
  Clients,       \* each connects at most once
  Fds,           \* descriptor numbers left to the process for clients
  NumWorkers,    \* threads of the pool
  MaxSegments,   \* TCP segments a client may send
  Patient,       \* TRUE: a client that has sent waits until the server closes
  Limited,       \* TRUE: the v2 server, whose rate limiter may refuse a client
  NoClient,      \* the descriptor is closed
  NoFd           \* no accepted descriptor is waiting to be registered

ASSUME AsyncServerAssumption ==
  /\ NumWorkers \in Nat \ {0}
  /\ MaxSegments \in Nat \ {0}
  /\ Patient \in BOOLEAN /\ Limited \in BOOLEAN
  /\ NoClient \notin Clients /\ NoFd \notin Fds
  /\ IsFiniteSet(Fds)

(* A closure: the descriptor it captured, and -- for the properties only --  *)
(* the client whose readiness caused it and how many that client caused      *)
(* before.                                                                   *)
Jobs == [fd : Fds, who : Clients, nth : 0..MaxSegments]

VARIABLES
  client,              \* where a client's connection is
  inbox,               \* segments that have arrived and were not received
  sent,                \* segments the client has sent
  eof,                 \* the client has closed its end
  answered,            \* responses the client has received
  sock,                \* the client behind each descriptor
  registered,          \* descriptors in the epoll set
  edges,               \* readiness not yet reported by epoll_wait: <<fd, client>>
  batch,               \* events of the last epoll_wait not handled yet
  accepting,           \* the listening socket's event: none, due, or in its loop
  newFd,               \* accepted, not yet in the epoll set
  active_connections,
  pending, inProgress, finished, open,    \* the pool; open while the loop runs
  stage,               \* progress of each closure that has started
  raised               \* closures created for each client

netVars == <<client, inbox, sent, eof, answered>>
kernelVars == <<sock, registered, edges>>
loopVars == <<batch, accepting, newFd>>
poolVars == <<pending, inProgress, finished, open>>
vars == <<netVars, kernelVars, loopVars, active_connections, poolVars, stage,
          raised>>

Pool == INSTANCE TaskPool WITH Tasks <- Jobs

Stages == {"recv", "reply", "close", "uncount"}

TypeOK ==
  /\ client \in [Clients -> {"out", "backlog", "open", "refused", "closed"}]
  /\ inbox \in [Clients -> 0..MaxSegments]
  /\ sent \in [Clients -> 0..MaxSegments]
  /\ eof \in [Clients -> BOOLEAN]
  /\ answered \in [Clients -> Nat]
  /\ sock \in [Fds -> Clients \cup {NoClient}]
  /\ registered \subseteq Fds
  /\ edges \subseteq Fds \X Clients
  /\ batch \subseteq Fds \X Clients
  /\ accepting \in {"no", "due", "loop"}
  /\ newFd \in Fds \cup {NoFd}
  /\ active_connections \in Int
  /\ pending \in Seq(Jobs)
  /\ inProgress \subseteq Jobs
  /\ finished \subseteq Jobs
  /\ open
  /\ stage \in [inProgress -> Stages]
  /\ raised \in [Clients -> 0..MaxSegments + 1]

Init ==
  /\ client = [c \in Clients |-> "out"]
  /\ inbox = [c \in Clients |-> 0]
  /\ sent = [c \in Clients |-> 0]
  /\ eof = [c \in Clients |-> FALSE]
  /\ answered = [c \in Clients |-> 0]
  /\ sock = [f \in Fds |-> NoClient]
  /\ registered = {}
  /\ edges = {}
  /\ batch = {}
  /\ accepting = "no"
  /\ newFd = NoFd
  /\ active_connections = 0
  /\ Pool!Init
  /\ stage = <<>>
  /\ raised = [c \in Clients |-> 0]

-----------------------------------------------------------------------------
(* Clients and the kernel. *)

Connect(c) ==
  /\ client[c] = "out"
  /\ client' = [client EXCEPT ![c] = "backlog"]
  /\ UNCHANGED <<inbox, sent, eof, answered, kernelVars, loopVars,
                 active_connections, poolVars, stage, raised>>

(* New data or an end-of-file on a registered descriptor is an edge.         *)
RaiseEdge(c) ==
  edges' = edges \cup {<<f, c>> : f \in {g \in registered : sock[g] = c}}

Send(c) ==
  /\ client[c] \in {"backlog", "open"}
  /\ ~eof[c] /\ answered[c] = 0
  /\ sent[c] < MaxSegments
  /\ sent' = [sent EXCEPT ![c] = @ + 1]
  /\ inbox' = [inbox EXCEPT ![c] = @ + 1]
  /\ RaiseEdge(c)
  /\ UNCHANGED <<client, eof, answered, sock, registered, loopVars,
                 active_connections, poolVars, stage, raised>>

HangUp(c) ==
  /\ Patient => sent[c] = 0
  /\ client[c] \in {"backlog", "open"}
  /\ ~eof[c]
  /\ eof' = [eof EXCEPT ![c] = TRUE]
  /\ RaiseEdge(c)
  /\ UNCHANGED <<client, inbox, sent, answered, sock, registered, loopVars,
                 active_connections, poolVars, stage, raised>>

Backlog == {c \in Clients : client[c] = "backlog"}
FreeFds == {f \in Fds : sock[f] = NoClient}

-----------------------------------------------------------------------------
(* The epoll thread. *)

(* Seeded fault: descriptors registered without EPOLLET.                     *)
EpollWait_LevelTriggered ==
  /\ batch = {} /\ accepting = "no"
  /\ edges # {} \/ Backlog # {}
  /\ batch' = edges
  /\ accepting' = IF Backlog # {} THEN "due" ELSE "no"
  /\ UNCHANGED <<netVars, kernelVars, newFd, active_connections, poolVars, stage,
                 raised>>

(* Every edge is reported once; the listening socket is level-triggered, and *)
(* its event may stand anywhere among the others.                            *)
EpollWait ==
  /\ batch = {} /\ accepting = "no"
  /\ edges # {} \/ Backlog # {}
  /\ batch' = edges
  /\ edges' = {}
  /\ accepting' = IF Backlog # {} THEN "due" ELSE "no"
  /\ UNCHANGED <<netVars, sock, registered, newFd, active_connections, poolVars,
                 stage, raised>>

AcceptFd(c, f) ==
  /\ accepting # "no" /\ newFd = NoFd
  /\ c \in Backlog
  /\ sock[f] = NoClient
  /\ sock' = [sock EXCEPT ![f] = c]
  /\ client' = [client EXCEPT ![c] = "open"]
  /\ newFd' = f
  /\ accepting' = "loop"
  /\ UNCHANGED <<inbox, sent, eof, answered, registered, edges, batch,
                 active_connections, poolVars, stage, raised>>

(* The v2 server: the limiter says no, the client gets a 429 and a close.    *)
Refuse(c) ==
  /\ Limited
  /\ accepting # "no" /\ newFd = NoFd
  /\ c \in Backlog
  /\ FreeFds # {}
  /\ client' = [client EXCEPT ![c] = "refused"]
  /\ accepting' = "loop"
  /\ UNCHANGED <<inbox, sent, eof, answered, kernelVars, batch, newFd,
                 active_connections, poolVars, stage, raised>>

(* Seeded fault: the counter is not incremented.                             *)
Register_NoCount ==
  /\ newFd # NoFd
  /\ registered' = registered \cup {newFd}
  /\ edges' = edges \cup {<<newFd, c>> : c \in {d \in Clients :
                            sock[newFd] = d /\ (inbox[d] > 0 \/ eof[d])}}
  /\ newFd' = NoFd
  /\ UNCHANGED <<netVars, sock, batch, accepting, active_connections, poolVars,
                 stage, raised>>

(* Seeded fault: data that arrived before the registration is forgotten.     *)
Register_Late ==
  /\ newFd # NoFd
  /\ registered' = registered \cup {newFd}
  /\ newFd' = NoFd
  /\ active_connections' = active_connections + 1
  /\ UNCHANGED <<netVars, sock, edges, batch, accepting, poolVars, stage, raised>>

(* EPOLL_CTL_ADD: data that has already arrived is an edge.  A descriptor    *)
(* that a closure has closed meanwhile cannot be added; the counter is       *)
(* incremented all the same.                                                 *)
Register ==
  /\ newFd # NoFd
  /\ registered' = IF sock[newFd] = NoClient THEN registered
                                             ELSE registered \cup {newFd}
  /\ edges' = edges \cup {<<newFd, c>> : c \in {d \in Clients :
                            sock[newFd] = d /\ (inbox[d] > 0 \/ eof[d])}}
  /\ newFd' = NoFd
  /\ active_connections' = active_connections + 1
  /\ UNCHANGED <<netVars, sock, batch, accepting, poolVars, stage, raised>>

(* accept returns -1: nobody waits, or the descriptor table is full.         *)
AcceptDone ==
  /\ accepting # "no" /\ newFd = NoFd
  /\ Backlog = {} \/ FreeFds = {}
  /\ accepting' = "no"
  /\ UNCHANGED <<netVars, kernelVars, batch, newFd, active_connections, poolVars,
                 stage, raised>>

Job(f, c) == [fd |-> f, who |-> c, nth |-> raised[c]]

(* Seeded fault: a batch is cut short after its first event.                 *)
Dispatch_First(f, c) ==
  /\ accepting # "loop"
  /\ <<f, c>> \in batch
  /\ Pool!Submit(Job(f, c))
  /\ raised' = [raised EXCEPT ![c] = @ + 1]
  /\ batch' = {}
  /\ UNCHANGED <<netVars, kernelVars, accepting, newFd, active_connections,
                 stage>>

(* Seeded fault: the event stays in the batch.                               *)
Dispatch_Again(f, c) ==
  /\ accepting # "loop"
  /\ <<f, c>> \in batch
  /\ Pool!Submit(Job(f, c))
  /\ raised' = [raised EXCEPT ![c] = @ + 1]
  /\ UNCHANGED <<netVars, kernelVars, loopVars, active_connections, stage>>

(* Any other event of the batch: enqueue a closure for the descriptor.       *)
Dispatch(f, c) ==
  /\ accepting # "loop"
  /\ <<f, c>> \in batch
  /\ Pool!Submit(Job(f, c))
  /\ raised' = [raised EXCEPT ![c] = @ + 1]
  /\ batch' = batch \ {<<f, c>>}
  /\ UNCHANGED <<netVars, kernelVars, accepting, newFd, active_connections,
                 stage>>

-----------------------------------------------------------------------------
(* The closure, on a worker of the pool. *)

With(j, s) == [i \in inProgress' |-> IF i = j THEN s ELSE stage[i]]

StartJob ==
  /\ Cardinality(inProgress) < NumWorkers
  /\ Pool!Start
  /\ stage' = With(Head(pending), "recv")
  /\ UNCHANGED <<netVars, kernelVars, loopVars, active_connections, raised>>

Goto(j, s) == stage' = [stage EXCEPT ![j] = s] /\ UNCHANGED poolVars

(* recv takes whatever has arrived at the descriptor now; -1 and 0 skip the  *)
(* answer.                                                                   *)
Recv(j) ==
  /\ j \in inProgress /\ stage[j] = "recv"
  /\ LET c == sock[j.fd] IN
       IF c # NoClient /\ inbox[c] > 0
       THEN Goto(j, "reply") /\ inbox' = [inbox EXCEPT ![c] = 0]
       ELSE Goto(j, "close") /\ UNCHANGED inbox
  /\ UNCHANGED <<client, sent, eof, answered, kernelVars, loopVars,
                 active_connections, raised>>

(* Seeded fault: the answer is skipped and the connection closed.            *)
Reply_Skipped(j) ==
  /\ j \in inProgress /\ stage[j] = "reply"
  /\ Goto(j, "close")
  /\ UNCHANGED <<netVars, kernelVars, loopVars, active_connections, raised>>

(* handle_request and send, to whoever has the descriptor now.               *)
Reply(j) ==
  /\ j \in inProgress /\ stage[j] = "reply"
  /\ answered' = [c \in Clients |->
       IF sock[j.fd] = c THEN answered[c] + 1 ELSE answered[c]]
  /\ Goto(j, "close")
  /\ UNCHANGED <<client, inbox, sent, eof, kernelVars, loopVars,
                 active_connections, raised>>

(* EPOLL_CTL_DEL and close.  Nothing else of this closure lies between them, *)
(* and a descriptor is not reused before the close.                          *)
Close(j) ==
  /\ j \in inProgress /\ stage[j] = "close"
  /\ sock' = [sock EXCEPT ![j.fd] = NoClient]
  /\ client' = [c \in Clients |-> IF sock[j.fd] = c THEN "closed" ELSE client[c]]
  /\ registered' = registered \ {j.fd}
  /\ edges' = {e \in edges : e[1] # j.fd}
  /\ Goto(j, "uncount")
  /\ UNCHANGED <<inbox, sent, eof, answered, loopVars, active_connections, raised>>

Uncount(j) ==
  /\ j \in inProgress /\ stage[j] = "uncount"
  /\ active_connections' = active_connections - 1
  /\ Pool!Complete(j)
  /\ stage' = [i \in inProgress' |-> stage[i]]
  /\ UNCHANGED <<netVars, kernelVars, loopVars, raised>>

-----------------------------------------------------------------------------
EventLoop ==
  \/ EpollWait \/ Register \/ AcceptDone
  \/ \E c \in Clients : Refuse(c) \/ \E f \in Fds : AcceptFd(c, f) \/ Dispatch(f, c)

RunJob(j) == Recv(j) \/ Reply(j) \/ Close(j) \/ Uncount(j)

Next ==
  \/ \E c \in Clients : Connect(c) \/ Send(c) \/ HangUp(c)
  \/ EventLoop
  \/ StartJob
  \/ \E j \in inProgress : RunJob(j)

(* The epoll thread and the workers are scheduled; clients promise nothing.  *)
Fairness ==
  /\ WF_vars(EventLoop)
  /\ WF_vars(StartJob)
  /\ \A j \in Jobs : WF_vars(RunJob(j))

Spec == Init /\ [][Next]_vars /\ Fairness

-----------------------------------------------------------------------------
(* Properties. *)

Unclosed == {j \in Jobs : j \in inProgress /\ stage[j] # "uncount"}
            \cup {pending[i] : i \in 1..Len(pending)}

(* A closure works on the connection whose readiness it was created for,     *)
(* from the moment it is queued until it has closed it: the descriptor       *)
(* number it captured (line 219) has not been closed under it.               *)
HandlesItsClient == \A j \in Unclosed : sock[j.fd] = j.who

(* "Handle client request" (src/src/phi_async_http.h:217): the closure of    *)
(* one client's event never receives from, answers or closes another         *)
(* client's connection.                                                      *)
NeverHandlesAnother == \A j \in Unclosed : sock[j.fd] \in {j.who, NoClient}

(* Edge-triggered readiness is reported once, so somebody must always        *)
(* remember it: a connection with unread data or a hang-up is still to be    *)
(* registered, or has an edge, an event of the batch, or a closure that has  *)
(* not closed it.                                                            *)
NoLostEdge ==
  \A c \in Clients : client[c] = "open" /\ (inbox[c] > 0 \/ eof[c]) =>
    \E f \in Fds :
      /\ sock[f] = c
      /\ \/ f = newFd
         \/ <<f, c>> \in edges \cup batch
         \/ \E j \in Unclosed : j.fd = f

(* active_connections, reported as "concurrent" by /api/health, counts the   *)
(* registered connections plus the closures between close and decrement.     *)
CounterExact ==
  active_connections =
    Cardinality({f \in Fds : sock[f] # NoClient /\ f # newFd})
    + Cardinality({j \in inProgress : stage[j] = "uncount"})

(* A connection is closed after exactly one answer, or after a hang-up       *)
(* without a request.                                                        *)
AnsweredBeforeClose ==
  \A c \in Clients :
    /\ client[c] = "closed" => answered[c] = 1 \/ (eof[c] /\ sent[c] = 0)
    /\ answered[c] <= 1

(* An accepted client that has sent its request is answered and its          *)
(* connection closed, whatever the other clients do.  (Before the accept     *)
(* nothing is promised: silent clients are never timed out and can hold all  *)
(* descriptors.)                                                             *)
EveryRequestServed ==
  \A c \in Clients : client[c] = "open" /\ sent[c] > 0 ~> client[c] = "closed"

=============================================================================
