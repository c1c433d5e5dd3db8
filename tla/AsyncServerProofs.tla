------------------------- MODULE AsyncServerProofs -------------------------
(***************************************************************************)
(* Proofs about AsyncServer for any clients, descriptors and number of     *)
(* workers: with clients that send one request in one segment and wait for *)
(* the answer, a closure always has the connection it was created for, no  *)
(* readiness is lost, and active_connections is exact.  That this needs    *)
(* such clients is what MCAsyncServerEdges.cfg shows.                      *)
(***************************************************************************)
EXTENDS AsyncServer, FiniteSetTheorems, SequenceTheorems, TLAPS

USE AsyncServerAssumption

(* The clients of the theorems: a request is one segment, and a client     *)
(* that has sent it waits until the server closes.                         *)
OneRequestEach == Patient /\ MaxSegments = 1

-----------------------------------------------------------------------------
(* The closures by what is left for them to do.                            *)
At(s)     == {j \in inProgress : stage[j] = s}
Receiving == Pool!Queued \cup At("recv")
Replying  == At("reply")
Closing   == At("close")
Gone      == At("uncount") \cup finished
Known     == Receiving \cup Replying \cup Closing \cup Gone

Spoken(c) == sent[c] > 0 \/ eof[c]

-----------------------------------------------------------------------------
(* The inductive invariant.  A client that has spoken causes one event, and *)
(* what remembers it is, in turn, the accept loop, an edge, an entry of the *)
(* batch and a closure: never two of them, so that the descriptor the       *)
(* closure holds is still its client's when it closes it.                   *)
QueueInv ==
  /\ \A i, k \in 1..Len(pending) : pending[i] = pending[k] => i = k
  /\ Pool!Queued \cap (inProgress \cup finished) = {}
  /\ inProgress \cap finished = {}

ClientInv ==
  \A c \in Clients :
    /\ sent[c] \in 0..1 /\ inbox[c] \in 0..1 /\ inbox[c] <= sent[c]
    /\ sent[c] = 0 \/ ~eof[c]
    /\ client[c] = "closed" => answered[c] = sent[c] /\ Spoken(c)
    /\ answered[c] <= sent[c]

SockInv ==
  /\ \A f, g \in Fds : sock[f] = sock[g] /\ sock[f] # NoClient => f = g
  /\ \A f \in Fds : sock[f] # NoClient => client[sock[f]] = "open"
  /\ \A c \in Clients : client[c] = "open" => \E f \in Fds : sock[f] = c
  /\ registered = {f \in Fds : sock[f] # NoClient /\ f # newFd}
  /\ newFd # NoFd => sock[newFd] # NoClient

(* Before its first closure nothing of a client's has been received,        *)
(* answered or closed, and what it has said is an edge or an event.         *)
EventInv ==
  /\ edges \cap batch = {}
  /\ \A f \in Fds, c \in Clients : <<f, c>> \in edges \cup batch =>
        f \in registered /\ sock[f] = c /\ Spoken(c) /\ raised[c] = 0
  /\ \A c \in Clients : raised[c] \in 0..1
  /\ \A c \in Clients : raised[c] = 0 =>
        inbox[c] = sent[c] /\ answered[c] = 0 /\ client[c] # "closed"
  /\ \A f \in registered, c \in Clients :
        sock[f] = c /\ Spoken(c) /\ raised[c] = 0 => <<f, c>> \in edges \cup batch

JobInv ==
  /\ \A j, k \in Known : j.who = k.who => j = k
  /\ \A c \in Clients : raised[c] = 1 => \E j \in Known : j.who = c
  /\ \A j \in Known : j.nth = 0 /\ raised[j.who] = 1 /\ Spoken(j.who)
  /\ \A j \in Receiving \cup Replying \cup Closing :
        j.fd \in registered /\ sock[j.fd] = j.who
  /\ \A j \in Receiving : answered[j.who] = 0 /\ inbox[j.who] = sent[j.who]
  /\ \A j \in Replying : answered[j.who] = 0 /\ inbox[j.who] = 0 /\ sent[j.who] = 1
  /\ \A j \in Closing : answered[j.who] = sent[j.who] /\ inbox[j.who] = 0
  /\ \A j \in Gone : client[j.who] = "closed"

CountInv ==
  /\ IsFiniteSet(At("uncount"))
  /\ active_connections = Cardinality(registered) + Cardinality(At("uncount"))

IInv == TypeOK /\ QueueInv /\ ClientInv /\ SockInv /\ EventInv /\ JobInv /\ CountInv

-----------------------------------------------------------------------------
(* What the steps do to the sets of closures. *)

LEMMA JobTypes ==
  ASSUME TypeOK
  PROVE  /\ Known \subseteq Jobs
         /\ \A j \in Jobs : j.fd \in Fds /\ j.who \in Clients
         /\ Pool!Queued \subseteq Jobs /\ finished \subseteq Jobs
         /\ Unclosed = Receiving \cup Replying \cup Closing
         /\ inProgress = At("recv") \cup At("reply") \cup At("close") \cup At("uncount")
<1>1. Pool!Queued \subseteq Jobs
  <2>1. pending \in Seq(Jobs)
    BY DEF TypeOK
  <2>2. Len(pending) \in Nat /\ \A i \in 1..Len(pending) : pending[i] \in Jobs
    BY <2>1
  <2> QED BY <2>2 DEF Pool!Queued
<1>2. \A j \in Jobs : j.fd \in Fds /\ j.who \in Clients
  BY DEF Jobs
<1>3. inProgress = At("recv") \cup At("reply") \cup At("close") \cup At("uncount")
  BY DEF TypeOK, At, Stages
<1>4. Unclosed = Receiving \cup Replying \cup Closing
  BY <1>1 DEF TypeOK, At, Stages, Unclosed, Receiving, Replying, Closing, Pool!Queued
<1> QED
  BY <1>1, <1>2, <1>3, <1>4 DEF TypeOK, Known, Receiving, Replying, Closing, Gone, At

LEMMA SameJobs ==
  ASSUME UNCHANGED <<pending, inProgress, finished, stage>>
  PROVE  UNCHANGED <<Receiving, Replying, Closing, Gone, Known, At("uncount"), Pool!Queued>>
  BY DEF Receiving, Replying, Closing, Gone, Known, At, Pool!Queued

(* push adds the new closure to those that wait and leaves the others. *)
LEMMA Enqueue ==
  ASSUME TypeOK, NEW x \in Jobs, Pool!Submit(x), UNCHANGED stage
  PROVE  /\ pending' \in Seq(Jobs)
         /\ Pool!Queued' = Pool!Queued \cup {x}
         /\ QueueInv => QueueInv'
         /\ Receiving' = Receiving \cup {x}
         /\ UNCHANGED <<inProgress, finished, open, Replying, Closing, Gone, At("uncount")>>
<1>1. /\ pending \in Seq(Jobs) /\ pending' = Append(pending, x)
      /\ x \notin Pool!Queued \cup inProgress \cup finished
      /\ UNCHANGED <<inProgress, finished, open, stage>>
  BY DEF Pool!Submit, TypeOK
<1>2. /\ Len(pending) \in Nat /\ Len(pending') = Len(pending) + 1
      /\ \A i \in 1..Len(pending) : pending'[i] = pending[i]
      /\ pending'[Len(pending) + 1] = x
      /\ pending' \in Seq(Jobs)
  BY <1>1
<1>3. /\ \A i \in 1..Len(pending') : i \in 1..Len(pending) \/ i = Len(pending) + 1
      /\ \A i \in 1..Len(pending) : i \in 1..Len(pending')
      /\ Len(pending) + 1 \in 1..Len(pending')
  BY <1>2
<1>4. Pool!Queued' = Pool!Queued \cup {x}
  BY <1>2, <1>3 DEF Pool!Queued
<1>5. ASSUME QueueInv PROVE QueueInv'
  <2>1. \A i \in 1..Len(pending) : pending[i] # x
    BY <1>1 DEF Pool!Queued
  <2>2. \A i, k \in 1..Len(pending') : pending'[i] = pending'[k] => i = k
    BY <1>2, <1>3, <1>5, <2>1 DEF QueueInv
  <2> QED BY <1>1, <1>4, <1>5, <2>2 DEF QueueInv
<1> QED
  BY <1>1, <1>2, <1>4, <1>5 DEF Receiving, Replying, Closing, Gone, At

(* A worker takes the oldest closure: it waits for recv as before. *)
LEMMA Dequeue ==
  ASSUME TypeOK, QueueInv, StartJob
  PROVE  /\ pending' \in Seq(Jobs) /\ inProgress' \subseteq Jobs
         /\ stage' \in [inProgress' -> Stages]
         /\ QueueInv'
         /\ UNCHANGED <<Receiving, Replying, Closing, Gone, Known, At("uncount")>>
<1> DEFINE h == Head(pending)
<1>1. /\ pending \in Seq(Jobs) /\ pending # <<>> /\ pending' = Tail(pending)
      /\ inProgress' = inProgress \cup {h} /\ UNCHANGED <<finished, open>>
      /\ stage' = [i \in inProgress' |-> IF i = h THEN "recv" ELSE stage[i]]
  BY DEF StartJob, Pool!Start, With, TypeOK
<1>2. /\ Len(pending) \in Nat /\ Len(pending) >= 1
      /\ h = pending[1] /\ h \in Jobs
      /\ pending' \in Seq(Jobs) /\ Len(pending') = Len(pending) - 1
      /\ \A i \in 1..Len(pending) - 1 : pending'[i] = pending[i + 1]
  BY <1>1
<1> HIDE DEF h
<1>3. /\ \A i \in 1..Len(pending') : i + 1 \in 1..Len(pending) /\ i + 1 # 1
                                    /\ pending'[i] = pending[i + 1]
      /\ 1 \in 1..Len(pending)
      /\ \A i \in 1..Len(pending) : i # 1 =>
            i - 1 \in 1..Len(pending') /\ pending'[i - 1] = pending[i]
  BY <1>2
<1>4. \A i, k \in 1..Len(pending) : pending[i] = pending[k] => i = k
  BY DEF QueueInv
<1>5. Pool!Queued' = Pool!Queued \ {h} /\ h \in Pool!Queued
  <2>1. ASSUME NEW x \in Pool!Queued' PROVE x \in Pool!Queued \ {h}
    <3>1. PICK i \in 1..Len(pending') : x = pending'[i]
      BY <2>1 DEF Pool!Queued
    <3> QED BY <1>2, <1>3, <1>4, <3>1 DEF Pool!Queued
  <2>2. ASSUME NEW x \in Pool!Queued \ {h} PROVE x \in Pool!Queued'
    <3>1. PICK i \in 1..Len(pending) : x = pending[i]
      BY <2>2 DEF Pool!Queued
    <3> QED BY <1>2, <1>3, <2>2, <3>1 DEF Pool!Queued
  <2>3. h \in Pool!Queued
    BY <1>2, <1>3 DEF Pool!Queued
  <2> QED BY <2>1, <2>2, <2>3
<1>6. \A i, k \in 1..Len(pending') : pending'[i] = pending'[k] => i = k
  <2> SUFFICES ASSUME NEW i \in 1..Len(pending'), NEW k \in 1..Len(pending'),
                      pending'[i] = pending'[k]
               PROVE  i = k
    OBVIOUS
  <2>1. i + 1 = k + 1
    BY <1>3, <1>4
  <2> QED BY <2>1
<1>7. h \notin inProgress /\ h \notin finished
  BY <1>5 DEF QueueInv
<1>8. QueueInv'
  BY <1>1, <1>5, <1>6, <1>7 DEF QueueInv
<1>9. stage' \in [inProgress' -> Stages] /\ inProgress' \subseteq Jobs
  BY <1>1, <1>2 DEF TypeOK, Stages
<1>10. /\ At("recv")' = At("recv") \cup {h}
       /\ UNCHANGED <<At("reply"), At("close"), At("uncount")>>
  BY <1>1, <1>7 DEF At
<1> QED
  BY <1>1, <1>2, <1>5, <1>8, <1>9, <1>10 DEF Known, Receiving, Replying, Closing, Gone

(* A closure goes on to its next stage. *)
LEMMA Advance ==
  ASSUME TypeOK, NEW j \in inProgress, NEW s \in Stages, s # stage[j], Goto(j, s)
  PROVE  /\ stage' \in [inProgress' -> Stages]
         /\ UNCHANGED <<pending, inProgress, finished, open, Pool!Queued>>
         /\ At(s)' = At(s) \cup {j}
         /\ \A t \in Stages : t # s => At(t)' = At(t) \ {j}
<1>1. /\ stage' = [stage EXCEPT ![j] = s]
      /\ UNCHANGED <<pending, inProgress, finished, open>>
  BY DEF Goto, poolVars
<1> QED
  BY <1>1 DEF At, TypeOK, Pool!Queued

-----------------------------------------------------------------------------
(* Every step keeps the invariant. *)

LEMMA InitInv == ASSUME OneRequestEach, Init PROVE IInv
<1>1. /\ pending = <<>> /\ inProgress = {} /\ finished = {} /\ open = TRUE
  BY DEF Init, Pool!Init
<1>2. Pool!Queued = {} /\ At("recv") = {} /\ At("reply") = {} /\ At("close") = {}
      /\ At("uncount") = {}
  BY <1>1 DEF Pool!Queued, At
<1>3. Known = {}
  BY <1>1, <1>2 DEF Known, Receiving, Replying, Closing, Gone
<1>4. stage \in [{} -> Stages]
  <2>1. stage = <<>>
    BY DEF Init
  <2>2. stage \in Seq(Stages) /\ Len(stage) = 0
    BY <2>1, EmptySeq
  <2>3. stage \in [1..0 -> Stages]
    BY <2>2, LenProperties
  <2> QED BY <2>3
<1>5. TypeOK
  BY <1>1, <1>4 DEF Init, TypeOK, OneRequestEach
<1>6. QueueInv
  BY <1>1, <1>2 DEF QueueInv
<1>7. ClientInv /\ SockInv /\ EventInv
  BY DEF Init, ClientInv, SockInv, EventInv, Spoken
<1>8. JobInv
  BY <1>3 DEF Init, JobInv, Known
<1>9. CountInv
  <2>1. IsFiniteSet({}) /\ Cardinality({}) = 0
    BY FS_EmptySet
  <2>2. registered = {} /\ active_connections = 0
    BY DEF Init
  <2> QED BY <1>2, <2>1, <2>2 DEF CountInv
<1> QED BY <1>5, <1>6, <1>7, <1>8, <1>9 DEF IInv

LEMMA ConnectStep ==
  ASSUME OneRequestEach, IInv, NEW c \in Clients, Connect(c) PROVE IInv'
<1> USE DEF IInv
<1>1. /\ client[c] = "out" /\ client' = [client EXCEPT ![c] = "backlog"]
      /\ UNCHANGED <<inbox, sent, eof, answered, sock, registered, edges, batch,
                     accepting, newFd, active_connections, pending, inProgress,
                     finished, open, stage, raised>>
  BY DEF Connect, kernelVars, loopVars, poolVars
<1>2. UNCHANGED <<Receiving, Replying, Closing, Gone, Known, At("uncount"), Pool!Queued>>
  BY <1>1, SameJobs
<1>3. Known \subseteq Jobs /\ \A j \in Jobs : j.fd \in Fds /\ j.who \in Clients
  BY JobTypes
<1>4. TypeOK'
  BY <1>1 DEF TypeOK
<1>5. QueueInv' /\ CountInv'
  BY <1>1, <1>2 DEF QueueInv, CountInv
<1>6. ClientInv'
  BY <1>1 DEF ClientInv, Spoken, TypeOK
<1>7. SockInv'
  BY <1>1 DEF SockInv, TypeOK
<1>8. EventInv'
  BY <1>1 DEF EventInv, Spoken, TypeOK
<1>9. JobInv'
  BY <1>1, <1>2, <1>3 DEF JobInv, Known, Spoken, TypeOK
<1> QED BY <1>4, <1>5, <1>6, <1>7, <1>8, <1>9

(* What a client that had said nothing says is remembered where it is: by   *)
(* the accept loop, or as an edge.                                          *)
LEMMA SpeakStep ==
  ASSUME OneRequestEach, IInv, NEW c \in Clients, Send(c) \/ HangUp(c) PROVE IInv'
<1> USE DEF IInv
<1>1. /\ client[c] \in {"backlog", "open"} /\ ~eof[c] /\ sent[c] = 0
      /\ \/ /\ sent' = [sent EXCEPT ![c] = 1] /\ inbox' = [inbox EXCEPT ![c] = @ + 1]
            /\ UNCHANGED eof
         \/ eof' = [eof EXCEPT ![c] = TRUE] /\ UNCHANGED <<sent, inbox>>
      /\ edges' = edges \cup {<<f, c>> : f \in {g \in registered : sock[g] = c}}
      /\ UNCHANGED <<client, answered, sock, registered, batch,
                     accepting, newFd, active_connections, pending, inProgress,
                     finished, open, stage, raised>>
  BY DEF Send, HangUp, RaiseEdge, kernelVars, loopVars, poolVars, ClientInv, OneRequestEach
<1>2. UNCHANGED <<Receiving, Replying, Closing, Gone, Known, At("uncount"), Pool!Queued>>
  BY <1>1, SameJobs
<1>3. Known \subseteq Jobs /\ \A j \in Jobs : j.fd \in Fds /\ j.who \in Clients
  BY JobTypes
<1>4. ~Spoken(c) /\ raised[c] = 0 /\ inbox[c] = 0 /\ \A j \in Known : j.who # c
  BY <1>1, <1>3 DEF EventInv, JobInv, Spoken
<1>5. Spoken(c)' /\ \A d \in Clients : d # c => (Spoken(d)' <=> Spoken(d))
  BY <1>1 DEF Spoken, TypeOK
<1>6. TypeOK'
  <2>1. edges' \subseteq Fds \X Clients
    BY <1>1 DEF TypeOK
  <2>2. /\ inbox' \in [Clients -> 0..MaxSegments] /\ sent' \in [Clients -> 0..MaxSegments]
        /\ eof' \in [Clients -> BOOLEAN]
    <3>1. 0 \in 0..MaxSegments /\ 1 \in 0..MaxSegments /\ inbox[c] + 1 = 1
      BY <1>4 DEF OneRequestEach
    <3> QED BY <1>1, <3>1 DEF TypeOK
  <2> QED BY <1>1, <2>1, <2>2 DEF TypeOK
<1>7. QueueInv' /\ CountInv'
  BY <1>1, <1>2 DEF QueueInv, CountInv
<1>8. ClientInv'
  BY <1>1, <1>4, <1>5 DEF ClientInv, TypeOK
<1>9. SockInv'
  BY <1>1 DEF SockInv
<1>10. EventInv'
  <2>1. ASSUME NEW f \in Fds, NEW d \in Clients
        PROVE  <<f, d>> \in edges' <=> <<f, d>> \in edges \/ (d = c /\ f \in registered /\ sock[f] = c)
    BY <1>1
  <2>2. \A f \in Fds, d \in Clients : <<f, d>> \in edges \cup batch => d # c
    BY <1>4 DEF EventInv
  <2>3. edges' \cap batch' = {}
    <3>1. ASSUME NEW e \in edges', e \in batch PROVE FALSE
      <4>1. e \in Fds \X Clients /\ e = <<e[1], e[2]>>
        BY <3>1 DEF TypeOK
      <4> QED BY <2>1, <2>2, <3>1, <4>1 DEF EventInv
    <3> QED BY <1>1, <3>1
  <2>4. \A d \in Clients : d # c => inbox'[d] = inbox[d] /\ sent'[d] = sent[d]
    BY <1>1 DEF TypeOK
  <2>5. inbox'[c] = sent'[c]
    BY <1>1, <1>4 DEF TypeOK
  <2>6. registered \subseteq Fds
    BY DEF TypeOK
  <2>7. ASSUME NEW f \in Fds, NEW d \in Clients, <<f, d>> \in edges' \cup batch'
        PROVE  f \in registered' /\ sock'[f] = d /\ Spoken(d)' /\ raised'[d] = 0
    <3>1. CASE d = c /\ f \in registered /\ sock[f] = c
      BY <1>1, <1>4, <1>5, <3>1
    <3>2. CASE <<f, d>> \in edges \cup batch
      <4>1. f \in registered /\ sock[f] = d /\ Spoken(d) /\ raised[d] = 0 /\ d # c
        BY <2>2, <3>2 DEF EventInv
      <4> QED BY <1>1, <1>5, <4>1
    <3> QED BY <1>1, <2>1, <2>7, <3>1, <3>2
  <2>8. ASSUME NEW d \in Clients
        PROVE  /\ raised'[d] \in 0 .. 1
               /\ raised'[d] = 0 =>
                    inbox'[d] = sent'[d] /\ answered'[d] = 0 /\ client'[d] # "closed"
    <3>1. /\ raised[d] \in 0 .. 1
          /\ raised[d] = 0 => inbox[d] = sent[d] /\ answered[d] = 0 /\ client[d] # "closed"
      BY DEF EventInv
    <3> QED BY <1>1, <2>4, <2>5, <3>1
  <2>9. ASSUME NEW f \in registered', NEW d \in Clients,
               sock'[f] = d, Spoken(d)', raised'[d] = 0
        PROVE  <<f, d>> \in edges' \cup batch'
    <3>1. CASE d = c
      BY <1>1, <2>1, <2>6, <2>9, <3>1
    <3>2. CASE d # c
      <4>1. <<f, d>> \in edges \cup batch
        BY <1>1, <1>5, <2>9, <3>2 DEF EventInv
      <4> QED BY <1>1, <2>1, <2>6, <4>1
    <3> QED BY <3>1, <3>2
  <2> QED BY <2>3, <2>7, <2>8, <2>9 DEF EventInv
<1>11. JobInv'
  BY <1>1, <1>2, <1>3, <1>4, <1>5 DEF JobInv, Known, TypeOK
<1> QED BY <1>6, <1>7, <1>8, <1>9, <1>10, <1>11

LEMMA EpollWaitStep == ASSUME OneRequestEach, IInv, EpollWait PROVE IInv'
<1> USE DEF IInv
<1>1. /\ batch = {} /\ batch' = edges /\ edges' = {}
      /\ accepting' \in {"no", "due"}
      /\ UNCHANGED <<client, inbox, sent, eof, answered, sock, registered,
                     newFd, active_connections, pending, inProgress,
                     finished, open, stage, raised>>
  BY DEF EpollWait, netVars, poolVars
<1>2. UNCHANGED <<Receiving, Replying, Closing, Gone, Known, At("uncount"), Pool!Queued>>
  BY <1>1, SameJobs
<1>3. TypeOK'
  BY <1>1 DEF TypeOK
<1>4. QueueInv' /\ CountInv' /\ ClientInv' /\ SockInv'
  BY <1>1, <1>2 DEF QueueInv, CountInv, ClientInv, SockInv, Spoken
<1>5. EventInv'
  BY <1>1 DEF EventInv, Spoken
<1>6. JobInv'
  BY <1>1, <1>2 DEF JobInv, Spoken
<1> QED BY <1>3, <1>4, <1>5, <1>6

LEMMA AcceptStep ==
  ASSUME OneRequestEach, IInv, NEW c \in Clients, NEW f \in Fds, AcceptFd(c, f)
  PROVE  IInv'
<1> USE DEF IInv
<1>1. /\ newFd = NoFd /\ client[c] = "backlog" /\ sock[f] = NoClient
      /\ sock' = [sock EXCEPT ![f] = c] /\ client' = [client EXCEPT ![c] = "open"]
      /\ newFd' = f /\ accepting' = "loop"
      /\ UNCHANGED <<inbox, sent, eof, answered, registered, edges, batch,
                     active_connections, pending, inProgress,
                     finished, open, stage, raised>>
  BY DEF AcceptFd, Backlog, poolVars
<1>2. UNCHANGED <<Receiving, Replying, Closing, Gone, Known, At("uncount"), Pool!Queued>>
  BY <1>1, SameJobs
<1>3. Known \subseteq Jobs /\ \A j \in Jobs : j.fd \in Fds /\ j.who \in Clients
  BY JobTypes
<1>4. f \notin registered /\ \A g \in Fds : sock[g] # c
  BY <1>1 DEF SockInv
<1>5. TypeOK'
  BY <1>1 DEF TypeOK
<1>6. QueueInv' /\ CountInv'
  BY <1>1, <1>2 DEF QueueInv, CountInv
<1>7. ClientInv'
  BY <1>1 DEF ClientInv, Spoken, TypeOK
<1>8. SockInv'
  <2>1. \A g \in Fds : sock'[g] = IF g = f THEN c ELSE sock[g]
    BY <1>1 DEF TypeOK
  <2>2. \A d \in Clients : client'[d] = IF d = c THEN "open" ELSE client[d]
    BY <1>1 DEF TypeOK
  <2>3. registered = {g \in Fds : sock'[g] # NoClient /\ g # f}
    BY <1>1, <2>1 DEF SockInv
  <2> QED BY <1>1, <1>4, <2>1, <2>2, <2>3 DEF SockInv, TypeOK
<1>9. EventInv'
  BY <1>1, <1>4 DEF EventInv, Spoken, TypeOK
<1>10. JobInv'
  BY <1>1, <1>2, <1>3, <1>4 DEF JobInv, Known, Spoken, TypeOK
<1> QED BY <1>5, <1>6, <1>7, <1>8, <1>9, <1>10

LEMMA RefuseStep ==
  ASSUME OneRequestEach, IInv, NEW c \in Clients, Refuse(c) PROVE IInv'
<1> USE DEF IInv
<1>1. /\ client[c] = "backlog" /\ client' = [client EXCEPT ![c] = "refused"]
      /\ accepting' = "loop"
      /\ UNCHANGED <<inbox, sent, eof, answered, sock, registered, edges, batch,
                     newFd, active_connections, pending, inProgress,
                     finished, open, stage, raised>>
  BY DEF Refuse, Backlog, kernelVars, poolVars
<1>2. UNCHANGED <<Receiving, Replying, Closing, Gone, Known, At("uncount"), Pool!Queued>>
  BY <1>1, SameJobs
<1>3. Known \subseteq Jobs /\ \A j \in Jobs : j.fd \in Fds /\ j.who \in Clients
  BY JobTypes
<1>4. TypeOK'
  BY <1>1 DEF TypeOK
<1>5. QueueInv' /\ CountInv'
  BY <1>1, <1>2 DEF QueueInv, CountInv
<1>6. ClientInv'
  BY <1>1 DEF ClientInv, Spoken, TypeOK
<1>7. SockInv'
  BY <1>1 DEF SockInv, TypeOK
<1>8. EventInv'
  BY <1>1 DEF EventInv, Spoken, TypeOK
<1>9. JobInv'
  BY <1>1, <1>2, <1>3 DEF JobInv, Known, Spoken, TypeOK
<1> QED BY <1>4, <1>5, <1>6, <1>7, <1>8, <1>9

LEMMA RegisterStep == ASSUME OneRequestEach, IInv, Register PROVE IInv'
<1> USE DEF IInv
<1> DEFINE f == newFd
           c == sock[newFd]
<1>1. f \in Fds /\ c \in Clients /\ f # NoFd /\ f \notin registered
  BY DEF Register, TypeOK, SockInv
<1>2. /\ registered' = registered \cup {f}
      /\ newFd' = NoFd /\ active_connections' = active_connections + 1
      /\ edges' = edges \cup {<<f, d>> : d \in {d \in Clients :
                                  c = d /\ (inbox[d] > 0 \/ eof[d])}}
      /\ UNCHANGED <<client, inbox, sent, eof, answered, sock, batch, accepting,
                     pending, inProgress, finished, open, stage, raised>>
  BY <1>1 DEF Register, netVars, poolVars
<1>3. UNCHANGED <<Receiving, Replying, Closing, Gone, Known, At("uncount"), Pool!Queued>>
  BY <1>2, SameJobs
<1>4. Known \subseteq Jobs /\ \A j \in Jobs : j.fd \in Fds /\ j.who \in Clients
  BY JobTypes
<1> HIDE DEF f
<1>5. \A j \in Known : j.who # c
  BY <1>1, <1>4 DEF JobInv, Known, SockInv, c, f
<1>6. raised[c] = 0 /\ inbox[c] = sent[c]
  BY <1>1, <1>5 DEF JobInv, EventInv
<1>7. edges' = IF Spoken(c) THEN edges \cup {<<f, c>>} ELSE edges
  BY <1>1, <1>2, <1>6 DEF Spoken, ClientInv, TypeOK
<1>8. sock[f] = c
  BY DEF f
<1> HIDE DEF c
<1>9. TypeOK'
  BY <1>1, <1>2, <1>7 DEF TypeOK
<1>10. QueueInv' /\ ClientInv'
  BY <1>2, <1>3 DEF QueueInv, ClientInv, Spoken
<1>11. CountInv'
  <2>1. IsFiniteSet(registered)
    BY FS_Subset DEF TypeOK
  <2>2. Cardinality(registered') = Cardinality(registered) + 1
    BY <1>1, <1>2, <2>1, FS_AddElement
  <2>3. Cardinality(registered) \in Nat /\ Cardinality(At("uncount")) \in Nat
    BY <2>1, FS_CardinalityType DEF CountInv
  <2> QED BY <1>2, <1>3, <2>2, <2>3 DEF CountInv
<1>12. SockInv'
  BY <1>1, <1>2, <1>8 DEF SockInv, TypeOK, f
<1>13. EventInv'
  BY <1>1, <1>2, <1>6, <1>7, <1>8 DEF EventInv, Spoken, SockInv
<1>14. JobInv'
  BY <1>2, <1>3 DEF JobInv, Spoken
<1> QED BY <1>9, <1>10, <1>11, <1>12, <1>13, <1>14

LEMMA AcceptDoneStep == ASSUME OneRequestEach, IInv, AcceptDone PROVE IInv'
<1>1. UNCHANGED <<client, inbox, sent, eof, answered, sock, registered, edges, batch,
                  newFd, active_connections, pending, inProgress, finished, open,
                  stage, raised>>
  BY DEF AcceptDone, netVars, kernelVars, poolVars
<1>2. UNCHANGED <<Receiving, Replying, Closing, Gone, Known, At("uncount"), Pool!Queued>>
  BY <1>1, SameJobs
<1>3. TypeOK'
  BY <1>1 DEF AcceptDone, TypeOK, IInv
<1> QED
  BY <1>1, <1>2, <1>3
     DEF IInv, QueueInv, ClientInv, SockInv, EventInv, JobInv, CountInv, Spoken

LEMMA DispatchStep ==
  ASSUME OneRequestEach, IInv, NEW c \in Clients, NEW f \in Fds, Dispatch(f, c)
  PROVE  IInv'
<1> USE DEF IInv
<1> DEFINE x == Job(f, c)
<1>1. /\ <<f, c>> \in batch /\ Pool!Submit(x)
      /\ raised' = [raised EXCEPT ![c] = @ + 1] /\ batch' = batch \ {<<f, c>>}
      /\ UNCHANGED <<client, inbox, sent, eof, answered, sock, registered, edges,
                     accepting, newFd, active_connections, stage>>
  BY DEF Dispatch, netVars, kernelVars
<1>2. /\ f \in registered /\ sock[f] = c /\ Spoken(c) /\ raised[c] = 0
      /\ inbox[c] = sent[c] /\ answered[c] = 0
  BY <1>1 DEF EventInv
<1>3. x \in Jobs /\ x.fd = f /\ x.who = c /\ x.nth = 0
  BY <1>2 DEF Job, Jobs, OneRequestEach
<1> HIDE DEF x
<1>4. /\ pending' \in Seq(Jobs) /\ QueueInv' /\ Receiving' = Receiving \cup {x}
      /\ UNCHANGED <<inProgress, finished, open, Replying, Closing, Gone, At("uncount")>>
  BY <1>1, <1>3, Enqueue
<1>5. Known \subseteq Jobs /\ \A j \in Jobs : j.fd \in Fds /\ j.who \in Clients
  BY JobTypes
<1>6. Known' = Known \cup {x} /\ \A j \in Known : j.who # c
  BY <1>2, <1>4 DEF Known, JobInv
<1>7. \A d \in Clients : raised'[d] = IF d = c THEN 1 ELSE raised[d]
  BY <1>1, <1>2 DEF TypeOK
<1>8. TypeOK'
  <2>1. raised' \in [Clients -> 0..MaxSegments + 1]
    BY <1>1, <1>2 DEF TypeOK, OneRequestEach
  <2> QED BY <1>1, <1>4, <2>1 DEF TypeOK
<1>9. ClientInv' /\ SockInv' /\ CountInv'
  BY <1>1, <1>4 DEF ClientInv, SockInv, CountInv, Spoken
<1>10. EventInv'
  <2>1. \A e \in edges' \cup batch' : e \in edges \cup batch /\ e # <<f, c>>
    BY <1>1 DEF EventInv
  <2>2. ASSUME NEW g \in Fds, NEW d \in Clients, <<g, d>> \in edges' \cup batch'
        PROVE  g \in registered' /\ sock'[g] = d /\ Spoken(d)' /\ raised'[d] = 0
    <3>1. <<g, d>> \in edges \cup batch /\ ~(g = f /\ d = c)
      BY <2>1, <2>2
    <3>2. sock[g] = d /\ g \in registered /\ Spoken(d) /\ raised[d] = 0
      BY <3>1 DEF EventInv
    <3>3. d # c
      BY <1>2, <3>1, <3>2 DEF SockInv, TypeOK
    <3> QED BY <1>1, <1>7, <3>2, <3>3 DEF Spoken
  <2>3. ASSUME NEW g \in registered', NEW d \in Clients,
               sock'[g] = d, Spoken(d)', raised'[d] = 0
        PROVE  <<g, d>> \in edges' \cup batch'
    <3>1. d # c /\ raised[d] = 0 /\ sock[g] = d /\ Spoken(d) /\ g \in registered
      BY <1>1, <1>7, <2>3 DEF Spoken
    <3>2. <<g, d>> \in edges \cup batch
      BY <3>1 DEF EventInv
    <3> QED BY <1>1, <3>1, <3>2
  <2>4. edges' \cap batch' = {}
    BY <1>1 DEF EventInv
  <2> QED BY <1>1, <1>7, <2>2, <2>3, <2>4 DEF EventInv
<1>11. JobInv'
  BY <1>1, <1>2, <1>3, <1>4, <1>5, <1>6, <1>7 DEF JobInv, Spoken
<1> QED BY <1>4, <1>8, <1>9, <1>10, <1>11

LEMMA StartStep == ASSUME OneRequestEach, IInv, StartJob PROVE IInv'
<1> USE DEF IInv
<1>1. /\ pending' \in Seq(Jobs) /\ inProgress' \subseteq Jobs
      /\ stage' \in [inProgress' -> Stages] /\ QueueInv'
      /\ UNCHANGED <<Receiving, Replying, Closing, Gone, Known, At("uncount")>>
  BY Dequeue
<1>2. UNCHANGED <<client, inbox, sent, eof, answered, sock, registered, edges, batch,
                  accepting, newFd, active_connections, finished, open, raised>>
  BY DEF StartJob, Pool!Start, netVars, kernelVars, loopVars
<1>3. TypeOK'
  BY <1>1, <1>2 DEF TypeOK
<1> QED
  BY <1>1, <1>2, <1>3 DEF ClientInv, SockInv, EventInv, JobInv, CountInv, Spoken

(* What the uniqueness of the closures says of one that is running. *)
LEMMA Alone ==
  ASSUME IInv, NEW j \in inProgress
  PROVE  /\ j \in Jobs /\ j \in Known /\ j.who \in Clients /\ j.fd \in Fds
         /\ \A k \in Known : k # j => k.who # j.who
         /\ \A s \in Stages : stage[j] # s => j \notin At(s)
         /\ j \notin Pool!Queued /\ j \notin finished
  BY JobTypes DEF IInv, QueueInv, JobInv, TypeOK, Known, Receiving, Replying, Closing,
                  Gone, At

LEMMA RecvStep ==
  ASSUME OneRequestEach, IInv, NEW j \in inProgress, Recv(j) PROVE IInv'
<1> USE DEF IInv
<1> DEFINE c == j.who
<1>1. /\ j \in Jobs /\ j \in Known /\ c \in Clients /\ j.fd \in Fds
      /\ \A k \in Known : k # j => k.who # c
      /\ j \notin Pool!Queued /\ j \notin finished /\ stage[j] = "recv" /\ j \in Receiving
  BY Alone DEF Recv, Receiving, At
<1>2. /\ j.fd \in registered /\ sock[j.fd] = c /\ answered[c] = 0 /\ inbox[c] = sent[c]
      /\ sent[c] \in 0..1 /\ c # NoClient
  BY <1>1 DEF JobInv, ClientInv
<1>3. Known \subseteq Jobs /\ \A k \in Jobs : k.fd \in Fds /\ k.who \in Clients
  BY JobTypes
<1> HIDE DEF c
<1>4. UNCHANGED <<client, sent, eof, answered, sock, registered, edges, batch,
                  accepting, newFd, active_connections, raised>>
  BY DEF Recv, kernelVars, loopVars
<1>5. PICK s \in {"reply", "close"} :
        /\ Goto(j, s) /\ (s = "reply" => sent[c] = 1) /\ (s = "close" => sent[c] = 0)
        /\ inbox' = [inbox EXCEPT ![c] = 0]
  <2>1. CASE inbox[c] > 0
    BY <1>2, <2>1 DEF Recv
  <2>2. CASE ~(inbox[c] > 0)
    <3>1. Goto(j, "close") /\ UNCHANGED inbox
      BY <1>2, <2>2 DEF Recv
    <3>2. sent[c] = 0 /\ inbox[c] = 0
      BY <1>2, <2>2
    <3>3. inbox = [inbox EXCEPT ![c] = 0]
      BY <1>1, <3>2 DEF TypeOK
    <3> QED BY <3>1, <3>2, <3>3
  <2> QED BY <2>1, <2>2
<1>6. /\ stage' \in [inProgress' -> Stages]
      /\ UNCHANGED <<pending, inProgress, finished, open, Pool!Queued>>
      /\ At(s)' = At(s) \cup {j}
      /\ \A t \in Stages : t # s => At(t)' = At(t) \ {j}
  BY <1>1, <1>5, Advance DEF Stages
<1>7. /\ Receiving' = Receiving \ {j}
      /\ Replying' = IF s = "reply" THEN Replying \cup {j} ELSE Replying
      /\ Closing' = IF s = "close" THEN Closing \cup {j} ELSE Closing
      /\ At("uncount")' = At("uncount") /\ Gone' = Gone /\ Known' = Known
  <2>1. j \notin At("reply") /\ j \notin At("close") /\ j \notin At("uncount")
    BY <1>1 DEF At
  <2>2. s = "reply" => At("reply")' = At("reply") \cup {j} /\ At("close")' = At("close") \ {j}
    BY <1>6 DEF Stages
  <2>3. s = "close" => At("close")' = At("close") \cup {j} /\ At("reply")' = At("reply") \ {j}
    BY <1>6 DEF Stages
  <2>4. At("recv")' = At("recv") \ {j} /\ At("uncount")' = At("uncount") \ {j}
    BY <1>5, <1>6 DEF Stages
  <2>5. /\ Pool!Queued' = Pool!Queued /\ finished' = finished
        /\ j \notin Pool!Queued /\ j \notin finished /\ j \in At("recv")
    BY <1>1, <1>6 DEF At
  <2>6. /\ Receiving' = Receiving \ {j}
        /\ At("uncount")' = At("uncount") /\ Gone' = Gone
    BY <2>1, <2>4, <2>5 DEF Receiving, Gone
  <2>7. /\ Replying' = IF s = "reply" THEN Replying \cup {j} ELSE Replying
        /\ Closing' = IF s = "close" THEN Closing \cup {j} ELSE Closing
    BY <1>5, <2>1, <2>2, <2>3 DEF Replying, Closing
  <2>8. j \in Receiving /\ (s = "reply" \/ s = "close")
    BY <1>1, <1>5
  <2>9. CASE s = "reply"
    BY <2>6, <2>7, <2>8, <2>9 DEF Known
  <2>10. CASE s = "close"
    BY <2>6, <2>7, <2>8, <2>10 DEF Known
  <2> QED BY <2>8, <2>9, <2>10
<1>8. TypeOK'
  <2>1. inbox' \in [Clients -> 0..MaxSegments]
    <3>1. inbox' = [inbox EXCEPT ![c] = 0] /\ inbox \in [Clients -> 0..MaxSegments]
      BY <1>5 DEF TypeOK
    <3>2. 0 \in 0..MaxSegments
      OBVIOUS
    <3> QED BY <3>1, <3>2
  <2> QED BY <1>4, <1>6, <2>1 DEF TypeOK
<1>9. QueueInv' /\ SockInv' /\ CountInv'
  BY <1>4, <1>6, <1>7 DEF QueueInv, SockInv, CountInv
<1>10. \A d \in Clients : inbox'[d] = IF d = c THEN 0 ELSE inbox[d]
  BY <1>5 DEF TypeOK
<1>11. ClientInv'
  BY <1>2, <1>4, <1>10 DEF ClientInv, Spoken
<1>12. raised[c] = 1
  BY <1>1 DEF JobInv, c
<1>13. EventInv'
  BY <1>4, <1>10, <1>12 DEF EventInv, Spoken
<1>14. JobInv'
  BY <1>1, <1>2, <1>3, <1>4, <1>5, <1>7, <1>10 DEF JobInv, Spoken, Known, c
<1> QED BY <1>8, <1>9, <1>11, <1>13, <1>14

LEMMA ReplyStep ==
  ASSUME OneRequestEach, IInv, NEW j \in inProgress, Reply(j) PROVE IInv'
<1> USE DEF IInv
<1> DEFINE c == j.who
<1>1. /\ j \in Jobs /\ j \in Known /\ c \in Clients /\ j.fd \in Fds
      /\ \A k \in Known : k # j => k.who # c
      /\ j \notin Pool!Queued /\ j \notin finished /\ stage[j] = "reply" /\ j \in Replying
  BY Alone DEF Reply, Replying, At
<1>2. /\ j.fd \in registered /\ sock[j.fd] = c /\ answered[c] = 0 /\ inbox[c] = 0
      /\ sent[c] = 1 /\ raised[c] = 1 /\ client[c] # "closed"
  BY <1>1 DEF JobInv, ClientInv
<1>3. Known \subseteq Jobs /\ \A k \in Jobs : k.fd \in Fds /\ k.who \in Clients
  BY JobTypes
<1> HIDE DEF c
<1>4. /\ UNCHANGED <<client, inbox, sent, eof, sock, registered, edges, batch,
                  accepting, newFd, active_connections, raised>>
      /\ Goto(j, "close")
  BY DEF Reply, kernelVars, loopVars
<1>5. /\ \A d \in Clients : answered'[d] = IF d = c THEN 1 ELSE answered[d]
      /\ answered' \in [Clients -> Nat]
  BY <1>2 DEF Reply, TypeOK
<1>6. /\ stage' \in [inProgress' -> Stages]
      /\ UNCHANGED <<pending, inProgress, finished, open, Pool!Queued>>
      /\ At("close")' = At("close") \cup {j}
      /\ \A t \in Stages : t # "close" => At(t)' = At(t) \ {j}
  BY <1>1, <1>4, Advance DEF Stages
<1>7. /\ Receiving' = Receiving /\ Replying' = Replying \ {j}
      /\ Closing' = Closing \cup {j}
      /\ At("uncount")' = At("uncount") /\ Gone' = Gone /\ Known' = Known
  <2>1. j \notin At("recv") /\ j \notin At("close") /\ j \notin At("uncount")
    BY <1>1 DEF At
  <2>2. /\ At("recv")' = At("recv") \ {j} /\ At("reply")' = At("reply") \ {j}
        /\ At("uncount")' = At("uncount") \ {j}
    BY <1>6 DEF Stages
  <2>3. /\ Pool!Queued' = Pool!Queued /\ finished' = finished /\ j \in Replying
        /\ At("close")' = At("close") \cup {j}
    BY <1>1, <1>6
  <2>4. /\ Receiving' = Receiving /\ Replying' = Replying \ {j}
        /\ Closing' = Closing \cup {j}
        /\ At("uncount")' = At("uncount") /\ Gone' = Gone
    BY <2>1, <2>2, <2>3 DEF Receiving, Replying, Closing, Gone
  <2> QED BY <2>3, <2>4 DEF Known
<1>8. TypeOK'
  BY <1>4, <1>5, <1>6 DEF TypeOK
<1>9. QueueInv' /\ SockInv' /\ CountInv'
  BY <1>4, <1>6, <1>7 DEF QueueInv, SockInv, CountInv
<1>10. ClientInv'
  BY <1>2, <1>4, <1>5 DEF ClientInv, Spoken
<1>11. EventInv'
  BY <1>2, <1>4, <1>5 DEF EventInv, Spoken
<1>12. JobInv'
  BY <1>1, <1>2, <1>3, <1>4, <1>5, <1>7 DEF JobInv, Spoken, Known, c
<1> QED BY <1>8, <1>9, <1>10, <1>11, <1>12

LEMMA CloseStep ==
  ASSUME OneRequestEach, IInv, NEW j \in inProgress, Close(j) PROVE IInv'
<1> USE DEF IInv
<1> DEFINE c == j.who
           f == j.fd
<1>1. /\ j \in Jobs /\ j \in Known /\ c \in Clients /\ f \in Fds
      /\ \A k \in Known : k # j => k.who # c
      /\ j \notin Pool!Queued /\ j \notin finished /\ stage[j] = "close" /\ j \in Closing
  BY Alone DEF Close, Closing, At
<1>2. /\ f \in registered /\ sock[f] = c /\ answered[c] = sent[c] /\ inbox[c] = 0
      /\ raised[c] = 1 /\ Spoken(c) /\ client[c] = "open" /\ c # NoClient
      /\ f # newFd /\ \A g \in Fds : sock[g] = c => g = f
  BY <1>1 DEF JobInv, SockInv
<1>3. Known \subseteq Jobs /\ \A k \in Jobs : k.fd \in Fds /\ k.who \in Clients
  BY JobTypes
<1>4. /\ UNCHANGED <<inbox, sent, eof, answered, batch,
                  accepting, newFd, active_connections, raised>>
      /\ Goto(j, "uncount") /\ sock' = [sock EXCEPT ![f] = NoClient]
      /\ registered' = registered \ {f} /\ edges' = {e \in edges : e[1] # f}
      /\ client' = [d \in Clients |-> IF sock[f] = d THEN "closed" ELSE client[d]]
  BY DEF Close, loopVars
<1> HIDE DEF c, f
<1>5. /\ \A d \in Clients : client'[d] = IF d = c THEN "closed" ELSE client[d]
      /\ \A g \in Fds : sock'[g] = IF g = f THEN NoClient ELSE sock[g]
  BY <1>1, <1>2, <1>4 DEF TypeOK
<1>6. /\ stage' \in [inProgress' -> Stages]
      /\ UNCHANGED <<pending, inProgress, finished, open, Pool!Queued>>
      /\ At("uncount")' = At("uncount") \cup {j}
      /\ \A t \in Stages : t # "uncount" => At(t)' = At(t) \ {j}
  BY <1>1, <1>4, Advance DEF Stages
<1>7. /\ Receiving' = Receiving /\ Replying' = Replying
      /\ Closing' = Closing \ {j} /\ j \notin At("uncount")
      /\ Gone' = Gone \cup {j} /\ Known' = Known
      /\ j \notin Receiving /\ j \notin Replying
  <2>1. j \notin At("recv") /\ j \notin At("reply") /\ j \notin At("uncount")
    BY <1>1 DEF At
  <2>2. /\ At("recv")' = At("recv") \ {j} /\ At("reply")' = At("reply") \ {j}
        /\ At("close")' = At("close") \ {j}
    BY <1>6 DEF Stages
  <2>3. /\ Pool!Queued' = Pool!Queued /\ finished' = finished /\ j \in Closing
        /\ At("uncount")' = At("uncount") \cup {j} /\ j \notin Pool!Queued
    BY <1>1, <1>6
  <2>4. /\ Receiving' = Receiving /\ Replying' = Replying
        /\ Closing' = Closing \ {j} /\ Gone' = Gone \cup {j}
        /\ j \notin Receiving /\ j \notin Replying
    BY <2>1, <2>2, <2>3 DEF Receiving, Replying, Closing, Gone
  <2> QED BY <2>1, <2>3, <2>4 DEF Known
<1>8. TypeOK'
  BY <1>4, <1>6 DEF TypeOK
<1>9. QueueInv'
  BY <1>4, <1>6 DEF QueueInv
<1>10. CountInv'
  <2>1. IsFiniteSet(registered)
    BY FS_Subset DEF TypeOK
  <2>2. Cardinality(registered') = Cardinality(registered) - 1
    BY <1>2, <1>4, <2>1, FS_RemoveElement
  <2>3. /\ Cardinality(At("uncount")') = Cardinality(At("uncount")) + 1
        /\ IsFiniteSet(At("uncount")')
    BY <1>6, <1>7, FS_AddElement DEF CountInv
  <2>4. Cardinality(registered) \in Nat /\ Cardinality(At("uncount")) \in Nat
    BY <2>1, FS_CardinalityType DEF CountInv
  <2> QED BY <1>4, <2>2, <2>3, <2>4 DEF CountInv
<1>11. ClientInv'
  BY <1>2, <1>4, <1>5 DEF ClientInv, Spoken
<1>12. SockInv'
  BY <1>1, <1>2, <1>4, <1>5 DEF SockInv, TypeOK
<1>13. EventInv'
  <2>1. ASSUME NEW g \in Fds, NEW d \in Clients, <<g, d>> \in edges' \cup batch'
        PROVE  g \in registered' /\ sock'[g] = d /\ Spoken(d)' /\ raised'[d] = 0
    <3>1. <<g, d>> \in edges \cup batch
      BY <1>4, <2>1
    <3>2. g \in registered /\ sock[g] = d /\ Spoken(d) /\ raised[d] = 0
      BY <3>1 DEF EventInv
    <3>3. g # f
      BY <1>2, <3>2
    <3> QED BY <1>4, <1>5, <3>2, <3>3 DEF Spoken
  <2>2. ASSUME NEW g \in registered', NEW d \in Clients,
               sock'[g] = d, Spoken(d)', raised'[d] = 0
        PROVE  <<g, d>> \in edges' \cup batch'
    <3>1. g # f /\ g \in registered /\ g \in Fds
      BY <1>4 DEF TypeOK
    <3>2. sock[g] = d /\ Spoken(d) /\ raised[d] = 0
      BY <1>4, <1>5, <2>2, <3>1 DEF Spoken
    <3>3. <<g, d>> \in edges \cup batch
      BY <3>1, <3>2 DEF EventInv
    <3> QED BY <1>4, <3>1, <3>3
  <2>3. edges' \cap batch' = {}
    BY <1>4 DEF EventInv
  <2>4. \A d \in Clients : raised'[d] \in 0..1 /\ (raised'[d] = 0 =>
           inbox'[d] = sent'[d] /\ answered'[d] = 0 /\ client'[d] # "closed")
    BY <1>2, <1>4, <1>5 DEF EventInv
  <2> QED BY <2>1, <2>2, <2>3, <2>4 DEF EventInv
<1>14. JobInv'
  <2>1. \A k \in Receiving \cup Replying \cup (Closing \ {j}) : k.fd # f /\ k.who # c
    BY <1>1, <1>2, <1>7 DEF JobInv, Known
  <2>2. \A k \in Receiving' \cup Replying' \cup Closing' :
           k.fd \in registered' /\ sock'[k.fd] = k.who
    BY <1>3, <1>4, <1>5, <1>7, <2>1 DEF JobInv, Known
  <2>3. \A k \in Gone' : client'[k.who] = "closed"
    BY <1>3, <1>5, <1>7 DEF JobInv, Known, c
  <2> QED BY <1>4, <1>7, <2>2, <2>3 DEF JobInv, Spoken
<1> QED BY <1>8, <1>9, <1>10, <1>11, <1>12, <1>13, <1>14

LEMMA UncountStep ==
  ASSUME OneRequestEach, IInv, NEW j \in inProgress, Uncount(j) PROVE IInv'
<1> USE DEF IInv
<1>1. /\ j \in Jobs /\ j \notin Pool!Queued /\ j \notin finished
      /\ stage[j] = "uncount" /\ j \in At("uncount")
  BY Alone DEF Uncount, At
<1>2. /\ UNCHANGED <<client, inbox, sent, eof, answered, sock, registered, edges, batch,
                  accepting, newFd, pending, open, raised>>
      /\ active_connections' = active_connections - 1
      /\ inProgress' = inProgress \ {j} /\ finished' = finished \cup {j}
      /\ stage' = [i \in inProgress' |-> stage[i]]
  BY DEF Uncount, Pool!Complete, netVars, kernelVars, loopVars
<1>3. /\ At("recv")' = At("recv") /\ At("reply")' = At("reply")
      /\ At("close")' = At("close") /\ At("uncount")' = At("uncount") \ {j}
  BY <1>1, <1>2 DEF At
<1>4. Pool!Queued' = Pool!Queued
  BY <1>2 DEF Pool!Queued
<1>5. UNCHANGED <<Receiving, Replying, Closing, Gone, Known>>
  BY <1>1, <1>2, <1>3, <1>4 DEF Receiving, Replying, Closing, Gone, Known
<1>6. TypeOK'
  BY <1>1, <1>2 DEF TypeOK
<1>7. QueueInv'
  BY <1>1, <1>2, <1>4 DEF QueueInv
<1>8. CountInv'
  <2>1. IsFiniteSet(registered)
    BY FS_Subset DEF TypeOK
  <2>2. /\ Cardinality(At("uncount")') = Cardinality(At("uncount")) - 1
        /\ IsFiniteSet(At("uncount")')
    BY <1>1, <1>3, FS_RemoveElement DEF CountInv
  <2>3. Cardinality(registered) \in Nat /\ Cardinality(At("uncount")) \in Nat
    BY <2>1, FS_CardinalityType DEF CountInv
  <2> QED BY <1>2, <2>2, <2>3 DEF CountInv
<1> QED
  BY <1>2, <1>5, <1>6, <1>7, <1>8 DEF ClientInv, SockInv, EventInv, JobInv, Spoken

LEMMA StepInv == ASSUME OneRequestEach, IInv, [Next]_vars PROVE IInv'
<1>1. CASE \E c \in Clients : Connect(c) \/ Send(c) \/ HangUp(c)
  BY <1>1, ConnectStep, SpeakStep
<1>2. CASE EpollWait \/ Register \/ AcceptDone
  BY <1>2, EpollWaitStep, RegisterStep, AcceptDoneStep
<1>3. ASSUME NEW c \in Clients, Refuse(c) PROVE IInv'
  BY <1>3, RefuseStep
<1>4. ASSUME NEW c \in Clients, NEW f \in Fds, AcceptFd(c, f) \/ Dispatch(f, c)
      PROVE  IInv'
  BY <1>4, AcceptStep, DispatchStep
<1>5. CASE StartJob
  BY <1>5, StartStep
<1>6. ASSUME NEW j \in inProgress, RunJob(j) PROVE IInv'
  BY <1>6, RecvStep, ReplyStep, CloseStep, UncountStep DEF RunJob
<1>7. CASE UNCHANGED vars
  <2>1. UNCHANGED <<client, inbox, sent, eof, answered, sock, registered, edges, batch,
                    accepting, newFd, active_connections, pending, inProgress, finished,
                    open, stage, raised>>
    BY <1>7 DEF vars, netVars, kernelVars, loopVars, poolVars
  <2>2. UNCHANGED <<Receiving, Replying, Closing, Gone, Known, At("uncount"), Pool!Queued>>
    BY <2>1, SameJobs
  <2> QED
    BY <2>1, <2>2 DEF IInv, TypeOK, QueueInv, ClientInv, SockInv, EventInv, JobInv,
                      CountInv, Spoken
<1> QED
  BY <1>1, <1>2, <1>3, <1>4, <1>5, <1>6, <1>7 DEF Next, EventLoop

LEMMA Invariance == ASSUME OneRequestEach PROVE Spec => []IInv
<1>1. Init => IInv
  BY InitInv
<1>2. IInv /\ [Next]_vars => IInv'
  BY StepInv
<1> QED BY <1>1, <1>2, PTL DEF Spec

-----------------------------------------------------------------------------
(* The variables stay in their types: at most one event per client, so that *)
(* no client causes more closures than it sends segments, and hangs up.     *)
THEOREM TypeCorrect == ASSUME OneRequestEach PROVE Spec => []TypeOK
<1>1. IInv => TypeOK
  BY DEF IInv
<1> QED BY <1>1, Invariance, PTL

(* The descriptor number a closure captured is its client's connection from *)
(* the dispatch until the closure has closed it, however often the number   *)
(* was used before (src/src/phi_async_http.h:217-233).                      *)
THEOREM NumbersStayTheClients == ASSUME OneRequestEach PROVE Spec => []HandlesItsClient
<1>1. IInv => HandlesItsClient
  <2> SUFFICES ASSUME IInv, NEW j \in Unclosed PROVE sock[j.fd] = j.who
    BY DEF HandlesItsClient
  <2>1. j \in Receiving \cup Replying \cup Closing
    BY JobTypes DEF IInv
  <2> QED BY <2>1 DEF IInv, JobInv
<1> QED BY <1>1, Invariance, PTL

(* Edge-triggered readiness is reported once and is never lost: whatever    *)
(* happens between accept, registration, epoll_wait and the workers, an     *)
(* open connection with something unread or a hang-up is remembered         *)
(* somewhere (src/src/phi_async_http.h:203-236).                            *)
THEOREM ReadinessIsRemembered == ASSUME OneRequestEach PROVE Spec => []NoLostEdge
<1>1. IInv => NoLostEdge
  <2> SUFFICES ASSUME IInv, NEW c \in Clients, client[c] = "open", inbox[c] > 0 \/ eof[c]
               PROVE  \E f \in Fds :
                        /\ sock[f] = c
                        /\ \/ f = newFd
                           \/ <<f, c>> \in edges \cup batch
                           \/ \E j \in Unclosed : j.fd = f
    BY DEF NoLostEdge
  <2> USE DEF IInv
  <2>1. PICK f \in Fds : sock[f] = c
    BY DEF SockInv
  <2>2. Spoken(c)
    BY DEF ClientInv, Spoken
  <2>3. CASE f = newFd
    BY <2>1, <2>3
  <2>4. CASE f # newFd
    <3>1. f \in registered
      BY <2>1, <2>4 DEF SockInv
    <3>2. CASE raised[c] = 0
      BY <2>1, <2>2, <3>1, <3>2 DEF EventInv
    <3>3. CASE raised[c] = 1
      <4>1. PICK j \in Known : j.who = c
        BY <3>3 DEF JobInv
      <4>2. j \notin Gone
        BY <4>1 DEF JobInv
      <4>3. j \in Unclosed /\ sock[j.fd] = c /\ j.fd \in Fds
        BY <4>1, <4>2, JobTypes DEF Known, JobInv
      <4>4. j.fd = f
        BY <2>1, <4>3 DEF SockInv
      <4> QED BY <2>1, <4>3, <4>4
    <3> QED BY <3>2, <3>3 DEF EventInv
  <2> QED BY <2>3, <2>4
<1> QED BY <1>1, Invariance, PTL

(* active_connections, incremented by the epoll thread and decremented by   *)
(* the workers, is the number of registered connections plus the closures   *)
(* between their close and their decrement (src/src/phi_async_http.h:214,   *)
(* 231).                                                                    *)
THEOREM CounterIsExact == ASSUME OneRequestEach PROVE Spec => []CounterExact
<1>1. IInv => CounterExact
  BY DEF IInv, CounterExact, CountInv, SockInv, At
<1> QED BY <1>1, Invariance, PTL

(* No connection is closed unanswered, unless its client hung up without a  *)
(* request, and no client is answered twice.                                *)
THEOREM AnsweredThenClosed == ASSUME OneRequestEach PROVE Spec => []AnsweredBeforeClose
<1>1. IInv => AnsweredBeforeClose
  <2> SUFFICES ASSUME IInv, NEW c \in Clients
               PROVE  /\ client[c] = "closed" => answered[c] = 1 \/ (eof[c] /\ sent[c] = 0)
                      /\ answered[c] <= 1
    BY DEF AnsweredBeforeClose
  <2>1. /\ sent[c] \in 0..1 /\ answered[c] <= sent[c] /\ answered[c] \in Nat
        /\ client[c] = "closed" => answered[c] = sent[c] /\ Spoken(c)
    BY DEF IInv, TypeOK, ClientInv
  <2> QED BY <2>1 DEF Spoken
<1> QED BY <1>1, Invariance, PTL

=============================================================================
