-------------------------- MODULE ServerProgramProofs --------------------------
(***************************************************************************)
(* Proofs about ServerProgram: its types, and that the totals number the   *)
(* creates and no more tickets are shown than the rows and the creates     *)
(* account for, whatever the metrics thread and other programs do.         *)
(***************************************************************************)
EXTENDS ServerProgram, FiniteSetTheorems, SequenceTheorems, TLAPS

-----------------------------------------------------------------------------
(* The types. *)
LEMMA RepliesAreTyped ==
  ASSUME TypeOK, NEW r \in RequestKinds
  PROVE  handle_request(r) \in Replies /\ handle_request(r).db <= db_tickets
<1>1. program.listed \in Nat /\ total_tickets \in Nat /\ db_tickets \in Nat
  BY ServerProgramAssumption DEF TypeOK, ServerProgramAssumption
<1>2. CASE r \in {"health", "infra"}
  BY <1>1, <1>2 DEF handle_request, Shown, Replies
<1>3. CASE r = "stats"
  BY <1>1, <1>3 DEF handle_request, Shown, Replies
<1>4. CASE r = "tickets"
  BY <1>1, <1>4 DEF handle_request, Shown, Replies
<1>5. CASE r = "page"
  BY <1>1, <1>5 DEF handle_request, Shown, Replies
<1>6. CASE r \in {"create", "late"}
  BY <1>1, <1>6 DEF handle_request, Shown, Replies
<1> QED BY <1>2, <1>3, <1>4, <1>5, <1>6 DEF RequestKinds

(* Where PhiServer is: who is being served, and that a client waits in the *)
(* backlog or is served once and is not answered before.  The asynchronous *)
(* server has neither.                                                     *)
Idle == ~program.blocking => step = "accept" /\ backlog = <<>>

AtWork ==
    /\ step = "accept" <=> serving = None
    /\ serving # None => client[serving] = "open"
    /\ step \in {"recv", "handle", "count"} => reply[serving] = None
    /\ step \in {"handle", "count"} => request[serving] # None
    /\ step = "count" => request[serving] = "create"

InTurn ==
    /\ \A i \in 1 .. Len(backlog) :
          client[backlog[i]] = "open" /\ reply[backlog[i]] = None /\ backlog[i] # serving
    /\ \A i, j \in 1 .. Len(backlog) : i # j => backlog[i] # backlog[j]

AskedFirst ==
    \A c \in Clients : /\ client[c] = "out" => request[c] = None
                       /\ request[c] = None => reply[c] = None

Places == TypeOK /\ Idle /\ AtWork /\ InTurn /\ AskedFirst

LEMMA PlacesInit == Init => Places
<1> SUFFICES ASSUME Init PROVE Places
  OBVIOUS
<1>1. /\ program \in Programs /\ rows \in 0 .. MaxRows
      /\ Seeded \in Nat /\ MaxRows \in Nat /\ backlog = <<>>
  BY ServerProgramAssumption DEF Init, ServerProgramAssumption
<1>2. Len(backlog) = 0 /\ backlog \in Seq(Clients)
  BY <1>1
<1>3. TypeOK
  BY <1>1, <1>2 DEF Init, TypeOK
<1>4. Idle /\ AtWork /\ AskedFirst
  BY DEF Init, Idle, AtWork, AskedFirst
<1>5. InTurn
  BY <1>2 DEF InTurn
<1> QED BY <1>3, <1>4, <1>5 DEF Places

LEMMA PlacesKept == ASSUME Places, [Next]_vars PROVE Places'
<1> USE DEF Places
<1> DEFINE Own == <<client, request, reply, backlog, serving, step, program>>
<1>0. /\ MaxRows \in Nat /\ None \notin Clients /\ None \notin Replies
      /\ "create" # None /\ Requests \subseteq RequestKinds /\ None \notin Requests
  BY ServerProgramAssumption DEF ServerProgramAssumption, RequestKinds
<1>1. ASSUME TypeOK', UNCHANGED Own PROVE Places'
  BY <1>1 DEF Idle, AtWork, InTurn, AskedFirst
<1>2. CASE UNCHANGED vars
  BY <1>2, <1>1 DEF vars, metrics, thread, clients, server, TypeOK
<1>3. CASE Signal \/ Insert \/ Bind \/ Shutdown \/ Query \/ Store
  <2>1. UNCHANGED Own
    BY <1>3 DEF Signal, Insert, Bind, Shutdown, Query, Store, clients, server, thread, metrics
  <2>2. CASE Signal
    BY <1>1, <2>1, <2>2 DEF Signal, TypeOK, clients, server, thread, metrics
  <2>3. CASE Insert
    <3>1. rows' \in 0 .. MaxRows
      BY <1>0, <2>3 DEF Insert, TypeOK
    <3> QED BY <1>1, <2>1, <2>3, <3>1 DEF Insert, TypeOK, clients, server, thread, metrics
  <2>4. CASE Bind
    BY <1>1, <2>1, <2>4 DEF Bind, TypeOK, clients, server, thread, metrics
  <2>5. CASE Shutdown
    BY <1>1, <2>1, <2>5 DEF Shutdown, TypeOK, clients, server, thread, metrics
  <2>6. CASE Query
    BY <1>1, <2>1, <2>6 DEF Query, TypeOK, clients, server, thread, metrics
  <2>7. CASE Store
    BY <1>0, <1>1, <2>1, <2>7 DEF Store, TypeOK, clients, server, thread, metrics
  <2> QED BY <1>3, <2>2, <2>3, <2>4, <2>5, <2>6, <2>7
<1>4. ASSUME NEW c \in Clients, Connect(c) PROVE Places'
  <2>1. /\ client[c] = "out" /\ client' = [client EXCEPT ![c] = "open"]
        /\ UNCHANGED <<program, main, running, rows, total_tickets, db_tickets, updater, sampled,
                       request, reply, serving, step, loaded>>
    BY <1>4 DEF Connect, thread, metrics, server
  <2>2. backlog' = IF program.blocking THEN Append(backlog, c) ELSE backlog
    BY <1>4 DEF Connect
  <2>3. reply[c] = None /\ serving # c /\ \A i \in 1 .. Len(backlog) : backlog[i] # c
    BY <1>0, <2>1 DEF AtWork, InTurn, AskedFirst
  <2>4. /\ client \in [Clients -> {"out", "open", "closed"}] /\ backlog \in Seq(Clients)
        /\ client' \in [Clients -> {"out", "open", "closed"}] /\ client'[c] = "open"
        /\ \A d \in Clients : d # c => client'[d] = client[d]
    BY <2>1 DEF TypeOK
  <2>5. backlog' \in Seq(Clients)
    BY <2>2, <2>4
  <2>6. TypeOK'
    BY <2>1, <2>4, <2>5 DEF TypeOK
  <2>7. Idle'
    BY <2>1, <2>2 DEF Idle
  <2>8. AtWork'
    BY <2>1, <2>3, <2>4 DEF AtWork, TypeOK
  <2>9. AskedFirst'
    BY <2>1, <2>4 DEF AskedFirst
  <2>10. InTurn'
    <3>1. CASE ~program.blocking
      BY <2>1, <2>2, <2>3, <2>4, <3>1 DEF InTurn
    <3>2. CASE program.blocking
      <4>1. /\ backlog' = Append(backlog, c) /\ Len(backlog') = Len(backlog) + 1
            /\ Len(backlog) \in Nat
            /\ backlog'[Len(backlog) + 1] = c
            /\ \A i \in 1 .. Len(backlog) : backlog'[i] = backlog[i]
        BY <2>2, <2>4, <3>2
      <4>2. \A i \in 1 .. Len(backlog') : i \in 1 .. Len(backlog) \/ i = Len(backlog) + 1
        BY <4>1
      <4>3. \A i \in 1 .. Len(backlog) : backlog[i] \in Clients
        BY <2>4
      <4>4. ASSUME NEW i \in 1 .. Len(backlog')
            PROVE  /\ client'[backlog'[i]] = "open" /\ reply'[backlog'[i]] = None
                   /\ backlog'[i] # serving'
        <5>1. CASE i \in 1 .. Len(backlog)
          BY <2>1, <2>3, <2>4, <4>1, <4>3, <5>1 DEF InTurn
        <5>2. CASE i = Len(backlog) + 1
          BY <2>1, <2>3, <2>4, <4>1, <5>2
        <5> QED BY <4>2, <5>1, <5>2
      <4>5. ASSUME NEW i \in 1 .. Len(backlog'), NEW j \in 1 .. Len(backlog'), i # j
            PROVE  backlog'[i] # backlog'[j]
        BY <2>3, <4>1, <4>2, <4>5 DEF InTurn
      <4> QED BY <4>4, <4>5 DEF InTurn
    <3> QED BY <3>1, <3>2
  <2> QED BY <2>6, <2>7, <2>8, <2>9, <2>10
<1>5. ASSUME NEW c \in Clients, NEW r \in Requests, SendRequest(c, r) PROVE Places'
  <2>1. /\ client[c] = "open" /\ request[c] = None /\ request' = [request EXCEPT ![c] = r]
        /\ UNCHANGED <<program, main, running, rows, total_tickets, db_tickets, updater, sampled,
                       client, reply, backlog, serving, step, loaded>>
    BY <1>5 DEF SendRequest, thread, metrics, server
  <2>2. request' \in [Clients -> Requests \cup {None}] /\ request'[c] = r /\ r # None
        /\ \A d \in Clients : d # c => request'[d] = request[d]
    BY <1>0, <2>1 DEF TypeOK
  <2>3. TypeOK'
    BY <2>1, <2>2 DEF TypeOK
  <2>4. Idle' /\ InTurn'
    BY <2>1 DEF Idle, InTurn
  <2>5. AtWork'
    BY <1>0, <2>1, <2>2 DEF AtWork, TypeOK
  <2>6. AskedFirst'
    BY <2>1, <2>2 DEF AskedFirst
  <2> QED BY <2>3, <2>4, <2>5, <2>6
<1>6. CASE Accept
  <2>1. /\ program.blocking /\ step = "accept" /\ backlog # <<>>
        /\ serving' = Head(backlog) /\ backlog' = Tail(backlog) /\ step' = "recv"
        /\ UNCHANGED <<program, main, running, rows, total_tickets, db_tickets, updater, sampled,
                       client, request, reply, loaded>>
    BY <1>6 DEF Accept, thread, metrics
  <2>2. /\ backlog \in Seq(Clients) /\ Len(backlog) \in Nat /\ Len(backlog) >= 1
        /\ Head(backlog) = backlog[1]
    BY <2>1 DEF TypeOK
  <2>3. /\ backlog' \in Seq(Clients) /\ Len(backlog') = Len(backlog) - 1
        /\ \A i \in 1 .. Len(backlog') : backlog'[i] = backlog[i + 1]
    BY <2>1, <2>2
  <2>4. serving' \in Clients /\ client[serving'] = "open" /\ reply[serving'] = None
    BY <2>1, <2>2 DEF InTurn
  <2>5. TypeOK'
    BY <2>1, <2>3, <2>4 DEF TypeOK
  <2>6. Idle' /\ AskedFirst'
    BY <2>1 DEF Idle, AskedFirst
  <2>7. AtWork'
    BY <1>0, <2>1, <2>4 DEF AtWork
  <2>8. InTurn'
    <3>1. \A i \in 1 .. Len(backlog') : i + 1 \in 1 .. Len(backlog) /\ i + 1 # 1
      BY <2>2, <2>3
    <3>2. \A i, j \in 1 .. Len(backlog') : i # j => i + 1 # j + 1
      BY <2>2, <2>3
    <3>3. 1 \in 1 .. Len(backlog)
      BY <2>2
    <3> QED BY <2>1, <2>2, <2>3, <3>1, <3>2, <3>3 DEF InTurn
  <2> QED BY <2>5, <2>6, <2>7, <2>8
<1>7. CASE Recv
  <2>1. /\ step = "recv" /\ request[serving] # None /\ step' = "handle"
        /\ UNCHANGED <<program, main, running, rows, total_tickets, db_tickets, updater, sampled,
                       client, request, reply, backlog, serving, loaded>>
    BY <1>7 DEF Recv, Goto, thread, metrics, clients
  <2> QED BY <2>1 DEF TypeOK, Idle, AtWork, InTurn, AskedFirst
<1>8. CASE Create
  <2>1. /\ step = "handle" /\ request[serving] = "create" /\ step' = "count"
        /\ total_tickets' = total_tickets + 1 /\ loaded' = db_tickets
        /\ UNCHANGED <<program, main, running, rows, db_tickets, updater, sampled,
                       client, request, reply, backlog, serving>>
    BY <1>8 DEF Create, Goto, thread, clients
  <2>2. total_tickets' \in Nat
    BY <2>1 DEF TypeOK
  <2> QED BY <2>1, <2>2 DEF TypeOK, Idle, AtWork, InTurn, AskedFirst
<1>9. ASSUME NEW s \in Replies, NEW c \in Clients, reply' = [reply EXCEPT ![c] = s],
             request[c] # None, UNCHANGED <<program, request>>
      PROVE  /\ reply' \in [Clients -> Replies \cup {None}]
             /\ \A d \in Clients : d # c => reply'[d] = reply[d]
             /\ reply'[c] = s
             /\ \A d \in Clients : request'[d] = None => reply'[d] = None
  BY <1>9 DEF TypeOK, AskedFirst
<1>10. ASSUME NEW s \in Replies, serving \in Clients, request[serving] # None,
              step \in {"handle", "count"}, step' = "send",
              reply' = [reply EXCEPT ![serving] = s],
              loaded' \in Nat, db_tickets' \in Nat,
              UNCHANGED <<program, main, running, rows, total_tickets, updater, sampled,
                          client, request, backlog, serving>>
       PROVE  Places'
  <2>1. /\ reply' \in [Clients -> Replies \cup {None}]
        /\ \A d \in Clients : d # serving => reply'[d] = reply[d]
        /\ \A d \in Clients : request'[d] = None => reply'[d] = None
    BY <1>9, <1>10
  <2>2. TypeOK' /\ Idle' /\ AtWork' /\ AskedFirst'
    BY <1>10, <2>1 DEF TypeOK, Idle, AtWork, AskedFirst
  <2>3. \A i \in 1 .. Len(backlog) : backlog[i] \in Clients
    BY DEF TypeOK
  <2>4. InTurn'
    BY <1>10, <2>1, <2>3 DEF InTurn
  <2> QED BY <2>2, <2>4
<1>11. CASE Created
  <2>1. /\ step = "count" /\ step' = "send" /\ db_tickets' = loaded + 1 /\ loaded' = 0
        /\ reply' = [reply EXCEPT ![serving] = Shown("created", total_tickets, 0)]
        /\ UNCHANGED <<program, main, running, rows, total_tickets, updater, sampled,
                       client, request, backlog, serving>>
    BY <1>11 DEF Created, Goto, thread
  <2>2. serving \in Clients /\ request[serving] # None
    BY <2>1 DEF TypeOK, AtWork
  <2>3. Shown("created", total_tickets, 0) \in Replies /\ loaded + 1 \in Nat
    BY DEF TypeOK, Replies, Shown
  <2> HIDE DEF Places
  <2> QED BY <1>10, <2>1, <2>2, <2>3
<1>12. CASE Handle
  <2>1. /\ step = "handle" /\ step' = "send"
        /\ reply' = [reply EXCEPT ![serving] = handle_request(request[serving])]
        /\ UNCHANGED <<program, main, running, rows, total_tickets, db_tickets, updater, sampled,
                       client, request, backlog, serving, loaded>>
    BY <1>12 DEF Handle, Goto, thread, metrics
  <2>2. serving \in Clients /\ request[serving] # None
    BY <2>1 DEF TypeOK, AtWork
  <2>3. request[serving] \in RequestKinds
    BY <1>0, <2>2 DEF TypeOK
  <2>4. handle_request(request[serving]) \in Replies /\ loaded \in Nat /\ db_tickets \in Nat
    BY <2>3, RepliesAreTyped DEF TypeOK
  <2> HIDE DEF Places
  <2> QED BY <1>10, <2>1, <2>2, <2>4
<1>13. CASE SendClose
  <2>1. /\ step = "send" /\ client' = [client EXCEPT ![serving] = "closed"]
        /\ serving' = None /\ step' = "accept"
        /\ UNCHANGED <<program, main, running, rows, total_tickets, db_tickets, updater, sampled,
                       request, reply, backlog, loaded>>
    BY <1>13 DEF SendClose, thread, metrics
  <2>2. serving \in Clients /\ client \in [Clients -> {"out", "open", "closed"}]
    BY <2>1 DEF TypeOK, AtWork
  <2>3. /\ client' \in [Clients -> {"out", "open", "closed"}]
        /\ client'[serving] = "closed"
        /\ \A d \in Clients : d # serving => client'[d] = client[d]
    BY <2>1, <2>2
  <2>4. TypeOK' /\ Idle' /\ AtWork' /\ AskedFirst'
    BY <2>1, <2>2, <2>3 DEF TypeOK, Idle, AtWork, AskedFirst
  <2>5. \A i \in 1 .. Len(backlog) : backlog[i] \in Clients
    BY DEF TypeOK
  <2>6. InTurn'
    BY <1>0, <2>1, <2>3, <2>5 DEF InTurn
  <2> QED BY <2>4, <2>6
<1>14. ASSUME NEW c \in Clients, AnswerAsync(c) PROVE Places'
  <2>1. /\ ~program.blocking /\ request[c] # None
        /\ reply' = [reply EXCEPT ![c] = handle_request(request[c])]
        /\ client' = [client EXCEPT ![c] = "closed"]
        /\ UNCHANGED <<program, main, running, rows, total_tickets, db_tickets, updater, sampled,
                       request, backlog, serving, step, loaded>>
    BY <1>14 DEF AnswerAsync, thread, metrics, server
  <2>2. handle_request(request[c]) \in Replies
    BY <1>0, <2>1, RepliesAreTyped DEF TypeOK
  <2>3. /\ reply' \in [Clients -> Replies \cup {None}]
        /\ \A d \in Clients : request'[d] = None => reply'[d] = None
    BY <1>9, <2>1, <2>2
  <2>4. client' \in [Clients -> {"out", "open", "closed"}]
        /\ client'[c] = "closed" /\ \A d \in Clients : d # c => client'[d] = client[d]
    BY <2>1 DEF TypeOK
  <2>5. step = "accept" /\ serving = None /\ backlog = <<>>
    BY <2>1 DEF Idle, AtWork
  <2>6. Len(backlog) = 0
    BY <2>5
  <2>7. TypeOK' /\ Idle' /\ AtWork'
    BY <2>1, <2>3, <2>4, <2>5 DEF TypeOK, Idle, AtWork
  <2>8. AskedFirst'
    BY <2>1, <2>3, <2>4 DEF AskedFirst
  <2>9. InTurn'
    BY <2>1, <2>6 DEF InTurn
  <2> QED BY <2>7, <2>8, <2>9
<1> QED
  BY <1>2, <1>3, <1>4, <1>5, <1>6, <1>7, <1>8, <1>11, <1>12, <1>13, <1>14 DEF Next, ServeOne

(* Every variable of the server programs keeps its type. *)
THEOREM TypeCorrect == Spec => []TypeOK
<1>1. Spec => []Places
  BY PlacesInit, PlacesKept, PTL DEF Spec
<1>2. Places => TypeOK
  BY DEF Places
<1> QED BY <1>1, <1>2, PTL

-----------------------------------------------------------------------------
(* The creates.  A reply to one of them carries a total between the one    *)
(* the program starts with and the present one, which is still to be told  *)
(* while PhiServer is between counting a create and answering it.          *)
Answered == {c \in Creators : reply[c] # None}

Numbered ==
    /\ \A c \in Answered : /\ reply[c].total <= total_tickets
                           /\ step = "count" => reply[c].total < total_tickets
    /\ \A c, d \in Answered : c # d => reply[c].total # reply[d].total

(* Whatever has been read of the count is covered, and one more when a     *)
(* create is about to write it.                                            *)
Most == rows + Cardinality(Creators)

Covered ==
    /\ sampled <= rows
    /\ db_tickets <= Most
    /\ step = "count" => loaded + 1 <= Most
    /\ \A c \in Clients : reply[c] # None => reply[c].db <= Most

Books == Places /\ total_tickets = Seeded + Cardinality(Creators) /\ Numbered /\ Covered

LEMMA CreatorsAreFinite == IsFiniteSet(Creators) /\ Cardinality(Creators) \in Nat
<1>1. IsFiniteSet(Clients) /\ Creators \subseteq Clients
  BY ServerProgramAssumption DEF ServerProgramAssumption, Creators
<1>2. IsFiniteSet(Creators)
  BY <1>1, FS_Subset
<1> QED BY <1>2, FS_CardinalityType

(* Only PhiServer's Create makes another client a creator. *)
LEMMA CreateAddsOne ==
  ASSUME Places, Create
  PROVE  /\ Creators' = Creators \cup {serving} /\ serving \notin Creators
         /\ Cardinality(Creators') = Cardinality(Creators) + 1
         /\ Answered' = Answered
<1>1. /\ step = "handle" /\ request[serving] = "create" /\ step' = "count"
      /\ UNCHANGED <<program, request, reply, serving>>
  BY DEF Create, Goto, clients
<1>2. program.blocking /\ serving \in Clients /\ reply[serving] = None
  BY <1>1 DEF Places, Idle, AtWork, TypeOK
<1>3. Creators' = Creators \cup {serving} /\ serving \notin Creators
  BY <1>1, <1>2 DEF Creators
<1>4. Cardinality(Creators') = Cardinality(Creators) + 1
  BY <1>3, CreatorsAreFinite, FS_AddElement
<1> QED BY <1>1, <1>2, <1>3, <1>4 DEF Answered

LEMMA OthersAddNone ==
  ASSUME Places, [Next]_vars, ~Create PROVE Creators' = Creators
<1>0. None \notin Replies /\ None \notin Clients /\ Requests \subseteq RequestKinds
  BY ServerProgramAssumption DEF ServerProgramAssumption
<1>1. CASE UNCHANGED vars
  BY <1>1 DEF vars, clients, server, Creators
<1>2. CASE Signal \/ Insert \/ Bind \/ Shutdown \/ Query \/ Store
  BY <1>2 DEF Signal, Insert, Bind, Shutdown, Query, Store, clients, server, Creators
<1>3. ASSUME NEW c \in Clients, Connect(c) PROVE Creators' = Creators
  BY <1>3 DEF Connect, server, Creators
<1>4. ASSUME NEW c \in Clients, NEW r \in Requests, SendRequest(c, r) PROVE Creators' = Creators
  <2>1. /\ request[c] = None /\ request' = [request EXCEPT ![c] = r]
        /\ UNCHANGED <<program, reply, serving, step>>
    BY <1>4 DEF SendRequest, server
  <2>2. \A d \in Clients : d # c => request'[d] = request[d]
    BY <2>1 DEF Places, TypeOK
  <2>3. reply[c] = None /\ ~(serving = c /\ step = "count")
    BY <1>0, <2>1 DEF Places, AskedFirst, AtWork
  <2>4. c \notin Creators /\ c \notin Creators'
    BY <2>1, <2>3 DEF Creators
  <2> QED BY <2>1, <2>2, <2>4 DEF Creators
<1>5. CASE Accept
  BY <1>5 DEF Accept, Creators
<1>6. CASE Recv
  BY <1>6 DEF Recv, Goto, clients, Creators
<1>7. CASE Created
  <2>1. /\ step = "count" /\ step' = "send"
        /\ reply' = [reply EXCEPT ![serving] = Shown("created", total_tickets, 0)]
        /\ UNCHANGED <<program, request, serving>>
    BY <1>7 DEF Created, Goto
  <2>2. program.blocking /\ serving \in Clients /\ request[serving] = "create"
    BY <2>1 DEF Places, Idle, AtWork, TypeOK
  <2>3. Shown("created", total_tickets, 0) # None
    BY <1>0 DEF Places, TypeOK, Replies, Shown
  <2>4. reply'[serving] # None /\ \A d \in Clients : d # serving => reply'[d] = reply[d]
    BY <2>1, <2>2, <2>3 DEF Places, TypeOK
  <2> QED BY <2>1, <2>2, <2>4 DEF Creators
<1>8. CASE Handle
  <2>1. /\ step = "handle" /\ step' = "send" /\ request[serving] # "create"
        /\ \E s : reply' = [reply EXCEPT ![serving] = s]
        /\ UNCHANGED <<program, request, serving>>
    BY <1>8 DEF Handle, Goto
  <2>2. \A d \in Clients : d # serving => reply'[d] = reply[d]
    BY <2>1 DEF Places, TypeOK
  <2> QED BY <2>1, <2>2 DEF Creators
<1>9. CASE SendClose
  BY <1>9 DEF SendClose, Creators
<1>10. ASSUME NEW c \in Clients, AnswerAsync(c) PROVE Creators' = Creators
  BY <1>10 DEF AnswerAsync, Creators
<1> QED BY <1>1, <1>2, <1>3, <1>4, <1>5, <1>6, <1>7, <1>8, <1>9, <1>10 DEF Next, ServeOne

LEMMA BooksInit == Init => Books
<1> SUFFICES ASSUME Init PROVE Books
  OBVIOUS
<1>1. Creators = {}
  BY DEF Init, Creators
<1>2. Cardinality(Creators) = 0
  BY <1>1, FS_EmptySet
<1>3. rows \in Nat /\ Seeded \in Nat
  BY ServerProgramAssumption DEF Init, ServerProgramAssumption
<1>4. Answered = {}
  BY <1>1 DEF Answered
<1>5. Numbered
  BY <1>4 DEF Numbered
<1>6. Covered
  BY <1>2, <1>3 DEF Init, Covered, Most
<1>7. total_tickets = Seeded + Cardinality(Creators)
  BY <1>2, <1>3 DEF Init
<1> QED BY PlacesInit, <1>5, <1>6, <1>7 DEF Books

LEMMA BooksKept == ASSUME Books, [Next]_vars PROVE Books'
<1>0. Places /\ Places'
  BY PlacesKept DEF Books
<1> DEFINE N == Cardinality(Creators)
           M == Cardinality(Creators')
<1>1. N \in Nat /\ M \in Nat
  <2>1. IsFiniteSet(Creators')
    <3>1. IsFiniteSet(Clients) /\ Creators' \subseteq Clients
      BY ServerProgramAssumption DEF ServerProgramAssumption, Creators
    <3> QED BY <3>1, FS_Subset
  <2> QED BY <2>1, CreatorsAreFinite, FS_CardinalityType
<1>2. /\ rows \in Nat /\ db_tickets \in Nat /\ loaded \in Nat /\ sampled \in Nat
      /\ total_tickets \in Nat /\ Seeded \in Nat
      /\ rows' \in Nat
      /\ reply \in [Clients -> Replies \cup {None}]
      /\ \A c \in Clients : reply[c] # None => reply[c].db \in Nat /\ reply[c].total \in Nat
      /\ None \notin Replies /\ None \notin Clients /\ Requests \subseteq RequestKinds
  BY ServerProgramAssumption, <1>0 DEF Places, TypeOK, ServerProgramAssumption, Replies
<1>3. total_tickets = Seeded + N
  BY DEF Books
<1>4. /\ sampled <= rows /\ db_tickets <= rows + N
      /\ step = "count" => loaded + 1 <= rows + N
      /\ \A c \in Clients : reply[c] # None => reply[c].db <= rows + N
  BY DEF Books, Covered, Most
<1>5. \A c \in Answered : c \in Clients /\ reply[c] # None
  BY DEF Answered, Creators
<1>6. \A c \in Answered : /\ reply[c].total <= total_tickets
                          /\ step = "count" => reply[c].total < total_tickets
  BY DEF Books, Numbered
<1>7. \A c, d \in Answered : c # d => reply[c].total # reply[d].total
  BY DEF Books, Numbered
<1>8. CASE Create
  <2>1. /\ step = "handle" /\ step' = "count" /\ total_tickets' = total_tickets + 1
        /\ loaded' = db_tickets
        /\ UNCHANGED <<rows, db_tickets, sampled, reply>>
    BY <1>8 DEF Create, Goto, thread, clients
  <2>2. M = N + 1 /\ Answered' = Answered
    BY <1>0, <1>8, CreateAddsOne
  <2> HIDE DEF N, M
  <2>3. total_tickets' = Seeded + M
    BY <1>1, <1>2, <1>3, <2>1, <2>2
  <2>4. \A c \in Answered : reply[c].total <= total_tickets + 1 /\ reply[c].total < total_tickets + 1
    BY <1>2, <1>5, <1>6
  <2>5. Numbered'
    BY <1>7, <2>1, <2>2, <2>4 DEF Numbered
  <2>6. db_tickets <= rows + (N + 1) /\ db_tickets + 1 <= rows + (N + 1)
    BY <1>1, <1>2, <1>4
  <2>7. \A c \in Clients : reply[c] # None => reply[c].db <= rows + (N + 1)
    BY <1>1, <1>2, <1>4
  <2>8. Covered'
    BY <1>4, <2>1, <2>2, <2>6, <2>7 DEF Covered, Most, M
  <2> QED BY <1>0, <2>3, <2>5, <2>8 DEF Books, M
<1>9. ASSUME Creators' = Creators, UNCHANGED total_tickets, rows <= rows', Numbered',
             sampled' <= rows', db_tickets' <= rows' + N,
             step' = "count" => loaded' + 1 <= rows' + N,
             \A c \in Clients : reply'[c] # None => reply'[c].db <= rows' + N
      PROVE  Books'
  BY <1>0, <1>3, <1>9 DEF Books, Covered, Most
<1> HIDE DEF N, M
<1>10. ASSUME ~Create PROVE Creators' = Creators
  BY <1>0, <1>10, OthersAddNone
<1>11. ASSUME ~Create, UNCHANGED <<total_tickets, reply>>, step' = "count" => step = "count"
       PROVE  Numbered'
  <2>1. Answered' = Answered
    BY <1>10, <1>11 DEF Answered
  <2> QED BY <1>6, <1>7, <1>11, <2>1 DEF Numbered
<1>12. ASSUME ~Create, UNCHANGED <<total_tickets, db_tickets, rows, sampled, loaded, reply>>,
              step' = "count" => step = "count"
       PROVE  Books'
  BY <1>2, <1>4, <1>9, <1>10, <1>11, <1>12
<1>13. CASE ~Create
  <2>1. CASE UNCHANGED vars
    BY <1>12, <1>13, <2>1 DEF vars, metrics, thread, clients, server
  <2>2. CASE Signal \/ Bind \/ Shutdown \/ Accept \/ Recv \/ SendClose
    BY <1>12, <1>13, <2>2
    DEF Signal, Bind, Shutdown, Accept, Recv, SendClose, Goto, metrics, thread, clients, server
  <2>3. CASE Insert
    <3>1. /\ rows' = rows + 1
          /\ UNCHANGED <<total_tickets, db_tickets, sampled, reply, step, loaded>>
      BY <2>3 DEF Insert, metrics, thread, clients, server
    <3>2. /\ sampled <= rows + 1 /\ db_tickets <= rows + 1 + N /\ rows <= rows + 1
          /\ step = "count" => loaded + 1 <= rows + 1 + N
          /\ \A c \in Clients : reply[c] # None => reply[c].db <= rows + 1 + N
      BY <1>1, <1>2, <1>4
    <3> QED BY <1>9, <1>10, <1>11, <1>13, <3>1, <3>2
  <2>4. CASE Query
    <3>1. /\ sampled' = IF running THEN rows ELSE sampled
          /\ UNCHANGED <<total_tickets, db_tickets, rows, reply, step, loaded>>
      BY <2>4 DEF Query, metrics, clients, server
    <3>2. rows <= rows /\ sampled' <= rows
      BY <1>2, <1>4, <3>1
    <3> QED BY <1>4, <1>9, <1>10, <1>11, <1>13, <3>1, <3>2
  <2>5. CASE Store
    <3>1. /\ db_tickets' = sampled /\ sampled' = 0
          /\ UNCHANGED <<total_tickets, rows, reply, step, loaded>>
      BY <2>5 DEF Store, clients, server
    <3>2. rows <= rows /\ 0 <= rows /\ sampled <= rows + N
      BY <1>1, <1>2, <1>4
    <3> QED BY <1>4, <1>9, <1>10, <1>11, <1>13, <3>1, <3>2
  <2>6. CASE \E c \in Clients : Connect(c) \/ \E r \in Requests : SendRequest(c, r)
    BY <1>12, <1>13, <2>6 DEF Connect, SendRequest, metrics, thread, server
  <2>7. CASE Created
    <3>1. /\ step = "count" /\ step' = "send" /\ db_tickets' = loaded + 1 /\ loaded' = 0
          /\ reply' = [reply EXCEPT ![serving] = Shown("created", total_tickets, 0)]
          /\ UNCHANGED <<total_tickets, rows, sampled>>
      BY <2>7 DEF Created, Goto, thread
    <3>2. serving \in Clients
      BY <1>0, <3>1 DEF Places, TypeOK, AtWork
    <3>3. /\ reply'[serving].total = total_tickets /\ reply'[serving].db = 0
          /\ \A d \in Clients : d # serving => reply'[d] = reply[d]
      BY <1>2, <3>1, <3>2 DEF Shown
    <3>4. \A c \in Answered' : c # serving => c \in Answered
      BY <1>10, <1>13, <3>3 DEF Answered, Creators
    <3>5. Numbered'
      <4>1. \A c \in Answered' : reply'[c].total <= total_tickets
        BY <1>2, <1>5, <1>6, <3>3, <3>4
      <4>2. \A c \in Answered' : c # serving => reply'[c].total < total_tickets
        BY <1>5, <1>6, <3>1, <3>3, <3>4
      <4>3. \A c, d \in Answered' : c # d => reply'[c].total # reply'[d].total
        <5>1. TAKE c, d \in Answered'
        <5>2. HAVE c # d
        <5>3. CASE c = serving
          BY <1>2, <1>5, <3>3, <3>4, <4>2, <5>2, <5>3
        <5>4. CASE d = serving
          BY <1>2, <1>5, <3>3, <3>4, <4>2, <5>2, <5>4
        <5>5. CASE c # serving /\ d # serving
          BY <1>5, <1>7, <3>3, <3>4, <5>2, <5>5
        <5> QED BY <5>3, <5>4, <5>5
      <4> QED BY <3>1, <4>1, <4>3 DEF Numbered
    <3>6. \A c \in Clients : reply'[c] # None => reply'[c].db <= rows + N
      BY <1>1, <1>2, <1>4, <3>3
    <3>7. rows <= rows /\ loaded + 1 <= rows + N
      BY <1>2, <1>4, <3>1
    <3> QED BY <1>4, <1>9, <1>10, <1>13, <3>1, <3>5, <3>6, <3>7
  <2>8. ASSUME NEW c \in Clients, NEW s \in Replies, s.db <= db_tickets,
               reply' = [reply EXCEPT ![c] = s], c \notin Creators, step' # "count",
               UNCHANGED <<total_tickets, db_tickets, rows, sampled, loaded>>
        PROVE  Books'
    <3>1. reply'[c] = s /\ \A d \in Clients : d # c => reply'[d] = reply[d]
      BY <1>2, <2>8
    <3>2. Answered' = Answered
      BY <1>10, <1>13, <2>8, <3>1 DEF Answered, Creators
    <3>3. \A d \in Answered : reply'[d] = reply[d]
      BY <2>8, <3>1 DEF Answered, Creators
    <3>4. Numbered'
      BY <1>6, <1>7, <2>8, <3>2, <3>3 DEF Numbered
    <3>5. s.db <= rows + N
      BY <1>1, <1>2, <1>4, <2>8 DEF Replies
    <3>6. \A d \in Clients : reply'[d] # None => reply'[d].db <= rows + N
      BY <1>4, <3>1, <3>5
    <3>7. rows <= rows
      BY <1>2
    <3> QED BY <1>4, <1>9, <1>10, <1>13, <2>8, <3>4, <3>6, <3>7
  <2>9. CASE Handle
    <3>1. /\ step = "handle" /\ step' = "send" /\ request[serving] # "create"
          /\ reply' = [reply EXCEPT ![serving] = handle_request(request[serving])]
          /\ UNCHANGED <<total_tickets, db_tickets, rows, sampled, loaded>>
      BY <2>9 DEF Handle, Goto, thread, metrics
    <3>2. serving \in Clients /\ request[serving] \in RequestKinds /\ serving \notin Creators
      BY <1>0, <1>2, <3>1 DEF Places, TypeOK, AtWork, Creators
    <3>3. TypeOK
      BY <1>0 DEF Places
    <3>4. /\ handle_request(request[serving]) \in Replies
          /\ handle_request(request[serving]).db <= db_tickets
      BY <3>2, <3>3, RepliesAreTyped
    <3> QED BY <2>8, <3>1, <3>2, <3>4
  <2>10. ASSUME NEW c \in Clients, AnswerAsync(c) PROVE Books'
    <3>1. /\ ~program.blocking /\ request[c] # None
          /\ reply' = [reply EXCEPT ![c] = handle_request(request[c])]
          /\ UNCHANGED <<total_tickets, db_tickets, rows, sampled, loaded, step>>
      BY <2>10 DEF AnswerAsync, thread, metrics, server
    <3>2. request[c] \in RequestKinds /\ c \notin Creators /\ step # "count"
      BY <1>0, <1>2, <3>1 DEF Places, TypeOK, Idle, Creators
    <3>3. TypeOK
      BY <1>0 DEF Places
    <3>4. /\ handle_request(request[c]) \in Replies
          /\ handle_request(request[c]).db <= db_tickets
      BY <3>2, <3>3, RepliesAreTyped
    <3> QED BY <2>8, <3>1, <3>2, <3>4
  <2> QED BY <1>13, <2>1, <2>2, <2>3, <2>4, <2>5, <2>6, <2>7, <2>9, <2>10 DEF Next, ServeOne
<1> QED BY <1>8, <1>13

LEMMA BooksHold == Spec => []Books
BY BooksInit, BooksKept, PTL DEF Spec

(* The total shown is the one at start-up and one for every create, and no *)
(* two creates are answered with the same total, in every run: the halves  *)
(* of PhiServer's create are its own thread's (phi_http.h:116-118).        *)
THEOREM CreatesAreNumbered == Spec => []TotalsNumberCreates
<1>1. Books => TotalsNumberCreates
  <2> SUFFICES ASSUME Books PROVE TotalsNumberCreates
    OBVIOUS
  <2>1. ASSUME NEW c \in Creators, NEW d \in Creators, c # d, reply[c] # None
        PROVE  reply[c] # reply[d]
    <3>1. CASE reply[d] = None
      BY <2>1, <3>1
    <3>2. CASE reply[d] # None
      BY <2>1, <3>2 DEF Books, Numbered, Answered
    <3> QED BY <3>1, <3>2
  <2> QED BY <2>1 DEF Books, TotalsNumberCreates
<1> QED BY <1>1, BooksHold, PTL

(* No client is shown more tickets than the table's rows and the creates   *)
(* account for, however the metrics thread's read and write fall between   *)
(* the halves of a create (phi_http.h:117, phi_prod_v21.cpp:83).           *)
THEOREM NoTicketFromNowhere == Spec => []ShownIsAccountedFor
<1>1. Books => ShownIsAccountedFor
  BY DEF Books, Covered, Most, ShownIsAccountedFor
<1> QED BY <1>1, BooksHold, PTL

=============================================================================
