--------------------------- MODULE ServerProgram ---------------------------
(***************************************************************************)
(* The programs that serve the dashboard, v21 to v23.2.  main() fills      *)
(* http::g_metrics and the ticket list, detaches a thread that refreshes   *)
(* the metrics every five seconds, and calls the server's start(), which   *)
(* comes back only when the port cannot be bound: the backup and the       *)
(* "graceful shutdown" after it are for that case alone.  A signal clears  *)
(* the program's flag, which only the metrics thread reads.                *)
(*                                                                         *)
(* v21 and v22 use PhiServer (src/src/phi_http.h): one thread accepts a    *)
(* client, waits in recv for one segment, answers and closes.  The later   *)
(* programs use AsyncPhiServer, here as what module AsyncServer shows of   *)
(* it: every client that has sent its request is answered, whatever the    *)
(* others do.  Other programs insert into the same SQLite file.            *)
(***************************************************************************)
EXTENDS Naturals, Sequences, FiniteSets

CONSTANTS
    Programs,   \* among those defined below
    Clients,    \* browsers; each connects at most once
    Requests,   \* what they ask for, among RequestKinds
    Seeded,     \* g_metrics.total_tickets at start-up, 8
    MaxRows,    \* bound on the rows of the ticket table
    None        \* no client, no request, no reply

(* "create" is POST /api/tickets/create with its body in the segment of the *)
(* headers, "late" the same with the body in a later segment.              *)
RequestKinds == {"health", "stats", "infra", "tickets", "create", "late", "page"}

Replies == [what : {"ok", "stats", "list", "page", "404", "created"}, total : Nat, db : Nat]

ASSUME ServerProgramAssumption ==
    /\ Programs \subseteq [blocking : BOOLEAN, listed : Nat]
    /\ IsFiniteSet(Clients)
    /\ Requests \subseteq RequestKinds
    /\ Seeded \in Nat /\ MaxRows \in Nat
    /\ None \notin Clients \cup RequestKinds \cup Replies

VARIABLES
    program,
    main,           \* where main() is
    running,        \* the program's flag, not the server's
    rows,           \* rows of the ticket table
    total_tickets, db_tickets,      \* of g_metrics
    updater, sampled,   \* the metrics thread, and the count it has read
    client, request, reply,
    backlog,        \* connections PhiServer has not accepted yet, in order
    serving,        \* the client PhiServer is at
    step, loaded    \* where it is in handling it; the db_tickets it has read

metrics == <<total_tickets, db_tickets>>
thread  == <<updater, sampled>>
clients == <<client, request, reply, backlog>>
server  == <<serving, step, loaded>>
vars == <<program, main, running, rows, metrics, thread, clients, server>>

-----------------------------------------------------------------------------
(* The programs: which server, and how many tickets are in g_tickets_json. *)
v21   == [blocking |-> TRUE,  listed |-> 0]
v22   == [blocking |-> TRUE,  listed |-> Seeded]
v23   == [blocking |-> FALSE, listed |-> Seeded]
v23_1 == [blocking |-> FALSE, listed |-> Seeded]
v23_2 == [blocking |-> FALSE, listed |-> Seeded]

\* From the count of the rows to the metrics thread's start.
Init ==
    /\ program \in Programs
    /\ main = "start" /\ running = TRUE
    /\ rows \in 0..MaxRows
    /\ total_tickets = Seeded /\ db_tickets = rows
    /\ updater = "query" /\ sampled = 0
    /\ client = [c \in Clients |-> "out"]
    /\ request = [c \in Clients |-> None]
    /\ reply = [c \in Clients |-> None]
    /\ backlog = <<>> /\ serving = None /\ step = "accept" /\ loaded = 0

Up == main \notin {"exited", "crashed"}

Signal ==
    /\ Up /\ running /\ running' = FALSE
    /\ UNCHANGED <<program, main, rows, metrics, thread, clients, server>>

\* Another program that has the file open inserts a ticket.
Insert ==
    /\ Up /\ rows < MaxRows /\ rows' = rows + 1
    /\ UNCHANGED <<program, main, running, metrics, thread, clients, server>>

-----------------------------------------------------------------------------
(* main(). *)
Bind ==
    /\ main = "start"
    /\ main' \in {"serving", "backup"}
    /\ UNCHANGED <<program, running, rows, metrics, thread, clients, server>>

\* The lines after start(): the backup, then the destructors of the locals.
Shutdown ==
    /\ \/ main = "backup" /\ main' = "teardown"
       \/ main = "teardown" /\ main' = "exited"
    /\ UNCHANGED <<program, running, rows, metrics, thread, clients, server>>

(* The metrics thread: uptime and row count every five seconds. *)
Query ==
    /\ Up /\ updater = "query"
    /\ updater' = IF running THEN "store" ELSE "ended"
    /\ sampled' = IF running THEN rows ELSE sampled
       \* The storage may be gone when it is asked: anything may follow.
    /\ \/ UNCHANGED main
       \/ main = "teardown" /\ running /\ main' = "crashed"
    /\ UNCHANGED <<program, running, rows, metrics, clients, server>>

\* A slip: the count is added instead of assigned.
Store_Adds ==
    /\ Up /\ updater = "store" /\ updater' = "query"
    /\ db_tickets' = db_tickets + sampled /\ sampled' = 0
    /\ UNCHANGED <<program, main, running, rows, total_tickets, clients, server>>

\* A slip: the total is refreshed from the table as well.
Store_Total ==
    /\ Up /\ updater = "store" /\ updater' = "query"
    /\ db_tickets' = sampled /\ total_tickets' = Seeded + sampled /\ sampled' = 0
    /\ UNCHANGED <<program, main, running, rows, clients, server>>

Store ==
    /\ Up /\ updater = "store" /\ updater' = "query"
    /\ db_tickets' = sampled /\ sampled' = 0
    /\ UNCHANGED <<program, main, running, rows, total_tickets, clients, server>>

-----------------------------------------------------------------------------
(* The browsers. *)
Connect(c) ==
    /\ main = "serving" /\ client[c] = "out"
    /\ client' = [client EXCEPT ![c] = "open"]
    /\ backlog' = IF program.blocking THEN Append(backlog, c) ELSE backlog
    /\ UNCHANGED <<program, main, running, rows, metrics, thread, request, reply, server>>

SendRequest(c, r) ==
    /\ main = "serving" /\ client[c] = "open" /\ request[c] = None
    /\ request' = [request EXCEPT ![c] = r]
    /\ UNCHANGED <<program, main, running, rows, metrics, thread, client, reply, backlog,
                   server>>

(* What a request is answered with.  Health and infra show what never      *)
(* changes; a create without its body is looked up as a file and is a 404, *)
(* as it always is in AsyncPhiServer, which has no such route.             *)
Shown(what, total, db) == [what |-> what, total |-> total, db |-> db]

handle_request(r) ==
    CASE r \in {"health", "infra"} -> Shown("ok", 0, 0)
      [] r = "stats"   -> Shown("stats", total_tickets, db_tickets)
      [] r = "tickets" -> Shown("list", program.listed, 0)
      [] r = "page"    -> Shown("page", 0, 0)
      [] OTHER         -> Shown("404", 0, 0)

Goto(s) == step' = s /\ UNCHANGED serving

(* PhiServer::start's loop. *)
Accept ==
    /\ main = "serving" /\ program.blocking
    /\ step = "accept" /\ backlog # <<>>
    /\ serving' = Head(backlog) /\ backlog' = Tail(backlog) /\ step' = "recv"
    /\ UNCHANGED <<program, main, running, rows, metrics, thread, client, request, reply,
                   loaded>>

\* A slip: recv is repeated until the body is there.
Recv_WholeBody ==
    /\ step = "recv" /\ request[serving] \notin {None, "late"}
    /\ Goto("handle")
    /\ UNCHANGED <<program, main, running, rows, metrics, thread, clients, loaded>>

\* recv returns with the first segment, and not before.
Recv ==
    /\ step = "recv" /\ request[serving] # None
    /\ Goto("handle")
    /\ UNCHANGED <<program, main, running, rows, metrics, thread, clients, loaded>>

\* total_tickets++, and the first half of db_tickets++, which no lock makes
\* one step with the metrics thread's assignment.
Create ==
    /\ step = "handle" /\ request[serving] = "create"
    /\ total_tickets' = total_tickets + 1
    /\ loaded' = db_tickets
    /\ Goto("count")
    /\ UNCHANGED <<program, main, running, rows, db_tickets, thread, clients>>

\* The second half, and the reply: no row is inserted, the list is as it was.
Created ==
    /\ step = "count"
    /\ db_tickets' = loaded + 1
    /\ reply' = [reply EXCEPT ![serving] = Shown("created", total_tickets, 0)]
    /\ Goto("send")
    /\ loaded' = 0
    /\ UNCHANGED <<program, main, running, rows, total_tickets, thread, client, request,
                   backlog>>

Handle ==
    /\ step = "handle" /\ request[serving] # "create"
    /\ reply' = [reply EXCEPT ![serving] = handle_request(request[serving])]
    /\ Goto("send")
    /\ UNCHANGED <<program, main, running, rows, metrics, thread, client, request, backlog,
                   loaded>>

SendClose ==
    /\ step = "send"
    /\ client' = [client EXCEPT ![serving] = "closed"]
    /\ serving' = None /\ step' = "accept"
    /\ UNCHANGED <<program, main, running, rows, metrics, thread, request, reply, backlog,
                   loaded>>

(* AsyncPhiServer, by its promise. *)
AnswerAsync(c) ==
    /\ main = "serving" /\ ~program.blocking
    /\ client[c] = "open" /\ request[c] # None
    /\ reply' = [reply EXCEPT ![c] = handle_request(request[c])]
    /\ client' = [client EXCEPT ![c] = "closed"]
    /\ UNCHANGED <<program, main, running, rows, metrics, thread, request, backlog, server>>

-----------------------------------------------------------------------------
ServeOne == Accept \/ Recv \/ Create \/ Created \/ Handle \/ SendClose

Next ==
    \/ Signal \/ Insert \/ Bind \/ Shutdown \/ Query \/ Store \/ ServeOne
    \/ \E c \in Clients : Connect(c) \/ AnswerAsync(c) \/ \E r \in Requests : SendRequest(c, r)

\* Threads are scheduled; clients, signals and other programs promise nothing.
Fairness ==
    /\ WF_vars(Bind) /\ WF_vars(Shutdown) /\ WF_vars(Query \/ Store) /\ WF_vars(ServeOne)
    /\ \A c \in Clients : WF_vars(AnswerAsync(c))

Spec == Init /\ [][Next]_vars /\ Fairness

-----------------------------------------------------------------------------
(* The types of the variables. *)
TypeOK ==
    /\ program \in Programs /\ running \in BOOLEAN
    /\ main \in {"start", "serving", "backup", "teardown", "exited", "crashed"}
    /\ rows \in 0..MaxRows /\ sampled \in 0..MaxRows /\ loaded \in Nat
    /\ total_tickets \in Nat /\ db_tickets \in Nat
    /\ updater \in {"query", "store", "ended"}
    /\ client \in [Clients -> {"out", "open", "closed"}]
    /\ request \in [Clients -> Requests \cup {None}]
    /\ reply \in [Clients -> Replies \cup {None}]
    /\ backlog \in Seq(Clients)
    /\ serving \in Clients \cup {None}
    /\ step \in {"accept", "recv", "handle", "count", "send"}

\* Clients whose create has been counted.
Creators == {c \in Clients : request[c] = "create" /\ program.blocking
                /\ (reply[c] # None \/ (serving = c /\ step = "count"))}

(* The total the dashboard shows is the eight it starts with plus one for  *)
(* every create answered, whatever the metrics thread does meanwhile, so   *)
(* that no two creates are told the same total (phi_http.h:116-118).       *)
TotalsNumberCreates ==
    /\ total_tickets = Seeded + Cardinality(Creators)
    /\ \A c, d \in Creators : c # d /\ reply[c] # None => reply[c] # reply[d]

(* db_tickets is bumped by a create, which inserts nothing, and set by the *)
(* metrics thread, without a lock between them: however their halves fall, *)
(* no client is shown more tickets than the table's rows and the creates   *)
(* so far account for (phi_http.h:117, phi_prod_v21.cpp:83).               *)
ShownIsAccountedFor ==
    LET most == rows + Cardinality(Creators) IN
    /\ db_tickets <= most
    /\ \A c \in Clients : reply[c] # None => reply[c].db <= most

(* A client that has sent its request is answered, after a signal too; in  *)
(* the programs with one blocking recv, unless some client keeps the       *)
(* server waiting for a request for ever (phi_http.h:187).                 *)
EveryClientAnswered ==
    (program.blocking => \A c \in Clients : []<>(serving # c \/ request[c] # None)) =>
    \A c \in Clients : request[c] # None ~> client[c] = "closed"

=============================================================================
