----------------------------- MODULE DemoServer -----------------------------
(***************************************************************************)
(* The v23.3 live dashboard: SimpleServer (src/src/phi_server_minimal.cpp) *)
(* serves one connection after another out of DivineDatabase               *)
(* (src/src/phi_database_real.h), which seeds an empty file row by row,    *)
(* each row committed by itself, the agents before the tickets.  Any       *)
(* statement may be refused (the disk is full, another tool writes), which *)
(* the code looks at only for a ticket that a browser creates.  The        *)
(* program may be killed anywhere and started again; one at a time has the *)
(* file.  The page in the browser loads tickets, queue and agents in three *)
(* requests, every five seconds and after a ticket it has created.         *)
(***************************************************************************)
EXTENDS Naturals, Sequences, FiniteSets

CONSTANTS
    Agents,         \* the five agents, seeded first, as a sequence
    Seeds,          \* the status of each of the eight tickets seeded
    LIMIT,          \* rows in the list, 20
    Minute,         \* seconds in a minute, the precision of "created"
    LastSecond,     \* bound on the clock
    Browsers, None

DemoServerAssumption ==
    /\ LIMIT \in Nat \ {0} /\ Minute \in Nat \ {0} /\ LastSecond \in Nat
    /\ Agents \in Seq(STRING) /\ Agents # <<>>
    /\ Seeds \in Seq({"Open", "In Progress", "Resolved"})

VARIABLES
    proc, row,      \* where the program is, and the next row to seed
    clock,
    agents,         \* ids of the agents in the table
    tickets,        \* the ticket table, by primary key
    doing,          \* what each browser is waiting for
    form,           \* what it has submitted
    told,           \* the id in the last alert of createTicket
    refused         \* history: agents not in the table, refused when last tried

page == <<doing, form, told>>
vars == <<proc, row, clock, agents, tickets, page, refused>>

Rows == Len(Agents) + Len(Seeds)

\* Text the extraction cuts at an escaped quote leaves a backslash that spoils
\* the JSON list; late: the body arrives in a later segment than the headers.
Forms == {"plain", "apostrophe", "quote", "late"}

Init ==
    /\ proc = "down" /\ row = 1 /\ clock = 0
    /\ agents = {} /\ tickets = <<>> /\ refused = {}
    /\ doing = [b \in Browsers |-> "idle"] /\ form = [b \in Browsers |-> "plain"]
    /\ told = [b \in Browsers |-> None]

Tick ==
    /\ clock < LastSecond /\ clock' = clock + 1
    /\ UNCHANGED <<proc, row, agents, tickets, page, refused>>

-----------------------------------------------------------------------------
(* The program. *)

\* The constructor: tables, and a look whether a ticket is there, which
\* finds none when it is refused.
Open ==
    /\ proc = "down"
    /\ proc' \in IF DOMAIN tickets = {} THEN {"seed"} ELSE {"seed", "start"}
    /\ row' = 1
    /\ UNCHANGED <<clock, agents, tickets, page, refused>>

Insert(id, status, by, text) ==
    tickets' = [i \in DOMAIN tickets \cup {id} |->
        IF i \in DOMAIN tickets THEN tickets[i]
        ELSE [status |-> status, by |-> by, text |-> text, made |-> clock \div Minute]]

\* The row of an agent or a ticket: in the table, or refused unseen.
AddAgent(a) ==
    /\ \/ agents' = agents \cup {a} /\ refused' = refused \ {a}
       \/ refused' = (refused \cup {a}) \ agents /\ UNCHANGED agents
    /\ UNCHANGED tickets

AddTicket(n) ==
    /\ Insert(<<"seed", n>>, Seeds[n], None, "plain") \/ UNCHANGED tickets
    /\ UNCHANGED <<agents, refused>>

\* A slip: the tickets are seeded before the agents.
Seed_TicketsFirst ==
    /\ proc = "seed"
    /\ IF row <= Len(Seeds) THEN AddTicket(row) ELSE AddAgent(Agents[row - Len(Seeds)])
    /\ row' = row + 1 /\ proc' = IF row = Rows THEN "start" ELSE "seed"
    /\ UNCHANGED <<clock, page>>

\* One row of seedData; a key that a killed program left stays as it is.
Seed ==
    /\ proc = "seed"
    /\ IF row <= Len(Agents) THEN AddAgent(Agents[row]) ELSE AddTicket(row - Len(Agents))
    /\ row' = row + 1 /\ proc' = IF row = Rows THEN "start" ELSE "seed"
    /\ UNCHANGED <<clock, page>>

\* The port may be taken: main() gives up.
Start ==
    /\ proc = "start" /\ proc' \in {"serving", "down"}
    /\ UNCHANGED <<row, clock, agents, tickets, page, refused>>

\* Killed: whoever waits for an answer gets none, and no alert or figure.
Kill ==
    /\ proc \notin {"down", "foreign"} /\ proc' = "down"
    /\ doing' = [b \in Browsers |-> "idle"]
    /\ UNCHANGED <<row, clock, agents, tickets, form, told, refused>>

\* The rows of the list: the newest by minute, in any order within one.
Listings ==
    {l \in SUBSET DOMAIN tickets :
        /\ Cardinality(l) = (IF Cardinality(DOMAIN tickets) < LIMIT
                             THEN Cardinality(DOMAIN tickets) ELSE LIMIT)
        /\ \A i \in l, j \in DOMAIN tickets \ l : tickets[j].made <= tickets[i].made}

Answer(b, then) ==
    /\ proc = "serving" /\ doing' = [doing EXCEPT ![b] = then]
    /\ UNCHANGED <<row, clock, agents, form, refused>>

\* GET /api/tickets; a list that is not JSON ends loadData, and a SELECT that
\* is refused lists nothing.
getTicketsJSON(b) ==
    /\ doing[b] = "tickets"
    /\ \E l \in Listings \cup {{}} :
        Answer(b, IF \E i \in l : tickets[i].text = "quote" THEN "idle" ELSE "queue")
    /\ UNCHANGED <<proc, tickets, told>>

\* GET /api/queue, GET /api/agents.
getQueueJSON(b) ==
    /\ doing[b] = "queue" /\ Answer(b, "agents")
    /\ UNCHANGED <<proc, tickets, told>>

getAgentsJSON(b) ==
    /\ doing[b] = "agents" /\ Answer(b, "idle")
    /\ UNCHANGED <<proc, tickets, told>>

\* What is stored of a form: of a body in a later segment, which is not read,
\* the defaults, and the ticket is Unknown's.
Stored(b) == IF form[b] = "late" THEN [by |-> None, text |-> "plain"]
                                 ELSE [by |-> b, text |-> form[b]]

\* A slip: INSERT OR REPLACE.
createTicket_Replaces(b) ==
    /\ doing[b] = "post" /\ Answer(b, "tickets")
    /\ LET id == <<"TKT", clock>> IN
        /\ tickets' = [i \in DOMAIN tickets \cup {id} |->
              IF i = id THEN [status |-> "Open", by |-> Stored(b).by, text |-> Stored(b).text,
                              made |-> clock \div Minute]
              ELSE tickets[i]]
        /\ told' = [told EXCEPT ![b] = id]
    /\ UNCHANGED proc

\* POST /api/ticket: the id is the second, and the page tells it, or
\* "undefined" when the row is refused.  Text goes into the statement as it
\* is: with an apostrophe it is refused, or the statement is another one, and
\* what it does to the tables is left open (proc = "foreign").
createTicket(b) ==
    /\ doing[b] = "post" /\ Answer(b, "tickets")
    /\ LET id == <<"TKT", clock>>
           values == Stored(b)
       IN  \/ /\ id \notin DOMAIN tickets /\ values.text # "apostrophe"
              /\ Insert(id, "Open", values.by, values.text)
              /\ told' = [told EXCEPT ![b] = id] /\ UNCHANGED proc
           \/ told' = [told EXCEPT ![b] = <<"undefined">>] /\ UNCHANGED <<proc, tickets>>
           \/ values.text = "apostrophe" /\ proc' = "foreign" /\ UNCHANGED <<tickets, told>>

-----------------------------------------------------------------------------
(* The browsers. *)
loadData(b) ==
    /\ proc = "serving" /\ doing[b] = "idle"
    /\ doing' = [doing EXCEPT ![b] = "tickets"]
    /\ UNCHANGED <<proc, row, clock, agents, tickets, form, told, refused>>

Submit(b, f) ==
    /\ proc = "serving" /\ doing[b] = "idle" /\ told[b] = None
    /\ doing' = [doing EXCEPT ![b] = "post"] /\ form' = [form EXCEPT ![b] = f]
    /\ UNCHANGED <<proc, row, clock, agents, tickets, told, refused>>

Serve(b) == getTicketsJSON(b) \/ getQueueJSON(b) \/ getAgentsJSON(b) \/ createTicket(b)

Next ==
    \/ Tick \/ Open \/ Seed \/ Start \/ Kill
    \/ \E b \in Browsers : loadData(b) \/ Serve(b) \/ \E f \in Forms : Submit(b, f)

Spec == Init /\ [][Next]_vars

-----------------------------------------------------------------------------
(* The types of the variables. *)
TypeOK ==
    /\ proc \in {"down", "seed", "start", "serving", "foreign"} /\ row \in 1 .. Rows + 1
    /\ clock \in 0 .. LastSecond
    /\ {agents, refused} \subseteq SUBSET {Agents[i] : i \in DOMAIN Agents}
    /\ \A i \in DOMAIN tickets :
         tickets[i] \in [status : {"Open", "In Progress", "Resolved"},
                         by : Browsers \cup {None}, text : {"plain", "quote"}, made : Nat]
    /\ doing \in [Browsers -> {"idle", "tickets", "queue", "agents", "post"}]
    /\ form \in [Browsers -> Forms]

(* However often the program is killed while it seeds the file, a file     *)
(* with a ticket lacks an agent only if that agent's row was refused when  *)
(* it was last tried: the next start, which seeds only a file in which it  *)
(* sees no ticket, leaves out nobody else (phi_database_real.h:81-124).    *)
AgentsBeforeTickets ==
    proc # "foreign" /\ DOMAIN tickets # {} =>
        \A i \in DOMAIN Agents : Agents[i] \in agents \cup refused

(* As long as no text has been run as a statement, an id in a "created"    *)
(* alert is that browser's alone, and its row stays in the table as the    *)
(* browser sent it, or with the defaults if its body came late, although   *)
(* the id is only the second (phi_database_real.h:176-191).                *)
CreatedIsKept ==
    proc # "foreign" => \A b \in Browsers : told[b] \notin {None, <<"undefined">>} =>
        /\ told[b] \in DOMAIN tickets
        /\ tickets[told[b]].by = Stored(b).by /\ tickets[told[b]].text = Stored(b).text
        /\ tickets[told[b]].status = "Open"
        /\ \A c \in Browsers \ {b} : told[c] # told[b]

=============================================================================
