------------------------- MODULE EnterpriseProgram -------------------------
(***************************************************************************)
(* The enterprise programs v1 to v8: main() takes a list of tickets one by *)
(* one past a rate limiter and a circuit breaker, has each handled by the  *)
(* parts the program is assembled from, reports, and sleeps for ever; no   *)
(* signal is caught.  A record per program says which parts it has.        *)
(*                                                                         *)
(* PhiCore and PhiFHECore keep their tickets, numbered in the order of     *)
(* creation; PhiLedger (src/src/phi_ledger.h) is a chain of entries, each  *)
(* with the hash of the one before, which nothing rewrites, so that it is  *)
(* the sequence of what was recorded.  The servers' threads run beside     *)
(* main() and share nothing with it but the WebSocket clients, for which   *)
(* see module WebSocketServer.                                             *)
(***************************************************************************)
EXTENDS Integers, Sequences, FiniteSets, SequencesExt

CONSTANTS
    Programs,       \* among those defined below
    Tickets,        \* the list: a sequence of [module, urgent, cost]
    MaxTokens,      \* RateLimiter::max_tokens, 100
    Refills,        \* what the time between two calls may be worth, in tokens
    Word, MAX_SUPPLY    \* of GRCCoin

VARIABLES
    program, pc, at,
    tokens,                 \* the bucket of the program's client
    svc, waited,            \* the circuit breaker
    ollama_available,
    stored,                 \* tickets of PhiCore or PhiFHECore
    vaultLog,               \* PhiFHECore's own ledger
    ledger,                 \* the program's
    events,                 \* statuses broadcast to the WebSocket clients
    ai, human,
    wallets, blocks, circulating, minted    \* GRCCoin

coinVars == <<wallets, blocks, circulating, minted>>
books == <<stored, vaultLog, ledger, events, ai, human>>
vars == <<program, pc, at, tokens, svc, waited, ollama_available, books, coinVars>>

Departments == {"customer_support", "tech_support", "healthcare", "finance", "hr", "sales"}
Services == {Tickets[i].module : i \in DOMAIN Tickets} \cup Departments
Breaker == INSTANCE CircuitBreaker WITH failure_threshold <- 5, MaxFailures <- 5
Coin == INSTANCE GRCCoin
          WITH MaxWallets <- 3, MaxBlocks <- 6 + Len(Tickets), MaxCirculating <- 0, Amounts <- {}

-----------------------------------------------------------------------------
(* The programs.  engine: what handles a ticket; breaker: whether it is    *)
(* asked; tells: whether its refusal is told to it as a failure;           *)
(* broadcasts: whether WebSocket clients hear of a ticket; opening, entry, *)
(* closing: what the program's ledger records before, for each ticket and  *)
(* at the end; wallets and mined: what it starts the coin with.            *)
Plain == [engine |-> "core", limiter |-> TRUE, breaker |-> FALSE, tells |-> FALSE,
          broadcasts |-> FALSE, opening |-> <<>>, entry |-> "none", closing |-> <<>>,
          wallets |-> 0, mined |-> 0]

v1 == [Plain EXCEPT !.limiter = FALSE]
v2 == [Plain EXCEPT !.breaker = TRUE, !.tells = TRUE, !.entry = "TICKET_PROCESSED",
                    !.opening = <<"SYSTEM_START", "BATCH_START">>, !.closing = <<"BATCH_END">>]
v3 == [Plain EXCEPT !.engine = "vault", !.breaker = TRUE]
v4 == [Plain EXCEPT !.engine = "ai", !.breaker = TRUE]
v5 == [Plain EXCEPT !.engine = "ai", !.broadcasts = TRUE]
v6 == [Plain EXCEPT !.engine = "swarm", !.breaker = TRUE, !.broadcasts = TRUE,
                    !.opening = <<"SWARM_INIT">>, !.entry = "SWARM_TASK"]
v7 == [Plain EXCEPT !.engine = "coin", !.opening = <<"GRC_INIT">>, !.entry = "GRC_PAYMENT",
                    !.wallets = 3, !.mined = 5]
v8 == [Plain EXCEPT !.engine = "mesh", !.opening = <<"MESH_INIT">>, !.entry = "MESH_TXN",
                    !.wallets = 1]

EnterpriseProgramAssumption ==
    /\ Programs \subseteq {v1, v2, v3, v4, v5, v6, v7, v8}
    /\ Tickets \in Seq([module : STRING, urgent : BOOLEAN, cost : Nat])
    /\ MaxTokens \in Nat /\ Refills \subseteq Nat /\ {Word, MAX_SUPPLY} \subseteq Nat

Ledgered == program.entry # "none"
Mines == program.wallets > 0

-----------------------------------------------------------------------------
(* PhiAI. *)

\* "urgent" is one of its words; roll: another of them is there, or the one
\* case in ten comes up.
needs_human(urgent, roll) == urgent \/ roll

\* process_ticket: a request that comes back empty ends the use of Ollama for
\* good; it and every later ticket are answered by the rules.
process_ticket(response) ==
    ollama_available' = (ollama_available /\ response # "empty")

-----------------------------------------------------------------------------
Init ==
    /\ program \in Programs
    /\ pc = "open" /\ at = 1 /\ tokens = 0
    /\ Breaker!Init
    /\ ollama_available \in IF program.engine = "ai" THEN BOOLEAN ELSE {FALSE}
    /\ stored = <<>> /\ ledger = <<>> /\ events = <<>> /\ ai = 0 /\ human = 0
    /\ vaultLog = IF program.engine \in {"vault", "ai", "swarm"}
                  THEN <<<<"FHE_SYSTEM_INIT", 0>>>> ELSE <<>>
    /\ Coin!Init

\* A slip: the blocks at once are mined for the client.
Open_FundsClient ==
    /\ pc = "open"
    /\ ledger' = program.opening
    /\ IF Cardinality(DOMAIN wallets) <= program.wallets
       THEN Coin!CreateWallet /\ UNCHANGED pc
       ELSE IF blocks <= program.mined
            THEN Coin!mine_block(3) /\ UNCHANGED pc
            ELSE pc' = "head" /\ UNCHANGED coinVars
    /\ UNCHANGED <<program, at, tokens, svc, waited, ollama_available, stored, vaultLog,
                   events, ai, human>>

\* The entries before the loop, the wallets, and the blocks mined at once.
Open ==
    /\ pc = "open"
    /\ ledger' = program.opening
    /\ IF Cardinality(DOMAIN wallets) <= program.wallets
       THEN Coin!CreateWallet /\ UNCHANGED pc
       ELSE IF blocks <= program.mined
            THEN Coin!mine_block(1) /\ UNCHANGED pc
            ELSE pc' = "head" /\ UNCHANGED coinVars
    /\ UNCHANGED <<program, at, tokens, svc, waited, ollama_available, stored, vaultLog,
                   events, ai, human>>

\* A slip: the breaker hears of the limiter's refusals.
Gate_TellsLimit ==
    /\ pc = "head" /\ at <= Len(Tickets)
    /\ \E r \in Refills :
        LET m == Tickets[at].module
            filled == IF tokens + r > MaxTokens THEN MaxTokens ELSE tokens + r
            limited == program.limiter /\ filled = 0
        IN  /\ tokens' = IF limited \/ ~program.limiter THEN 0 ELSE filled - 1
            /\ IF limited
               THEN pc' = "head" /\ at' = at + 1
                    /\ (IF program.tells THEN Breaker!record_failure(m)
                                         ELSE UNCHANGED <<svc, waited>>)
               ELSE pc' = "handle" /\ UNCHANGED at
                    /\ (IF program.breaker THEN Breaker!is_available(m)
                                           ELSE UNCHANGED <<svc, waited>>)
    /\ UNCHANGED <<program, ollama_available, books, coinVars>>

\* The limiter, then the breaker; a refused ticket is left.
Gate ==
    /\ pc = "head" /\ at <= Len(Tickets)
    /\ \E r \in Refills :
        LET m == Tickets[at].module
            filled == IF tokens + r > MaxTokens THEN MaxTokens ELSE tokens + r
            limited == program.limiter /\ filled = 0
            broken == program.breaker /\ ~limited /\ ~Breaker!Available(m)
        IN  /\ tokens' = IF limited \/ ~program.limiter THEN 0 ELSE filled - 1
            /\ IF limited \/ broken
               THEN pc' = "head" /\ at' = at + 1
               ELSE pc' = "handle" /\ UNCHANGED at
            /\ IF broken /\ program.tells THEN Breaker!record_failure(m)
               ELSE IF program.breaker /\ ~limited THEN Breaker!is_available(m)
               ELSE UNCHANGED <<svc, waited>>
    /\ UNCHANGED <<program, ollama_available, books, coinVars>>

Record(id) ==
    ledger' = IF Ledgered THEN Append(ledger, program.entry) ELSE ledger

Count(escalate) ==
    /\ human' = IF escalate THEN human + 1 ELSE human
    /\ ai' = IF escalate THEN ai ELSE ai + 1

Succeed(m) ==
    IF program.breaker THEN Breaker!record_success(m) ELSE UNCHANGED <<svc, waited>>

\* On to the next ticket.
Handled ==
    /\ pc = "handle" /\ pc' = "head" /\ at' = at + 1
    /\ UNCHANGED <<program, tokens>>

\* v1, v2: create_ticket, process_ticket and get_ticket of PhiCore, whose
\* own roll decides between AI and human.
HandleCore(dice) ==
    /\ program.engine = "core" /\ Handled
    /\ stored' = Append(stored, [needs_human |-> dice,
                                 status |-> IF dice THEN "escalated" ELSE "ai_handled"])
    /\ Record(at) /\ Count(dice) /\ Succeed(Tickets[at].module)
    /\ UNCHANGED <<ollama_available, vaultLog, events, coinVars>>

\* create_encrypted_ticket, with the roll of PhiFHECore.
Encrypted(dice, status) == Append(stored, [needs_human |-> dice, status |-> status])

\* A slip: the outcome is recorded before the creation.
HandleVault_Swapped(dice) ==
    /\ program.engine = "vault" /\ Handled
    /\ stored' = Encrypted(dice, IF dice THEN "escalated_decrypted" ELSE "ai_processed_encrypted")
    /\ vaultLog' = vaultLog \o
          << <<IF dice THEN "TICKET_DECRYPTED_FOR_HUMAN" ELSE "TICKET_PROCESSED_FHE",
               Len(stored)>>,
             <<"TICKET_ENCRYPTED", Len(stored) + 1>> >>
    /\ Count(dice) /\ Succeed(Tickets[at].module)
    /\ UNCHANGED <<ollama_available, ledger, events, coinVars>>

\* v3: create_encrypted_ticket, process_encrypted.
HandleVault(dice) ==
    /\ program.engine = "vault" /\ Handled
    /\ stored' = Encrypted(dice, IF dice THEN "escalated_decrypted" ELSE "ai_processed_encrypted")
    /\ vaultLog' = vaultLog \o
          << <<"TICKET_ENCRYPTED", Len(stored) + 1>>,
             <<IF dice THEN "TICKET_DECRYPTED_FOR_HUMAN" ELSE "TICKET_PROCESSED_FHE",
               Len(stored) + 1>> >>
    /\ Count(dice) /\ Succeed(Tickets[at].module)
    /\ UNCHANGED <<ollama_available, ledger, events, coinVars>>

\* v4 to v6: the ticket is stored encrypted and never processed; the vault's
\* roll and the program's own decision are two.
StoreAndTell(dice, escalate) ==
    /\ stored' = Encrypted(dice, "encrypted")
    /\ vaultLog' = Append(vaultLog, <<"TICKET_ENCRYPTED", Len(stored) + 1>>)
    /\ events' = IF program.broadcasts
                 THEN Append(events, IF escalate THEN "escalated" ELSE "ai_resolved")
                 ELSE events
    /\ Count(escalate)

\* classify_module finds one of six departments by words in the text; only
\* the breaker hears which.
HandleAI(dice, roll, response, department) ==
    /\ program.engine = "ai" /\ Handled
    /\ process_ticket(response)
    /\ StoreAndTell(dice, needs_human(Tickets[at].urgent, roll))
    /\ Breaker!record_success(department)
    /\ UNCHANGED <<ledger, coinVars>>

\* v6 looks for URGENT in what the swarm answers, which may have it or not, or
\* rolls its own die.
HandleSwarm(dice, roll) ==
    /\ program.engine = "swarm" /\ Handled
    /\ StoreAndTell(dice, roll)
    /\ Record(at) /\ Succeed(Tickets[at].module)
    /\ UNCHANGED <<ollama_available, coinVars>>

\* v7: the client's wallet is to pay the agent's or the program's; what transfer
\* returns is not looked at, the block is mined and the payment recorded.
HandleCoin ==
    /\ program.engine = "coin" /\ Handled
    /\ LET urgent == Tickets[at].urgent
           worker == IF urgent THEN 2 ELSE 1
           cost == Tickets[at].cost
           paid == Coin!Covered(3, worker, cost)
           after == IF paid THEN Coin!Moved(3, worker, cost) ELSE wallets
           reward == Coin!compute_reward(blocks)
       IN  /\ wallets' = [after EXCEPT ![1] = (@ + reward) % Word]
           /\ circulating' = IF paid THEN circulating + cost ELSE circulating
           /\ blocks' = blocks + 1 /\ minted' = minted + reward
           /\ Count(urgent)
    /\ Record(at)
    /\ UNCHANGED <<svc, waited, ollama_available, stored, vaultLog, events>>

\* v8: only mines and records.
HandleMesh ==
    /\ program.engine = "mesh" /\ Handled
    /\ Coin!mine_block(1)
    /\ Record(at) /\ Count(Tickets[at].urgent)
    /\ UNCHANGED <<svc, waited, ollama_available, stored, vaultLog, events>>

\* The report; main() sleeps on.
Report ==
    /\ pc = "head" /\ at > Len(Tickets) /\ pc' = "asleep"
    /\ ledger' = ledger \o program.closing
    /\ UNCHANGED <<program, at, tokens, svc, waited, ollama_available, stored, vaultLog,
                   events, ai, human, coinVars>>

Handle ==
    \/ \E dice \in BOOLEAN : HandleCore(dice) \/ HandleVault(dice)
    \/ \E dice, roll \in BOOLEAN : HandleSwarm(dice, roll)
    \/ \E dice, roll \in BOOLEAN, response \in {"text", "no text", "empty"},
          department \in Departments : HandleAI(dice, roll, response, department)
    \/ HandleCoin \/ HandleMesh

Next == Open \/ Gate \/ Handle \/ Report

Spec == Init /\ [][Next]_vars /\ WF_vars(Next)

-----------------------------------------------------------------------------
TypeOK ==
    /\ program \in Programs /\ pc \in {"open", "head", "handle", "asleep"}
    /\ at \in 1 .. Len(Tickets) + 1 /\ tokens \in 0 .. MaxTokens
    /\ Breaker!TypeOK /\ Coin!TypeOK /\ ollama_available \in BOOLEAN
    /\ events \in Seq({"escalated", "ai_resolved"})
    /\ {ai, human} \subseteq 0 .. Len(Tickets)

Escalated(s) == Cardinality({i \in DOMAIN s : s[i] = "escalated"})

(* What main() counted, the tickets kept, both ledgers, the events sent to *)
(* the dashboards and the chain count the same tickets at every one, the   *)
(* refused ones left out of all of them: as many entries as tickets        *)
(* handled, an event for every ticket and as many "escalated" ones as      *)
(* main() counted human, a decryption recorded after its ticket's creation *)
(* and only when the ticket went to a human, and a block for every ticket  *)
(* handled, paid or not.                                                   *)
BooksAgree ==
    LET done == ai + human IN
    /\ pc # "open" => ledger = program.opening \o
           (IF Ledgered THEN [i \in 1 .. done |-> program.entry] ELSE <<>>) \o
           (IF pc = "asleep" THEN program.closing ELSE <<>>)
    /\ program.engine \notin {"coin", "mesh"} => Len(stored) = done
    /\ program.engine \in {"core", "vault"} =>
           human = Cardinality({i \in DOMAIN stored : stored[i].needs_human})
    /\ program.broadcasts => Len(events) = done /\ Escalated(events) = human
    /\ \A i \in DOMAIN stored : vaultLog # <<>> =>
         \E j \in DOMAIN vaultLog :
           /\ vaultLog[j] = <<"TICKET_ENCRYPTED", i>>
           /\ \A k \in DOMAIN vaultLog :
                vaultLog[k] = <<"TICKET_DECRYPTED_FOR_HUMAN", i>> =>
                  k > j /\ stored[i].needs_human
    /\ Mines /\ pc # "open" => blocks = 1 + program.mined + done

(* No payment that v7 records takes place: the client's wallet is never    *)
(* funded, every transfer out of it fails unseen, and nothing circulates   *)
(* or reaches the agent, whatever the tickets cost, however many blocks    *)
(* are mined and whoever is to be paid (phi_grc_enterprise.cpp:46, 88-92,  *)
(* against "pay in GRC", line 76; SupplyAccountedFor cannot tell).         *)
NothingIsPaid ==
    program.engine = "coin" /\ pc # "open" =>
        circulating = 0 /\ wallets[2] = 0 /\ wallets[3] = 0

(* No program's breaker ever trips: record_failure has one caller, which   *)
(* stands behind is_available's own refusal (phi_enterprise.cpp:70-72), so *)
(* that the services it watches fail without its noticing.                 *)
BreakerNeverTrips ==
    \A s \in Services : svc[s] = [state |-> "CLOSED", failures |-> 0]

=============================================================================
