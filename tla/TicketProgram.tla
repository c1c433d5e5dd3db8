---------------------------- MODULE TicketProgram ----------------------------
(***************************************************************************)
(* The ticket loop of the production programs, v13 to v20: each takes its  *)
(* tickets one by one through the gates it has (rate limiter, validator),  *)
(* asks the AI, writes the ticket to SQLite, counts it and mines a block.  *)
(* The programs are assemblies of the same parts and differ in which gates *)
(* they have, which rejections they count, and what they do with an AI or  *)
(* a database that fails; a record per program says so.                    *)
(*                                                                         *)
(* ErrorHandler (src/src/phi_error.h) retries an operation that throws and *)
(* marks a service DOWN, for good, when Threshold operations in a row have *)
(* failed.  RateLimiter (src/src/phi_rate_limiter.h) adds to the bucket    *)
(* what the time since the last call is worth, truncated.                  *)
(*                                                                         *)
(* No gate stands for the circuit breaker: record_failure has one caller   *)
(* (phi_enterprise.cpp:72), behind is_available's own refusal, so that in  *)
(* every program the breaker is closed and stays so.                       *)
(***************************************************************************)
EXTENDS Integers, Sequences, FiniteSets

CONSTANTS
    Tickets,        \* the program's list: a sequence of [valid, urgent]
    Programs,       \* the programs considered, among those defined below
    MaxAttempts,    \* RetryConfig::max_attempts, 3
    Threshold,      \* failures that take a service down, 5
    MaxTokens,      \* RateLimiter::max_tokens, 100
    Refills         \* what the time between two calls may be worth, in tokens

VARIABLES
    program,        \* which of the programs runs
    pc,             \* where main() is
    running,        \* cleared by SIGINT and SIGTERM
    at,             \* the ticket in hand
    gates,          \* the gates it has still to pass
    attempt,        \* attempt of the operation under way
    fellBack,       \* whether its response is the fallback's
    failure_counts, service_status,     \* ErrorHandler; TRUE is DOWN
    tokens,         \* the bucket of client "prod"
    rows,           \* the tickets in SQLite's table
    ai, human, skipped,
    blocks,         \* GRCCoin's chain length
    streak          \* history: operations of a service failed in a row

counters == <<ai, human, skipped, blocks>>
handler  == <<attempt, failure_counts, service_status, streak>>
state    == <<program, pc, running, at, gates, fellBack, tokens, rows>>
vars == <<state, handler, counters>>

Services == {"ollama_ai", "sqlite"}
Gates == {"limiter", "validator"}

ProgramKinds ==
    [gates : Seq(Gates), counted : SUBSET Gates, retries : BOOLEAN,
     fallbackToHuman : BOOLEAN, write : {"plain", "handled", "checked"}, waits : BOOLEAN]

ASSUME TicketAssumption ==
    /\ Programs \subseteq ProgramKinds
    /\ Tickets \in Seq([valid : BOOLEAN, urgent : BOOLEAN])
    /\ MaxAttempts \in Nat \ {0} /\ Threshold \in Nat \ {0}
    /\ MaxTokens \in Nat \ {0} /\ Refills \subseteq Nat

-----------------------------------------------------------------------------
(* The programs.  gates: in the order of the loop; counted: the gates      *)
(* whose rejections are counted; retries: the AI is asked through          *)
(* execute_with_fallback; fallbackToHuman: a fallback makes the ticket a   *)
(* human's; write: plain, through execute, or execute with its result      *)
(* looked at; waits: main stays up until a signal comes.                   *)

v13 == [gates |-> <<"limiter">>, counted |-> {}, retries |-> FALSE,
        fallbackToHuman |-> FALSE, write |-> "plain", waits |-> FALSE]
v14 == [gates |-> <<"limiter">>, counted |-> {}, retries |-> TRUE,
        fallbackToHuman |-> TRUE, write |-> "checked", waits |-> FALSE]
v15 == [gates |-> <<"limiter", "validator">>, counted |-> {"validator"}, retries |-> TRUE,
        fallbackToHuman |-> TRUE, write |-> "handled", waits |-> FALSE]
v16 == [gates |-> <<"validator">>, counted |-> {"validator"}, retries |-> TRUE,
        fallbackToHuman |-> FALSE, write |-> "handled", waits |-> TRUE]
v17 == [gates |-> <<"validator">>, counted |-> {"validator"}, retries |-> TRUE,
        fallbackToHuman |-> FALSE, write |-> "plain", waits |-> TRUE]
v18 == [gates |-> <<"validator">>, counted |-> {}, retries |-> TRUE,
        fallbackToHuman |-> FALSE, write |-> "plain", waits |-> TRUE]
v20 == [gates |-> <<"limiter", "validator">>, counted |-> {"limiter", "validator"},
        retries |-> TRUE, fallbackToHuman |-> FALSE, write |-> "checked", waits |-> TRUE]

-----------------------------------------------------------------------------
Init ==
    /\ program \in Programs
    /\ pc = "head" /\ running = TRUE /\ at = 1 /\ gates = <<>>
    /\ attempt = 1 /\ fellBack = FALSE
    /\ failure_counts = [s \in Services |-> 0]
    /\ service_status = [s \in Services |-> FALSE]
    /\ streak = [s \in Services |-> 0]
    /\ tokens = 0 /\ rows = {}
    /\ ai = 0 /\ human = 0 /\ skipped = 0 /\ blocks = 1

\* SIGINT or SIGTERM: the handler only clears the flag.
Signal ==
    /\ running /\ running' = FALSE
    /\ UNCHANGED <<program, pc, at, gates, fellBack, handler, tokens, rows, counters>>

\* The top of the loop; a signal is noticed here and nowhere else in it.
LoopHead ==
    /\ pc = "head"
    /\ IF running /\ at <= Len(Tickets)
       THEN pc' = "gate" /\ gates' = program.gates
       ELSE pc' = "report" /\ gates' = <<>>
    /\ UNCHANGED <<program, running, at, fellBack, handler, tokens, rows, counters>>

\* On to the next ticket, leaving the one in hand.
NextTicket == pc' = "head" /\ at' = at + 1

\* A slip: a rejected ticket is not counted.
Reject_Uncounted(gate) ==
    /\ NextTicket
    /\ UNCHANGED <<gates, counters>>

Reject(gate) ==
    /\ NextTicket
    /\ skipped' = IF gate \in program.counted THEN skipped + 1 ELSE skipped
    /\ UNCHANGED <<gates, ai, human, blocks>>

Pass ==
    /\ gates' = Tail(gates)
    /\ UNCHANGED <<pc, at, counters>>

\* A slip: the bucket is not capped, and may grow past max_tokens.
Limit_Uncapped ==
    /\ pc = "gate" /\ gates # <<>> /\ Head(gates) = "limiter"
    /\ \E r \in Refills :
        IF tokens + r > 0
        THEN tokens' = tokens + r - 1 /\ Pass
        ELSE tokens' = tokens + r /\ Reject("limiter")
    /\ UNCHANGED <<program, running, fellBack, handler, rows>>

\* RateLimiter::allow, the time since the last call being worth r tokens.
Limit ==
    /\ pc = "gate" /\ gates # <<>> /\ Head(gates) = "limiter"
    /\ \E r \in Refills :
        LET filled == IF tokens + r > MaxTokens THEN MaxTokens ELSE tokens + r IN
        IF filled > 0
        THEN tokens' = filled - 1 /\ Pass
        ELSE tokens' = filled /\ Reject("limiter")
    /\ UNCHANGED <<program, running, fellBack, handler, rows>>

Validate ==
    /\ pc = "gate" /\ gates # <<>> /\ Head(gates) = "validator"
    /\ IF Tickets[at].valid THEN Pass ELSE Reject("validator")
    /\ UNCHANGED <<program, running, fellBack, handler, tokens, rows>>

Admit ==
    /\ pc = "gate" /\ gates = <<>> /\ pc' = "ask"
    /\ UNCHANGED <<program, running, at, gates, fellBack, handler, tokens, rows, counters>>

-----------------------------------------------------------------------------
(* ErrorHandler: what execute and execute_with_fallback have in common.    *)

\* A slip: the attempts start over instead of ending.
Retry_Forever(s) ==
    /\ attempt' = IF attempt < MaxAttempts THEN attempt + 1 ELSE 1
    /\ UNCHANGED <<failure_counts, service_status, streak>>

\* The operation threw and is tried again (after a delay).
Retry(s) ==
    /\ attempt < MaxAttempts /\ attempt' = attempt + 1
    /\ UNCHANGED <<failure_counts, service_status, streak>>

\* A slip: the service is taken down one failure early.
GiveUp_Early(s) ==
    /\ attempt = MaxAttempts /\ attempt' = 1
    /\ failure_counts' = [failure_counts EXCEPT ![s] = @ + 1]
    /\ service_status' = [service_status EXCEPT ![s] = failure_counts[s] + 2 >= Threshold]

\* The last attempt threw: the failure counts, and may take the service down.
GiveUp(s) ==
    /\ attempt = MaxAttempts /\ attempt' = 1
    /\ failure_counts' = [failure_counts EXCEPT ![s] = @ + 1]
    /\ service_status' = [service_status EXCEPT ![s] = failure_counts[s] + 1 >= Threshold]

\* A slip: success does not clear the count.
Succeed_NoReset(s) ==
    /\ attempt' = 1
    /\ UNCHANGED <<failure_counts, service_status>>

Succeed(s) ==
    /\ attempt' = 1
    /\ failure_counts' = [failure_counts EXCEPT ![s] = 0]
    /\ UNCHANGED service_status

Failed(s)    == streak' = [streak EXCEPT ![s] = @ + 1]
Succeeded(s) == streak' = [streak EXCEPT ![s] = 0]

-----------------------------------------------------------------------------
(* Asking the AI.                                                          *)

Answered(fallback) ==
    /\ pc' = "store" /\ fellBack' = fallback
    /\ UNCHANGED <<program, running, at, gates, tokens, rows, counters>>

\* v13 asks the swarm directly (for its exceptions see Terminate).
AskDirectly ==
    /\ pc = "ask" /\ ~program.retries
    /\ Answered(FALSE) /\ UNCHANGED handler

\* execute_with_fallback: a service that is DOWN is not even tried.
AskDown ==
    /\ pc = "ask" /\ program.retries /\ service_status["ollama_ai"]
    /\ Answered(TRUE) /\ UNCHANGED handler

AskOk ==
    /\ pc = "ask" /\ program.retries /\ ~service_status["ollama_ai"]
    /\ Succeed("ollama_ai") /\ Succeeded("ollama_ai")
    /\ Answered(FALSE)

AskThrows ==
    /\ pc = "ask" /\ program.retries /\ ~service_status["ollama_ai"]
    /\ \/ Retry("ollama_ai") /\ UNCHANGED <<state, counters>>
       \/ GiveUp("ollama_ai") /\ Failed("ollama_ai") /\ Answered(TRUE)

-----------------------------------------------------------------------------
(* Writing the ticket.                                                     *)

\* insert_ticket: an SQL error is printed and dropped.
Insert ==
    /\ rows' \in {rows, rows \cup {at}}
    /\ UNCHANGED <<program, running, at, gates, fellBack, tokens, counters>>

StorePlain ==
    /\ pc = "store" /\ program.write = "plain" /\ pc' = "count"
    /\ Insert /\ UNCHANGED handler

\* The lambda given to execute returns TRUE whatever became of the insert.
StoreOk ==
    /\ pc = "store" /\ program.write # "plain" /\ ~service_status["sqlite"]
    /\ Succeed("sqlite") /\ Succeeded("sqlite")
    /\ pc' = "count" /\ Insert

\* A slip: the lambda lets the insert's exception out after the row is in.
NotStored_RowIn ==
    /\ rows' = rows \cup {at}
    /\ IF program.write = "checked"
       THEN NextTicket /\ skipped' = skipped + 1
       ELSE pc' = "count" /\ UNCHANGED <<at, skipped>>
    /\ UNCHANGED <<program, running, gates, fellBack, tokens, ai, human, blocks>>

\* FAIL or DEGRADED: only some programs look, and count the ticket as failed.
NotStored ==
    /\ IF program.write = "checked"
       THEN NextTicket /\ skipped' = skipped + 1
       ELSE pc' = "count" /\ UNCHANGED <<at, skipped>>
    /\ UNCHANGED <<program, running, gates, fellBack, tokens, rows, ai, human, blocks>>

StoreThrows ==
    /\ pc = "store" /\ program.write # "plain" /\ ~service_status["sqlite"]
    /\ \/ Retry("sqlite") /\ UNCHANGED <<state, counters>>
       \/ GiveUp("sqlite") /\ Failed("sqlite") /\ NotStored

StoreDown ==
    /\ pc = "store" /\ program.write # "plain" /\ service_status["sqlite"]
    /\ NotStored /\ UNCHANGED handler

\* An exception outside ErrorHandler's hands leaves main: std::terminate.
Terminate ==
    /\ \/ pc = "ask" /\ ~program.retries
       \/ pc = "store" /\ program.write = "plain"
    /\ pc' = "aborted"
    /\ UNCHANGED <<program, running, at, gates, fellBack, handler, tokens, rows, counters>>

-----------------------------------------------------------------------------
(* The rest of the loop's body, and of main.                               *)

needs_human == Tickets[at].urgent \/ (program.fallbackToHuman /\ fellBack)

\* A slip: a ticket handed to a human earns no block.
Count_NoBlock ==
    /\ pc = "count" /\ NextTicket
    /\ IF needs_human
       THEN human' = human + 1 /\ UNCHANGED <<ai, blocks>>
       ELSE ai' = ai + 1 /\ blocks' = blocks + 1 /\ UNCHANGED human
    /\ UNCHANGED <<program, running, gates, fellBack, handler, tokens, rows, skipped>>

\* Counted as the human's or the AI's, and a block mined for either.
Count ==
    /\ pc = "count" /\ NextTicket
    /\ IF needs_human
       THEN human' = human + 1 /\ UNCHANGED ai
       ELSE ai' = ai + 1 /\ UNCHANGED human
    /\ blocks' = blocks + 1
    /\ UNCHANGED <<program, running, gates, fellBack, handler, tokens, rows, skipped>>

\* The report; some programs then sleep until a signal comes, others go on to
\* swarm.stop().
Report ==
    /\ pc = "report"
    /\ pc' = IF program.waits THEN "idle" ELSE "stopping"
    /\ UNCHANGED <<program, running, at, gates, fellBack, handler, tokens, rows, counters>>

Shutdown ==
    /\ pc = "idle" /\ ~running /\ pc' = "stopping"
    /\ UNCHANGED <<program, running, at, gates, fellBack, handler, tokens, rows, counters>>

\* swarm.stop() returns, and main with it.  It joins cores that may have missed
\* its notification (phi_swarm.h:139-141), so that it may also never return.
Stopped ==
    /\ pc = "stopping" /\ pc' = "exited"
    /\ UNCHANGED <<program, running, at, gates, fellBack, handler, tokens, rows, counters>>

Loop ==
    \/ LoopHead \/ Limit \/ Validate \/ Admit
    \/ AskDirectly \/ AskDown \/ AskOk \/ AskThrows
    \/ StorePlain \/ StoreOk \/ StoreThrows \/ StoreDown
    \/ Terminate \/ Count \/ Report \/ Shutdown

Next == Loop \/ Signal \/ Stopped

\* main() runs on as long as it has something to do; no signal need come, and
\* swarm.stop() need not return.
Spec == Init /\ [][Next]_vars /\ WF_vars(Loop)

-----------------------------------------------------------------------------
\* The variables keep their types; no counter passes the length of the list.
TypeOK ==
    /\ program \in Programs /\ running \in BOOLEAN
    /\ pc \in {"head", "gate", "ask", "store", "count", "report", "idle", "stopping",
               "exited", "aborted"}
    /\ at \in 1 .. Len(Tickets) + 1 /\ gates \in Seq(Gates)
    /\ attempt \in 1 .. MaxAttempts /\ fellBack \in BOOLEAN
    /\ failure_counts \in [Services -> 0 .. Threshold]
    /\ service_status \in [Services -> BOOLEAN]
    /\ streak \in [Services -> 0 .. Len(Tickets)]
    /\ tokens \in 0 .. MaxTokens /\ rows \subseteq 1 .. Len(Tickets)
    /\ {ai, human, skipped} \subseteq 0 .. Len(Tickets)
    /\ blocks \in 1 .. Len(Tickets) + 1

\* Between two tickets every one seen is counted once, as the AI's, a human's
\* or skipped, but for those a gate rejects without counting.
Accounting ==
    pc = "head" =>
        LET n == ai + human + skipped IN
        /\ n <= at - 1
        /\ {program.gates[i] : i \in DOMAIN program.gates} \subseteq program.counted => n = at - 1

\* The coin's chain has the genesis block and one for each ticket handled.
ChainMatchesTickets == pc = "head" => blocks = 1 + ai + human

\* A service is DOWN exactly when Threshold operations in a row have failed:
\* successes in between start the count afresh (failure_counts[service] = 0).
DownAfterThreshold ==
    \A s \in Services : service_status[s] <=> streak[s] >= Threshold

\* No ticket is in the database that the program has not counted as handled:
\* a retried or refused write leaves no row behind.
RowsAreCounted == pc = "head" => Cardinality(rows) <= ai + human

\* After a signal the program comes to its shutdown or is terminated, whatever
\* keeps failing: retries are bounded and both loops of main look at the flag.
\* It is out of the loop's hands whether the first call of the shutdown,
\* swarm.stop(), returns.
SignalIsHeard == ~running ~> pc \in {"stopping", "exited", "aborted"}

\* When a program has reported and ended, every ticket it counted as handled
\* is in the database ("All data persisted.", phi_prod_v20.cpp:192).
AllDataPersisted == pc = "exited" => Cardinality(rows) = ai + human

=============================================================================
