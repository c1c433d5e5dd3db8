--------------------------- MODULE CircuitBreaker ---------------------------
(***************************************************************************)
(* divine::CircuitBreaker (src/src/phi_circuit_breaker.h): a state and a   *)
(* count of failures per service.  Thirty seconds after it was opened, the *)
(* next caller finds the service half open, and every caller after that is *)
(* let in until somebody reports how it went.                              *)
(***************************************************************************)
EXTENDS Naturals

CONSTANTS
    Services,
    failure_threshold,  \* 5
    MaxFailures         \* bound on the failures counted

CircuitBreakerAssumption ==
    failure_threshold \in Nat \ {0} /\ MaxFailures \in Nat /\ failure_threshold <= MaxFailures

VARIABLES
    svc,        \* Service: its state and failures
    waited      \* whether reset_timeout_ms have passed since opened_at

vars == <<svc, waited>>

States == {"CLOSED", "OPEN", "HALF_OPEN"}

Init ==
    /\ svc = [s \in Services |-> [state |-> "CLOSED", failures |-> 0]]
    /\ waited = [s \in Services |-> FALSE]

\* Thirty seconds pass.
Wait(s) ==
    /\ svc[s].state = "OPEN" /\ ~waited[s]
    /\ waited' = [waited EXCEPT ![s] = TRUE]
    /\ UNCHANGED svc

\* is_available's answer; a caller that is told yes has also half-opened it.
Available(s) == svc[s].state = "OPEN" => waited[s]

is_available(s) ==
    /\ svc' = [svc EXCEPT ![s].state = IF @ = "OPEN" /\ waited[s] THEN "HALF_OPEN" ELSE @]
    /\ UNCHANGED waited

\* A slip: the failures of before are kept.
record_success_KeepsFailures(s) ==
    /\ svc' = [svc EXCEPT ![s].state = "CLOSED"]
    /\ UNCHANGED waited

record_success(s) ==
    /\ svc' = [svc EXCEPT ![s] = [state |-> "CLOSED", failures |-> 0]]
    /\ UNCHANGED waited

\* Failing while OPEN moves opened_at, and the wait starts again.
record_failure(s) ==
    /\ svc[s].failures < MaxFailures
    /\ LET failures == svc[s].failures + 1
           trips == failures >= failure_threshold
       IN  /\ svc' = [svc EXCEPT ![s] = [state |-> IF trips THEN "OPEN" ELSE @.state,
                                         failures |-> failures]]
           /\ waited' = [waited EXCEPT ![s] = @ /\ ~trips]

Next ==
    \E s \in Services : Wait(s) \/ is_available(s) \/ record_success(s) \/ record_failure(s)

Spec == Init /\ [][Next]_vars

-----------------------------------------------------------------------------
TypeOK ==
    /\ svc \in [Services -> [state : States, failures : 0 .. MaxFailures]]
    /\ waited \in [Services -> BOOLEAN]

(* Whatever is called in whatever order, a service is closed exactly while *)
(* it has not failed failure_threshold times since its last success: one   *)
(* failure of a half-open service opens it again (lines 52-67).            *)
TripsAtThreshold ==
    \A s \in Services : svc[s].state = "CLOSED" <=> svc[s].failures < failure_threshold

=============================================================================
