------------------------------- MODULE PhiCore -------------------------------
(***************************************************************************)
(* The ticket desk of the first servers (src/src/phi_core.h): it numbers   *)
(* the tickets and keeps them in the hash table of PhiDatabase.  The       *)
(* programs drive it from one thread.  A ticket is reduced to whether it   *)
(* needs a human, drawn from the hash of its text, and its status; client, *)
(* module, subject and time are carried along and decide nothing.          *)
(***************************************************************************)
EXTENDS Integers

CONSTANTS
    MaxTickets,     \* bound: create_ticket is not explored beyond this number
    Capacity,       \* slots of the table; the code's default is 65537
    Hash,           \* hash of "TKT-n", by n
    Absent,         \* std::nullopt
    MaxSize         \* bound: the table's size_, which process_ticket grows too

VARIABLES ticket_counter, table, size, promised

vars == <<ticket_counter, table, size, promised>>

Ids == 1 .. MaxTickets

Ticket == [needs_human : BOOLEAN, status : {"open", "escalated", "ai_handled"}]

tickets == INSTANCE PhiDatabase WITH Keys <- Ids, Values <- Ticket

-----------------------------------------------------------------------------
Init == ticket_counter = 0 /\ tickets!Init

\* create_ticket: the number is drawn and the insert's outcome is not looked at.
CreateTicket(human) ==
    /\ ticket_counter < MaxTickets
    /\ ticket_counter' = ticket_counter + 1
    /\ tickets!Insert(ticket_counter + 1, [needs_human |-> human, status |-> "open"])

get_ticket(id) == tickets!Get(id)

\* process_ticket: a human's ticket is escalated the first time; processed
\* again it falls through to the AI, as every other ticket does at once.
ProcessTicket(id) ==
    LET ticket == get_ticket(id)
        status == IF ticket.needs_human /\ ticket.status # "escalated"
                  THEN "escalated" ELSE "ai_handled"
    IN  /\ ticket # Absent
        /\ tickets!Insert(id, [ticket EXCEPT !.status = status])
        /\ UNCHANGED ticket_counter

Next ==
    \/ \E human \in BOOLEAN : CreateTicket(human)
    \/ \E id \in Ids : ProcessTicket(id)

Spec == Init /\ [][Next]_vars

-----------------------------------------------------------------------------
\* Every ticket whose id was given out can be fetched: the callers of
\* create_ticket dereference get_ticket(id) without a look (phi_server.cpp:57).
CreatedTicketsFound == \A id \in 1 .. ticket_counter : get_ticket(id) # Absent

=============================================================================
