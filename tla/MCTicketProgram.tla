--------------------------- MODULE MCTicketProgram ---------------------------
(***************************************************************************)
(* Five tickets, one of them urgent and one invalid, two attempts and a    *)
(* threshold of three (three and five in the code): a service can go down  *)
(* before the last ticket, or recover in between.                          *)
(***************************************************************************)
EXTENDS TicketProgram

Ticket(v, u) == [valid |-> v, urgent |-> u]

MCTickets == <<Ticket(TRUE, FALSE), Ticket(TRUE, TRUE), Ticket(FALSE, FALSE),
               Ticket(TRUE, FALSE), Ticket(TRUE, FALSE)>>

AllPrograms == {v13, v14, v15, v16, v17, v18, v20}
OnlyV20 == {v20}

=============================================================================
