------------------------- MODULE TicketProgramProofs -------------------------
(***************************************************************************)
(* Theorems about the ticket loop, for every list of tickets, every program*)
(* that can be described by a record, every number of attempts and every   *)
(* threshold.                                                              *)
(*                                                                         *)
(* The properties speak of the top of the loop; the inductive invariant    *)
(* speaks of every point in it.  The counters are always right, because a  *)
(* ticket is left and counted in one step, but the table may be one row    *)
(* ahead of them between the write and the count, and a service's run of   *)
(* failures is bounded by the tickets on which it has been asked.          *)
(***************************************************************************)
EXTENDS TicketProgram, FiniteSetTheorems, TLAPS

InBody == pc \in {"gate", "ask", "store", "count", "aborted"}

GatesOf(p) == {p.gates[i] : i \in DOMAIN p.gates}

Types ==
    /\ program \in Programs /\ running \in BOOLEAN
    /\ pc \in {"head", "gate", "ask", "store", "count", "report", "idle", "stopping",
               "exited", "aborted"}
    /\ at \in 1 .. Len(Tickets) + 1
    /\ InBody => at <= Len(Tickets)
    /\ gates \in Seq(Gates) /\ {gates[i] : i \in DOMAIN gates} \subseteq GatesOf(program)
    /\ attempt \in 1 .. MaxAttempts /\ fellBack \in BOOLEAN
    /\ tokens \in 0 .. MaxTokens
    /\ ai \in Nat /\ human \in Nat /\ skipped \in Nat /\ blocks \in Nat

\* Every ticket left behind is counted at most once, and in one place.
CountInv ==
    /\ ai + human + skipped <= at - 1
    /\ GatesOf(program) \subseteq program.counted => ai + human + skipped = at - 1
    /\ blocks = 1 + ai + human

\* ErrorHandler's count is the run of failures, and DOWN what it says.
ServiceInv ==
    /\ failure_counts \in [Services -> Nat] /\ streak = failure_counts
    /\ service_status \in [Services -> BOOLEAN]
    /\ \A s \in Services :
        /\ failure_counts[s] <= Threshold
        /\ service_status[s] <=> failure_counts[s] = Threshold
    /\ failure_counts["ollama_ai"] <= IF pc \in {"store", "count", "aborted"} THEN at ELSE at - 1
    /\ failure_counts["sqlite"] <= IF pc = "count" THEN at ELSE at - 1

\* The rows are those of tickets written, and one of them may not be counted yet.
RowInv ==
    /\ rows \subseteq 1 .. Len(Tickets)
    /\ Cardinality(rows) <= ai + human + (IF pc = "count" THEN 1 ELSE 0)

IInv == Types /\ CountInv /\ ServiceInv /\ RowInv

-----------------------------------------------------------------------------
\* The tail of the gates still to pass holds no gate that was not there.
LEMMA TailGates ==
    ASSUME NEW S, NEW q \in Seq(S), q # <<>>
    PROVE  /\ Tail(q) \in Seq(S) /\ Head(q) \in {q[i] : i \in DOMAIN q}
           /\ {Tail(q)[i] : i \in DOMAIN Tail(q)} \subseteq {q[i] : i \in DOMAIN q}
<1>1. /\ Len(q) \in Nat /\ Len(q) >= 1 /\ DOMAIN q = 1 .. Len(q)
      /\ Head(q) = q[1] /\ Tail(q) \in Seq(S)
      /\ Len(Tail(q)) = Len(q) - 1 /\ DOMAIN Tail(q) = 1 .. Len(Tail(q))
      /\ \A i \in 1 .. Len(q) - 1 : Tail(q)[i] = q[i + 1]
  OBVIOUS
<1>2. ASSUME NEW i \in DOMAIN Tail(q) PROVE Tail(q)[i] \in {q[j] : j \in DOMAIN q}
  <2>1. i + 1 \in DOMAIN q /\ Tail(q)[i] = q[i + 1]
    BY <1>1
  <2> QED BY <2>1
<1> QED BY <1>1, <1>2

\* The tickets are finitely many, and so are the rows.
LEMMA RowCount ==
    ASSUME rows \subseteq 1 .. Len(Tickets)
    PROVE  IsFiniteSet(rows) /\ Cardinality(rows) \in Nat
<1>1. Len(Tickets) \in Nat
  BY TicketAssumption
<1>2. IsFiniteSet(1 .. Len(Tickets))
  BY <1>1, FS_Interval
<1>3. IsFiniteSet(rows)
  BY <1>2, FS_Subset
<1> QED BY <1>3, FS_CardinalityType

\* One ticket more in the table is at most one row more.
LEMMA OneRowMore ==
    ASSUME rows \subseteq 1 .. Len(Tickets), NEW x \in 1 .. Len(Tickets),
           rows' \in {rows, rows \cup {x}}
    PROVE  /\ rows' \subseteq 1 .. Len(Tickets)
           /\ Cardinality(rows) \in Nat /\ Cardinality(rows') \in Nat
           /\ Cardinality(rows') <= Cardinality(rows) + 1
<1>0. IsFiniteSet(rows) /\ Cardinality(rows) \in Nat
  BY RowCount
<1>1. CASE rows' = rows
  BY <1>0, <1>1
<1>2. CASE rows' = rows \cup {x}
  <2>1. \/ Cardinality(rows \cup {x}) = Cardinality(rows)
        \/ Cardinality(rows \cup {x}) = Cardinality(rows) + 1
    BY <1>0, FS_AddElement
  <2>2. rows \cup {x} \subseteq 1 .. Len(Tickets)
    OBVIOUS
  <2> QED BY <1>0, <1>2, <2>1, <2>2
<1> QED BY <1>1, <1>2

\* The start of every program satisfies the invariant.
LEMMA InitInv == Init => IInv
<1> SUFFICES ASSUME Init PROVE IInv
  OBVIOUS
<1> USE TicketAssumption DEF Init
<1>1. Types
  <2>1. Len(Tickets) \in Nat
    OBVIOUS
  <2>2. gates \in Seq(Gates) /\ {gates[i] : i \in DOMAIN gates} \subseteq GatesOf(program)
    BY DEF GatesOf
  <2>3. at \in 1 .. Len(Tickets) + 1 /\ ~InBody
    BY <2>1 DEF InBody
  <2>4. attempt \in 1 .. MaxAttempts /\ tokens \in 0 .. MaxTokens
    OBVIOUS
  <2> QED BY <2>2, <2>3, <2>4 DEF Types
<1>2. CountInv
  BY DEF CountInv
<1>3. ServiceInv
  BY DEF ServiceInv, Services
<1>4. RowInv
  BY FS_EmptySet DEF RowInv
<1> QED BY <1>1, <1>2, <1>3, <1>4 DEF IInv

-----------------------------------------------------------------------------
\* What every step but those that leave a ticket keeps.  A step that touches
\* neither counters nor the ErrorHandler disturbs only the types.
LEMMA QuietStep ==
    ASSUME IInv, UNCHANGED <<at, counters, rows, handler>>, UNCHANGED program,
           pc = "count" => pc' = "count" , pc' = "count" => pc = "count",
           pc \in {"store", "count", "aborted"} => pc' \in {"store", "count", "aborted"}
    PROVE  CountInv' /\ ServiceInv' /\ RowInv'
<1> USE DEF IInv, Types, counters, handler
<1>1. CountInv'
  BY DEF CountInv, GatesOf
<1>2. ServiceInv'
  <2>1. at \in Nat /\ \A s \in Services : failure_counts[s] \in Nat
    BY TicketAssumption DEF ServiceInv
  <2> QED BY <2>1 DEF ServiceInv, Services
<1>3. RowInv'
  BY DEF RowInv
<1> QED BY <1>1, <1>2, <1>3

\* Signals, the top of the loop, the gates' last step, report and shutdown.
LEMMA ControlStep ==
    ASSUME IInv, Signal \/ LoopHead \/ Admit \/ Report \/ Shutdown \/ Stopped \/ UNCHANGED vars
    PROVE  IInv'
<1> USE TicketAssumption
<1>1. /\ UNCHANGED <<at, counters, rows, handler, program>>
      /\ pc \in {"store", "count", "aborted"} => pc' = pc
      /\ pc' = "count" => pc = "count"
  BY DEF IInv, Types, Signal, LoopHead, Admit, Report, Shutdown, Stopped, vars, state
<1>2. CountInv' /\ ServiceInv' /\ RowInv'
  BY <1>1, QuietStep
<1>3. Types'
  <2> USE DEF IInv, Types, InBody, handler, counters
  <2>1. CASE LoopHead
    <3>1. gates' \in Seq(Gates) /\ {gates'[i] : i \in DOMAIN gates'} \subseteq GatesOf(program)
      <4>1. CASE gates' = program.gates
        BY <4>1 DEF ProgramKinds, GatesOf
      <4>2. CASE gates' = <<>>
        BY <4>2
      <4> QED BY <2>1, <4>1, <4>2 DEF LoopHead
    <3> QED BY <2>1, <3>1 DEF LoopHead, GatesOf
  <2>2. CASE Signal \/ Admit \/ Report \/ Shutdown \/ Stopped \/ UNCHANGED vars
    BY <2>2 DEF Signal, Admit, Report, Shutdown, Stopped, vars, state, GatesOf
  <2> QED BY <2>1, <2>2
<1> QED BY <1>2, <1>3 DEF IInv

\* A gate lets the ticket pass, or rejects it and maybe counts it.
LEMMA GateStep == ASSUME IInv, Limit \/ Validate PROVE IInv'
<1> USE TicketAssumption
<1>1. /\ pc = "gate" /\ gates # <<>>
      /\ UNCHANGED <<program, running, fellBack, rows, handler>>
      /\ Pass \/ \E g \in Gates : g = Head(gates) /\ Reject(g)
  BY DEF Limit, Validate, Gates
<1>2. tokens' \in 0 .. MaxTokens
  BY DEF IInv, Types, Limit, Validate
<1>3. /\ Tail(gates) \in Seq(Gates) /\ Head(gates) \in {gates[i] : i \in DOMAIN gates}
      /\ {Tail(gates)[i] : i \in DOMAIN Tail(gates)} \subseteq {gates[i] : i \in DOMAIN gates}
  BY <1>1, TailGates DEF IInv, Types
<1>4. CASE Pass
  <2>1. UNCHANGED <<at, counters, rows, handler, program, pc>>
    BY <1>1, <1>4 DEF Pass
  <2>2. Types'
    <3>1. {gates'[i] : i \in DOMAIN gates'} \subseteq GatesOf(program)
      BY <1>3, <1>4 DEF Pass, IInv, Types
    <3> QED BY <1>1, <1>2, <1>3, <1>4, <2>1, <3>1
          DEF Pass, IInv, Types, InBody, GatesOf, handler, counters
  <2> QED BY <2>1, <2>2, QuietStep, <1>1 DEF IInv
<1>5. ASSUME NEW g \in Gates, g = Head(gates), Reject(g) PROVE IInv'
  <2>1. /\ pc' = "head" /\ at' = at + 1 /\ at <= Len(Tickets) /\ at \in Nat
        /\ UNCHANGED <<gates, ai, human, blocks>>
        /\ skipped' = IF g \in program.counted THEN skipped + 1 ELSE skipped
        /\ {ai, human, skipped} \subseteq Nat
    BY <1>1, <1>5 DEF Reject, NextTicket, IInv, Types, InBody
  <2>2. GatesOf(program) \subseteq program.counted => g \in program.counted
    BY <1>3, <1>5 DEF IInv, Types
  <2>3. CountInv'
    <3>1. /\ ai \in Int /\ human \in Int /\ skipped \in Int /\ at \in Int
          /\ ai + human + skipped <= at - 1
          /\ GatesOf(program) \subseteq program.counted => ai + human + skipped = at - 1
          /\ blocks = 1 + ai + human
      BY <2>1 DEF IInv, CountInv
    <3>2. skipped' \in {skipped, skipped + 1}
      BY <2>1
    <3>3. ai' + human' + skipped' <= at' - 1 /\ blocks' = 1 + ai' + human'
      BY <2>1, <3>1, <3>2
    <3>4. GatesOf(program) \subseteq program.counted => ai' + human' + skipped' = at' - 1
      BY <2>1, <2>2, <3>1
    <3>5. GatesOf(program)' = GatesOf(program) /\ program' = program
      BY <1>1 DEF GatesOf
    <3> QED BY <3>3, <3>4, <3>5 DEF CountInv
  <2>4. ServiceInv'
    BY <1>1, <2>1 DEF IInv, ServiceInv, Services, handler
  <2>5. RowInv'
    BY <1>1, <2>1 DEF IInv, RowInv
  <2>6. Types'
    <3>1. GatesOf(program)' = GatesOf(program) /\ ~InBody'
      BY <1>1, <2>1 DEF GatesOf, InBody
    <3>2. at' \in 1 .. Len(Tickets) + 1 /\ skipped' \in Nat
      BY <2>1
    <3> QED BY <1>1, <1>2, <2>1, <3>1, <3>2 DEF IInv, Types, handler
  <2> QED BY <2>3, <2>4, <2>5, <2>6 DEF IInv
<1> QED BY <1>1, <1>4, <1>5

-----------------------------------------------------------------------------
\* What an attempt does to ErrorHandler: the count and the mark of the other
\* service stay, and those of this one keep telling the same story.
LEMMA HandlerEffect ==
    ASSUME Types, ServiceInv, NEW s \in Services, ~service_status[s],
           \/ Retry(s)
           \/ GiveUp(s) /\ Failed(s)
           \/ Succeed(s) /\ Succeeded(s)
    PROVE  /\ attempt' \in 1 .. MaxAttempts
           /\ failure_counts' \in [Services -> Nat] /\ streak' = failure_counts'
           /\ service_status' \in [Services -> BOOLEAN]
           /\ \A t \in Services :
                /\ failure_counts'[t] <= Threshold
                /\ service_status'[t] <=> failure_counts'[t] = Threshold
                /\ t # s => failure_counts'[t] = failure_counts[t]
           /\ failure_counts'[s] <= failure_counts[s] + 1
<1> USE TicketAssumption DEF Types, ServiceInv
<1>1. CASE Retry(s)
  BY <1>1 DEF Retry
<1>2. CASE GiveUp(s) /\ Failed(s)
  <2>1. failure_counts[s] < Threshold
    OBVIOUS
  <2>2. /\ failure_counts' = [failure_counts EXCEPT ![s] = failure_counts[s] + 1]
        /\ streak' = [streak EXCEPT ![s] = streak[s] + 1]
        /\ service_status' = [service_status EXCEPT ![s] = failure_counts[s] + 1 >= Threshold]
        /\ attempt' = 1
    BY <1>2 DEF GiveUp, Failed
  <2>3. failure_counts[s] + 1 >= Threshold <=> failure_counts[s] + 1 = Threshold
    BY <2>1
  <2>4. /\ failure_counts' \in [Services -> Nat]
        /\ service_status' \in [Services -> BOOLEAN]
        /\ streak' = failure_counts'
    BY <2>2
  <2>5. \A t \in Services : t # s =>
          failure_counts'[t] = failure_counts[t] /\ service_status'[t] = service_status[t]
    BY <2>2
  <2>6. /\ failure_counts'[s] = failure_counts[s] + 1
        /\ service_status'[s] <=> failure_counts[s] + 1 = Threshold
    BY <2>2, <2>3
  <2> QED BY <2>1, <2>2, <2>4, <2>5, <2>6
<1>3. CASE Succeed(s) /\ Succeeded(s)
  BY <1>3 DEF Succeed, Succeeded
<1> QED BY <1>1, <1>2, <1>3

\* The AI is asked, and answers or not.
LEMMA AskStep == ASSUME IInv, AskDirectly \/ AskDown \/ AskOk \/ AskThrows PROVE IInv'
<1> USE TicketAssumption
<1>1. pc = "ask" /\ UNCHANGED <<program, running, at, gates, tokens, rows, counters>>
  BY DEF AskDirectly, AskDown, AskOk, AskThrows, Answered, state
<1>2. pc' \in {"ask", "store"} /\ fellBack' \in BOOLEAN
  BY DEF IInv, Types, AskDirectly, AskDown, AskOk, AskThrows, Answered, state
<1>3. CountInv' /\ RowInv'
  BY <1>1, <1>2 DEF IInv, CountInv, RowInv, GatesOf, counters
<1>4. CASE AskDirectly \/ AskDown
  <2>1. UNCHANGED handler
    BY <1>4 DEF AskDirectly, AskDown
  <2>2. ServiceInv'
    BY <2>1, <1>1, <1>2, QuietStep
  <2>3. Types'
    BY <2>1, <1>1, <1>2 DEF IInv, Types, InBody, GatesOf, handler, counters
  <2> QED BY <1>3, <2>2, <2>3 DEF IInv
<1>5. CASE AskOk \/ AskThrows
  <2> DEFINE s == "ollama_ai"
  <2>1. /\ s \in Services /\ ~service_status[s]
        /\ \/ Retry(s) /\ pc' = "ask"
           \/ GiveUp(s) /\ Failed(s) /\ pc' = "store"
           \/ Succeed(s) /\ Succeeded(s) /\ pc' = "store"
    BY <1>1, <1>5 DEF AskOk, AskThrows, Answered, state, Services
  <2>2. /\ attempt' \in 1 .. MaxAttempts
        /\ failure_counts' \in [Services -> Nat] /\ streak' = failure_counts'
        /\ service_status' \in [Services -> BOOLEAN]
        /\ \A t \in Services :
             /\ failure_counts'[t] <= Threshold
             /\ service_status'[t] <=> failure_counts'[t] = Threshold
             /\ t # s => failure_counts'[t] = failure_counts[t]
        /\ failure_counts'[s] <= failure_counts[s] + 1
    BY <2>1, HandlerEffect DEF IInv
  <2>3. Retry(s) => failure_counts' = failure_counts
    BY DEF Retry
  <2>4. ServiceInv'
    BY <1>1, <2>1, <2>2, <2>3 DEF IInv, Types, ServiceInv, Services
  <2>5. Types'
    <3>1. GatesOf(program)' = GatesOf(program) /\ at <= Len(Tickets)
      BY <1>1 DEF IInv, Types, InBody, GatesOf
    <3>2. UNCHANGED <<ai, human, skipped, blocks>>
      BY <1>1 DEF counters
    <3>3. pc' \in {"ask", "store"}
      BY <1>2
    <3> QED BY <1>1, <1>2, <2>2, <3>1, <3>2, <3>3 DEF IInv, Types
  <2> QED BY <1>3, <2>4, <2>5 DEF IInv
<1> QED BY <1>4, <1>5

\* The ticket is written, or not, or given up.
LEMMA StoreStep ==
    ASSUME IInv, StorePlain \/ StoreOk \/ StoreThrows \/ StoreDown
    PROVE  IInv'
<1> USE TicketAssumption
<1> DEFINE s == "sqlite"
<1>1. /\ pc = "store" /\ at <= Len(Tickets) /\ at \in 1 .. Len(Tickets)
      /\ UNCHANGED <<program, running, gates, fellBack, tokens>>
      /\ UNCHANGED <<ai, human, blocks>>
  BY DEF IInv, Types, InBody, StorePlain, StoreOk, StoreThrows, StoreDown, Insert,
         NotStored, counters, state
<1>2. \/ UNCHANGED <<pc, at, skipped, rows>> /\ Retry(s) /\ ~service_status[s]
      \/ /\ pc' = "count" /\ UNCHANGED <<at, skipped>>
         /\ rows' \in {rows, rows \cup {at}}
      \/ pc' = "head" /\ at' = at + 1 /\ skipped' = skipped + 1 /\ UNCHANGED rows
  BY <1>1 DEF StorePlain, StoreOk, StoreThrows, StoreDown, Insert, NotStored,
              NextTicket, counters, state
<1>3. \/ UNCHANGED handler
      \/ /\ ~service_status[s]
         /\ Retry(s) \/ (GiveUp(s) /\ Failed(s)) \/ (Succeed(s) /\ Succeeded(s))
  BY DEF StorePlain, StoreOk, StoreThrows, StoreDown
<1>4. /\ attempt' \in 1 .. MaxAttempts
      /\ failure_counts' \in [Services -> Nat] /\ streak' = failure_counts'
      /\ service_status' \in [Services -> BOOLEAN]
      /\ \A t \in Services :
           /\ failure_counts'[t] <= Threshold
           /\ service_status'[t] <=> failure_counts'[t] = Threshold
           /\ t # s => failure_counts'[t] = failure_counts[t]
      /\ failure_counts'[s] <= failure_counts[s] + 1
  <2>1. CASE UNCHANGED handler
    BY <2>1 DEF IInv, Types, ServiceInv, Services, handler
  <2>2. CASE ~UNCHANGED handler
    BY <2>2, <1>3, HandlerEffect DEF IInv, Services
  <2> QED BY <2>1, <2>2
<1>5. ServiceInv'
  <2>1. Retry(s) => failure_counts' = failure_counts
    BY DEF Retry
  <2> QED BY <1>1, <1>2, <1>4, <2>1 DEF IInv, ServiceInv, Services
<1>6. CountInv'
  BY <1>1, <1>2 DEF IInv, Types, CountInv, GatesOf
<1>7. RowInv'
  <2>1. CASE UNCHANGED rows
    BY <1>1, <1>2, <2>1, RowCount DEF IInv, Types, RowInv
  <2>2. CASE rows' \in {rows, rows \cup {at}} /\ pc' = "count"
    BY <1>1, <2>2, OneRowMore DEF IInv, Types, RowInv
  <2> QED BY <1>2, <2>1, <2>2
<1>8. Types'
  <2>1. GatesOf(program)' = GatesOf(program) /\ {ai, human, skipped, blocks} \subseteq Nat
    BY <1>1 DEF IInv, Types, GatesOf
  <2>2. skipped' \in Nat /\ (InBody' => at' <= Len(Tickets)) /\ at' \in 1 .. Len(Tickets) + 1
    BY <1>1, <1>2, <2>1 DEF InBody
  <2> QED BY <1>1, <1>2, <1>4, <2>1, <2>2 DEF IInv, Types
<1> QED BY <1>5, <1>6, <1>7, <1>8 DEF IInv

\* An abandoned program keeps what it has; a counted ticket is left behind.
LEMMA EndStep == ASSUME IInv, Terminate \/ Count PROVE IInv'
<1> USE TicketAssumption
<1>1. CASE Terminate
  <2>1. /\ UNCHANGED <<at, counters, rows, handler, program>>
        /\ pc \in {"ask", "store"} /\ pc' = "aborted"
    BY <1>1 DEF Terminate
  <2>2. CountInv' /\ RowInv'
    BY <2>1 DEF IInv, CountInv, RowInv, GatesOf, counters
  <2>3. Types'
    BY <1>1, <2>1 DEF Terminate, IInv, Types, InBody, GatesOf, handler, counters
  <2>4. ServiceInv'
    BY <2>1 DEF IInv, Types, ServiceInv, Services, handler
  <2> QED BY <2>2, <2>3, <2>4 DEF IInv
<1>2. CASE Count
  <2>1. /\ pc = "count" /\ pc' = "head" /\ at' = at + 1 /\ at \in 1 .. Len(Tickets)
        /\ blocks' = blocks + 1
        /\ \/ human' = human + 1 /\ ai' = ai
           \/ ai' = ai + 1 /\ human' = human
        /\ UNCHANGED <<program, running, gates, fellBack, handler, tokens, rows, skipped>>
    BY <1>2 DEF Count, NextTicket, IInv, Types, InBody
  <2>0. /\ GatesOf(program)' = GatesOf(program)
        /\ ai' \in Nat /\ human' \in Nat /\ skipped' \in Nat /\ blocks' \in Nat
        /\ ai' + human' = ai + human + 1
        /\ ai' + human' + skipped' = ai + human + skipped + 1
    <3>1. ai \in Nat /\ human \in Nat /\ skipped \in Nat /\ blocks \in Nat
      BY DEF IInv, Types
    <3>2. GatesOf(program)' = GatesOf(program)
      BY <2>1 DEF GatesOf
    <3> QED BY <2>1, <3>1, <3>2
  <2>2. CountInv'
    <3>1. at \in Int /\ at' = at + 1 /\ program' = program
      BY <2>1
    <3>2. /\ ai \in Int /\ human \in Int /\ skipped \in Int
          /\ ai + human + skipped <= at - 1
          /\ GatesOf(program) \subseteq program.counted => ai + human + skipped = at - 1
          /\ blocks = 1 + ai + human
      BY DEF IInv, Types, CountInv
    <3>3. ai' + human' + skipped' = (ai + human + skipped) + 1
      BY <2>0
    <3>4. ai' + human' + skipped' <= at' - 1
      BY <3>1, <3>2, <3>3
    <3>5. GatesOf(program) \subseteq program.counted => ai' + human' + skipped' = at' - 1
      BY <3>1, <3>2, <3>3
    <3>6. blocks' = 1 + ai' + human'
      <4>1. CASE human' = human + 1 /\ ai' = ai
        BY <2>1, <3>2, <4>1
      <4>2. CASE ai' = ai + 1 /\ human' = human
        BY <2>1, <3>2, <4>2
      <4> QED BY <2>1, <4>1, <4>2
    <3> QED BY <2>0, <3>1, <3>4, <3>5, <3>6 DEF CountInv
  <2>3. ServiceInv'
    BY <2>1 DEF IInv, ServiceInv, Services, handler
  <2>4. RowInv'
    BY <2>1, RowCount DEF IInv, Types, RowInv
  <2>5. Types'
    BY <2>0, <2>1 DEF IInv, Types, InBody, handler
  <2> QED BY <2>2, <2>3, <2>4, <2>5 DEF IInv
<1> QED BY <1>1, <1>2

-----------------------------------------------------------------------------
\* The inductive invariant holds at every point of every run.
THEOREM Invariance == Spec => []IInv
<1>1. IInv /\ [Next]_vars => IInv'
  BY ControlStep, GateStep, AskStep, StoreStep, EndStep DEF Next, Loop
<1> QED BY InitInv, <1>1, PTL DEF Spec

\* Counters stay within the list, the bucket within its limits, and counts of
\* failures below the threshold.
THEOREM TypeCorrect == Spec => []TypeOK
<1>1. IInv => TypeOK
  <2> SUFFICES ASSUME IInv PROVE TypeOK
    OBVIOUS
  <2> USE TicketAssumption DEF IInv
  <2>1. Len(Tickets) \in Nat /\ at \in 1 .. Len(Tickets) + 1
    BY DEF Types
  <2>2. {ai, human, skipped} \subseteq 0 .. Len(Tickets) /\ blocks \in 1 .. Len(Tickets) + 1
    BY <2>1 DEF Types, CountInv
  <2>3. /\ failure_counts \in [Services -> 0 .. Threshold]
        /\ service_status \in [Services -> BOOLEAN]
    BY DEF ServiceInv
  <2>4. streak \in [Services -> 0 .. Len(Tickets)]
    <3>1. pc \in {"store", "count", "aborted"} => at <= Len(Tickets)
      BY DEF Types, InBody
    <3>2. \A s \in Services : failure_counts[s] <= Len(Tickets) /\ failure_counts[s] \in Nat
      BY <2>1, <3>1 DEF ServiceInv, Services
    <3> QED BY <2>1, <3>2 DEF ServiceInv
  <2> QED BY <2>2, <2>3, <2>4 DEF Types, RowInv, TypeOK
<1> QED BY <1>1, Invariance, PTL

\* Between two tickets, every ticket seen is accounted for once.
THEOREM TicketsAreAccountedFor == Spec => []Accounting
<1>1. IInv => Accounting
  BY DEF IInv, CountInv, GatesOf, Accounting
<1> QED BY <1>1, Invariance, PTL

\* The coin's chain grows with the tickets handled and with nothing else.
THEOREM ChainIsTicketsHandled == Spec => []ChainMatchesTickets
<1>1. IInv => ChainMatchesTickets
  BY DEF IInv, CountInv, ChainMatchesTickets
<1> QED BY <1>1, Invariance, PTL

\* A service is DOWN after Threshold failures in a row and not before.
THEOREM DownIsEarned == Spec => []DownAfterThreshold
<1>1. IInv => DownAfterThreshold
  BY TicketAssumption DEF IInv, ServiceInv, DownAfterThreshold
<1> QED BY <1>1, Invariance, PTL

\* No row is in the database for a ticket that was not counted as handled.
THEOREM RowsStayCounted == Spec => []RowsAreCounted
<1>1. IInv => RowsAreCounted
  BY RowCount DEF IInv, Types, RowInv, RowsAreCounted
<1> QED BY <1>1, Invariance, PTL

=============================================================================
