-------------------------- MODULE WebSocketServer --------------------------
(***************************************************************************)
(* divine::WebSocketServer (src/src/phi_websocket.h) in a program that     *)
(* broadcasts (v5, v6).  A thread of its own accepts a client, waits in    *)
(* recv for its handshake, puts it into the vector under the mutex and     *)
(* greets it outside; main() broadcasts under the mutex, first sending     *)
(* nothing to find out whether the client is there.  A descriptor number   *)
(* that is closed may be handed out again, here or to the HTTP server.     *)
(*                                                                         *)
(* The kernel, as the code relies on it: a client that closes is not       *)
(* noticed by a send until the frame sent to it has been answered with a   *)
(* reset; the send after that raises SIGPIPE, which nothing catches.  A    *)
(* client that aborts makes the next send fail.  Browsers close when they  *)
(* see the answer to the handshake, which is not the hash the protocol     *)
(* asks for (compute_accept_key); other clients may not look.              *)
(***************************************************************************)
EXTENDS Naturals, Sequences

CONSTANTS
    Peers,          \* WebSocket clients; each connects at most once
    Fds,            \* descriptor numbers left to the process
    MaxEvents,      \* bound on the broadcasts
    Nobody,         \* a closed descriptor; no client in hand
    Elsewhere       \* the descriptor belongs to another part of the process

WebSocketServerAssumption ==
    MaxEvents \in Nat /\ Nobody # Elsewhere /\ {Nobody, Elsewhere} \cap (Peers \cup Fds) = {}

VARIABLES
    alive,          \* the process
    link,           \* what has become of each peer's connection
    asked,          \* what it has sent: nothing, a handshake, or none
    owner,          \* whose connection each descriptor is
    clients,        \* the vector, without its order: descriptor and, for the
                    \* properties, peer, who connects once and so is in it once
    thread, fd,     \* the accept thread, and the descriptor it is at
    sent,           \* number of broadcasts
    heard, greeted, \* frames that reached each peer
    joined          \* history: broadcasts before it entered the vector

vars == <<alive, link, asked, owner, clients, thread, fd, sent, heard, greeted, joined>>

Init ==
    /\ alive = TRUE
    /\ link = [p \in Peers |-> "away"] /\ asked = [p \in Peers |-> "nothing"]
    /\ owner = [f \in Fds |-> Nobody] /\ clients = {}
    /\ thread = "accept" /\ fd = Nobody /\ sent = 0
    /\ heard = [p \in Peers |-> <<>>] /\ greeted = [p \in Peers |-> 0]
    /\ joined = [p \in Peers |-> 0]

-----------------------------------------------------------------------------
(* The peers, and the rest of the process. *)
Connect(p) ==
    /\ alive /\ link[p] = "away"
    /\ link' = [link EXCEPT ![p] = "queued"]
    /\ UNCHANGED <<alive, asked, owner, clients, thread, fd, sent, heard, greeted, joined>>

Ask(p, what) ==
    /\ alive /\ link[p] \in {"queued", "open"} /\ asked[p] = "nothing"
    /\ asked' = [asked EXCEPT ![p] = what]
    /\ UNCHANGED <<alive, link, owner, clients, thread, fd, sent, heard, greeted, joined>>

Leave(p, how) ==
    /\ alive /\ link[p] = "open"
    /\ link' = [link EXCEPT ![p] = how]
    /\ UNCHANGED <<alive, asked, owner, clients, thread, fd, sent, heard, greeted, joined>>

\* The HTTP server, say, is given or gives back a descriptor.
Borrow(f) ==
    /\ alive /\ owner[f] \in {Nobody, Elsewhere}
    /\ owner' = [owner EXCEPT ![f] = IF @ = Nobody THEN Elsewhere ELSE Nobody]
    /\ UNCHANGED <<alive, link, asked, clients, thread, fd, sent, heard, greeted, joined>>

-----------------------------------------------------------------------------
(* The accept thread. *)
Accept(p, f) ==
    /\ alive /\ thread = "accept" /\ link[p] = "queued" /\ owner[f] = Nobody
    /\ owner' = [owner EXCEPT ![f] = p] /\ link' = [link EXCEPT ![p] = "open"]
    /\ thread' = "recv" /\ fd' = f
    /\ UNCHANGED <<alive, asked, clients, sent, heard, greeted, joined>>

\* recv: a handshake is answered; anything else, and a client that is gone,
\* leaves its descriptor open for ever.
Recv ==
    /\ alive /\ thread = "recv"
    /\ LET p == owner[fd] IN
        /\ asked[p] # "nothing" \/ link[p] # "open"
        /\ IF asked[p] = "handshake" /\ link[p] # "aborted"
           THEN /\ thread' = "push" /\ UNCHANGED fd
                /\ link' = [link EXCEPT ![p] = IF @ = "left" THEN "reset" ELSE @]
           ELSE thread' = "accept" /\ fd' = Nobody /\ UNCHANGED link
    /\ UNCHANGED <<alive, asked, owner, clients, sent, heard, greeted, joined>>

Push ==
    /\ alive /\ thread = "push" /\ thread' = "welcome"
    /\ clients' = clients \cup {[fd |-> fd, who |-> owner[fd]]}
    /\ joined' = [joined EXCEPT ![owner[fd]] = sent]
    /\ UNCHANGED <<alive, link, asked, owner, fd, sent, heard, greeted>>

\* The welcome goes to whoever has the descriptor by now.
Welcome ==
    /\ alive /\ thread = "welcome" /\ thread' = "accept" /\ fd' = Nobody
    /\ LET p == owner[fd] IN
        IF p \in Peers
        THEN /\ greeted' = [greeted EXCEPT ![p] = IF link[p] = "open" THEN @ + 1 ELSE @]
             /\ link' = [link EXCEPT ![p] = IF @ = "left" THEN "reset" ELSE @]
             /\ alive' = (link[p] # "reset")
        ELSE UNCHANGED <<greeted, link, alive>>
    /\ UNCHANGED <<asked, owner, clients, sent, heard, joined>>

-----------------------------------------------------------------------------
(* main(): one broadcast, under the mutex from end to end. *)
Gone(c) == link[c.who] = "aborted"

\* A slip: the descriptor of a client that is gone is closed, its entry stays.
Broadcast_KeepsEntry ==
    /\ alive /\ sent < MaxEvents /\ sent' = sent + 1
    /\ alive' = \A c \in clients : link[c.who] # "reset"
    /\ UNCHANGED clients
    /\ owner' = [f \in Fds |-> IF \E c \in clients : c.fd = f /\ Gone(c)
                               THEN Nobody ELSE owner[f]]
    /\ heard' = [p \in Peers |-> IF link[p] = "open" /\ \E c \in clients : c.who = p
                                 THEN Append(heard[p], sent') ELSE heard[p]]
    /\ link' = [p \in Peers |-> IF link[p] = "left" /\ \E c \in clients : c.who = p
                                THEN "reset" ELSE link[p]]
    /\ UNCHANGED <<asked, thread, fd, greeted, joined>>

\* A slip: the iterator moves on after an erase and skips the next client.
Broadcast_SkipsAfterErase ==
    /\ alive /\ sent < MaxEvents /\ sent' = sent + 1
    /\ alive' = \A c \in clients : link[c.who] # "reset"
    /\ clients' = {c \in clients : ~Gone(c)}
    /\ owner' = [f \in Fds |-> IF \E c \in clients : c.fd = f /\ Gone(c)
                               THEN Nobody ELSE owner[f]]
    /\ \E skipped \in clients :
          heard' = [p \in Peers |->
              IF link[p] = "open" /\ \E c \in clients :
                     c.who = p /\ ~(c = skipped /\ \E d \in clients : Gone(d))
              THEN Append(heard[p], sent') ELSE heard[p]]
    /\ UNCHANGED <<asked, thread, fd, greeted, joined, link>>

\* Every client in the vector: one that has been reset ends the process, one
\* that is gone is closed and erased, the others are sent the frame.
Broadcast ==
    /\ alive /\ sent < MaxEvents /\ sent' = sent + 1
    /\ alive' = \A c \in clients : link[c.who] # "reset"
    /\ clients' = {c \in clients : ~Gone(c)}
    /\ owner' = [f \in Fds |-> IF \E c \in clients : c.fd = f /\ Gone(c)
                               THEN Nobody ELSE owner[f]]
    /\ heard' = [p \in Peers |-> IF link[p] = "open" /\ \E c \in clients : c.who = p
                                 THEN Append(heard[p], sent') ELSE heard[p]]
    /\ link' = [p \in Peers |-> IF link[p] = "left" /\ \E c \in clients : c.who = p
                                THEN "reset" ELSE link[p]]
    /\ UNCHANGED <<asked, thread, fd, greeted, joined>>

Next ==
    \/ \E p \in Peers :
        \/ Connect(p) \/ \E f \in Fds : Accept(p, f)
        \/ \E what \in {"handshake", "other"} : Ask(p, what)
        \/ \E how \in {"left", "aborted"} : Leave(p, how)
    \/ \E f \in Fds : Borrow(f)
    \/ Recv \/ Push \/ Welcome \/ Broadcast

Spec == Init /\ [][Next]_vars

-----------------------------------------------------------------------------
TypeOK ==
    /\ alive \in BOOLEAN /\ sent \in 0 .. MaxEvents
    /\ link \in [Peers -> {"away", "queued", "open", "left", "aborted", "reset"}]
    /\ asked \in [Peers -> {"nothing", "handshake", "other"}]
    /\ owner \in [Fds -> Peers \cup {Nobody, Elsewhere}]
    /\ clients \subseteq [fd : Fds, who : Peers]
    /\ thread \in {"accept", "recv", "push", "welcome"} /\ fd \in Fds \cup {Nobody}

(* A broadcast reaches the clients in the vector and no one else: an entry *)
(* names a descriptor that is still its client's, and no descriptor is in  *)
(* the vector twice, although closed numbers are handed out again to both  *)
(* servers (lines 119-122, 137-139).                                       *)
FramesGoHome ==
    \A c, d \in clients : owner[c.fd] = c.who /\ (c # d => c.fd # d.fd)

(* A client misses no update while it stays: from the one after it entered *)
(* the vector on, it has heard every broadcast, in order and once.         *)
NoUpdateMissed ==
    \A c \in clients : LET p == c.who IN
        link[p] = "open" =>
            heard[p] = [n \in 1 .. sent - joined[p] |-> joined[p] + n]

=============================================================================
