-------------------------------- MODULE Mesh --------------------------------
(***************************************************************************)
(* One node of divine::PhiNetwork (src/src/phi_network.h), as v8 runs the  *)
(* leader: start() detaches the gossip thread and the heartbeat thread,    *)
(* and main() goes on adding peers.  The gossip thread marks the peers     *)
(* under the mutex; the heartbeat thread walks the vector without it, so   *)
(* that a peer added meanwhile may move the vector from under it: then     *)
(* anything may follow (lost).  No socket is ever bound: no heartbeat      *)
(* arrives, and last_heartbeat stays the moment the peer was added.        *)
(***************************************************************************)
EXTENDS Naturals, Sequences

CONSTANTS
    MaxPeers,       \* peers main() adds, 3
    Quiet,          \* seconds after which a peer is offline, 10
    LastSecond      \* bound on the clock

MeshAssumption == MaxPeers \in Nat /\ Quiet \in Nat \ {0} /\ LastSecond \in Nat

VARIABLES
    running, clock,
    peers,          \* the vector: when each was added, and online
    capacity,       \* of the vector
    beat,           \* the heartbeat thread: the peer it is at, 0 asleep
    chosen,         \* it has found that peer online
    lost,           \* it walks a vector that has been moved
    round,          \* history: the second of the last gossip round
    faded,          \* history: peers a gossip round has found offline
    late            \* history: heartbeats sent to each since then

histories == <<round, faded, late>>
vars == <<running, clock, peers, capacity, beat, chosen, lost, histories>>

Init ==
    /\ running = TRUE /\ clock = 0 /\ peers = <<>> /\ capacity = 0
    /\ beat = 0 /\ chosen = FALSE /\ lost = FALSE
    /\ round = 0 /\ faded = {} /\ late = <<>>

Tick ==
    /\ clock < LastSecond /\ clock' = clock + 1
    /\ UNCHANGED <<running, peers, capacity, beat, chosen, lost, histories>>

\* push_back doubles a full vector.
add_peer ==
    /\ Len(peers) < MaxPeers
    /\ peers' = Append(peers, [last |-> clock, online |-> TRUE]) /\ late' = Append(late, 0)
    /\ IF Len(peers) = capacity
       THEN capacity' = (IF capacity = 0 THEN 1 ELSE 2 * capacity) /\ lost' = (lost \/ beat # 0)
       ELSE UNCHANGED <<capacity, lost>>
    /\ UNCHANGED <<running, clock, beat, chosen, round, faded>>

\* One round of gossip_loop.
gossip_loop ==
    /\ running
    /\ peers' = [i \in DOMAIN peers |->
                    [peers[i] EXCEPT !.online = clock - peers[i].last < Quiet]]
    /\ round' = clock
    /\ faded' = faded \cup {i \in DOMAIN peers : clock - peers[i].last >= Quiet}
    /\ UNCHANGED <<running, clock, capacity, beat, chosen, lost, late>>

\* A slip: the end of the vector is not looked for.
Goto_PastEnd(i) == beat' = i /\ chosen' = FALSE

\* The next peer, or none: the walk ends, the thread sleeps 1.618 s.
Goto(i) ==
    /\ beat' = IF i \in DOMAIN peers THEN i ELSE 0
    /\ chosen' = FALSE

\* broadcast_heartbeat is entered.
Wake ==
    /\ running /\ beat = 0 /\ Goto(1)
    /\ UNCHANGED <<running, clock, peers, capacity, lost, histories>>

\* A slip: heartbeats go to every peer.
Look_Everyone ==
    /\ beat # 0 /\ ~chosen /\ ~lost
    /\ chosen' = TRUE /\ UNCHANGED beat
    /\ UNCHANGED <<running, clock, peers, capacity, lost, histories>>

Look ==
    /\ beat # 0 /\ ~chosen /\ ~lost
    /\ IF peers[beat].online THEN chosen' = TRUE /\ UNCHANGED beat ELSE Goto(beat + 1)
    /\ UNCHANGED <<running, clock, peers, capacity, lost, histories>>

\* sendto: the peer may have gone offline since it was looked at.
Send ==
    /\ beat # 0 /\ chosen /\ ~lost
    /\ late' = [late EXCEPT ![beat] = IF peers[beat].online THEN @ ELSE @ + 1]
    /\ Goto(beat + 1)
    /\ UNCHANGED <<running, clock, peers, capacity, lost, round, faded>>

stop ==
    /\ running /\ running' = FALSE
    /\ UNCHANGED <<clock, peers, capacity, beat, chosen, lost, histories>>

Next == Tick \/ add_peer \/ gossip_loop \/ Wake \/ Look \/ Send \/ stop

Spec == Init /\ [][Next]_vars

-----------------------------------------------------------------------------
(* The types of the variables. *)
TypeOK ==
    /\ {running, chosen, lost} \subseteq BOOLEAN /\ clock \in 0 .. LastSecond
    /\ peers \in Seq([last : 0 .. LastSecond, online : BOOLEAN])
    /\ Len(peers) <= capacity /\ beat \in 0 .. Len(peers)
    /\ round \in 0 .. LastSecond /\ faded \subseteq DOMAIN peers
    /\ late \in Seq(Nat) /\ Len(late) = Len(peers)

(* A peer fades for good: with nothing to hear heartbeats, a peer is       *)
(* offline from the first gossip round Quiet seconds after it was added    *)
(* or later, not before, and once a round has found it offline it is never *)
(* again online; of the heartbeats it gets at most one, decided on before, *)
(* is sent after that, although the walk takes no mutex                    *)
(* (phi_network.h:53-61, 84-94).                                           *)
FadesForGood ==
    \A i \in DOMAIN peers :
        /\ ~peers[i].online <=> round >= peers[i].last + Quiet
        /\ i \in faded => ~peers[i].online
        /\ late[i] <= IF i \in faded THEN 1 ELSE 0

=============================================================================
