------------------------------- MODULE Services -------------------------------
(***************************************************************************)
(* The smaller parts of the system, which share nothing with one another,  *)
(* side by side: Init chooses the part that steps, the others stay as they *)
(* begin.  EnterpriseProgram is made of CircuitBreaker and GRCCoin and has *)
(* their variables; each also runs by itself.                              *)
(***************************************************************************)
EXTENDS Integers, Sequences

CONSTANTS
    None,
    Watched, failure_threshold, MaxFailures,                        \* the breaker
    MAX_SUPPLY, Word, MaxWallets, MaxBlocks, MaxCirculating, Amounts,   \* the coin
    Programs, Tickets, MaxTokens, Refills,                          \* v1 to v8
    Peers, Fds, MaxEvents, Nobody, Elsewhere,                       \* WebSocket
    Agents, Seeds, LIMIT, Minute, DemoSeconds, Browsers,            \* the demo database
    Keys, Users, TTL, StoreSeconds, Values,                         \* settings, sessions
    MaxPeers, Quiet, MeshSeconds                                    \* the mesh

VARIABLES
    component, clock,
    breakers, cooled, svc, waited, wallets, blocks, circulating, minted,
    program, pc, at, tokens, ollama_available, stored, vaultLog, ledger, events, ai, human,
    alive, link, asked, owner, clients, thread, fd, sent, heard, greeted, joined,
    proc, row, agents, tickets, doing, form, told, refused,
    stage, key, config, cache, sessions, opening, given, unset, unstored, unseen,
    running, peers, capacity, beat, chosen, lost, round, faded, late

lone    == <<breakers, cooled>>
parts   == <<svc, waited>>
coin    == <<wallets, blocks, circulating, minted>>
books   == <<program, pc, at, tokens, ollama_available, stored, vaultLog, ledger, events, ai,
             human>>
sockets == <<alive, link, asked, owner, clients, thread, fd, sent, heard, greeted, joined>>
demo    == <<proc, row, agents, tickets, doing, form, told, refused>>
kept    == <<stage, key, config, cache, sessions, opening, given, unset, unstored, unseen>>
mesh    == <<running, peers, capacity, beat, chosen, lost, round, faded, late>>
vars == <<component, clock, lone, parts, coin, books, sockets, demo, kept, mesh>>

-----------------------------------------------------------------------------
(* The instances. *)
Breaker == INSTANCE CircuitBreaker WITH Services <- Watched, svc <- breakers, waited <- cooled
Coin == INSTANCE GRCCoin
Enterprise == INSTANCE EnterpriseProgram
WebSocket == INSTANCE WebSocketServer
Demo == INSTANCE DemoServer WITH LastSecond <- DemoSeconds
Store == INSTANCE Persistence WITH LastSecond <- StoreSeconds
Network == INSTANCE Mesh WITH LastSecond <- MeshSeconds

ASSUME ServicesAssumption ==
    /\ Breaker!CircuitBreakerAssumption /\ Coin!GRCCoinAssumption
    /\ Enterprise!EnterpriseProgramAssumption
    /\ Enterprise!Breaker!CircuitBreakerAssumption /\ Enterprise!Coin!GRCCoinAssumption
    /\ WebSocket!WebSocketServerAssumption /\ Demo!DemoServerAssumption
    /\ Store!PersistenceAssumption /\ Network!MeshAssumption

Components == {"breaker", "coin", "enterprise", "websocket", "demo", "store", "network"}

Init ==
    /\ component \in Components
    /\ Breaker!Init /\ Coin!Init /\ WebSocket!Init /\ Demo!Init /\ Store!Init
    /\ Network!Init
    /\ Enterprise!Init /\ (component # "enterprise" => program = Enterprise!v1)

-----------------------------------------------------------------------------
(* One part steps. *)
InBreaker == component = "breaker" /\ UNCHANGED <<component, clock, parts, coin, books, sockets,
                                                 demo, kept, mesh>>
InCoin == component = "coin" /\ UNCHANGED <<component, clock, lone, parts, books, sockets, demo,
                                            kept, mesh>>
InEnterprise == component = "enterprise" /\ UNCHANGED <<component, clock, lone, sockets, demo,
                                                        kept, mesh>>
InWebSocket == component = "websocket" /\ UNCHANGED <<component, clock, lone, parts, coin, books,
                                                      demo, kept, mesh>>
InDemo == component = "demo" /\ UNCHANGED <<component, lone, parts, coin, books, sockets, kept,
                                            mesh>>
InStore == component = "store" /\ UNCHANGED <<component, lone, parts, coin, books, sockets, demo,
                                              mesh>>
InNetwork == component = "network" /\ UNCHANGED <<component, lone, parts, coin, books, sockets,
                                                  demo, kept>>

Next ==
    \/ \E s \in Watched : InBreaker /\ Breaker!Wait(s)
    \/ \E s \in Watched : InBreaker /\ Breaker!is_available(s)
    \/ \E s \in Watched : InBreaker /\ Breaker!record_success(s)
    \/ \E s \in Watched : InBreaker /\ Breaker!record_failure(s)
    \/ InCoin /\ Coin!CreateWallet
    \/ \E from, to \in DOMAIN wallets, amount \in Amounts :
          InCoin /\ circulating + amount <= MaxCirculating /\ Coin!transfer(from, to, amount)
    \/ \E validator \in DOMAIN wallets \cup {-1} :
          InCoin /\ blocks < MaxBlocks /\ Coin!mine_block(validator)
    \/ InEnterprise /\ Enterprise!Open
    \/ InEnterprise /\ Enterprise!Gate
    \/ \E dice \in BOOLEAN : InEnterprise /\ Enterprise!HandleCore(dice)
    \/ \E dice \in BOOLEAN : InEnterprise /\ Enterprise!HandleVault(dice)
    \/ \E dice, roll \in BOOLEAN : InEnterprise /\ Enterprise!HandleSwarm(dice, roll)
    \/ \E dice, roll \in BOOLEAN, response \in {"text", "no text", "empty"},
          department \in Enterprise!Departments :
          InEnterprise /\ Enterprise!HandleAI(dice, roll, response, department)
    \/ InEnterprise /\ Enterprise!HandleCoin
    \/ InEnterprise /\ Enterprise!HandleMesh
    \/ InEnterprise /\ Enterprise!Report
    \/ \E p \in Peers : InWebSocket /\ WebSocket!Connect(p)
    \/ \E p \in Peers, what \in {"handshake", "other"} : InWebSocket /\ WebSocket!Ask(p, what)
    \/ \E p \in Peers, how \in {"left", "aborted"} : InWebSocket /\ WebSocket!Leave(p, how)
    \/ \E f \in Fds : InWebSocket /\ WebSocket!Borrow(f)
    \/ \E p \in Peers, f \in Fds : InWebSocket /\ WebSocket!Accept(p, f)
    \/ InWebSocket /\ WebSocket!Recv
    \/ InWebSocket /\ WebSocket!Push
    \/ InWebSocket /\ WebSocket!Welcome
    \/ InWebSocket /\ WebSocket!Broadcast
    \/ InDemo /\ Demo!Tick
    \/ InDemo /\ Demo!Open
    \/ InDemo /\ Demo!Seed
    \/ InDemo /\ Demo!Start
    \/ InDemo /\ Demo!Kill
    \/ \E b \in Browsers : InDemo /\ Demo!loadData(b)
    \/ \E b \in Browsers, f \in Demo!Forms : InDemo /\ Demo!Submit(b, f)
    \/ \E b \in Browsers : InDemo /\ Demo!getTicketsJSON(b)
    \/ \E b \in Browsers : InDemo /\ Demo!getQueueJSON(b)
    \/ \E b \in Browsers : InDemo /\ Demo!getAgentsJSON(b)
    \/ \E b \in Browsers : InDemo /\ Demo!createTicket(b)
    \/ InStore /\ Store!Tick
    \/ InStore /\ Store!End
    \/ InStore /\ Store!Boot
    \/ InStore /\ Store!load_defaults
    \/ \E k \in Store!Settings : InStore /\ Store!get(k)
    \/ \E k \in Store!Settings, v \in Values : InStore /\ Store!Edit(k, v)
    \/ \E u \in Users : InStore /\ Store!login(u)
    \/ InStore /\ Store!OpenSession
    \/ \E u \in Users : InStore /\ Store!LoginElsewhere(u)
    \/ \E s \in sessions : InStore /\ Store!logout(s)
    \/ InNetwork /\ Network!Tick
    \/ InNetwork /\ Network!add_peer
    \/ InNetwork /\ Network!gossip_loop
    \/ InNetwork /\ Network!Wake
    \/ InNetwork /\ Network!Look
    \/ InNetwork /\ Network!Send
    \/ InNetwork /\ Network!stop

Spec == Init /\ [][Next]_vars

-----------------------------------------------------------------------------
TypeOK ==
    /\ component \in Components
    /\ component = "breaker" => Breaker!TypeOK
    /\ component = "coin" => Coin!TypeOK
    /\ component = "enterprise" => Enterprise!TypeOK
    /\ component = "websocket" => WebSocket!TypeOK
    /\ component = "demo" => Demo!TypeOK
    /\ component = "store" => Store!TypeOK
    /\ component = "network" => Network!TypeOK

\* Each part's properties are stated, and explained, in its module.
TripsAtThreshold == component = "breaker" => Breaker!TripsAtThreshold
SupplyAccountedFor == component = "coin" => Coin!SupplyAccountedFor
BooksAgree == component = "enterprise" => Enterprise!BooksAgree
NothingIsPaid == component = "enterprise" => Enterprise!NothingIsPaid
BreakerNeverTrips == component = "enterprise" => Enterprise!BreakerNeverTrips
FramesGoHome == component = "websocket" => WebSocket!FramesGoHome
NoUpdateMissed == component = "websocket" => WebSocket!NoUpdateMissed
AgentsBeforeTickets == component = "demo" => Demo!AgentsBeforeTickets
CreatedIsKept == component = "demo" => Demo!CreatedIsKept
MarkedIsWhole == component = "store" => Store!MarkedIsWhole
OneLiveSession == component = "store" => Store!OneLiveSession
FadesForGood == component = "network" => Network!FadesForGood

=============================================================================
