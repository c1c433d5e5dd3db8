----------------------------- MODULE MCServices -----------------------------
(* Two services and peers and browsers, three wallets, four tickets for all *)
(* eight programs, a file of four rows.  The breaker alone opens at two     *)
(* failures; in the programs the code's five.  2^64 is 2^12.                *)
EXTENDS Services

CONSTANTS p1, p2, f1, f2, b1, b2

\* The records of the programs, which depend on no constant.
E == INSTANCE EnterpriseProgram
       WITH Programs <- {}, Tickets <- <<>>, MaxTokens <- 0, Refills <- {}, Word <- 1,
            MAX_SUPPLY <- 0
MCPrograms == {E!v1, E!v2, E!v3, E!v4, E!v5, E!v6, E!v7, E!v8}
MCTickets == << [module |-> "hr", urgent |-> FALSE, cost |-> 40],
                [module |-> "sales", urgent |-> TRUE, cost |-> 0],
                [module |-> "healthcare", urgent |-> TRUE, cost |-> 25],
                [module |-> "hr", urgent |-> FALSE, cost |-> 40] >>
MCAgents == <<"Alice", "Bob">>
MCSeeds == <<"Open", "Resolved">>
MCKeys == <<"http_port", "ws_port">>
MCPeers == {p1, p2}
MCFds == {f1, f2}
MCBrowsers == {b1, b2}

=============================================================================
