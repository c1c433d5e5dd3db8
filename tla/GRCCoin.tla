------------------------------ MODULE GRCCoin ------------------------------
(***************************************************************************)
(* divine::GRCCoin (src/src/phi_grc.h): wallets with 64-bit balances and a *)
(* chain of blocks.  A wallet's address is the hash of the number of       *)
(* wallets before it, here that number (the hash is taken to tell them     *)
(* apart); wallet 0 is the genesis wallet, which is allotted MAX_SUPPLY.   *)
(* Nothing rewrites a block, so that the chain is its length.              *)
(***************************************************************************)
EXTENDS Integers, FiniteSets

CONSTANTS
    MAX_SUPPLY,
    Word,           \* 2^64, the range of a balance
    MaxWallets,     \* bound on the wallets created
    MaxBlocks, MaxCirculating,  \* bounds on the blocks mined and the sum transferred
    Amounts         \* what a transfer may be of

VARIABLES
    wallets,        \* balance of each address
    blocks,         \* length of the chain, with the genesis block
    circulating,    \* the sum of all transfers
    minted          \* history: the rewards credited so far

vars == <<wallets, blocks, circulating, minted>>

GRCCoinAssumption ==
    /\ {MAX_SUPPLY, Word, MaxWallets, MaxBlocks, MaxCirculating} \subseteq Nat /\ MAX_SUPPLY < Word
    /\ Amounts \subseteq 0 .. Word - 1

Addresses == DOMAIN wallets

Init ==
    /\ wallets = [a \in {0} |-> MAX_SUPPLY]
    /\ blocks = 1 /\ circulating = 0 /\ minted = 0

\* wallets[address] = {address, 0, {}}
create_wallet(balances, address) ==
    [a \in DOMAIN balances \cup {address} |-> IF a = address THEN 0 ELSE balances[a]]

CreateWallet ==
    /\ Cardinality(Addresses) <= MaxWallets
    /\ wallets' = create_wallet(wallets, Cardinality(Addresses))
    /\ UNCHANGED <<blocks, circulating, minted>>

Moved(from, to, amount) ==
    LET taken == [wallets EXCEPT ![from] = (@ - amount) % Word]
    IN  [taken EXCEPT ![to] = (@ + amount) % Word]

\* A slip: the balance is not looked at, and wraps around.
Covered_Always(from, to, amount) == {from, to} \subseteq Addresses

\* What transfer returns.
Covered(from, to, amount) ==
    {from, to} \subseteq Addresses /\ wallets[from] >= amount

transfer(from, to, amount) ==
    /\ IF Covered(from, to, amount)
       THEN wallets' = Moved(from, to, amount) /\ circulating' = circulating + amount
       ELSE UNCHANGED <<wallets, circulating>>
    /\ UNCHANGED <<blocks, minted>>

\* 50 * phi^-(index / 10000), truncated: 49 for every block the programs reach.
compute_reward(index) == IF index = 0 THEN 50 ELSE 49

\* A validator without a wallet mines the block and goes unpaid.
mine_block(validator) ==
    /\ blocks' = blocks + 1
    /\ LET reward == IF validator \in Addresses THEN compute_reward(blocks) ELSE 0
       IN  /\ wallets' = [a \in Addresses |->
                  IF a = validator THEN (wallets[a] + reward) % Word ELSE wallets[a]]
           /\ minted' = minted + reward
    /\ UNCHANGED circulating

Next ==
    \/ CreateWallet
    \/ \E from, to \in Addresses, amount \in Amounts :
          circulating + amount <= MaxCirculating /\ transfer(from, to, amount)
    \/ blocks < MaxBlocks /\ \E validator \in Addresses \cup {-1} : mine_block(validator)

Spec == Init /\ [][Next]_vars

-----------------------------------------------------------------------------
TypeOK ==
    /\ Addresses \subseteq Nat /\ \A a \in Addresses : wallets[a] \in 0 .. Word - 1
    /\ blocks \in Nat \ {0} /\ circulating \in Nat /\ minted \in Nat

\* What the first n wallets hold together.
Held(balances, n) ==
    LET sum[i \in Nat] == IF i = 0 THEN 0 ELSE sum[i - 1] + balances[i - 1]
    IN  sum[n]

(* The balances add up to the supply and the rewards credited, and none of *)
(* them is above that: no transfer takes more than a wallet holds, pays    *)
(* twice, or pays a wallet from itself (lines 75-110).  (The rewards come  *)
(* on top of MAX_SUPPLY, all of which the genesis wallet holds.)           *)
SupplyAccountedFor ==
    /\ Held(wallets, Cardinality(Addresses)) = MAX_SUPPLY + minted
    /\ \A a \in Addresses : wallets[a] <= MAX_SUPPLY + minted

=============================================================================
