----------------------------- MODULE PhiDatabase -----------------------------
(***************************************************************************)
(* The in-memory hash table that keeps the tickets of the first servers    *)
(* (src/src/phi_database.h): open addressing along a golden-ratio probe    *)
(* sequence, with tombstones.  Every method holds the table's mutex from   *)
(* its first line to its last, so each is one action here.                 *)
(*                                                                         *)
(* The probe sequence need not visit every slot: i * PHI_INV * capacity,   *)
(* truncated and reduced modulo capacity, repeats slots for most           *)
(* capacities.  promised is a history variable: the value the last insert  *)
(* of a key stored, or Absent when none did or the key was removed since.  *)
(***************************************************************************)
EXTENDS Integers, FiniteSets

CONSTANTS
    Keys,       \* the keys the callers use
    Values,     \* the values they store
    Capacity,   \* number of slots; the code's default is 65537
    Hash,       \* Hash[k]: the polynomial hash of a key
    Absent,     \* std::nullopt, and the key and value of a fresh slot
    MaxSize     \* bound: inserts beyond this size_ are not explored

VARIABLES table, size, promised

vars == <<table, size, promised>>

Slots == 0 .. Capacity - 1

ASSUME DatabaseAssumption ==
    /\ Capacity \in Nat \ {0}
    /\ Hash \in [Keys -> Nat]
    /\ Absent \notin Values
    /\ MaxSize \in Nat

Entry == [key : Keys \cup {Absent}, value : Values \cup {Absent},
          occupied : BOOLEAN, deleted : BOOLEAN]

Fresh == [key |-> Absent, value |-> Absent, occupied |-> FALSE, deleted |-> FALSE]

-----------------------------------------------------------------------------
(* Probing.  618034/1000000 stands for the double PHI_INV; the truncated   *)
(* product is the same for every capacity below a thousand.                *)

phi_probe == [i \in Slots |-> ((i * 618034 * Capacity) \div 1000000) % Capacity]

probe_sequence ==
    [k \in Keys |-> [i \in Slots |-> (Hash[k] + phi_probe[i]) % Capacity]]

First(S) == {i \in S : \A j \in S : i <= j}

Writable(k, i) ==
    LET e == table[probe_sequence[k][i]] IN ~e.occupied \/ e.deleted \/ e.key = k

Live(s) == table[s].occupied /\ ~table[s].deleted

Holds(k, i) == Live(probe_sequence[k][i]) /\ table[probe_sequence[k][i]].key = k

\* The probe numbers at which insert's loop, and a search for k, stop: one or none.
WriteProbe(k) == First({i \in Slots : Writable(k, i)})
ReadProbe(k)  == First({i \in Slots : Holds(k, i)})

\* A slip: a search that also gives up at a tombstone.
Found_StopAtTombstone(k) ==
    {i \in ReadProbe(k) : \A j \in Slots : j < i => Live(probe_sequence[k][j])}

\* The search that get and remove share: it gives up at an unoccupied slot.
Found(k) ==
    {i \in ReadProbe(k) : \A j \in Slots : j < i => table[probe_sequence[k][j]].occupied}

Get(k) ==
    IF Found(k) = {} THEN Absent
    ELSE table[probe_sequence[k][CHOOSE i \in Found(k) : TRUE]].value

-----------------------------------------------------------------------------
Init ==
    /\ table = [s \in Slots |-> Fresh]
    /\ size = 0
    /\ promised = [k \in Keys |-> Absent]

\* A slip: insert overwrites the home slot when every probe is taken.
Insert_Evicts(k, v) ==
    LET i == IF WriteProbe(k) = {} THEN 0 ELSE CHOOSE j \in WriteProbe(k) : TRUE
    IN  /\ size < MaxSize
        /\ table' = [table EXCEPT ![probe_sequence[k][i]] =
                        [key |-> k, value |-> v, occupied |-> TRUE, deleted |-> FALSE]]
        /\ size' = size + 1
        /\ promised' = [promised EXCEPT ![k] = v]

\* A slip: no growth is counted when the slot was the key's own, tombstoned or not.
Insert_CountNew(k, v) ==
    \/ \E i \in WriteProbe(k) :
        /\ size < MaxSize
        /\ table' = [table EXCEPT ![probe_sequence[k][i]] =
                        [key |-> k, value |-> v, occupied |-> TRUE, deleted |-> FALSE]]
        /\ size' = IF table[probe_sequence[k][i]].key = k THEN size ELSE size + 1
        /\ promised' = [promised EXCEPT ![k] = v]
    \/ WriteProbe(k) = {} /\ UNCHANGED vars

\* insert: the first slot that is free, a tombstone or the key's own; size_
\* grows on an update too, and when no slot will do nothing happens at all.
Insert(k, v) ==
    \/ \E i \in WriteProbe(k) :
        /\ size < MaxSize
        /\ table' = [table EXCEPT ![probe_sequence[k][i]] =
                        [key |-> k, value |-> v, occupied |-> TRUE, deleted |-> FALSE]]
        /\ size' = size + 1
        /\ promised' = [promised EXCEPT ![k] = v]
    \/ WriteProbe(k) = {} /\ UNCHANGED vars

\* A slip: remove frees the slot instead of leaving a tombstone.
Remove_Clears(k) ==
    \/ \E i \in Found(k) :
        /\ table' = [table EXCEPT ![probe_sequence[k][i]] = Fresh]
        /\ size' = size - 1
        /\ promised' = [promised EXCEPT ![k] = Absent]
    \/ Found(k) = {} /\ UNCHANGED vars

\* A slip: remove does not look whether the entry is a tombstone already.
Remove_Again(k) ==
    \/ \E i \in First({i \in Slots : table[probe_sequence[k][i]].key = k}) :
        /\ table' = [table EXCEPT ![probe_sequence[k][i]].deleted = TRUE]
        /\ size' = size - 1
        /\ promised' = [promised EXCEPT ![k] = Absent]
    \/ UNCHANGED vars

\* remove: a tombstone on the entry get would return, or false.
Remove(k) ==
    \/ \E i \in Found(k) :
        /\ table' = [table EXCEPT ![probe_sequence[k][i]].deleted = TRUE]
        /\ size' = size - 1
        /\ promised' = [promised EXCEPT ![k] = Absent]
    \/ Found(k) = {} /\ UNCHANGED vars

Next ==
    \/ \E k \in Keys, v \in Values : Insert(k, v)
    \/ \E k \in Keys : Remove(k)

Spec == Init /\ [][Next]_vars

-----------------------------------------------------------------------------
(* Properties.                                                             *)

\* The table keeps its shape, and size_ (a size_t) never goes below zero.
TypeOK ==
    /\ table \in [Slots -> Entry]
    /\ size \in 0 .. MaxSize
    /\ promised \in [Keys -> Values \cup {Absent}]

\* What insert stored last is what get returns, until the key is removed:
\* neither other keys' collisions and tombstones nor the key's own older
\* copies come between (insert, get).
LastWriteWins ==
    \A k \in Keys : promised[k] # Absent => Get(k) = promised[k]

\* Every live entry lies on its key's probe path with no never-used slot
\* before it, so no search gives up too early (get's early return).
PathsUnbroken ==
    \A s \in Slots : Live(s) =>
        \E i \in Slots :
            /\ probe_sequence[table[s].key][i] = s
            /\ \A j \in Slots : j < i => table[probe_sequence[table[s].key][j]].occupied

\* size_ counts at least the live entries, duplicates of a key included;
\* it counts updates too, so equality is not to be had (insert's size_++).
SizeCoversLive == size >= Cardinality({s \in Slots : Live(s)})

\* An operation on one key never changes what get returns for another: not
\* by reusing its slot, not by ending its probe path (insert, remove).
OneKeyAtATime ==
    [][\A k, l \in Keys : k # l => Get(k)' = Get(k) \/ Get(l)' = Get(l)]_vars

=============================================================================
