-------------------------- MODULE PhiDatabaseProofs --------------------------
(***************************************************************************)
(* Theorems about the hash table, for every capacity, every set of keys    *)
(* and every hash: what was written last is what is read, and operations   *)
(* on one key leave the others alone.                                      *)
(*                                                                         *)
(* LastWriteWins is not inductive: it says nothing of where the entry is.  *)
(* The strengthening locates, for every promised key, the live entry that  *)
(* a search reaches (Witnessed), next to PathsUnbroken and the shape of    *)
(* the table.  Nothing about the probe sequence is used but that it stays  *)
(* inside the table: it need not be a permutation.                         *)
(***************************************************************************)
EXTENDS PhiDatabase, FiniteSetTheorems, TLAPS

\* The shape of the table: used slots hold real keys and values.
Shape ==
    /\ table \in [Slots -> Entry]
    /\ promised \in [Keys -> Values \cup {Absent}]
    /\ \A s \in Slots : table[s].occupied => table[s].key \in Keys

\* Probe i reaches a live entry of k, and a search does not stop before it.
Reaches(k, i) ==
    /\ i \in Slots
    /\ Holds(k, i)
    /\ \A j \in Slots : j < i => table[probe_sequence[k][j]].occupied /\ ~Holds(k, j)

Witnessed ==
    \A k \in Keys : promised[k] # Absent =>
        \E i \in Slots : Reaches(k, i) /\ table[probe_sequence[k][i]].value = promised[k]

DatabaseInv == Shape /\ Witnessed /\ PathsUnbroken

-----------------------------------------------------------------------------
(* Lemmas about probing.                                                   *)

\* Every probe falls inside the table.
LEMMA ProbesInRange ==
    ASSUME NEW k \in Keys, NEW i \in Slots
    PROVE  probe_sequence[k][i] \in Slots
<1>1. \A a \in Int : a % Capacity \in Slots
  BY DatabaseAssumption DEF Slots
<1>2. Capacity \in Int /\ i \in Int
  BY DatabaseAssumption DEF Slots
<1>3. (i * 618034 * Capacity) \div 1000000 \in Int
  BY <1>2
<1>4. phi_probe[i] \in Slots
  BY <1>1, <1>3 DEF phi_probe
<1>5. Hash[k] + phi_probe[i] \in Int
  BY <1>4, DatabaseAssumption DEF Slots
<1>6. probe_sequence[k][i] = (Hash[k] + phi_probe[i]) % Capacity
  BY DEF probe_sequence
<1> QED BY <1>1, <1>5, <1>6

\* A search that reaches an entry returns its value.
LEMMA ReachedIsReturned ==
    ASSUME NEW k \in Keys, NEW i \in Slots, Reaches(k, i)
    PROVE  Get(k) = table[probe_sequence[k][i]].value
<1>1. ReadProbe(k) = {i}
  BY DEF Reaches, ReadProbe, First, Slots
<1>2. Found(k) = {i}
  BY <1>1 DEF Found, Reaches
<1> QED BY <1>2 DEF Get

\* What insert does to the table, when it finds a place.
LEMMA InsertEffect ==
    ASSUME Shape, NEW k \in Keys, NEW v \in Values, NEW i \in WriteProbe(k),
           table' = [table EXCEPT ![probe_sequence[k][i]] =
                        [key |-> k, value |-> v, occupied |-> TRUE, deleted |-> FALSE]]
    PROVE  /\ i \in Slots /\ Writable(k, i) /\ probe_sequence[k][i] \in Slots
           /\ \A j \in Slots : j < i => ~Writable(k, j)
           /\ table'[probe_sequence[k][i]] =
                 [key |-> k, value |-> v, occupied |-> TRUE, deleted |-> FALSE]
           /\ \A s \in Slots \ {probe_sequence[k][i]} : table'[s] = table[s]
           /\ table' \in [Slots -> Entry]
<1>1. i \in Slots /\ Writable(k, i) /\ \A j \in Slots : j < i => ~Writable(k, j)
  BY DEF WriteProbe, First, Slots
<1>2. probe_sequence[k][i] \in Slots
  BY <1>1, ProbesInRange
<1>3. [key |-> k, value |-> v, occupied |-> TRUE, deleted |-> FALSE] \in Entry
  BY DEF Entry
<1> QED BY <1>1, <1>2, <1>3 DEF Shape

\* What remove does to the table, when it finds the key.
LEMMA RemoveEffect ==
    ASSUME Shape, NEW k \in Keys, NEW i \in Found(k),
           table' = [table EXCEPT ![probe_sequence[k][i]].deleted = TRUE]
    PROVE  /\ i \in Slots /\ Holds(k, i) /\ probe_sequence[k][i] \in Slots
           /\ table'[probe_sequence[k][i]] =
                 [table[probe_sequence[k][i]] EXCEPT !.deleted = TRUE]
           /\ \A s \in Slots \ {probe_sequence[k][i]} : table'[s] = table[s]
           /\ \A s \in Slots : /\ table'[s].key = table[s].key
                               /\ table'[s].value = table[s].value
                               /\ table'[s].occupied = table[s].occupied
                               /\ table[s].deleted => table'[s].deleted
           /\ table' \in [Slots -> Entry]
<1>1. i \in Slots /\ Holds(k, i)
  BY DEF Found, ReadProbe, First
<1>2. probe_sequence[k][i] \in Slots
  BY <1>1, ProbesInRange
<1>3. table \in [Slots -> Entry]
  BY DEF Shape
<1>4. table[probe_sequence[k][i]] \in Entry
  BY <1>2, <1>3
<1>5. [table[probe_sequence[k][i]] EXCEPT !.deleted = TRUE] \in Entry
  BY <1>4 DEF Entry
<1> DEFINE e == [table[probe_sequence[k][i]] EXCEPT !.deleted = TRUE]
<1>6. /\ e.key = table[probe_sequence[k][i]].key
      /\ e.value = table[probe_sequence[k][i]].value
      /\ e.occupied = table[probe_sequence[k][i]].occupied
      /\ e.deleted = TRUE
  BY <1>4 DEF Entry
<1>7. /\ table'[probe_sequence[k][i]] = e
      /\ \A s \in Slots \ {probe_sequence[k][i]} : table'[s] = table[s]
  BY <1>2, <1>3
<1>8. table' \in [Slots -> Entry]
  BY <1>2, <1>3, <1>5
<1>9. \A s \in Slots : /\ table'[s].key = table[s].key
                       /\ table'[s].value = table[s].value
                       /\ table'[s].occupied = table[s].occupied
                       /\ table[s].deleted => table'[s].deleted
  BY <1>6, <1>7
<1> QED BY <1>1, <1>2, <1>7, <1>8, <1>9

-----------------------------------------------------------------------------
(* The inductive invariant.                                                *)

LEMMA InitEstablishes == Init => DatabaseInv
<1> SUFFICES ASSUME Init PROVE DatabaseInv
  OBVIOUS
<1>1. Shape
  BY DEF Init, Shape, Entry, Fresh
<1>2. Witnessed
  BY DEF Init, Witnessed
<1>3. PathsUnbroken
  BY DEF Init, PathsUnbroken, Live, Fresh
<1> QED BY <1>1, <1>2, <1>3 DEF DatabaseInv

\* A step that changes nothing keeps the invariant.
LEMMA StutterPreserves == ASSUME DatabaseInv, UNCHANGED vars PROVE DatabaseInv'
<1>1. table' = table /\ promised' = promised
  BY DEF vars
<1>2. Shape'
  BY <1>1 DEF DatabaseInv, Shape
<1>3. Witnessed'
  BY <1>1 DEF DatabaseInv, Witnessed, Reaches, Holds, Live
<1>4. PathsUnbroken'
  BY <1>1 DEF DatabaseInv, PathsUnbroken, Live
<1> QED BY <1>2, <1>3, <1>4 DEF DatabaseInv

\* An insert keeps the invariant: the slot it takes is nobody else's, and the
\* slots before it on the key's path are live entries of other keys.
LEMMA InsertPreserves ==
    ASSUME DatabaseInv, NEW k \in Keys, NEW v \in Values, Insert(k, v)
    PROVE  DatabaseInv'
<1>1. CASE UNCHANGED vars
  BY <1>1, StutterPreserves
<1>2. CASE ~UNCHANGED vars
  <2>1. PICK i \in WriteProbe(k) :
            /\ table' = [table EXCEPT ![probe_sequence[k][i]] =
                            [key |-> k, value |-> v, occupied |-> TRUE, deleted |-> FALSE]]
            /\ promised' = [promised EXCEPT ![k] = v]
    BY <1>2 DEF Insert
  <2> DEFINE p == probe_sequence[k][i]
  <2>2. Shape /\ Witnessed /\ PathsUnbroken
    BY DEF DatabaseInv
  <2>3. /\ i \in Slots /\ Writable(k, i) /\ p \in Slots
        /\ \A j \in Slots : j < i => ~Writable(k, j)
        /\ table'[p] = [key |-> k, value |-> v, occupied |-> TRUE, deleted |-> FALSE]
        /\ \A s \in Slots \ {p} : table'[s] = table[s]
        /\ table' \in [Slots -> Entry]
    BY <2>1, <2>2, InsertEffect
  <2>4. /\ table'[p].key = k /\ table'[p].value = v
        /\ table'[p].occupied /\ ~table'[p].deleted
    BY <2>3
  <2>5. \A s \in Slots : table[s].occupied => table'[s].occupied
    BY <2>3, <2>4
  <2> HIDE DEF p
  <2>6. Shape'
    <3>1. promised' \in [Keys -> Values \cup {Absent}]
      BY <2>1, <2>2 DEF Shape
    <3>2. \A s \in Slots : table'[s].occupied => table'[s].key \in Keys
      BY <2>2, <2>3, <2>4 DEF Shape
    <3> QED BY <2>3, <3>1, <3>2 DEF Shape
  <2>7. Witnessed'
    <3> SUFFICES ASSUME NEW l \in Keys, promised'[l] # Absent
                 PROVE  \E w \in Slots : /\ Reaches(l, w)'
                                         /\ table'[probe_sequence[l][w]].value = promised'[l]
      BY DEF Witnessed
    <3>1. CASE l = k
      <4>1. promised'[k] = v
        BY <2>1, <2>2 DEF Shape
      <4>2. Holds(k, i)'
        BY <2>4 DEF Holds, Live, p
      <4>3. ASSUME NEW j \in Slots, j < i
            PROVE  table'[probe_sequence[k][j]].occupied /\ ~Holds(k, j)'
        <5>1. ~Writable(k, j) /\ probe_sequence[k][j] \in Slots
          BY <2>3, <4>3, ProbesInRange
        <5>2. probe_sequence[k][j] # p
          BY <2>3, <5>1 DEF Writable, p
        <5>3. table'[probe_sequence[k][j]] = table[probe_sequence[k][j]]
          BY <2>3, <5>1, <5>2
        <5> QED BY <5>1, <5>3 DEF Writable, Holds
      <4>4. Reaches(k, i)'
        BY <2>3, <4>2, <4>3 DEF Reaches
      <4>5. table'[probe_sequence[k][i]].value = promised'[k]
        BY <2>4, <4>1 DEF p
      <4> QED BY <2>3, <3>1, <4>4, <4>5
    <3>2. CASE l # k
      <4>1. promised'[l] = promised[l]
        BY <2>1, <2>2, <3>2 DEF Shape
      <4>2. PICK w \in Slots : /\ Reaches(l, w)
                               /\ table[probe_sequence[l][w]].value = promised[l]
        BY <2>2, <4>1 DEF Witnessed
      <4>3. probe_sequence[l][w] # p /\ probe_sequence[l][w] \in Slots
        BY <2>3, <3>2, <4>2, ProbesInRange DEF Reaches, Holds, Live, Writable, p
      <4>4. table'[probe_sequence[l][w]] = table[probe_sequence[l][w]]
        BY <2>3, <4>3
      <4>5. Holds(l, w)'
        BY <4>2, <4>4 DEF Reaches, Holds, Live
      <4>6. ASSUME NEW j \in Slots, j < w
            PROVE  table'[probe_sequence[l][j]].occupied /\ ~Holds(l, j)'
        <5>1. /\ probe_sequence[l][j] \in Slots
              /\ table[probe_sequence[l][j]].occupied /\ ~Holds(l, j)
          BY <4>2, <4>6, ProbesInRange DEF Reaches
        <5>2. CASE probe_sequence[l][j] = p
          BY <2>4, <3>2, <5>2 DEF Holds
        <5>3. CASE probe_sequence[l][j] # p
          <6>1. table'[probe_sequence[l][j]] = table[probe_sequence[l][j]]
            BY <2>3, <5>1, <5>3
          <6> QED BY <5>1, <6>1 DEF Holds, Live
        <5> QED BY <5>2, <5>3
      <4>7. Reaches(l, w)'
        BY <4>2, <4>5, <4>6 DEF Reaches
      <4> QED BY <4>1, <4>2, <4>4, <4>7
    <3> QED BY <3>1, <3>2
  <2>8. PathsUnbroken'
    <3> SUFFICES ASSUME NEW s \in Slots, Live(s)'
                 PROVE  \E w \in Slots :
                            /\ probe_sequence[table'[s].key][w] = s
                            /\ \A j \in Slots : j < w =>
                                   table'[probe_sequence[table'[s].key][j]].occupied
      BY DEF PathsUnbroken
    <3>1. CASE s = p
      <4>1. ASSUME NEW j \in Slots, j < i
            PROVE  table'[probe_sequence[k][j]].occupied
        <5>1. ~Writable(k, j) /\ probe_sequence[k][j] \in Slots
          BY <2>3, <4>1, ProbesInRange
        <5> QED BY <2>5, <5>1 DEF Writable
      <4> QED BY <2>3, <2>4, <3>1, <4>1 DEF p
    <3>2. CASE s # p
      <4>1. table'[s] = table[s]
        BY <2>3, <3>2
      <4>2. Live(s) /\ table[s].key \in Keys
        BY <2>2, <4>1 DEF Live, Shape
      <4>3. PICK w \in Slots :
                /\ probe_sequence[table[s].key][w] = s
                /\ \A j \in Slots : j < w => table[probe_sequence[table[s].key][j]].occupied
        BY <2>2, <4>2 DEF PathsUnbroken
      <4>4. \A j \in Slots : probe_sequence[table[s].key][j] \in Slots
        BY <4>2, ProbesInRange
      <4> QED BY <2>5, <4>1, <4>3, <4>4
    <3> QED BY <3>1, <3>2
  <2> QED BY <2>6, <2>7, <2>8 DEF DatabaseInv
<1> QED BY <1>1, <1>2

\* A removal keeps the invariant: the tombstone still keeps every path closed.
LEMMA RemovePreserves ==
    ASSUME DatabaseInv, NEW k \in Keys, Remove(k)
    PROVE  DatabaseInv'
<1>1. CASE UNCHANGED vars
  BY <1>1, StutterPreserves
<1>2. CASE ~UNCHANGED vars
  <2>1. PICK i \in Found(k) :
            /\ table' = [table EXCEPT ![probe_sequence[k][i]].deleted = TRUE]
            /\ promised' = [promised EXCEPT ![k] = Absent]
    BY <1>2 DEF Remove
  <2> DEFINE p == probe_sequence[k][i]
  <2>2. Shape /\ Witnessed /\ PathsUnbroken
    BY DEF DatabaseInv
  <2>3. /\ i \in Slots /\ Holds(k, i) /\ p \in Slots
        /\ \A s \in Slots \ {p} : table'[s] = table[s]
        /\ \A s \in Slots : /\ table'[s].key = table[s].key
                            /\ table'[s].value = table[s].value
                            /\ table'[s].occupied = table[s].occupied
                            /\ table[s].deleted => table'[s].deleted
        /\ table' \in [Slots -> Entry]
    BY <2>1, <2>2, RemoveEffect
  <2> HIDE DEF p
  <2>4. Shape'
    <3>1. promised' \in [Keys -> Values \cup {Absent}]
      BY <2>1, <2>2 DEF Shape
    <3> QED BY <2>2, <2>3, <3>1 DEF Shape
  <2>5. Witnessed'
    <3> SUFFICES ASSUME NEW l \in Keys, promised'[l] # Absent
                 PROVE  \E w \in Slots : /\ Reaches(l, w)'
                                         /\ table'[probe_sequence[l][w]].value = promised'[l]
      BY DEF Witnessed
    <3>1. l # k /\ promised'[l] = promised[l]
      BY <2>1, <2>2 DEF Shape
    <3>2. PICK w \in Slots : /\ Reaches(l, w)
                             /\ table[probe_sequence[l][w]].value = promised[l]
      BY <2>2, <3>1 DEF Witnessed
    <3>3. probe_sequence[l][w] # p /\ probe_sequence[l][w] \in Slots
      BY <2>3, <3>1, <3>2, ProbesInRange DEF Reaches, Holds, p
    <3>4. table'[probe_sequence[l][w]] = table[probe_sequence[l][w]]
      BY <2>3, <3>3
    <3>5. Holds(l, w)'
      BY <3>2, <3>4 DEF Reaches, Holds, Live
    <3>6. \A j \in Slots : j < w =>
             table'[probe_sequence[l][j]].occupied /\ ~Holds(l, j)'
      BY <2>3, <3>2, ProbesInRange DEF Reaches, Holds, Live
    <3>7. Reaches(l, w)'
      BY <3>5, <3>6 DEF Reaches
    <3> QED BY <3>1, <3>2, <3>4, <3>7
  <2>6. PathsUnbroken'
    <3> SUFFICES ASSUME NEW s \in Slots, Live(s)'
                 PROVE  \E w \in Slots :
                            /\ probe_sequence[table'[s].key][w] = s
                            /\ \A j \in Slots : j < w =>
                                   table'[probe_sequence[table'[s].key][j]].occupied
      BY DEF PathsUnbroken
    <3>1. Live(s) /\ table'[s].key = table[s].key /\ table[s].key \in Keys
      BY <2>2, <2>3 DEF Live, Shape
    <3>2. PICK w \in Slots :
              /\ probe_sequence[table[s].key][w] = s
              /\ \A j \in Slots : j < w => table[probe_sequence[table[s].key][j]].occupied
      BY <2>2, <3>1 DEF PathsUnbroken
    <3>3. \A j \in Slots : probe_sequence[table[s].key][j] \in Slots
      BY <3>1, ProbesInRange
    <3> QED BY <2>3, <3>1, <3>2, <3>3
  <2> QED BY <2>4, <2>5, <2>6 DEF DatabaseInv
<1> QED BY <1>1, <1>2

LEMMA StepPreserves == DatabaseInv /\ [Next]_vars => DatabaseInv'
<1> SUFFICES ASSUME DatabaseInv, [Next]_vars PROVE DatabaseInv'
  OBVIOUS
<1>1. CASE UNCHANGED vars
  BY <1>1, StutterPreserves
<1>2. CASE \E k \in Keys, v \in Values : Insert(k, v)
  BY <1>2, InsertPreserves
<1>3. CASE \E k \in Keys : Remove(k)
  BY <1>3, RemovePreserves
<1> QED BY <1>1, <1>2, <1>3 DEF Next

\* The located entry is what a search returns.
LEMMA WitnessReturned == DatabaseInv => LastWriteWins
<1> SUFFICES ASSUME DatabaseInv, NEW k \in Keys, promised[k] # Absent
             PROVE  Get(k) = promised[k]
  BY DEF LastWriteWins
<1>1. PICK i \in Slots : Reaches(k, i) /\ table[probe_sequence[k][i]].value = promised[k]
  BY DEF DatabaseInv, Witnessed
<1> QED BY <1>1, ReachedIsReturned

\* The inductive invariant holds in every reachable state.
THEOREM Invariance == Spec => []DatabaseInv
<1> QED BY InitEstablishes, StepPreserves, PTL DEF Spec

\* get returns what insert stored last, whatever collides with it in between.
THEOREM LastWriteIsRead == Spec => []LastWriteWins
<1> QED BY Invariance, WitnessReturned, PTL

\* No live entry is hidden behind a slot that was never used.
THEOREM NoPathBreaks == Spec => []PathsUnbroken
<1>1. DatabaseInv => PathsUnbroken
  BY DEF DatabaseInv
<1> QED BY Invariance, <1>1, PTL

-----------------------------------------------------------------------------
(* An operation on one key leaves every other key's answer alone.          *)

\* With unbroken paths a search finds the first entry that holds the key.
LEMMA FoundIsFirst == DatabaseInv => \A k \in Keys : Found(k) = ReadProbe(k)
<1> SUFFICES ASSUME DatabaseInv, NEW k \in Keys,
                    NEW i \in ReadProbe(k), NEW j \in Slots, j < i
             PROVE  table[probe_sequence[k][j]].occupied
  BY DEF Found
<1>1. i \in Slots /\ Holds(k, i) /\ \A h \in Slots : Holds(k, h) => i <= h
  BY DEF ReadProbe, First
<1>2. probe_sequence[k][i] \in Slots
  BY <1>1, ProbesInRange
<1>3. PICK h \in Slots :
          /\ probe_sequence[k][h] = probe_sequence[k][i]
          /\ \A g \in Slots : g < h => table[probe_sequence[k][g]].occupied
  BY <1>1, <1>2 DEF DatabaseInv, PathsUnbroken, Holds
<1>4. Holds(k, h)
  BY <1>1, <1>3 DEF Holds
<1>5. j < h
  BY <1>1, <1>4 DEF Slots
<1> QED BY <1>3, <1>5

\* Two tables in which a key is held at the same probes, with the same values,
\* answer a search for it alike.
LEMMA SameAnswer ==
    ASSUME DatabaseInv, DatabaseInv', NEW l \in Keys,
           \A j \in Slots : Holds(l, j)' <=> Holds(l, j),
           \A j \in Slots : Holds(l, j) =>
               table'[probe_sequence[l][j]].value = table[probe_sequence[l][j]].value
    PROVE  Get(l)' = Get(l)
<1>1. Found(l) = ReadProbe(l)
  BY FoundIsFirst
<1>2. (\A k \in Keys : Found(k) = ReadProbe(k))'
  BY FoundIsFirst, PTL
<1>3. ReadProbe(l)' = ReadProbe(l)
  BY DEF ReadProbe, First
<1>4. Found(l)' = Found(l)
  BY <1>1, <1>2, <1>3
<1>5. CASE Found(l) = {}
  BY <1>4, <1>5 DEF Get
<1>6. CASE Found(l) # {}
  <2> DEFINE i == CHOOSE j \in Found(l) : TRUE
  <2>1. i \in Found(l)
    BY <1>6
  <2>2. i \in Slots /\ Holds(l, i)
    BY <1>1, <2>1 DEF ReadProbe, First
  <2> HIDE DEF i
  <2>3. table'[probe_sequence[l][i]].value = table[probe_sequence[l][i]].value
    BY <2>2
  <2>4. Get(l) = table[probe_sequence[l][i]].value
    BY <1>6 DEF Get, i
  <2>5. Get(l)' = table'[probe_sequence[l][i]].value
    BY <1>4, <1>6 DEF Get, i
  <2> QED BY <2>3, <2>4, <2>5
<1> QED BY <1>5, <1>6

LEMMA StepTouchesOne ==
    DatabaseInv /\ DatabaseInv' /\ [Next]_vars =>
        \A k, l \in Keys : k # l => Get(k)' = Get(k) \/ Get(l)' = Get(l)
<1> SUFFICES ASSUME DatabaseInv, DatabaseInv', [Next]_vars,
                    NEW k \in Keys, NEW l \in Keys, k # l
             PROVE  Get(k)' = Get(k) \/ Get(l)' = Get(l)
  OBVIOUS
<1>1. CASE UNCHANGED vars
  BY <1>1 DEF Get, Found, ReadProbe, First, Holds, Live, vars
<1>2. ASSUME NEW a \in Keys, NEW v \in Values, Insert(a, v), ~UNCHANGED vars,
             NEW b \in Keys, b # a
      PROVE  Get(b)' = Get(b)
  <2>1. PICK i \in WriteProbe(a) :
            table' = [table EXCEPT ![probe_sequence[a][i]] =
                         [key |-> a, value |-> v, occupied |-> TRUE, deleted |-> FALSE]]
    BY <1>2 DEF Insert
  <2> DEFINE p == probe_sequence[a][i]
  <2>2. /\ i \in Slots /\ Writable(a, i) /\ p \in Slots
        /\ table'[p] = [key |-> a, value |-> v, occupied |-> TRUE, deleted |-> FALSE]
        /\ \A s \in Slots \ {p} : table'[s] = table[s]
    BY <2>1, InsertEffect DEF DatabaseInv
  <2>3. table'[p].key = a
    BY <2>2
  <2> HIDE DEF p
  <2>4. ASSUME NEW j \in Slots
        PROVE  /\ Holds(b, j)' <=> Holds(b, j)
               /\ Holds(b, j) => table'[probe_sequence[b][j]].value
                                    = table[probe_sequence[b][j]].value
    <3>1. probe_sequence[b][j] \in Slots
      BY ProbesInRange
    <3>2. CASE probe_sequence[b][j] = p
      <4>1. ~Holds(b, j)'
        BY <1>2, <2>3, <3>2 DEF Holds
      <4>2. ~Holds(b, j)
        BY <1>2, <2>2, <3>2 DEF Holds, Live, Writable, p
      <4> QED BY <4>1, <4>2
    <3>3. CASE probe_sequence[b][j] # p
      <4>1. table'[probe_sequence[b][j]] = table[probe_sequence[b][j]]
        BY <2>2, <3>1, <3>3
      <4> QED BY <4>1 DEF Holds, Live
    <3> QED BY <3>2, <3>3
  <2> QED BY <2>4, SameAnswer
<1>3. ASSUME NEW a \in Keys, Remove(a), ~UNCHANGED vars, NEW b \in Keys, b # a
      PROVE  Get(b)' = Get(b)
  <2>1. PICK i \in Found(a) :
            table' = [table EXCEPT ![probe_sequence[a][i]].deleted = TRUE]
    BY <1>3 DEF Remove
  <2> DEFINE p == probe_sequence[a][i]
  <2>2. /\ i \in Slots /\ Holds(a, i) /\ p \in Slots
        /\ \A s \in Slots \ {p} : table'[s] = table[s]
        /\ \A s \in Slots : table'[s].key = table[s].key
    BY <2>1, RemoveEffect DEF DatabaseInv
  <2>3. table[p].key = a
    BY <2>2 DEF Holds
  <2> HIDE DEF p
  <2>4. ASSUME NEW j \in Slots
        PROVE  /\ Holds(b, j)' <=> Holds(b, j)
               /\ Holds(b, j) => table'[probe_sequence[b][j]].value
                                    = table[probe_sequence[b][j]].value
    <3>1. probe_sequence[b][j] \in Slots
      BY ProbesInRange
    <3>2. CASE probe_sequence[b][j] = p
      BY <1>3, <2>2, <2>3, <3>1, <3>2 DEF Holds
    <3>3. CASE probe_sequence[b][j] # p
      <4>1. table'[probe_sequence[b][j]] = table[probe_sequence[b][j]]
        BY <2>2, <3>1, <3>3
      <4> QED BY <4>1 DEF Holds, Live
    <3> QED BY <3>2, <3>3
  <2> QED BY <2>4, SameAnswer
<1>4. CASE Next /\ ~UNCHANGED vars
  <2>1. CASE \E a \in Keys, v \in Values : Insert(a, v)
    <3>1. PICK a \in Keys, v \in Values : Insert(a, v)
      BY <2>1
    <3> QED BY <1>2, <1>4, <3>1
  <2>2. CASE \E a \in Keys : Remove(a)
    <3>1. PICK a \in Keys : Remove(a)
      BY <2>2
    <3> QED BY <1>3, <1>4, <3>1
  <2> QED BY <1>4, <2>1, <2>2 DEF Next
<1> QED BY <1>1, <1>4

\* A step changes what get returns for at most one key, whatever the collisions.
THEOREM KeysAreIndependent == Spec => OneKeyAtATime
<1>1. DatabaseInv /\ DatabaseInv' /\ [Next]_vars =>
        [\A k, l \in Keys : k # l => Get(k)' = Get(k) \/ Get(l)' = Get(l)]_vars
  BY StepTouchesOne
<1> QED BY Invariance, <1>1, PTL DEF Spec, OneKeyAtATime

-----------------------------------------------------------------------------
(* size_ counts the live entries at least, hence never passes below zero.  *)

LiveSlots == {s \in Slots : Live(s)}

SizeInv == size \in 0 .. MaxSize /\ size >= Cardinality(LiveSlots)

LEMMA LiveFinite == IsFiniteSet(LiveSlots) /\ Cardinality(LiveSlots) \in Nat
<1>1. IsFiniteSet(Slots)
  BY FS_Interval, DatabaseAssumption DEF Slots
<1>2. IsFiniteSet(LiveSlots)
  BY <1>1, FS_Subset DEF LiveSlots
<1> QED BY <1>2, FS_CardinalityType

LEMMA SizeStep == DatabaseInv /\ SizeInv /\ [Next]_vars => SizeInv'
<1> SUFFICES ASSUME DatabaseInv, SizeInv, [Next]_vars PROVE SizeInv'
  OBVIOUS
<1>1. IsFiniteSet(LiveSlots) /\ Cardinality(LiveSlots) \in Nat
  BY LiveFinite
<1>2. CASE UNCHANGED vars
  BY <1>2 DEF SizeInv, LiveSlots, Live, vars
<1>3. ASSUME NEW k \in Keys, NEW v \in Values, Insert(k, v), ~UNCHANGED vars
      PROVE  SizeInv'
  <2>1. PICK i \in WriteProbe(k) :
            /\ size < MaxSize
            /\ table' = [table EXCEPT ![probe_sequence[k][i]] =
                            [key |-> k, value |-> v, occupied |-> TRUE, deleted |-> FALSE]]
            /\ size' = size + 1
    BY <1>3 DEF Insert
  <2> DEFINE p == probe_sequence[k][i]
  <2>2. /\ p \in Slots
        /\ table'[p] = [key |-> k, value |-> v, occupied |-> TRUE, deleted |-> FALSE]
        /\ \A s \in Slots \ {p} : table'[s] = table[s]
    BY <2>1, InsertEffect DEF DatabaseInv
  <2> HIDE DEF p
  <2>3. LiveSlots' = LiveSlots \cup {p}
    BY <2>2 DEF LiveSlots, Live
  <2> DEFINE c == Cardinality(LiveSlots \cup {p})
  <2>4. c = IF p \in LiveSlots THEN Cardinality(LiveSlots) ELSE Cardinality(LiveSlots) + 1
    BY <1>1, FS_AddElement, Zenon
  <2>5. Cardinality(LiveSlots') = c
    BY <2>3
  <2> HIDE DEF c
  <2>6. c \in Nat /\ c <= Cardinality(LiveSlots) + 1
    BY <1>1, <2>4
  <2> QED BY <1>1, <2>1, <2>5, <2>6, DatabaseAssumption DEF SizeInv
<1>4. ASSUME NEW k \in Keys, Remove(k), ~UNCHANGED vars
      PROVE  SizeInv'
  <2>1. PICK i \in Found(k) :
            /\ table' = [table EXCEPT ![probe_sequence[k][i]].deleted = TRUE]
            /\ size' = size - 1
    BY <1>4 DEF Remove
  <2> DEFINE p == probe_sequence[k][i]
  <2>2. /\ Holds(k, i) /\ p \in Slots
        /\ table'[p] = [table[p] EXCEPT !.deleted = TRUE]
        /\ \A s \in Slots \ {p} : table'[s] = table[s]
    BY <2>1, RemoveEffect DEF DatabaseInv
  <2>3. p \in LiveSlots
    BY <2>2 DEF LiveSlots, Holds
  <2>4. table[p] \in Entry
    BY <2>2 DEF DatabaseInv, Shape
  <2>5. table'[p].deleted
    BY <2>2, <2>4 DEF Entry
  <2> HIDE DEF p
  <2>6. LiveSlots' = LiveSlots \ {p}
    BY <2>2, <2>5 DEF LiveSlots, Live
  <2>7. Cardinality(LiveSlots') = Cardinality(LiveSlots) - 1
    BY <1>1, <2>3, <2>6, FS_RemoveElement
  <2>8. Cardinality(LiveSlots') \in Nat
    BY <1>1, <2>6, FS_RemoveElement, FS_CardinalityType
  <2> QED BY <1>1, <2>1, <2>7, <2>8, DatabaseAssumption DEF SizeInv
<1>5. CASE Next /\ ~UNCHANGED vars
  <2>1. CASE \E k \in Keys, v \in Values : Insert(k, v)
    BY <1>3, <1>5, <2>1
  <2>2. CASE \E k \in Keys : Remove(k)
    BY <1>4, <1>5, <2>2
  <2> QED BY <1>5, <2>1, <2>2 DEF Next
<1> QED BY <1>2, <1>5

LEMMA SizeInit == Init => SizeInv
<1> SUFFICES ASSUME Init PROVE SizeInv
  OBVIOUS
<1>1. LiveSlots = {}
  BY DEF Init, LiveSlots, Live, Fresh
<1> QED BY <1>1, FS_EmptySet, DatabaseAssumption DEF Init, SizeInv

\* size_ never falls below the number of live entries.
THEOREM SizeIsEnough == Spec => []SizeCoversLive
<1>1. SizeInv => SizeCoversLive
  BY DEF SizeInv, SizeCoversLive, LiveSlots
<1> QED BY Invariance, SizeInit, SizeStep, <1>1, PTL DEF Spec

\* The table keeps its shape, and size_, an unsigned number, never wraps.
THEOREM TypeCorrect == Spec => []TypeOK
<1>1. DatabaseInv /\ SizeInv => TypeOK
  BY DEF DatabaseInv, Shape, SizeInv, TypeOK
<1> QED BY Invariance, SizeInit, SizeStep, <1>1, PTL DEF Spec

=============================================================================
