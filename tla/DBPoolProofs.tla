---------------------------- MODULE DBPoolProofs ----------------------------
(***************************************************************************)
(* Proofs about DBPool for every finite set of threads and every initial    *)
(* size.  Exclusive follows from BooksBalance only together with the fact   *)
(* that a connection leaves the queue when it is lent, so the two are       *)
(* proved as one inductive invariant; the bound on the size then counts     *)
(* the holders.                                                             *)
(***************************************************************************)
EXTENDS DBPool, SequenceTheorems, TLAPS, FiniteSetTheorems

IInv ==
  /\ TypeOK
  /\ Exclusive
  /\ BooksBalance

LEMMA InitInv == Init => IInv
  <1> SUFFICES ASSUME Init PROVE IInv
    OBVIOUS
  <1> USE DBPoolAssumption DEF Init, Conns
  <1>1. TypeOK
    BY DEF TypeOK
  <1>2. Exclusive
    BY DEF Exclusive
  <1>3. BooksBalance
    <2>1. \A i, j \in 1..Len(available) : available[i] = available[j] => i = j
      OBVIOUS
    <2>2. Len(available) = InitialSize
      OBVIOUS
    <2>3. ASSUME NEW k \in Conns
          PROVE  k + 1 \in 1..Len(available) /\ available[k + 1] = k
      <3>1. k \in Nat /\ k + 1 \in 1..InitialSize /\ (k + 1) - 1 = k
        OBVIOUS
      <3>2. \A i \in 1..InitialSize : available[i] = i - 1
        OBVIOUS
      <3>3. available[k + 1] = (k + 1) - 1
        BY <3>1, <3>2
      <3>4. QED
        BY <3>1, <3>3, <2>2
    <2>4. Listed = Conns
      <3>1. \A i \in 1..Len(available) : available[i] \in Conns
        <4>1. available \in [1..InitialSize -> Conns]
          OBVIOUS
        <4>2. QED
          BY <2>2, <4>1
      <3>2. Listed \subseteq Conns
        BY <3>1 DEF Listed
      <3>3. Conns \subseteq Listed
        BY <2>3 DEF Listed
      <3>4. QED
        BY <3>2, <3>3
    <2>5. {held[t] : t \in Holders} = {}
      BY DEF Holders
    <2>6. QED
      BY <2>1, <2>4, <2>5 DEF BooksBalance
  <1>4. QED
    BY <1>1, <1>2, <1>3 DEF IInv

(* Lending the head of the queue. *)
LEMMA LendStep ==
  ASSUME IInv, NEW t \in Threads, held[t] = NoConn, available # <<>>, LendHead(t)
  PROVE  IInv'
  <1> DEFINE k == Head(available)
  <1> USE DBPoolAssumption
  <1>1. /\ Tail(available) \in Seq(Conns) /\ k = available[1] /\ k \in Conns
        /\ Len(available) \in Nat /\ Len(available) >= 1
        /\ Len(Tail(available)) = Len(available) - 1
        /\ \A i \in 1..Len(available) - 1 : Tail(available)[i] = available[i + 1]
    BY HeadTailProperties DEF IInv, TypeOK
  <1>2. /\ held' = [held EXCEPT ![t] = k] /\ in_use' = [in_use EXCEPT ![k] = TRUE]
        /\ available' = Tail(available) /\ size' = size
    BY DEF LendHead
  <1>3. Conns' = Conns
    BY <1>2 DEF Conns
  <1>4. TypeOK'
    BY <1>1, <1>2, <1>3 DEF IInv, TypeOK
  <1>5. \A u \in Threads : held'[u] = IF u = t THEN k ELSE held[u]
    BY <1>2 DEF IInv, TypeOK
  <1>6. \A c \in Conns : in_use'[c] = IF c = k THEN TRUE ELSE in_use[c]
    BY <1>2, <1>1 DEF IInv, TypeOK
  <1>7. k \in Listed /\ ~in_use[k]
    BY <1>1 DEF IInv, BooksBalance, Listed
  <1>8. \A u \in Threads : held[u] # k
    BY <1>1, <1>7 DEF IInv, BooksBalance, Holders, Conns
  <1>9. Exclusive'
    BY <1>5, <1>8 DEF IInv, Exclusive
  <1>10. \A i, j \in 1..Len(available') : available'[i] = available'[j] => i = j
    <2>1. \A i \in 1..Len(available') : i + 1 \in 1..Len(available)
                                        /\ available'[i] = available[i + 1]
      BY <1>1, <1>2
    <2>2. \A i, j \in 1..Len(available) : available[i] = available[j] => i = j
      BY DEF IInv, BooksBalance
    <2>3. QED
      BY <2>1, <2>2, <1>1, <1>2
  <1>11. Listed' = Listed \ {k}
    <2>1. ASSUME NEW x \in Listed' PROVE x \in Listed /\ x # k
      <3>1. PICK i \in 1..Len(available') : x = available'[i]
        BY <2>1 DEF Listed
      <3>2. x = available[i + 1] /\ i + 1 \in 1..Len(available) /\ i + 1 # 1
        BY <3>1, <1>1, <1>2
      <3>3. x # available[1]
        BY <3>2, <1>1 DEF IInv, BooksBalance
      <3>4. QED
        BY <3>2, <3>3, <1>1 DEF Listed
    <2>2. ASSUME NEW x \in Listed, x # k PROVE x \in Listed'
      <3>1. PICK i \in 1..Len(available) : x = available[i]
        BY <2>2 DEF Listed
      <3>2. i - 1 \in 1..Len(available') /\ available'[i - 1] = x
        BY <3>1, <2>2, <1>1, <1>2
      <3>3. QED
        BY <3>2 DEF Listed
    <2>3. QED
      BY <2>1, <2>2
  <1>12. Listed' = {c \in Conns' : ~in_use'[c]}
    BY <1>11, <1>3, <1>6 DEF IInv, BooksBalance
  <1>13. Holders' = Holders \cup {t}
    BY <1>5, <1>1 DEF Holders, Conns
  <1>14. {held'[u] : u \in Holders'} = {held[u] : u \in Holders} \cup {k}
    BY <1>5, <1>13 DEF Holders
  <1>15. {held'[u] : u \in Holders'} = {c \in Conns' : in_use'[c]}
    BY <1>14, <1>3, <1>6, <1>1 DEF IInv, BooksBalance
  <1>16. QED
    BY <1>4, <1>9, <1>10, <1>12, <1>15 DEF IInv, BooksBalance

(* Opening one more connection and lending it. *)
LEMMA ExpandStep ==
  ASSUME IInv, NEW t \in Threads, held[t] = NoConn, available = <<>>, Expand(t)
  PROVE  IInv'
  <1> USE DBPoolAssumption
  <1>1. /\ held' = [held EXCEPT ![t] = size]
        /\ in_use' = [c \in 0..size |-> IF c = size THEN TRUE ELSE in_use[c]]
        /\ size' = size + 1 /\ available' = <<>> /\ size \in Nat
    BY DEF Expand, IInv, TypeOK
  <1>2. Conns' = Conns \cup {size} /\ Conns' = 0..size /\ size \notin Conns
    BY <1>1 DEF Conns
  <1>3. TypeOK'
    <2>1. \A c \in Conns' : c # size => c \in Conns
      BY <1>2
    <2>2. in_use' \in [Conns' -> BOOLEAN]
      BY <1>1, <1>2, <2>1 DEF IInv, TypeOK
    <2>3. held' \in [Threads -> Conns' \cup {NoConn}]
      <3>1. held \in [Threads -> Conns \cup {NoConn}]
        BY DEF IInv, TypeOK
      <3>2. size \in Conns' /\ Conns \subseteq Conns'
        BY <1>2
      <3>3. QED
        BY <1>1, <3>1, <3>2
    <2>4. available' \in Seq(Conns')
      BY <1>1
    <2>5. QED
      BY <1>1, <2>2, <2>3, <2>4, SMTT(30) DEF TypeOK
  <1>4. \A u \in Threads : held'[u] = IF u = t THEN size ELSE held[u]
    BY <1>1 DEF IInv, TypeOK
  <1>5. \A u \in Threads : held[u] # size
    BY <1>1, <1>2 DEF IInv, TypeOK
  <1>6. Exclusive'
    BY <1>4, <1>5 DEF IInv, Exclusive
  <1>7. Listed = {} /\ Listed' = {}
    BY <1>1 DEF Listed
  <1>8. \A c \in Conns : in_use[c]
    BY <1>7 DEF IInv, BooksBalance
  <1>9. \A c \in Conns' : in_use'[c]
    BY <1>1, <1>2, <1>8
  <1>10. {held'[u] : u \in Holders'} = {held[u] : u \in Holders} \cup {size}
    <2>1. Holders' = Holders \cup {t}
      BY <1>4, <1>1 DEF Holders
    <2>2. \A u \in Holders : held'[u] = held[u]
      BY <1>4 DEF Holders
    <2>3. held'[t] = size
      BY <1>4
    <2>4. QED
      BY <2>1, <2>2, <2>3
  <1>11. {held'[u] : u \in Holders'} = {c \in Conns' : in_use'[c]}
    BY <1>10, <1>8, <1>9, <1>2 DEF IInv, BooksBalance
  <1>12. QED
    <2>1. \A i, j \in 1..Len(available') : available'[i] = available'[j] => i = j
      BY <1>1
    <2>2. Listed' = {c \in Conns' : ~in_use'[c]}
      BY <1>7, <1>9
    <2>3. QED
      BY <1>3, <1>6, <1>11, <2>1, <2>2 DEF IInv, BooksBalance

(* Returning a connection. *)
LEMMA ReleaseStep ==
  ASSUME IInv, NEW t \in Threads, Release(t)
  PROVE  IInv'
  <1> DEFINE k == held[t]
  <1> USE DBPoolAssumption
  <1>1. /\ k # NoConn /\ k \in Conns
        /\ held' = [held EXCEPT ![t] = NoConn] /\ in_use' = [in_use EXCEPT ![k] = FALSE]
        /\ available' = Append(available, k) /\ size' = size
    BY DEF Release, IInv, TypeOK
  <1>2. /\ Append(available, k) \in Seq(Conns)
        /\ Len(available) \in Nat
        /\ Len(Append(available, k)) = Len(available) + 1
        /\ \A i \in 1..Len(available) : Append(available, k)[i] = available[i]
        /\ Append(available, k)[Len(available) + 1] = k
    BY <1>1, AppendProperties DEF IInv, TypeOK
  <1>3. Conns' = Conns
    BY <1>1 DEF Conns
  <1>4. TypeOK'
    BY <1>1, <1>2, <1>3 DEF IInv, TypeOK
  <1>5. \A u \in Threads : held'[u] = IF u = t THEN NoConn ELSE held[u]
    BY <1>1 DEF IInv, TypeOK
  <1>6. \A c \in Conns : in_use'[c] = IF c = k THEN FALSE ELSE in_use[c]
    BY <1>1 DEF IInv, TypeOK
  <1>7. Exclusive'
    BY <1>5 DEF IInv, Exclusive
  <1>8. in_use[k] /\ k \notin Listed
    <2>1. k \in {held[u] : u \in Holders}
      BY <1>1 DEF Holders
    <2>2. QED
      BY <2>1, <1>1 DEF IInv, BooksBalance
  <1>9. \A i, j \in 1..Len(available') : available'[i] = available'[j] => i = j
    <2>1. \A i \in 1..Len(available) : available[i] # k
      BY <1>8 DEF Listed
    <2>2. \A i, j \in 1..Len(available) : available[i] = available[j] => i = j
      BY DEF IInv, BooksBalance
    <2>3. QED
      BY <1>1, <1>2, <2>1, <2>2
  <1>10. Listed' = Listed \cup {k}
    <2>1. \A i \in 1..Len(available') : i \in 1..Len(available) \/ i = Len(available) + 1
      BY <1>1, <1>2
    <2>2. \A i \in 1..Len(available) : i \in 1..Len(available')
                                       /\ available'[i] = available[i]
      BY <1>1, <1>2
    <2>3. /\ Len(available) + 1 \in 1..Len(available')
          /\ available'[Len(available) + 1] = k
      BY <1>1, <1>2
    <2>4. Listed' \subseteq Listed \cup {k}
      BY <2>1, <2>2, <2>3 DEF Listed
    <2>5. Listed \subseteq Listed'
      BY <2>2 DEF Listed
    <2>6. k \in Listed'
      BY <2>3 DEF Listed
    <2>7. QED
      BY <2>4, <2>5, <2>6
  <1>11. Listed' = {c \in Conns' : ~in_use'[c]}
    <2>1. Listed = {c \in Conns : ~in_use[c]}
      BY DEF IInv, BooksBalance
    <2>2. {c \in Conns' : ~in_use'[c]} = {c \in Conns : ~in_use[c]} \cup {k}
      BY <1>1, <1>3, <1>6
    <2>3. QED
      BY <1>10, <2>1, <2>2
  <1>12. Holders' = Holders \ {t}
    BY <1>5 DEF Holders
  <1>13. {held'[u] : u \in Holders'} = {held[u] : u \in Holders} \ {k}
    <2>1. \A u \in Holders' : held'[u] = held[u] /\ held[u] # k
      BY <1>5, <1>12, <1>1 DEF IInv, Exclusive, Holders
    <2>2. \A u \in Holders : held[u] # k => u \in Holders'
      BY <1>12
    <2>3. QED
      BY <2>1, <2>2, <1>12
  <1>14. {held'[u] : u \in Holders'} = {c \in Conns' : in_use'[c]}
    BY <1>13, <1>3, <1>6, <1>1 DEF IInv, BooksBalance
  <1>15. QED
    BY <1>4, <1>7, <1>9, <1>11, <1>14 DEF IInv, BooksBalance

THEOREM Invariance == Spec => []IInv
  <1>1. ASSUME IInv, [Next]_vars PROVE IInv'
    <2>1. ASSUME NEW t \in Threads, Acquire(t) PROVE IInv'
      BY <1>1, <2>1, LendStep, ExpandStep DEF Acquire
    <2>2. ASSUME NEW t \in Threads, Release(t) PROVE IInv'
      BY <1>1, <2>2, ReleaseStep
    <2>3. CASE UNCHANGED vars
      BY <1>1, <2>3 DEF vars, IInv, TypeOK, Exclusive, BooksBalance, Listed, Conns, Holders
    <2>4. QED
      BY <1>1, <2>1, <2>2, <2>3 DEF Next
  <1>2. QED
    BY InitInv, <1>1, PTL DEF Spec

(* No two threads hold one connection, for any number of threads. *)
THEOREM ConnectionsAreExclusive == Spec => []Exclusive
  BY Invariance, PTL DEF IInv

(* Queue, flags and holders agree after every sequence of calls. *)
THEOREM BooksAlwaysBalance == Spec => []BooksBalance
  BY Invariance, PTL DEF IInv

(* The pool expands only when every connection is lent, so before it does    *)
(* there are at least `size` holders beside the thread that asks.            *)
LEMMA HoldersCoverPool ==
  ASSUME IInv, NEW t \in Threads, held[t] = NoConn, available = <<>>
  PROVE  size + 1 <= Cardinality(Threads)
  <1> DEFINE f == [u \in Holders |-> held[u]]
  <1> USE DBPoolAssumption
  <1>1. Listed = {}
    BY DEF Listed
  <1>2. {held[u] : u \in Holders} = Conns
    BY <1>1 DEF IInv, BooksBalance, TypeOK
  <1>3. f \in Surjection(Holders, Conns)
    BY <1>2 DEF Surjection
  <1>4. /\ IsFiniteSet(Threads \ {t})
        /\ Cardinality(Threads \ {t}) = Cardinality(Threads) - 1
    BY FS_RemoveElement
  <1>5. Holders \in SUBSET (Threads \ {t})
    BY DEF Holders
  <1>6. IsFiniteSet(Holders) /\ Cardinality(Holders) <= Cardinality(Threads) - 1
    BY <1>4, <1>5, FS_Subset
  <1>7. Cardinality(Conns) <= Cardinality(Holders)
    BY <1>3, <1>6, FS_Surjection
  <1>8. Cardinality(Conns) = size
    <2>1. size \in Nat
      BY DEF IInv, TypeOK
    <2>2. Cardinality(0..size-1) = IF 0 > size - 1 THEN 0 ELSE size - 1 - 0 + 1
      BY <2>1, FS_Interval
    <2>3. QED
      BY <2>1, <2>2 DEF Conns
  <1>9. Cardinality(Holders) \in Nat /\ Cardinality(Threads) \in Nat /\ size \in Nat
    BY <1>6, FS_CardinalityType DEF IInv, TypeOK
  <1>10. QED
    BY <1>6, <1>7, <1>8, <1>9

(* The connections in the queue and in the threads' hands exist.             *)
THEOREM TypeCorrect == Spec => []TypeOK
  <1>1. IInv => TypeOK
    BY DEF IInv
  <1>2. QED
    BY <1>1, Invariance, PTL

(* The pool never opens more connections than the larger of its initial size *)
(* and the number of threads.                                                *)
THEOREM PoolStaysBounded == Spec => []PoolBounded
  <1>1. Init => PoolBounded
    BY DBPoolAssumption DEF Init, PoolBounded
  <1>2. ASSUME IInv, PoolBounded, [Next]_vars PROVE PoolBounded'
    <2>1. ASSUME NEW t \in Threads, held[t] = NoConn, available = <<>>, Expand(t)
          PROVE  PoolBounded'
      BY <1>2, <2>1, HoldersCoverPool DEF Expand, PoolBounded
    <2>2. ASSUME UNCHANGED size PROVE PoolBounded'
      BY <1>2, <2>2 DEF PoolBounded
    <2>3. QED
      BY <1>2, <2>1, <2>2 DEF Next, Acquire, Release, LendHead, vars
  <1>3. QED
    BY <1>1, <1>2, Invariance, PTL DEF Spec

=============================================================================
