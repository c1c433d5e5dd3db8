---------------------------- MODULE ServicesProofs ----------------------------
(***************************************************************************)
(* Proofs about Services, part by part, for every value of the constants   *)
(* that satisfies ServicesAssumption.  A part's invariant is shown to be   *)
(* one of the part by itself, from its Init and by its Next; that the      *)
(* whole takes no other steps once the part is chosen is the composition   *)
(* below, and the theorems are about the Spec of the whole.                *)
(***************************************************************************)
EXTENDS Services, SequenceTheorems, FiniteSetTheorems, WellFoundedInduction, TLAPS

-----------------------------------------------------------------------------
(* The composition: the choice stays, and the part that was chosen begins  *)
(* as it does by itself and takes its own steps only.                      *)
LEMMA ComponentStays == ASSUME [Next]_vars PROVE component' = component
<1>1. CASE UNCHANGED vars
  BY <1>1 DEF vars
<1>2. CASE Next
  BY <1>2 DEF Next, InBreaker, InCoin, InEnterprise, InWebSocket, InDemo, InStore, InNetwork
<1> QED BY <1>1, <1>2

LEMMA StoreSteps ==
  ASSUME [Next]_vars, component = "store"
  PROVE  component' = component /\ [Store!Next]_(Store!vars)
<1>1. CASE UNCHANGED vars
  BY <1>1 DEF vars, kept, Store!vars, Store!histories
<1>2. CASE Next
  BY <1>2 DEF Next, InBreaker, InCoin, InEnterprise, InWebSocket, InDemo, InStore, InNetwork,
              Store!Next
<1> QED BY <1>1, <1>2

LEMMA DemoSteps ==
  ASSUME [Next]_vars, component = "demo"
  PROVE  component' = component /\ [Demo!Next]_(Demo!vars)
<1>1. CASE UNCHANGED vars
  BY <1>1 DEF vars, demo, Demo!vars, Demo!page
<1>2. CASE Next
  BY <1>2 DEF Next, InBreaker, InCoin, InEnterprise, InWebSocket, InDemo, InStore, InNetwork,
              Demo!Next, Demo!Serve
<1> QED BY <1>1, <1>2

-----------------------------------------------------------------------------
(* The circuit breaker, alone and in the programs. *)
LEMMA BreakerSteps ==
  ASSUME [Next]_vars, component = "breaker"
  PROVE  component' = component /\ [Breaker!Next]_(Breaker!vars)
<1>1. CASE UNCHANGED vars
  BY <1>1 DEF vars, lone, Breaker!vars
<1>2. CASE Next
  BY <1>2 DEF Next, InBreaker, InCoin, InEnterprise, InWebSocket, InDemo, InStore, InNetwork,
              Breaker!Next
<1> QED BY <1>1, <1>2

BreakerInv == Breaker!TypeOK /\ Breaker!TripsAtThreshold

LEMMA BreakerInit == ASSUME Breaker!CircuitBreakerAssumption, Breaker!Init PROVE BreakerInv
  BY DEF Breaker!CircuitBreakerAssumption, Breaker!Init, BreakerInv, Breaker!TypeOK,
         Breaker!TripsAtThreshold, Breaker!States

LEMMA BreakerStep ==
  ASSUME Breaker!CircuitBreakerAssumption, BreakerInv, [Breaker!Next]_(Breaker!vars)
  PROVE  BreakerInv'
<1> USE DEF BreakerInv, Breaker!TypeOK, Breaker!TripsAtThreshold, Breaker!States,
            Breaker!CircuitBreakerAssumption
<1>1. ASSUME NEW s \in Watched, Breaker!Wait(s) PROVE BreakerInv'
  BY <1>1 DEF Breaker!Wait
<1>2. ASSUME NEW s \in Watched, Breaker!is_available(s) PROVE BreakerInv'
  BY <1>2 DEF Breaker!is_available
<1>3. ASSUME NEW s \in Watched, Breaker!record_success(s) PROVE BreakerInv'
  BY <1>3 DEF Breaker!record_success
<1>4. ASSUME NEW s \in Watched, Breaker!record_failure(s) PROVE BreakerInv'
  BY <1>4 DEF Breaker!record_failure
<1>5. CASE UNCHANGED Breaker!vars
  BY <1>5 DEF Breaker!vars
<1> QED BY <1>1, <1>2, <1>3, <1>4, <1>5 DEF Breaker!Next

(* In any order of calls, a service's breaker is closed exactly while it   *)
(* has failed fewer than failure_threshold times since its last success:   *)
(* a half-open service that fails once is open again                       *)
(* (phi_circuit_breaker.h:33-67).                                          *)
THEOREM BreakerTrips == Spec => []TripsAtThreshold
<1> DEFINE Inv == component = "breaker" => BreakerInv
<1>1. Init => Inv
  BY ServicesAssumption, BreakerInit DEF Init, ServicesAssumption
<1>2. Inv /\ [Next]_vars => Inv'
  BY ServicesAssumption, ComponentStays, BreakerSteps, BreakerStep DEF ServicesAssumption
<1>3. Inv => TripsAtThreshold
  BY DEF TripsAtThreshold, BreakerInv
<1> QED BY <1>1, <1>2, <1>3, PTL DEF Spec

LEMMA EnterpriseSteps ==
  ASSUME [Next]_vars, component = "enterprise"
  PROVE  component' = component /\ [Enterprise!Next]_(Enterprise!vars)
<1>1. CASE UNCHANGED vars
  BY <1>1 DEF vars, parts, coin, books, Enterprise!vars, Enterprise!books,
              Enterprise!coinVars
<1>2. CASE Next
  BY <1>2 DEF Next, InBreaker, InCoin, InEnterprise, InWebSocket, InDemo, InStore, InNetwork,
              Enterprise!Next, Enterprise!Handle
<1> QED BY <1>1, <1>2

Untouched == [s \in Enterprise!Services |-> [state |-> "CLOSED", failures |-> 0]]

(* main()'s place in the list. *)
Walk ==
    /\ at \in 1 .. Len(Tickets) + 1 /\ pc \in {"open", "head", "handle", "asleep"}
    /\ pc = "handle" => at <= Len(Tickets)

LEMMA List == ASSUME Enterprise!EnterpriseProgramAssumption
              PROVE  Len(Tickets) \in Nat /\ DOMAIN Tickets = 1 .. Len(Tickets)
<1>1. Tickets \in Seq([module : STRING, urgent : BOOLEAN, cost : Nat])
  BY DEF Enterprise!EnterpriseProgramAssumption
<1> QED BY <1>1

LEMMA ListItems ==
  ASSUME Enterprise!EnterpriseProgramAssumption, NEW i \in 1 .. Len(Tickets)
  PROVE  Tickets[i].cost \in Nat /\ Tickets[i].urgent \in BOOLEAN
<1>1. Tickets \in Seq([module : STRING, urgent : BOOLEAN, cost : Nat])
  BY DEF Enterprise!EnterpriseProgramAssumption
<1>2. \A S : Tickets \in Seq(S) => Tickets[i] \in S
  BY ElementOfSeq
<1>3. Tickets[i] \in [module : STRING, urgent : BOOLEAN, cost : Nat]
  BY <1>1, <1>2
<1> QED BY <1>3

LEMMA WalkInit ==
  ASSUME Enterprise!EnterpriseProgramAssumption, Enterprise!Init PROVE Walk
<1>1. at = 1 /\ pc = "open"
  BY DEF Enterprise!Init
<1> QED BY <1>1, List DEF Walk

LEMMA WalkStep ==
  ASSUME Enterprise!EnterpriseProgramAssumption, Walk, [Enterprise!Next]_(Enterprise!vars)
  PROVE  Walk'
<1> USE List DEF Walk
<1>1. CASE Enterprise!Open
  BY <1>1 DEF Enterprise!Open
<1>2. CASE Enterprise!Gate
  <2>1. pc = "head" /\ at <= Len(Tickets)
    BY <1>2 DEF Enterprise!Gate
  <2>2. \/ pc' = "head" /\ at' = at + 1
        \/ pc' = "handle" /\ at' = at
    BY <1>2 DEF Enterprise!Gate
  <2> QED BY <2>1, <2>2
<1>3. CASE Enterprise!Handled
  BY <1>3 DEF Enterprise!Handled
<1>4. CASE Enterprise!Handle
  BY <1>3, <1>4 DEF Enterprise!Handle, Enterprise!HandleCore, Enterprise!HandleVault,
     Enterprise!HandleSwarm, Enterprise!HandleAI, Enterprise!HandleCoin, Enterprise!HandleMesh
<1>5. CASE Enterprise!Report
  BY <1>5 DEF Enterprise!Report
<1>6. CASE UNCHANGED Enterprise!vars
  BY <1>6 DEF Enterprise!vars
<1> QED BY <1>1, <1>2, <1>4, <1>5, <1>6 DEF Enterprise!Next

(* What main() does with the breaker of a service that has not failed      *)
(* leaves it as it was.                                                    *)
LEMMA UntouchedStays ==
  ASSUME svc = Untouched, NEW m,
         Enterprise!Breaker!is_available(m) \/ Enterprise!Breaker!record_success(m)
  PROVE  svc' = Untouched
  BY DEF Untouched, Enterprise!Breaker!is_available, Enterprise!Breaker!record_success

LEMMA UntouchedStep ==
  ASSUME Enterprise!EnterpriseProgramAssumption, Walk, svc = Untouched,
         [Enterprise!Next]_(Enterprise!vars)
  PROVE  svc' = Untouched
<1>1. CASE Enterprise!Open
  BY <1>1 DEF Enterprise!Open
<1>2. CASE Enterprise!Gate
  <2> DEFINE m == Tickets[at].module
  <2>1. at \in DOMAIN Tickets
    BY <1>2, List DEF Enterprise!Gate, Walk
  <2>2. m \in Enterprise!Services
    BY <2>1 DEF Enterprise!Services
  <2>3. Enterprise!Breaker!Available(m)
    BY <2>2 DEF Untouched, Enterprise!Breaker!Available
  <2>4. Enterprise!Breaker!is_available(m) \/ UNCHANGED svc
    BY <1>2, <2>3 DEF Enterprise!Gate
  <2> QED BY <2>4, UntouchedStays
<1>3. ASSUME NEW dice \in BOOLEAN, Enterprise!HandleCore(dice) \/ Enterprise!HandleVault(dice)
      PROVE  svc' = Untouched
  BY <1>3, UntouchedStays
     DEF Enterprise!HandleCore, Enterprise!HandleVault, Enterprise!Succeed
<1>4. ASSUME NEW dice \in BOOLEAN, NEW roll \in BOOLEAN, Enterprise!HandleSwarm(dice, roll)
      PROVE  svc' = Untouched
  BY <1>4, UntouchedStays DEF Enterprise!HandleSwarm, Enterprise!Succeed
<1>5. ASSUME NEW dice \in BOOLEAN, NEW roll \in BOOLEAN,
             NEW response \in {"text", "no text", "empty"},
             NEW department \in Enterprise!Departments,
             Enterprise!HandleAI(dice, roll, response, department)
      PROVE  svc' = Untouched
  BY <1>5, UntouchedStays DEF Enterprise!HandleAI
<1>6. CASE Enterprise!HandleCoin
  BY <1>6 DEF Enterprise!HandleCoin
<1>7. CASE Enterprise!HandleMesh
  BY <1>7 DEF Enterprise!HandleMesh
<1>8. CASE Enterprise!Report
  BY <1>8 DEF Enterprise!Report
<1>9. CASE UNCHANGED Enterprise!vars
  BY <1>9 DEF Enterprise!vars
<1> QED
  BY <1>1, <1>2, <1>3, <1>4, <1>5, <1>6, <1>7, <1>8, <1>9
     DEF Enterprise!Next, Enterprise!Handle

(* Whatever tickets a program is given and however its dice fall, the      *)
(* breaker it asks never trips: the one call of record_failure stands      *)
(* behind is_available's own refusal (phi_enterprise.cpp:70-72).           *)
THEOREM NoBreakerTrips == Spec => []BreakerNeverTrips
<1> DEFINE Inv == component = "enterprise" => Walk /\ svc = Untouched
<1>1. Init => Inv
  BY ServicesAssumption, List
     DEF Init, Enterprise!Init, Enterprise!Breaker!Init, Untouched, Walk, ServicesAssumption
<1>2. Inv /\ [Next]_vars => Inv'
  BY ServicesAssumption, ComponentStays, EnterpriseSteps, WalkStep, UntouchedStep
     DEF ServicesAssumption
<1>3. Inv => BreakerNeverTrips
  BY DEF BreakerNeverTrips, Enterprise!BreakerNeverTrips, Untouched
<1> QED BY <1>1, <1>2, <1>3, PTL DEF Spec

-----------------------------------------------------------------------------
(* Settings.  MarkedIsWhole does not say how far load_defaults has come:   *)
(* while it runs, every earlier setting is there, or was refused.  (The    *)
(* file may be marked already, when the look for the marker was refused.)  *)
SettingsType ==
    /\ stage \in {"down", "defaults", "running"}
    /\ key \in 1 .. Len(Keys) + 2
    /\ {config, cache} \subseteq [Store!Settings -> Values \cup {"default", "true", None}]

SoFar ==
    stage = "defaults" =>
        /\ key <= Len(Keys) + 1
        /\ \A i \in DOMAIN Keys : i < key => config[Keys[i]] # None \/ Keys[i] \in unset

SettingsInv == SettingsType /\ SoFar /\ Store!MarkedIsWhole

LEMMA SettingsInit == ASSUME Store!PersistenceAssumption, Store!Init PROVE SettingsInv
<1>1. /\ stage = "down" /\ key = 1
      /\ config = [k \in Store!Settings |-> None] /\ cache = [k \in Store!Settings |-> None]
  BY DEF Store!Init
<1>2. SettingsType
  BY <1>1 DEF SettingsType, Store!PersistenceAssumption
<1>3. "initialized" \in Store!Settings /\ None # "true"
  BY DEF Store!Settings, Store!PersistenceAssumption
<1> QED BY <1>1, <1>2, <1>3 DEF SettingsInv, SoFar, Store!MarkedIsWhole

(* One write of a default keeps what was there, the marker included. *)
LEMMA DefaultStep ==
  ASSUME Store!PersistenceAssumption, SettingsInv, Store!load_defaults, key <= Len(Keys)
  PROVE  SettingsInv'
<1>1. /\ stage = "defaults" /\ key' = key + 1 /\ stage' = stage
      /\ Store!set(Keys[key], "default")
  BY DEF Store!load_defaults, SettingsInv, SettingsType, Store!PersistenceAssumption
<1>2. /\ key \in DOMAIN Keys /\ Keys[key] \in Store!Settings /\ Keys[key] # "initialized"
  BY DEF Store!PersistenceAssumption, SettingsInv, SettingsType, Store!Settings
<1>3. SettingsType'
  <2>1. cache' \in [Store!Settings -> Values \cup {"default", "true", None}]
    BY <1>1, <1>2 DEF Store!set, SettingsInv, SettingsType
  <2>2. config' \in [Store!Settings -> Values \cup {"default", "true", None}]
    BY <1>1, <1>2 DEF Store!set, SettingsInv, SettingsType
  <2> QED BY <1>1, <2>1, <2>2 DEF SettingsInv, SettingsType, Store!PersistenceAssumption
<1>4. Store!MarkedIsWhole'
  BY <1>1, <1>2 DEF Store!set, SettingsInv, SettingsType, Store!MarkedIsWhole, Store!Settings,
                    Store!PersistenceAssumption
<1>5. ASSUME NEW i \in DOMAIN Keys, i < key' PROVE config'[Keys[i]] # None \/ Keys[i] \in unset'
  <2>1. Keys[i] \in Store!Settings
    BY DEF Store!Settings
  <2>2. CASE Keys[i] = Keys[key]
    BY <1>1, <1>2, <2>1, <2>2 DEF Store!set, SettingsInv, SettingsType, Store!PersistenceAssumption
  <2>3. CASE Keys[i] # Keys[key]
    <3>1. i < key
      BY <1>1, <1>5, <2>3 DEF SettingsInv, SettingsType, Store!PersistenceAssumption
    <3> QED BY <1>1, <1>2, <2>1, <2>3, <3>1 DEF Store!set, SettingsInv, SettingsType, SoFar
  <2> QED BY <2>2, <2>3
<1> QED
  BY <1>1, <1>3, <1>4, <1>5
     DEF SettingsInv, SettingsType, SoFar, Store!PersistenceAssumption

(* The marker is written last, when every setting has had its turn. *)
LEMMA MarkerStep ==
  ASSUME Store!PersistenceAssumption, SettingsInv, Store!load_defaults, key > Len(Keys)
  PROVE  SettingsInv'
<1>1. /\ stage = "defaults" /\ key' = key + 1 /\ stage' = "running"
      /\ Store!set("initialized", "true")
  BY DEF Store!load_defaults, SettingsInv, SettingsType, Store!PersistenceAssumption
<1>2. "initialized" \in Store!Settings
  BY DEF Store!Settings
<1>3. SettingsType'
  <2>1. cache' \in [Store!Settings -> Values \cup {"default", "true", None}]
    BY <1>1, <1>2 DEF Store!set, SettingsInv, SettingsType
  <2>2. config' \in [Store!Settings -> Values \cup {"default", "true", None}]
    BY <1>1, <1>2 DEF Store!set, SettingsInv, SettingsType
  <2> QED
    BY <1>1, <2>1, <2>2 DEF SettingsInv, SettingsType, SoFar, Store!PersistenceAssumption
<1>4. ASSUME NEW k \in Store!Settings, config'["initialized"] = "true"
      PROVE  config'[k] # None \/ k \in unset'
  <2>1. \A l \in Store!Settings : l # "initialized" =>
            config'[l] = config[l] /\ (l \in unset' <=> l \in unset)
    BY <1>1 DEF Store!set, SettingsInv, SettingsType
  <2>2. CASE k = "initialized"
    BY <1>4, <2>2 DEF Store!PersistenceAssumption
  <2>3. CASE k # "initialized"
    <3>1. PICK i \in DOMAIN Keys : k = Keys[i]
      BY <2>3 DEF Store!Settings
    <3>2. i < key
      BY <3>1 DEF SettingsInv, SettingsType, Store!PersistenceAssumption
    <3> QED BY <1>1, <2>1, <2>3, <3>1, <3>2 DEF SettingsInv, SettingsType, SoFar
  <2> QED BY <2>2, <2>3
<1> QED BY <1>1, <1>3, <1>4 DEF SettingsInv, SoFar, Store!MarkedIsWhole

LEMMA SettingsStep ==
  ASSUME Store!PersistenceAssumption, SettingsInv, [Store!Next]_(Store!vars) PROVE SettingsInv'
<1> USE DEF SettingsInv, SettingsType, SoFar, Store!MarkedIsWhole
<1>1. CASE Store!Tick
  BY <1>1 DEF Store!Tick, Store!histories
<1>2. CASE Store!End
  BY <1>2 DEF Store!End
<1>3. CASE Store!Boot
  <2>1. PICK seen \in {config["initialized"], None} :
            /\ cache' = [k \in Store!Settings |-> IF k = "initialized" THEN seen ELSE None]
            /\ stage' = IF seen = "true" THEN "running" ELSE "defaults"
    BY <1>3 DEF Store!Boot
  <2>2. cache' \in [Store!Settings -> Values \cup {"default", "true", None}]
    BY <2>1 DEF Store!Settings
  <2>3. key' = 1 /\ UNCHANGED <<config, unset>> /\ stage' \in {"running", "defaults"}
    BY <1>3, <2>1 DEF Store!Boot, Store!histories
  <2> QED BY <2>2, <2>3 DEF Store!PersistenceAssumption
<1>4. CASE Store!load_defaults
  <2>1. CASE key <= Len(Keys)
    BY <1>4, <2>1, DefaultStep
  <2>2. CASE key > Len(Keys)
    BY <1>4, <2>2, MarkerStep
  <2> QED BY <2>1, <2>2 DEF Store!PersistenceAssumption
<1>5. ASSUME NEW k \in Store!Settings, Store!get(k) PROVE SettingsInv'
  <2>1. cache' \in [Store!Settings -> Values \cup {"default", "true", None}]
    BY <1>5 DEF Store!get
  <2> QED BY <1>5, <2>1 DEF Store!get, Store!histories
<1>6. ASSUME NEW k \in Store!Settings, NEW v \in Values, Store!Edit(k, v) PROVE SettingsInv'
  <2>1. /\ config' \in [Store!Settings -> Values \cup {"default", "true", None}]
        /\ config'["initialized"] = config["initialized"]
        /\ \A l \in Store!Settings : config[l] # None => config'[l] # None
    BY <1>6 DEF Store!Edit, Store!PersistenceAssumption, Store!Settings
  <2>2. UNCHANGED <<stage, key, cache, unset>>
    BY <1>6 DEF Store!Edit, Store!histories
  <2>3. \A i \in DOMAIN Keys : Keys[i] \in Store!Settings
    BY DEF Store!Settings
  <2> QED BY <2>1, <2>2, <2>3
<1>7. ASSUME NEW u \in Users, Store!login(u) \/ Store!LoginElsewhere(u) PROVE SettingsInv'
  BY <1>7 DEF Store!login, Store!LoginElsewhere
<1>8. CASE Store!OpenSession
  BY <1>8 DEF Store!OpenSession
<1>9. ASSUME NEW s \in sessions, Store!logout(s) PROVE SettingsInv'
  BY <1>9 DEF Store!logout, Store!histories
<1>10. CASE UNCHANGED Store!vars
  BY <1>10 DEF Store!vars, Store!histories
<1> QED BY <1>1, <1>2, <1>3, <1>4, <1>5, <1>6, <1>7, <1>8, <1>9, <1>10 DEF Store!Next

(* A program killed anywhere among the thirteen writes of load_defaults    *)
(* never leaves a file that says it is initialised with a setting missing, *)
(* unless a statement was refused (phi_config.h:42-58).                    *)
THEOREM DefaultsAreWhole == Spec => []MarkedIsWhole
<1> DEFINE Inv == component = "store" => SettingsInv
<1>1. Init => Inv
  BY ServicesAssumption, SettingsInit DEF Init, ServicesAssumption
<1>2. Inv /\ [Next]_vars => Inv'
  BY ServicesAssumption, ComponentStays, StoreSteps, SettingsStep DEF ServicesAssumption
<1>3. Inv => MarkedIsWhole
  BY DEF MarkedIsWhole, SettingsInv
<1> QED BY <1>1, <1>2, <1>3, PTL DEF Spec

-----------------------------------------------------------------------------
(* Sessions. *)
SessionsInv ==
    /\ clock \in 0 .. StoreSeconds
    /\ sessions \subseteq [user : Users, at : 0 .. StoreSeconds]
    /\ opening \in Users \cup {None} /\ unstored \in BOOLEAN
    /\ \A s \in sessions \ unseen : s.user = opening => ~Store!Live(s)
    /\ Store!OneLiveSession

LEMMA SessionsInit == ASSUME Store!PersistenceAssumption, Store!Init PROVE SessionsInv
<1>1. StoreSeconds \in Nat
  BY DEF Store!PersistenceAssumption
<1>2. /\ clock = 0 /\ sessions = {} /\ opening = None /\ unstored = FALSE /\ unseen = {}
      /\ given = None
  BY DEF Store!Init
<1>3. clock \in 0 .. StoreSeconds
  BY <1>1, <1>2
<1> QED BY <1>2, <1>3 DEF SessionsInv, Store!OneLiveSession

(* What expires stays expired. *)
LEMMA TickKillsOnly ==
  ASSUME Store!PersistenceAssumption, SessionsInv, Store!Tick, NEW s \in sessions, Store!Live(s)'
  PROVE  Store!Live(s)
  BY DEF Store!PersistenceAssumption, SessionsInv, Store!Tick, Store!Live

(* The SELECT leaves no live session that it has seen and does not return. *)
LEMMA LoginStep ==
  ASSUME Store!PersistenceAssumption, SessionsInv, NEW u \in Users, Store!login(u)
  PROVE  SessionsInv'
<1>1. UNCHANGED <<clock, sessions>> /\ opening = None
  BY DEF Store!login
<1>2. CASE given' \in Store!Known(u) /\ unstored' = FALSE /\ UNCHANGED <<opening, unseen>>
  BY <1>1, <1>2 DEF SessionsInv, Store!OneLiveSession, Store!Live, Store!Known
<1>3. CASE opening' = u /\ unseen' = unseen \cup Store!Known(u) /\ UNCHANGED <<given, unstored>>
  BY <1>1, <1>3 DEF SessionsInv, Store!OneLiveSession, Store!Live, Store!Known
<1> QED BY <1>2, <1>3 DEF Store!login

(* The INSERT, although the table may have changed since the SELECT. *)
LEMMA OpenStep ==
  ASSUME Store!PersistenceAssumption, SessionsInv, Store!OpenSession PROVE SessionsInv'
<1> DEFINE new == [user |-> opening, at |-> clock]
<1>1. /\ opening \in Users /\ opening' = None /\ UNCHANGED <<clock, unseen>>
      /\ given' = new
      /\ \/ sessions' = sessions \cup {new} /\ unstored' = FALSE
         \/ sessions' = sessions /\ unstored' = TRUE
  BY DEF Store!OpenSession, Store!Session, SessionsInv
<1>2. new \in [user : Users, at : 0 .. StoreSeconds] /\ new.user = opening
  BY <1>1 DEF SessionsInv
<1>3. ASSUME NEW s \in sessions' \ unseen', NEW t \in sessions' \ unseen',
             s.user = t.user, Store!Live(s)', Store!Live(t)'
      PROVE  s = t
  <2>1. Store!Live(s) /\ Store!Live(t)
    BY <1>1, <1>3 DEF Store!Live
  <2>2. s \in sessions \cup {new} /\ t \in sessions \cup {new} /\ s \notin unseen /\ t \notin unseen
    BY <1>1, <1>3
  <2> HIDE DEF new
  <2> QED BY <1>2, <1>3, <2>1, <2>2 DEF SessionsInv, Store!OneLiveSession
<1>4. given' \in sessions' \/ unstored'
  BY <1>1
<1>5. \A s \in sessions' \ unseen' : s.user # opening'
  <2>1. \A s \in sessions' : s.user \in Users
    <3>1. sessions' \subseteq sessions \cup {new}
      BY <1>1
    <3> HIDE DEF new
    <3> QED BY <1>2, <3>1 DEF SessionsInv
  <2> QED BY <1>1, <2>1 DEF Store!PersistenceAssumption
<1>6. sessions' \subseteq [user : Users, at : 0 .. StoreSeconds]
  BY <1>1, <1>2 DEF SessionsInv
<1> HIDE DEF new
<1> QED BY <1>1, <1>3, <1>4, <1>5, <1>6 DEF SessionsInv, Store!OneLiveSession

(* One that another program opens is not among those that count. *)
LEMMA ElsewhereStep ==
  ASSUME Store!PersistenceAssumption, SessionsInv, NEW u \in Users, Store!LoginElsewhere(u)
  PROVE  SessionsInv'
<1> DEFINE new == [user |-> u, at |-> clock]
<1>1. /\ UNCHANGED <<clock, opening, given, unstored>>
      /\ sessions' = sessions \cup {new} /\ unseen' = unseen \cup {new}
  BY DEF Store!LoginElsewhere, Store!Session
<1>2. new \in [user : Users, at : 0 .. StoreSeconds]
  BY DEF SessionsInv
<1>3. \A s \in sessions' \ unseen' : s \in sessions \ unseen
  BY <1>1
<1>4. sessions' \subseteq [user : Users, at : 0 .. StoreSeconds] /\ sessions \subseteq sessions'
  BY <1>1, <1>2 DEF SessionsInv
<1> HIDE DEF new
<1> QED BY <1>1, <1>3, <1>4 DEF SessionsInv, Store!OneLiveSession, Store!Live

LEMMA SessionsStep ==
  ASSUME Store!PersistenceAssumption, SessionsInv, [Store!Next]_(Store!vars) PROVE SessionsInv'
<1>1. CASE Store!Tick
  <2>1. /\ clock' \in 0 .. StoreSeconds /\ UNCHANGED <<sessions, opening, given, unstored, unseen>>
    BY <1>1 DEF Store!Tick, SessionsInv, Store!PersistenceAssumption, Store!histories
  <2>2. \A s \in sessions : Store!Live(s)' => Store!Live(s)
    BY <1>1, TickKillsOnly
  <2> QED BY <2>1, <2>2 DEF SessionsInv, Store!OneLiveSession
<1>2. CASE Store!End
  <2>1. /\ UNCHANGED <<clock, sessions, unseen>>
        /\ given' = None /\ opening' = None /\ unstored' = FALSE
    BY <1>2 DEF Store!End
  <2>2. \A s \in sessions : s.user # None
    BY DEF SessionsInv, Store!PersistenceAssumption
  <2> QED BY <2>1, <2>2 DEF SessionsInv, Store!OneLiveSession, Store!Live
<1>3. CASE Store!Boot
  BY <1>3 DEF Store!Boot, Store!histories, SessionsInv, Store!OneLiveSession, Store!Live
<1>4. CASE Store!load_defaults
  <2>1. UNCHANGED <<clock, sessions, opening, given, unstored, unseen>>
    BY <1>4 DEF Store!load_defaults
  <2> QED BY <2>1 DEF SessionsInv, Store!OneLiveSession, Store!Live
<1>5. ASSUME NEW k \in Store!Settings, Store!get(k) PROVE SessionsInv'
  BY <1>5 DEF Store!get, Store!histories, SessionsInv, Store!OneLiveSession, Store!Live
<1>6. ASSUME NEW k \in Store!Settings, NEW v \in Values, Store!Edit(k, v) PROVE SessionsInv'
  BY <1>6 DEF Store!Edit, Store!histories, SessionsInv, Store!OneLiveSession, Store!Live
<1>7. ASSUME NEW u \in Users, Store!login(u) PROVE SessionsInv'
  BY <1>7, LoginStep
<1>8. ASSUME NEW u \in Users, Store!LoginElsewhere(u) PROVE SessionsInv'
  BY <1>8, ElsewhereStep
<1>9. CASE Store!OpenSession
  BY <1>9, OpenStep
<1>10. ASSUME NEW s \in sessions, Store!logout(s) PROVE SessionsInv'
  <2>1. /\ UNCHANGED <<clock, opening, unstored, unseen>>
        /\ sessions' \in {sessions \ {s}, sessions}
        /\ given' = IF given = s THEN None ELSE given
    BY <1>10 DEF Store!logout, Store!histories
  <2> QED BY <2>1 DEF SessionsInv, Store!OneLiveSession, Store!Live
<1>11. CASE UNCHANGED Store!vars
  BY <1>11 DEF Store!vars, Store!histories, SessionsInv, Store!OneLiveSession, Store!Live
<1> QED
  BY <1>1, <1>2, <1>3, <1>4, <1>5, <1>6, <1>7, <1>8, <1>9, <1>10, <1>11 DEF Store!Next

(* Whatever is killed, refused, logged out or left to expire, of the       *)
(* sessions this program opens for a user the earlier is over when the     *)
(* next is opened, unless the SELECT that should have shown it was         *)
(* refused, and a token given out is in the table unless its insert was    *)
(* refused (phi_auth.h:20-45).                                             *)
THEOREM SessionsAreSingle == Spec => []OneLiveSession
<1> DEFINE Inv == component = "store" => SessionsInv
<1>1. Init => Inv
  BY ServicesAssumption, SessionsInit DEF Init, ServicesAssumption
<1>2. Inv /\ [Next]_vars => Inv'
  BY ServicesAssumption, ComponentStays, StoreSteps, SessionsStep DEF ServicesAssumption
<1>3. Inv => OneLiveSession
  BY DEF OneLiveSession, SessionsInv
<1> QED BY <1>1, <1>2, <1>3, PTL DEF Spec

-----------------------------------------------------------------------------
(* The demo database. *)
LEMMA Lists ==
  ASSUME Demo!DemoServerAssumption
  PROVE  /\ Len(Agents) \in Nat /\ DOMAIN Agents = 1 .. Len(Agents)
         /\ Len(Seeds) \in Nat
<1>1. Len(Agents) \in Nat /\ DOMAIN Agents = 1 .. Len(Agents)
  <2>1. Agents \in Seq(STRING)
    BY DEF Demo!DemoServerAssumption
  <2> QED BY <2>1
<1>2. Len(Seeds) \in Nat
  <2>1. PICK S : Seeds \in Seq(S)
    BY DEF Demo!DemoServerAssumption
  <2> QED BY <2>1
<1> QED BY <1>1, <1>2

-----------------------------------------------------------------------------
(* Seeding.  AgentsBeforeTickets does not say how far seedData is: while   *)
(* it runs, every agent before the row it is at has been tried, and when   *)
(* it is over all of them have; one that was tried is in the table or was  *)
(* refused.                                                                *)
Tried == agents \cup refused

SeededInv ==
    /\ row \in Nat \ {0}
    /\ proc = "seed" => \A i \in DOMAIN Agents : i < row => Agents[i] \in Tried
    /\ proc \in {"start", "serving"} => \A i \in DOMAIN Agents : Agents[i] \in Tried
    /\ Demo!AgentsBeforeTickets

LEMMA SeededInit == ASSUME Demo!DemoServerAssumption, Demo!Init PROVE SeededInv
<1>1. row = 1 /\ proc = "down" /\ tickets = <<>>
  BY DEF Demo!Init
<1>2. DOMAIN tickets = {}
  BY <1>1
<1> QED BY <1>1, <1>2 DEF SeededInv, Demo!AgentsBeforeTickets

LEMMA SeedStep == ASSUME Demo!DemoServerAssumption, SeededInv, Demo!Seed PROVE SeededInv'
<1>1. /\ proc = "seed" /\ row' = row + 1
      /\ proc' = IF row = Demo!Rows THEN "start" ELSE "seed"
  BY DEF Demo!Seed
<1>2. Len(Agents) \in Nat /\ Len(Seeds) \in Nat /\ DOMAIN Agents = 1 .. Len(Agents)
  BY Lists
<1>3. CASE row <= Len(Agents)
  <2>1. Demo!AddAgent(Agents[row])
    BY <1>3 DEF Demo!Seed
  <2>2. Tried' = Tried \cup {Agents[row]} /\ UNCHANGED tickets
    BY <2>1 DEF Demo!AddAgent, Tried
  <2>3. \A i \in DOMAIN Agents : i < row' => Agents[i] \in Tried'
    BY <1>1, <1>2, <2>2 DEF SeededInv
  <2>4. ASSUME row = Demo!Rows PROVE \A i \in DOMAIN Agents : Agents[i] \in Tried'
    <3>1. row = Len(Agents)
      <4>1. row \in Nat /\ row = Len(Agents) + Len(Seeds)
        BY <2>4 DEF Demo!Rows, SeededInv
      <4>2. Len(Agents) \in Nat /\ Len(Seeds) \in Nat /\ row <= Len(Agents)
        BY <1>2, <1>3
      <4> QED BY <4>1, <4>2
    <3>2. \A i \in DOMAIN Agents : i < row'
      BY <1>1, <1>2, <3>1
    <3> QED BY <2>3, <3>2
  <2>5. DOMAIN tickets # {} => \A i \in DOMAIN Agents : Agents[i] \in Tried'
    BY <1>1, <2>2 DEF SeededInv, Demo!AgentsBeforeTickets, Tried
  <2> QED BY <1>1, <2>2, <2>3, <2>4, <2>5 DEF SeededInv, Demo!AgentsBeforeTickets, Tried
<1>4. CASE row > Len(Agents)
  <2>1. Demo!AddTicket(row - Len(Agents))
    BY <1>2, <1>4 DEF Demo!Seed, SeededInv
  <2>2. UNCHANGED <<agents, refused>>
    BY <2>1 DEF Demo!AddTicket
  <2>3. \A i \in DOMAIN Agents : i < row
    BY <1>2, <1>4 DEF SeededInv
  <2>4. \A i \in DOMAIN Agents : Agents[i] \in Tried
    BY <1>1, <2>3 DEF SeededInv
  <2> QED BY <1>1, <2>2, <2>4 DEF SeededInv, Demo!AgentsBeforeTickets, Tried
<1> QED BY <1>2, <1>3, <1>4 DEF SeededInv

LEMMA SeededStep ==
  ASSUME Demo!DemoServerAssumption, SeededInv, [Demo!Next]_(Demo!vars) PROVE SeededInv'
<1> USE DEF SeededInv, Demo!AgentsBeforeTickets, Tried
<1>1. CASE Demo!Tick
  BY <1>1 DEF Demo!Tick
<1>2. CASE Demo!Open
  <2>1. /\ row' = 1 /\ UNCHANGED <<agents, tickets, refused>> /\ proc = "down"
        /\ proc' \in {"seed", "start"} /\ (proc' = "start" => DOMAIN tickets # {})
    BY <1>2 DEF Demo!Open
  <2>2. \A i \in DOMAIN Agents : ~(i < 1)
    BY Lists
  <2> QED BY <2>1, <2>2
<1>3. CASE Demo!Seed
  BY <1>3, SeedStep
<1>4. CASE Demo!Start
  BY <1>4 DEF Demo!Start
<1>5. CASE Demo!Kill
  BY <1>5 DEF Demo!Kill
<1>6. ASSUME NEW b \in Browsers, Demo!loadData(b) PROVE SeededInv'
  BY <1>6 DEF Demo!loadData
<1>7. ASSUME NEW b \in Browsers,
             \/ Demo!getTicketsJSON(b) \/ Demo!getQueueJSON(b) \/ Demo!getAgentsJSON(b)
      PROVE  SeededInv'
  <2>1. UNCHANGED <<proc, row, agents, tickets, refused>>
    BY <1>7 DEF Demo!getTicketsJSON, Demo!getQueueJSON, Demo!getAgentsJSON, Demo!Answer
  <2> QED BY <2>1
<1>8. ASSUME NEW b \in Browsers, Demo!createTicket(b) PROVE SeededInv'
  <2>1. proc = "serving" /\ proc' \in {"serving", "foreign"} /\ UNCHANGED <<row, agents, refused>>
    BY <1>8 DEF Demo!createTicket, Demo!Answer
  <2> QED BY <2>1
<1>9. ASSUME NEW b \in Browsers, NEW f \in Demo!Forms, Demo!Submit(b, f) PROVE SeededInv'
  BY <1>9 DEF Demo!Submit
<1>10. CASE UNCHANGED Demo!vars
  BY <1>10 DEF Demo!vars
<1> QED
  BY <1>1, <1>2, <1>3, <1>4, <1>5, <1>6, <1>7, <1>8, <1>9, <1>10 DEF Demo!Next, Demo!Serve

(* However often the program is killed while it seeds the file, and        *)
(* whichever rows are refused unseen, a file with a ticket lacks only the  *)
(* agents refused when they were last tried (phi_database_real.h:81-124):  *)
(* the order in which seedData writes is what makes its one test, for a    *)
(* ticket, sufficient for the others.                                      *)
THEOREM AgentsComeFirst == Spec => []AgentsBeforeTickets
<1> DEFINE Inv == component = "demo" => SeededInv
<1>1. Init => Inv
  BY ServicesAssumption, SeededInit DEF Init, ServicesAssumption
<1>2. Inv /\ [Next]_vars => Inv'
  BY ServicesAssumption, ComponentStays, DemoSteps, SeededStep DEF ServicesAssumption
<1>3. Inv => AgentsBeforeTickets
  BY DEF AgentsBeforeTickets, SeededInv
<1> QED BY <1>1, <1>2, <1>3, PTL DEF Spec

-----------------------------------------------------------------------------
(* Creation.  Until a text is run as a statement, a row is never removed   *)
(* nor written again: an insert with a key that is there leaves the table  *)
(* as it was.                                                              *)
Told == {None, <<"undefined">>} \cup ({"TKT"} \X Nat)

CreatedInv ==
    /\ clock \in Nat /\ told \in [Browsers -> Told] /\ form \in [Browsers -> Demo!Forms]
    /\ Demo!CreatedIsKept

Kept ==
    \A i \in DOMAIN tickets : i \in DOMAIN tickets' /\ tickets'[i] = tickets[i]

LEMMA CreatedInit == ASSUME Demo!Init PROVE CreatedInv
  BY DEF Demo!Init, CreatedInv, Demo!CreatedIsKept, Demo!Forms, Told

LEMMA InsertKeeps ==
  ASSUME NEW id, NEW status, NEW by, NEW text, Demo!Insert(id, status, by, text) PROVE Kept
  BY DEF Demo!Insert, Kept

LEMMA KeptIsEnough ==
  ASSUME CreatedInv, Kept, UNCHANGED <<told, form>>, clock' \in Nat,
         proc = "foreign" => proc' = "foreign"
  PROVE  CreatedInv'
  BY DEF CreatedInv, Demo!CreatedIsKept, Demo!Stored, Kept

\* The row that is inserted is this browser's, and its id nobody else's.
LEMMA InsertedStep ==
  ASSUME CreatedInv, NEW b \in Browsers, UNCHANGED <<proc, clock, form>>,
         <<"TKT", clock>> \notin DOMAIN tickets,
         Demo!Insert(<<"TKT", clock>>, "Open", Demo!Stored(b).by, Demo!Stored(b).text),
         told' = [told EXCEPT ![b] = <<"TKT", clock>>]
  PROVE  CreatedInv'
<1> DEFINE id == <<"TKT", clock>>
<1>1. id \in Told
  BY DEF CreatedInv, Told
<1>2. Kept
  BY InsertKeeps
<1>3. /\ id \in DOMAIN tickets' /\ tickets'[id].status = "Open"
      /\ tickets'[id].by = Demo!Stored(b).by /\ tickets'[id].text = Demo!Stored(b).text
  BY DEF Demo!Insert
<1>4. id \notin DOMAIN tickets /\ told' = [told EXCEPT ![b] = id]
  OBVIOUS
<1>5. \A c : Demo!Stored(c)' = Demo!Stored(c)
  BY DEF Demo!Stored
<1> HIDE DEF id
<1>6. told' \in [Browsers -> Told]
  BY <1>1, <1>4 DEF CreatedInv
<1>7. ASSUME proc' # "foreign", NEW c \in Browsers, told'[c] \notin {None, <<"undefined">>}
      PROVE  /\ told'[c] \in DOMAIN tickets'
             /\ tickets'[told'[c]].by = Demo!Stored(c).by
             /\ tickets'[told'[c]].text = Demo!Stored(c).text
             /\ tickets'[told'[c]].status = "Open"
             /\ \A d \in Browsers \ {c} : told'[d] # told'[c]
  <2>1. CASE c = b
    <3>1. told'[c] = id
      BY <1>4, <2>1 DEF CreatedInv
    <3>2. \A d \in Browsers \ {b} : told'[d] = told[d] /\ told[d] # id
      BY <1>4, <1>7, <3>1 DEF CreatedInv, Demo!CreatedIsKept
    <3> QED BY <1>3, <2>1, <3>1, <3>2
  <2>2. CASE c # b
    <3>1. told'[c] = told[c] /\ told[c] \in DOMAIN tickets
      BY <1>4, <1>7, <2>2 DEF CreatedInv, Demo!CreatedIsKept
    <3>2. told'[b] = id /\ told[c] # id
      BY <1>4, <3>1 DEF CreatedInv
    <3> QED BY <1>2, <1>4, <1>7, <2>2, <3>1, <3>2 DEF CreatedInv, Demo!CreatedIsKept, Kept
  <2> QED BY <2>1, <2>2
<1> QED BY <1>5, <1>6, <1>7 DEF CreatedInv, Demo!CreatedIsKept

LEMMA CreateStep ==
  ASSUME CreatedInv, NEW b \in Browsers, Demo!createTicket(b) PROVE CreatedInv'
<1>1. UNCHANGED <<clock, form>>
  BY DEF Demo!createTicket, Demo!Answer
<1>2. CASE /\ <<"TKT", clock>> \notin DOMAIN tickets /\ UNCHANGED proc
           /\ Demo!Insert(<<"TKT", clock>>, "Open", Demo!Stored(b).by, Demo!Stored(b).text)
           /\ told' = [told EXCEPT ![b] = <<"TKT", clock>>]
  BY <1>1, <1>2, InsertedStep
<1>3. CASE told' = [told EXCEPT ![b] = <<"undefined">>] /\ UNCHANGED <<proc, tickets>>
  <2>1. told' \in [Browsers -> Told]
    BY <1>3 DEF CreatedInv, Told
  <2> QED BY <1>1, <1>3, <2>1 DEF CreatedInv, Demo!CreatedIsKept, Demo!Stored
<1>4. CASE proc' = "foreign" /\ UNCHANGED told
  BY <1>1, <1>4 DEF CreatedInv, Demo!CreatedIsKept
<1> QED BY <1>2, <1>3, <1>4 DEF Demo!createTicket

LEMMA CreatedStep == ASSUME CreatedInv, [Demo!Next]_(Demo!vars) PROVE CreatedInv'
<1>1. CASE Demo!Tick
  BY <1>1, KeptIsEnough DEF Demo!Tick, Kept, Demo!page, CreatedInv
<1>2. CASE Demo!Open
  BY <1>2, KeptIsEnough DEF Demo!Open, Kept, Demo!page, CreatedInv
<1>3. CASE Demo!Seed
  <2>1. Kept
    BY <1>3, InsertKeeps DEF Demo!Seed, Demo!AddAgent, Demo!AddTicket, Kept
  <2>2. UNCHANGED <<clock, told, form>> /\ proc # "foreign"
    BY <1>3 DEF Demo!Seed, Demo!page
  <2> QED BY <2>1, <2>2, KeptIsEnough DEF CreatedInv
<1>4. CASE Demo!Start
  BY <1>4, KeptIsEnough DEF Demo!Start, Kept, Demo!page, CreatedInv
<1>5. CASE Demo!Kill
  BY <1>5, KeptIsEnough DEF Demo!Kill, Kept, CreatedInv
<1>6. ASSUME NEW b \in Browsers, Demo!loadData(b) PROVE CreatedInv'
  BY <1>6, KeptIsEnough DEF Demo!loadData, Kept, CreatedInv
<1>7. ASSUME NEW b \in Browsers,
             \/ Demo!getTicketsJSON(b) \/ Demo!getQueueJSON(b) \/ Demo!getAgentsJSON(b)
      PROVE  CreatedInv'
  <2>1. UNCHANGED <<proc, clock, tickets, told, form>>
    BY <1>7 DEF Demo!getTicketsJSON, Demo!getQueueJSON, Demo!getAgentsJSON, Demo!Answer
  <2> QED BY <2>1, KeptIsEnough DEF Kept, CreatedInv
<1>8. ASSUME NEW b \in Browsers, Demo!createTicket(b) PROVE CreatedInv'
  BY <1>8, CreateStep
<1>9. ASSUME NEW b \in Browsers, NEW f \in Demo!Forms, Demo!Submit(b, f) PROVE CreatedInv'
  \* It has been told of no ticket yet whose row its new form could belie.
  <2>1. /\ told[b] = None /\ form' = [form EXCEPT ![b] = f]
        /\ UNCHANGED <<proc, clock, tickets, told>>
    BY <1>9 DEF Demo!Submit
  <2>2. form' \in [Browsers -> Demo!Forms]
    BY <2>1 DEF CreatedInv
  <2>3. \A c \in Browsers : told[c] # None => Demo!Stored(c)' = Demo!Stored(c)
    BY <2>1 DEF CreatedInv, Demo!Stored
  <2> QED BY <2>1, <2>2, <2>3 DEF CreatedInv, Demo!CreatedIsKept
<1>10. CASE UNCHANGED Demo!vars
  BY <1>10, KeptIsEnough DEF Demo!vars, Demo!page, Kept, CreatedInv
<1> QED
  BY <1>1, <1>2, <1>3, <1>4, <1>5, <1>6, <1>7, <1>8, <1>9, <1>10 DEF Demo!Next, Demo!Serve

(* As long as no text has been run as a statement, a ticket whose id a     *)
(* browser was told is no other browser's and stays in the table as that   *)
(* browser sent it, or with the defaults if its body came late, although   *)
(* ids are seconds (phi_database_real.h:176-191).                          *)
THEOREM CreationsAreKept == Spec => []CreatedIsKept
<1> DEFINE Inv == component = "demo" => CreatedInv
<1>1. Init => Inv
  BY ServicesAssumption, CreatedInit DEF Init, ServicesAssumption
<1>2. Inv /\ [Next]_vars => Inv'
  BY ServicesAssumption, ComponentStays, DemoSteps, CreatedStep DEF ServicesAssumption
<1>3. Inv => CreatedIsKept
  BY DEF CreatedIsKept, CreatedInv
<1> QED BY <1>1, <1>2, <1>3, PTL DEF Spec

-----------------------------------------------------------------------------
(* The mesh. *)
LEMMA NetworkSteps ==
  ASSUME [Next]_vars, component = "network"
  PROVE  component' = component /\ [Network!Next]_(Network!vars)
<1>1. CASE UNCHANGED vars
  BY <1>1 DEF vars, mesh, Network!vars, Network!histories
<1>2. CASE Next
  BY <1>2 DEF Next, InBreaker, InCoin, InEnterprise, InWebSocket, InDemo, InStore, InNetwork,
              Network!Next
<1> QED BY <1>1, <1>2

Peer == [last : 0 .. MeshSeconds, online : BOOLEAN]

MeshType ==
    /\ {running, chosen, lost} \subseteq BOOLEAN
    /\ clock \in 0 .. MeshSeconds /\ round \in 0 .. MeshSeconds
    /\ peers \in Seq(Peer) /\ late \in Seq(Nat) /\ Len(late) = Len(peers)
    /\ capacity \in Nat /\ Len(peers) <= capacity
    /\ beat \in 0 .. Len(peers) /\ faded \subseteq 1 .. Len(peers)

(* FadesForGood does not say what the heartbeat thread may be about to do: *)
(* the peer it has decided on has not been sent one since it went offline; *)
(* nor that a peer stays offline because the clock does not go back.       *)
PeerFades(i) ==
    /\ peers[i].last <= clock
    /\ ~peers[i].online <=> round >= peers[i].last + Quiet
    /\ i \in faded <=> ~peers[i].online
    /\ late[i] <= IF i \in faded THEN 1 ELSE 0
    /\ beat = i /\ chosen => late[i] = 0

MeshFades == round <= clock /\ \A i \in 1 .. Len(peers) : PeerFades(i)

MeshInv == MeshType /\ MeshFades

LEMMA MeshInit == ASSUME Network!MeshAssumption, Network!Init PROVE MeshInv
<1>1. /\ peers = <<>> /\ late = <<>> /\ beat = 0 /\ capacity = 0 /\ clock = 0 /\ round = 0
      /\ faded = {}
  BY DEF Network!Init
<1>2. Len(peers) = 0 /\ Len(late) = 0 /\ peers \in Seq(Peer) /\ late \in Seq(Nat)
  BY <1>1, EmptySeq
<1>3. running = TRUE /\ chosen = FALSE /\ lost = FALSE /\ MeshSeconds \in Nat
  BY DEF Network!Init, Network!MeshAssumption
<1>4. {running, chosen, lost} \subseteq BOOLEAN
  BY <1>3
<1>5. /\ clock \in 0 .. MeshSeconds /\ round \in 0 .. MeshSeconds /\ beat \in 0 .. Len(peers)
      /\ capacity \in Nat /\ Len(peers) <= capacity /\ faded \subseteq 1 .. Len(peers)
      /\ round <= clock
  BY <1>1, <1>2, <1>3
<1>6. MeshType
  BY <1>2, <1>4, <1>5 DEF MeshType
<1> QED BY <1>2, <1>5, <1>6 DEF MeshInv, MeshFades

(* Facts of the state the steps need one by one. *)
LEMMA MeshFacts ==
  ASSUME MeshType
  PROVE  /\ Len(peers) \in Nat /\ DOMAIN peers = 1 .. Len(peers)
         /\ DOMAIN late = 1 .. Len(peers)
         /\ \A i \in 1 .. Len(peers) : peers[i] \in Peer /\ late[i] \in Nat
  BY LenProperties, ElementOfSeq DEF MeshType

LEMMA AddPeerStep ==
  ASSUME Network!MeshAssumption, MeshInv, Network!add_peer PROVE MeshInv'
<1> DEFINE new == [last |-> clock, online |-> TRUE]
<1> USE MeshFacts
<1>1. /\ peers' = Append(peers, new) /\ late' = Append(late, 0)
      /\ UNCHANGED <<running, clock, beat, chosen, round, faded>>
  BY DEF Network!add_peer
<1>2. \/ Len(peers) = capacity /\ capacity' = IF capacity = 0 THEN 1 ELSE 2 * capacity
      \/ Len(peers) # capacity /\ capacity' = capacity
  BY DEF Network!add_peer
<1>3. lost' \in BOOLEAN
  BY DEF Network!add_peer, MeshInv, MeshType
<1>4. new \in Peer
  BY DEF MeshInv, MeshType, Peer
<1>5. /\ peers' \in Seq(Peer) /\ Len(peers') = Len(peers) + 1
      /\ \A i \in 1 .. Len(peers) : peers'[i] = peers[i]
      /\ peers'[Len(peers) + 1] = new
  BY <1>1, <1>4, AppendProperties DEF MeshInv, MeshType
<1>6. /\ late' \in Seq(Nat) /\ Len(late') = Len(peers) + 1
      /\ \A i \in 1 .. Len(peers) : late'[i] = late[i]
      /\ late'[Len(peers) + 1] = 0
  BY <1>1, AppendProperties DEF MeshInv, MeshType
<1>7. capacity' \in Nat /\ Len(peers) + 1 <= capacity'
  <2>1. Len(peers) \in Nat /\ capacity \in Nat /\ Len(peers) <= capacity
    BY DEF MeshInv, MeshType
  <2> QED BY <1>2, <2>1
<1>8. beat' \in 0 .. Len(peers') /\ faded' \subseteq 1 .. Len(peers')
  BY <1>1, <1>5 DEF MeshInv, MeshType
<1>9. MeshType'
  BY <1>1, <1>3, <1>5, <1>6, <1>7, <1>8 DEF MeshInv, MeshType
<1>10. ASSUME NEW i \in 1 .. Len(peers') PROVE PeerFades(i)'
  <2>1. CASE i \in 1 .. Len(peers)
    BY <1>1, <1>5, <1>6, <2>1 DEF MeshInv, MeshFades, PeerFades
  <2>2. CASE i = Len(peers) + 1
    <3>1. peers'[i].last = clock /\ peers'[i].online = TRUE /\ late'[i] = 0
      BY <1>5, <1>6, <2>2
    <3>2. round <= clock /\ clock \in Nat /\ round \in Nat /\ Quiet \in Nat \ {0}
      BY DEF MeshInv, MeshType, MeshFades, Network!MeshAssumption
    <3>3. i \notin faded' /\ beat' # i
      BY <1>1, <2>2 DEF MeshInv, MeshType
    <3>4. UNCHANGED <<clock, round>>
      BY <1>1
    <3>5. /\ peers'[i].last <= clock' /\ late'[i] <= IF i \in faded' THEN 1 ELSE 0
          /\ ~(round' >= peers'[i].last + Quiet)
      BY <3>1, <3>2, <3>3, <3>4
    <3> QED BY <3>1, <3>3, <3>5 DEF PeerFades
  <2>3. i \in 1 .. Len(peers) \/ i = Len(peers) + 1
    BY <1>5
  <2> QED BY <2>1, <2>2, <2>3, Zenon
<1> QED BY <1>1, <1>9, <1>10 DEF MeshInv, MeshFades

LEMMA GossipStep ==
  ASSUME Network!MeshAssumption, MeshInv, Network!gossip_loop PROVE MeshInv'
<1> USE MeshFacts
<1>1. /\ peers' = [i \in DOMAIN peers |->
                      [peers[i] EXCEPT !.online = clock - peers[i].last < Quiet]]
      /\ round' = clock
      /\ faded' = faded \cup {i \in DOMAIN peers : clock - peers[i].last >= Quiet}
      /\ UNCHANGED <<running, clock, capacity, beat, chosen, lost, late>>
  BY DEF Network!gossip_loop
<1>2. \A i \in 1 .. Len(peers) :
        /\ peers'[i] \in Peer
        /\ peers'[i].last = peers[i].last
        /\ peers'[i].online <=> clock - peers[i].last < Quiet
  <2>1. TAKE i \in 1 .. Len(peers)
  <2>2. peers[i] \in [last : 0 .. MeshSeconds, online : BOOLEAN]
    BY DEF MeshInv, Peer
  <2> DEFINE near == clock - peers[i].last < Quiet
  <2>3. peers'[i] = [peers[i] EXCEPT !.online = near]
    BY <1>1 DEF MeshInv
  <2>4. near \in BOOLEAN
    OBVIOUS
  <2> HIDE DEF near
  <2>5. peers'[i].online = near /\ peers'[i].last = peers[i].last
    BY <2>2, <2>3, Zenon
  <2>6. peers'[i] \in Peer
    BY <2>2, <2>3, <2>4 DEF Peer
  <2> QED BY <2>5, <2>6 DEF near
<1>3. peers' \in [1 .. Len(peers) -> Peer]
  BY <1>1, <1>2 DEF MeshInv
<1>4. peers' \in Seq(Peer) /\ Len(peers') = Len(peers)
  BY <1>3 DEF MeshInv
<1>5. faded' \subseteq 1 .. Len(peers)
  BY <1>1 DEF MeshInv, MeshType
<1>6. MeshType'
  BY <1>1, <1>4, <1>5 DEF MeshInv, MeshType
<1>7. ASSUME NEW i \in 1 .. Len(peers') PROVE PeerFades(i)'
  <2>1. i \in 1 .. Len(peers) /\ peers[i].last \in Nat /\ clock \in Nat /\ Quiet \in Nat
        /\ late[i] \in Nat /\ round \in Nat
    BY <1>4 DEF MeshInv, MeshType, Peer, Network!MeshAssumption
  <2>2. peers'[i].last = peers[i].last /\ (peers'[i].online <=> clock - peers[i].last < Quiet)
    BY <1>2, <2>1
  <2>3. PeerFades(i) /\ round <= clock
    BY <2>1 DEF MeshInv, MeshFades
  <2>4. i \in faded' <=> i \in faded \/ clock - peers[i].last >= Quiet
    BY <1>1, <2>1 DEF MeshInv
  <2>5. i \in faded => clock - peers[i].last >= Quiet
    BY <2>1, <2>3 DEF PeerFades
  <2>6. late[i] <= 1 /\ (i \notin faded => late[i] <= 0)
    BY <2>1, <2>3 DEF PeerFades
  <2> QED BY <1>1, <2>1, <2>2, <2>3, <2>4, <2>5, <2>6 DEF PeerFades
<1> QED BY <1>1, <1>6, <1>7 DEF MeshInv, MeshFades, MeshType

LEMMA SendStep ==
  ASSUME Network!MeshAssumption, MeshInv, Network!Send PROVE MeshInv'
<1> USE MeshFacts
<1>1. beat \in 1 .. Len(peers) /\ chosen
  BY DEF Network!Send, MeshInv, MeshType
<1>2. /\ late' = [late EXCEPT ![beat] = IF peers[beat].online THEN @ ELSE @ + 1]
      /\ UNCHANGED <<running, clock, peers, capacity, lost, round, faded>>
      /\ beat' = (IF beat + 1 \in DOMAIN peers THEN beat + 1 ELSE 0) /\ chosen' = FALSE
  BY DEF Network!Send, Network!Goto
<1>3. late[beat] \in Nat /\ late[beat] = 0
  BY <1>1 DEF MeshInv, MeshFades, PeerFades
<1>4. /\ late' \in Seq(Nat) /\ Len(late') = Len(late)
      /\ \A i \in 1 .. Len(peers) : late'[i] = IF i = beat
              THEN (IF peers[beat].online THEN 0 ELSE 1) ELSE late[i]
  <2> DEFINE e == IF peers[beat].online THEN late[beat] ELSE late[beat] + 1
  <2>1. late' = [late EXCEPT ![beat] = e] /\ e = (IF peers[beat].online THEN 0 ELSE 1)
    BY <1>2, <1>3
  <2>2. e \in Nat
    BY <1>3
  <2>3. late \in Seq(Nat) /\ beat \in 1 .. Len(late) /\ Len(late) = Len(peers)
    BY <1>1 DEF MeshInv, MeshType
  <2> HIDE DEF e
  <2> QED BY <2>1, <2>2, <2>3, ExceptSeq
<1>5. beat' \in 0 .. Len(peers)
  BY <1>1, <1>2 DEF MeshInv
<1>6. MeshType'
  BY <1>2, <1>4, <1>5 DEF MeshInv, MeshType
<1>7. ASSUME NEW i \in 1 .. Len(peers') PROVE PeerFades(i)'
  <2>1. i \in 1 .. Len(peers) /\ PeerFades(i)
    BY <1>2 DEF MeshInv, MeshFades
  <2> QED BY <1>2, <1>4, <2>1 DEF PeerFades
<1> QED BY <1>2, <1>6, <1>7 DEF MeshInv, MeshFades

LEMMA MeshStep ==
  ASSUME Network!MeshAssumption, MeshInv, [Network!Next]_(Network!vars) PROVE MeshInv'
<1> USE MeshFacts DEF MeshInv
<1>1. CASE Network!Tick
  <2>1. /\ clock' = clock + 1 /\ clock' \in 0 .. MeshSeconds
        /\ UNCHANGED <<running, peers, capacity, beat, chosen, lost, round, faded, late>>
    BY <1>1 DEF Network!Tick, Network!histories, MeshType, Network!MeshAssumption
  <2>2. MeshType'
    BY <2>1 DEF MeshType
  <2>3. \A i \in 1 .. Len(peers) : peers[i].last \in Nat
    BY DEF Peer
  <2>4. clock \in Nat /\ round \in Nat
    BY DEF MeshType, Network!MeshAssumption
  <2>5. ASSUME NEW i \in 1 .. Len(peers) PROVE PeerFades(i)'
    BY <2>1, <2>3, <2>4 DEF MeshFades, PeerFades
  <2> QED BY <2>1, <2>2, <2>4, <2>5 DEF MeshFades
<1>2. CASE Network!add_peer
  BY <1>2, AddPeerStep
<1>3. CASE Network!gossip_loop
  BY <1>3, GossipStep
<1>4. CASE Network!Wake
  <2>1. /\ UNCHANGED <<running, clock, peers, capacity, lost, round, faded, late>>
        /\ chosen' = FALSE /\ beat' = IF 1 \in DOMAIN peers THEN 1 ELSE 0
    BY <1>4 DEF Network!Wake, Network!Goto, Network!histories
  <2>2. beat' \in 0 .. Len(peers)
    BY <2>1
  <2> QED BY <2>1, <2>2 DEF MeshType, MeshFades, PeerFades
<1>5. CASE Network!Look
  <2>1. /\ UNCHANGED <<running, clock, peers, capacity, lost, round, faded, late>>
        /\ beat \in 1 .. Len(peers)
    BY <1>5 DEF Network!Look, Network!histories, MeshType
  <2>2. CASE peers[beat].online
    <3>1. chosen' = TRUE /\ beat' = beat
      BY <1>5, <2>2 DEF Network!Look
    <3>2. late[beat] = 0
      BY <2>1, <2>2 DEF MeshFades, PeerFades
    <3>3. ASSUME NEW i \in 1 .. Len(peers) PROVE PeerFades(i)'
      BY <2>1, <3>1, <3>2 DEF MeshFades, PeerFades
    <3>4. MeshType'
      BY <2>1, <3>1 DEF MeshType
    <3> QED BY <2>1, <3>3, <3>4 DEF MeshFades
  <2>3. CASE ~peers[beat].online
    <3>1. chosen' = FALSE /\ beat' = IF beat + 1 \in DOMAIN peers THEN beat + 1 ELSE 0
      BY <1>5, <2>3 DEF Network!Look, Network!Goto
    <3>2. beat' \in 0 .. Len(peers)
      BY <2>1, <3>1
    <3> QED BY <2>1, <3>1, <3>2 DEF MeshType, MeshFades, PeerFades
  <2> QED BY <2>2, <2>3
<1>6. CASE Network!Send
  BY <1>6, SendStep
<1>7. CASE Network!stop
  <2>1. running' = FALSE
        /\ UNCHANGED <<clock, peers, capacity, beat, chosen, lost, round, faded, late>>
    BY <1>7 DEF Network!stop, Network!histories
  <2> QED BY <2>1 DEF MeshType, MeshFades, PeerFades
<1>8. CASE UNCHANGED Network!vars
  BY <1>8 DEF Network!vars, Network!histories, MeshType, MeshFades, PeerFades
<1> QED BY <1>1, <1>2, <1>3, <1>4, <1>5, <1>6, <1>7, <1>8 DEF Network!Next

(* Nothing is ever heard from a peer, so that it fades for good: it is     *)
(* offline from the first gossip round Quiet seconds after it was added    *)
(* and not before, never again online, and sent at most one heartbeat      *)
(* after that, the one decided on before, although the heartbeat thread    *)
(* takes no mutex (phi_network.h:53-61, 84-94).                            *)
THEOREM PeersFade == Spec => []FadesForGood
<1> DEFINE Inv == component = "network" => MeshInv
<1>1. Init => Inv
  BY ServicesAssumption, MeshInit DEF Init, ServicesAssumption
<1>2. Inv /\ [Next]_vars => Inv'
  BY ServicesAssumption, ComponentStays, NetworkSteps, MeshStep DEF ServicesAssumption
<1>3. Inv => FadesForGood
  BY MeshFacts DEF FadesForGood, Network!FadesForGood, MeshInv, MeshFades, PeerFades
<1> QED BY <1>1, <1>2, <1>3, PTL DEF Spec

-----------------------------------------------------------------------------
(* The WebSocket server. *)
LEMMA WebSocketSteps ==
  ASSUME [Next]_vars, component = "websocket"
  PROVE  component' = component /\ [WebSocket!Next]_(WebSocket!vars)
<1>1. CASE UNCHANGED vars
  BY <1>1 DEF vars, sockets, WebSocket!vars
<1>2. CASE Next
  BY <1>2 DEF Next, InBreaker, InCoin, InEnterprise, InWebSocket, InDemo, InStore, InNetwork,
              WebSocket!Next
<1> QED BY <1>1, <1>2

Links == {"away", "queued", "open", "left", "aborted", "reset"}

SocketType ==
    /\ sent \in Nat
    /\ link \in [Peers -> Links]
    /\ owner \in [Fds -> Peers \cup {Nobody, Elsewhere}]
    /\ clients \subseteq [fd : Fds, who : Peers]
    /\ thread \in {"accept", "recv", "push", "welcome"}
    /\ thread # "accept" => fd \in Fds
    /\ heard \in [Peers -> Seq(Nat)] /\ joined \in [Peers -> Nat]

(* A connection has one descriptor, from its accept on. *)
OneDescriptor ==
    /\ \A f, g \in Fds : owner[f] \in Peers /\ owner[g] = owner[f] => f = g
    /\ \A f \in Fds : owner[f] \in Peers => link[owner[f]] \notin {"away", "queued"}

Homes ==
    /\ \A c \in clients : owner[c.fd] = c.who
    /\ \A c, d \in clients : c.fd = d.fd => c = d

(* What the accept thread has in hand is not in the vector yet. *)
InHand ==
    thread \in {"recv", "push"} => owner[fd] \in Peers /\ \A c \in clients : c.fd # fd

(* Whoever is not in the vector and has not been thrown out of it has      *)
(* heard nothing; whoever is has heard every broadcast since it joined.    *)
Heard ==
    /\ \A p \in Peers : (\A c \in clients : c.who # p) /\ link[p] # "aborted" => heard[p] = <<>>
    /\ \A c \in clients : link[c.who] = "open" =>
         /\ joined[c.who] <= sent /\ Len(heard[c.who]) = sent - joined[c.who]
         /\ \A n \in 1 .. Len(heard[c.who]) : heard[c.who][n] = joined[c.who] + n

SocketInv == SocketType /\ OneDescriptor /\ Homes /\ InHand /\ Heard

LEMMA SocketInit == ASSUME WebSocket!WebSocketServerAssumption, WebSocket!Init PROVE SocketInv
<1>1. <<>> \in Seq(Nat)
  BY EmptySeq
<1>2. Nobody \notin Peers
  BY DEF WebSocket!WebSocketServerAssumption
<1> QED
  BY <1>1, <1>2
     DEF WebSocket!Init, SocketInv, SocketType, Links, OneDescriptor, Homes, InHand, Heard

(* The connections may move on, whichever they are, as long as none opens, *)
(* none is taken back before its accept and none comes back from "aborted".*)
LEMMA LinksMove ==
  ASSUME SocketInv, UNCHANGED <<sent, owner, clients, heard, joined>>,
         link' \in [Peers -> Links],
         \A p \in Peers : /\ link'[p] = "open" => link[p] = "open"
                          /\ link[p] = "aborted" => link'[p] = "aborted"
                          /\ link'[p] \in {"away", "queued"} => link[p] \in {"away", "queued"},
         thread' \in {"accept", "recv", "push", "welcome"}, thread' # "accept" => fd' \in Fds,
         InHand'
  PROVE  SocketInv'
<1>1. SocketType'
  BY DEF SocketInv, SocketType
<1>2. OneDescriptor'
  BY DEF SocketInv, SocketType, OneDescriptor
<1>3. Homes'
  BY DEF SocketInv, Homes
<1>4. Heard'
  BY DEF SocketInv, SocketType, Heard
<1> QED BY <1>1, <1>2, <1>3, <1>4 DEF SocketInv

LEMMA AcceptStep ==
  ASSUME WebSocket!WebSocketServerAssumption, SocketInv, NEW p \in Peers, NEW f \in Fds,
         WebSocket!Accept(p, f)
  PROVE  SocketInv'
<1>1. /\ link[p] = "queued" /\ owner[f] = Nobody
      /\ owner' = [owner EXCEPT ![f] = p] /\ link' = [link EXCEPT ![p] = "open"]
      /\ thread' = "recv" /\ fd' = f
      /\ UNCHANGED <<clients, sent, heard, joined>>
  BY DEF WebSocket!Accept
<1>2. Nobody \notin Peers
  BY DEF WebSocket!WebSocketServerAssumption
<1>3. \A g \in Fds : owner[g] # p
  BY <1>1 DEF SocketInv, OneDescriptor
<1>4. \A c \in clients : c.fd \in Fds /\ c.who \in Peers /\ c.fd # f /\ c.who # p
  BY <1>1, <1>2, <1>3 DEF SocketInv, SocketType, Homes
<1>5. SocketType'
  BY <1>1 DEF SocketInv, SocketType, Links
<1>6. /\ \A g \in Fds : owner'[g] = IF g = f THEN p ELSE owner[g]
      /\ \A q \in Peers : link'[q] = IF q = p THEN "open" ELSE link[q]
  BY <1>1 DEF SocketInv, SocketType
<1>7. OneDescriptor'
  BY <1>3, <1>6 DEF SocketInv, OneDescriptor
<1>8. Homes'
  BY <1>1, <1>4, <1>6 DEF SocketInv, Homes
<1>9. InHand'
  BY <1>1, <1>4, <1>6 DEF InHand
<1>10. Heard'
  BY <1>1, <1>4, <1>6 DEF SocketInv, Heard
<1> QED BY <1>5, <1>7, <1>8, <1>9, <1>10 DEF SocketInv

LEMMA PushStep ==
  ASSUME SocketInv, WebSocket!Push PROVE SocketInv'
<1> DEFINE p == owner[fd]
           new == [fd |-> fd, who |-> p]
<1>1. /\ thread = "push" /\ thread' = "welcome" /\ clients' = clients \cup {new}
      /\ joined' = [joined EXCEPT ![p] = sent]
      /\ UNCHANGED <<link, owner, fd, sent, heard>>
  BY DEF WebSocket!Push
<1>2. fd \in Fds /\ p \in Peers /\ \A c \in clients : c.fd # fd
  BY <1>1 DEF SocketInv, SocketType, InHand
<1>3. \A c \in clients : c.fd \in Fds /\ c.who \in Peers /\ c.who # p
  BY <1>2 DEF SocketInv, SocketType, OneDescriptor, Homes
<1>4. new \in [fd : Fds, who : Peers] /\ new.fd = fd /\ new.who = p
  BY <1>2
<1> HIDE DEF new
<1>5. SocketType'
  BY <1>1, <1>2, <1>4 DEF SocketInv, SocketType
<1>6. OneDescriptor' /\ InHand'
  BY <1>1 DEF SocketInv, OneDescriptor, InHand
<1>7. Homes'
  BY <1>1, <1>2, <1>4 DEF SocketInv, Homes
<1>8. Heard'
  <2>1. \A q \in Peers : joined'[q] = IF q = p THEN sent ELSE joined[q]
    BY <1>1, <1>2 DEF SocketInv, SocketType
  <2>2. link[p] = "open" => heard[p] = <<>>
    BY <1>2, <1>3 DEF SocketInv, Heard
  <2>3. sent \in Nat /\ Len(<<>>) = 0
    BY EmptySeq DEF SocketInv, SocketType
  <2>4. ASSUME NEW c \in clients', link[c.who] = "open"
        PROVE  /\ joined'[c.who] <= sent /\ Len(heard[c.who]) = sent - joined'[c.who]
               /\ \A n \in 1 .. Len(heard[c.who]) : heard[c.who][n] = joined'[c.who] + n
    <3>1. CASE c = new
      BY <1>2, <1>4, <2>1, <2>2, <2>3, <2>4, <3>1
    <3>2. CASE c \in clients
      BY <1>3, <2>1, <2>4, <3>2 DEF SocketInv, Heard
    <3> QED BY <1>1, <3>1, <3>2
  <2>5. \A q \in Peers : (\A c \in clients' : c.who # q) => \A c \in clients : c.who # q
    BY <1>1
  <2> QED BY <1>1, <2>4, <2>5 DEF SocketInv, Heard
<1> QED BY <1>5, <1>6, <1>7, <1>8 DEF SocketInv

LEMMA BroadcastStep ==
  ASSUME WebSocket!WebSocketServerAssumption, SocketInv, WebSocket!Broadcast PROVE SocketInv'
<1>1. /\ sent' = sent + 1 /\ clients' = {c \in clients : link[c.who] # "aborted"}
      /\ UNCHANGED <<thread, fd, joined>>
  BY DEF WebSocket!Broadcast, WebSocket!Gone
<1>2. /\ owner' = [f \in Fds |-> IF \E c \in clients : c.fd = f /\ link[c.who] = "aborted"
                                 THEN Nobody ELSE owner[f]]
      /\ heard' = [p \in Peers |-> IF link[p] = "open" /\ \E c \in clients : c.who = p
                                   THEN Append(heard[p], sent + 1) ELSE heard[p]]
      /\ link' = [p \in Peers |-> IF link[p] = "left" /\ \E c \in clients : c.who = p
                                  THEN "reset" ELSE link[p]]
  BY <1>1 DEF WebSocket!Broadcast, WebSocket!Gone
<1>3. sent \in Nat /\ Nobody \notin Peers
  BY DEF SocketInv, SocketType, WebSocket!WebSocketServerAssumption
<1>4. ASSUME NEW p \in Peers
      PROVE  /\ link'[p] \in Links
             /\ link'[p] = "open" <=> link[p] = "open"
             /\ link'[p] = "aborted" <=> link[p] = "aborted"
             /\ link'[p] \in {"away", "queued"} => link'[p] = link[p]
  BY <1>2 DEF SocketInv, SocketType, Links
<1>5. \A f \in Fds : owner'[f] \in Peers => owner'[f] = owner[f]
  BY <1>2, <1>3
<1>6. \A c \in clients : c \in [fd : Fds, who : Peers] /\ c.fd \in Fds /\ c.who \in Peers
  BY DEF SocketInv, SocketType
<1>7. ASSUME NEW p \in Peers
      PROVE  /\ heard[p] \in Seq(Nat) /\ Append(heard[p], sent + 1) \in Seq(Nat)
             /\ Len(heard[p]) \in Nat
             /\ Len(Append(heard[p], sent + 1)) = Len(heard[p]) + 1
             /\ \A n \in 1 .. Len(heard[p]) : Append(heard[p], sent + 1)[n] = heard[p][n]
             /\ Append(heard[p], sent + 1)[Len(heard[p]) + 1] = sent + 1
  <2>1. heard[p] \in Seq(Nat) /\ sent + 1 \in Nat
    BY <1>3 DEF SocketInv, SocketType
  <2> QED BY <2>1, AppendProperties, LenProperties
<1>8. SocketType'
  <2>1. owner' \in [Fds -> Peers \cup {Nobody, Elsewhere}]
    BY <1>2 DEF SocketInv, SocketType
  <2>2. heard' \in [Peers -> Seq(Nat)]
    BY <1>2, <1>7
  <2>3. link' \in [Peers -> Links]
    BY <1>2, <1>4
  <2> QED BY <1>1, <1>3, <2>1, <2>2, <2>3 DEF SocketInv, SocketType
<1>9. OneDescriptor'
  BY <1>4, <1>5 DEF SocketInv, OneDescriptor
<1>10. Homes'
  <2>1. ASSUME NEW c \in clients' PROVE owner'[c.fd] = c.who
    <3>1. c \in clients /\ link[c.who] # "aborted" /\ owner[c.fd] = c.who
      BY <1>1 DEF SocketInv, Homes
    <3>2. \A d \in clients : d.fd = c.fd => link[d.who] # "aborted"
      BY <3>1 DEF SocketInv, Homes
    <3> QED BY <1>2, <1>6, <3>1, <3>2
  <2> QED BY <1>1, <2>1 DEF SocketInv, Homes
<1>11. InHand'
  <2>1. SUFFICES ASSUME thread \in {"recv", "push"}
                 PROVE  owner'[fd] \in Peers /\ \A c \in clients' : c.fd # fd
    BY <1>1 DEF InHand
  <2>2. fd \in Fds /\ owner[fd] \in Peers /\ \A c \in clients : c.fd # fd
    BY <2>1 DEF SocketInv, SocketType, InHand
  <2> QED BY <1>1, <1>2, <2>2
<1>12. Heard'
  <2>1. ASSUME NEW p \in Peers, \A c \in clients' : c.who # p, link'[p] # "aborted"
        PROVE  heard'[p] = <<>>
    <3>1. link[p] # "aborted"
      BY <1>4, <2>1
    <3>2. \A c \in clients : c.who # p
      BY <1>1, <2>1, <3>1
    <3> QED BY <1>2, <3>1, <3>2 DEF SocketInv, Heard
  <2>2. ASSUME NEW c \in clients', link'[c.who] = "open"
        PROVE  /\ joined'[c.who] <= sent' /\ Len(heard'[c.who]) = sent' - joined'[c.who]
               /\ \A n \in 1 .. Len(heard'[c.who]) : heard'[c.who][n] = joined'[c.who] + n
    <3> DEFINE p == c.who
    <3>1. c \in clients /\ p \in Peers /\ link[p] = "open"
      BY <1>1, <1>4, <1>6, <2>2
    <3>2. /\ joined[p] <= sent /\ Len(heard[p]) = sent - joined[p]
          /\ \A n \in 1 .. Len(heard[p]) : heard[p][n] = joined[p] + n
      BY <3>1 DEF SocketInv, Heard
    <3>3. heard'[p] = Append(heard[p], sent + 1)
      BY <1>2, <3>1
    <3>4. joined[p] \in Nat /\ joined'[p] = joined[p]
      BY <1>1, <3>1 DEF SocketInv, SocketType
    <3> HIDE DEF p
    <3>5. Len(heard'[p]) = Len(heard[p]) + 1 /\ Len(heard[p]) + 1 = sent + 1 - joined[p]
      BY <1>3, <1>7, <3>1, <3>2, <3>3, <3>4
    <3>6. ASSUME NEW n \in 1 .. Len(heard[p]) + 1
          PROVE  Append(heard[p], sent + 1)[n] = joined[p] + n
      <4>1. CASE n \in 1 .. Len(heard[p])
        BY <1>7, <3>1, <3>2, <4>1
      <4>2. CASE n = Len(heard[p]) + 1
        BY <1>3, <1>7, <3>1, <3>2, <3>4, <4>2
      <4> QED BY <1>7, <3>1, <4>1, <4>2
    <3>7. joined[p] <= sent + 1
      BY <1>3, <3>2, <3>4
    <3>8. \A n \in 1 .. Len(heard'[p]) : heard'[p][n] = joined[p] + n
      BY <3>3, <3>5, <3>6
    <3>9. Len(heard'[p]) = sent + 1 - joined[p]
      BY <3>5
    <3>10. sent' = sent + 1 /\ joined'[p] = joined[p]
      BY <1>1, <3>4
    <3>11. joined'[p] <= sent'
      BY <3>7, <3>10
    <3>12. Len(heard'[p]) = sent' - joined'[p]
      <4>1. sent' - joined'[p] = sent + 1 - joined[p]
        BY <1>3, <3>4, <3>10, SMT
      <4> QED BY <3>9, <4>1
    <3>13. \A n \in 1 .. Len(heard'[p]) : heard'[p][n] = joined'[p] + n
      <4>1. TAKE n \in 1 .. Len(heard'[p])
      <4>2. heard'[p][n] = joined[p] + n
        BY <3>8
      <4>3. joined'[p] + n = joined[p] + n
        BY <3>10
      <4> QED BY <4>2, <4>3
    <3> QED BY <3>11, <3>12, <3>13 DEF p
  <2> QED BY <2>1, <2>2 DEF Heard
<1> QED BY <1>8, <1>9, <1>10, <1>11, <1>12 DEF SocketInv

LEMMA SocketStep ==
  ASSUME WebSocket!WebSocketServerAssumption, SocketInv, [WebSocket!Next]_(WebSocket!vars)
  PROVE  SocketInv'
<1>1. ASSUME NEW p \in Peers, WebSocket!Connect(p) PROVE SocketInv'
  BY <1>1, LinksMove DEF WebSocket!Connect, SocketInv, SocketType, InHand, Links
<1>2. ASSUME NEW p \in Peers, NEW what, WebSocket!Ask(p, what) PROVE SocketInv'
  BY <1>2, LinksMove DEF WebSocket!Ask, SocketInv, SocketType, InHand
<1>3. ASSUME NEW p \in Peers, NEW how \in {"left", "aborted"}, WebSocket!Leave(p, how)
      PROVE  SocketInv'
  BY <1>3, LinksMove DEF WebSocket!Leave, SocketInv, SocketType, InHand, Links
<1>4. ASSUME NEW f \in Fds, WebSocket!Borrow(f) PROVE SocketInv'
  <2>1. /\ owner[f] \in {Nobody, Elsewhere}
        /\ owner' = [owner EXCEPT ![f] = IF @ = Nobody THEN Elsewhere ELSE Nobody]
        /\ UNCHANGED <<link, clients, thread, fd, sent, heard, joined>>
    BY <1>4 DEF WebSocket!Borrow
  <2>2. Nobody \notin Peers /\ Elsewhere \notin Peers
    BY DEF WebSocket!WebSocketServerAssumption
  <2>3. /\ SocketType' /\ owner'[f] \notin Peers
        /\ \A g \in Fds \ {f} : owner'[g] = owner[g]
    BY <2>1, <2>2 DEF SocketInv, SocketType
  <2>4. \A c \in clients : c.fd \in Fds /\ c.fd # f
    BY <2>1, <2>2 DEF SocketInv, SocketType, Homes
  <2>5. OneDescriptor'
    BY <2>1, <2>3 DEF SocketInv, OneDescriptor
  <2>6. Homes' /\ Heard'
    BY <2>1, <2>3, <2>4 DEF SocketInv, Homes, Heard
  <2>7. InHand'
    BY <2>1, <2>2, <2>3 DEF SocketInv, SocketType, InHand
  <2> QED BY <2>3, <2>5, <2>6, <2>7 DEF SocketInv
<1>5. ASSUME NEW p \in Peers, NEW f \in Fds, WebSocket!Accept(p, f) PROVE SocketInv'
  BY <1>5, AcceptStep
<1>6. CASE WebSocket!Recv
  <2> DEFINE p == owner[fd]
  <2>1. /\ thread = "recv" /\ UNCHANGED <<owner, clients, sent, heard, joined>>
        /\ \/ thread' = "push" /\ UNCHANGED fd
              /\ link' = [link EXCEPT ![p] = IF @ = "left" THEN "reset" ELSE @]
           \/ thread' = "accept" /\ UNCHANGED link
    BY <1>6 DEF WebSocket!Recv
  <2>2. fd \in Fds /\ p \in Peers
    BY <2>1 DEF SocketInv, SocketType, InHand
  <2>3. InHand' /\ (thread' # "accept" => fd' \in Fds)
    BY <2>1, <2>2 DEF SocketInv, InHand
  <2> QED BY <2>1, <2>2, <2>3, LinksMove DEF SocketInv, SocketType, Links
<1>7. CASE WebSocket!Push
  BY <1>7, PushStep
<1>8. CASE WebSocket!Welcome
  <2> DEFINE p == owner[fd]
  <2>1. /\ thread' = "accept" /\ UNCHANGED <<owner, clients, sent, heard, joined>>
        /\ \/ link' = [link EXCEPT ![p] = IF @ = "left" THEN "reset" ELSE @]
           \/ UNCHANGED link
    BY <1>8 DEF WebSocket!Welcome
  <2>2. InHand'
    BY <2>1 DEF InHand
  <2> QED BY <2>1, <2>2, LinksMove DEF SocketInv, SocketType, Links
<1>9. CASE WebSocket!Broadcast
  BY <1>9, BroadcastStep
<1>10. CASE UNCHANGED WebSocket!vars
  BY <1>10 DEF WebSocket!vars, SocketInv, SocketType, OneDescriptor, Homes, InHand, Heard
<1> QED
  BY <1>1, <1>2, <1>3, <1>4, <1>5, <1>6, <1>7, <1>8, <1>9, <1>10 DEF WebSocket!Next

(* However descriptor numbers are closed and handed out again, to this     *)
(* server or to another part of the process, what is in the vector is the  *)
(* client it was put there for (phi_websocket.h:119-139).                  *)
THEOREM FramesReachTheirClient == Spec => []FramesGoHome
<1> DEFINE Inv == component = "websocket" => SocketInv
<1>1. Init => Inv
  BY ServicesAssumption, SocketInit DEF Init, ServicesAssumption
<1>2. Inv /\ [Next]_vars => Inv'
  BY ServicesAssumption, ComponentStays, WebSocketSteps, SocketStep DEF ServicesAssumption
<1>3. Inv => FramesGoHome
  BY DEF FramesGoHome, WebSocket!FramesGoHome, SocketInv, Homes
<1> QED BY <1>1, <1>2, <1>3, PTL DEF Spec

(* A client that stays hears every broadcast since it entered the vector,  *)
(* in order and once, whoever else comes and goes (phi_websocket.h:119-    *)
(* 139).                                                                   *)
THEOREM StayersHearAll == Spec => []NoUpdateMissed
<1> DEFINE Inv == component = "websocket" => SocketInv
<1>1. Init => Inv
  BY ServicesAssumption, SocketInit DEF Init, ServicesAssumption
<1>2. Inv /\ [Next]_vars => Inv'
  BY ServicesAssumption, ComponentStays, WebSocketSteps, SocketStep DEF ServicesAssumption
<1>3. Inv => NoUpdateMissed
  <2>1. ASSUME SocketInv, NEW c \in clients, link[c.who] = "open"
        PROVE  heard[c.who] = [n \in 1 .. sent - joined[c.who] |-> joined[c.who] + n]
    <3>1. c.who \in Peers /\ heard[c.who] \in Seq(Nat)
      BY <2>1 DEF SocketInv, SocketType
    <3>2. heard[c.who] \in [1 .. Len(heard[c.who]) -> Nat]
      BY <3>1, LenProperties
    <3>3. /\ Len(heard[c.who]) = sent - joined[c.who]
          /\ \A n \in 1 .. Len(heard[c.who]) : heard[c.who][n] = joined[c.who] + n
      BY <2>1 DEF SocketInv, Heard
    <3> QED BY <3>2, <3>3
  <2> QED BY <2>1 DEF NoUpdateMissed, WebSocket!NoUpdateMissed
<1> QED BY <1>1, <1>2, <1>3, PTL DEF Spec

-----------------------------------------------------------------------------
(* What the enterprise programs count and record. *)

\* What is recorded in the ledgers of the programs.
Entries == {"SYSTEM_START", "BATCH_START", "BATCH_END", "TICKET_PROCESSED", "SWARM_INIT",
            "SWARM_TASK", "GRC_INIT", "GRC_PAYMENT", "MESH_INIT", "MESH_TXN", "none"}

LEMMA Texts ==
  /\ <<>> \in Seq(Entries)
  /\ <<"SYSTEM_START", "BATCH_START">> \in Seq(Entries) /\ <<"BATCH_END">> \in Seq(Entries)
  /\ <<"SWARM_INIT">> \in Seq(Entries) /\ <<"GRC_INIT">> \in Seq(Entries)
  /\ <<"MESH_INIT">> \in Seq(Entries)
<1>1. /\ "SYSTEM_START" \in Entries /\ "BATCH_START" \in Entries /\ "BATCH_END" \in Entries
      /\ "SWARM_INIT" \in Entries /\ "GRC_INIT" \in Entries /\ "MESH_INIT" \in Entries
  BY DEF Entries
<1>2. /\ <<>> \in Seq(Entries)
      /\ \A e, f \in Entries : <<e>> \in Seq(Entries) /\ <<e, f>> \in Seq(Entries)
  OBVIOUS
<1> QED BY <1>1, <1>2

\* What the eight programs have in common.
LEMMA Kinds ==
  ASSUME Enterprise!EnterpriseProgramAssumption, program \in Programs
  PROVE  /\ program.engine \in {"core", "vault", "ai", "swarm", "coin", "mesh"}
         /\ Enterprise!Ledgered => program.engine \in {"core", "swarm", "coin", "mesh"}
         /\ program.engine \in {"coin", "mesh"} <=> Enterprise!Mines
         /\ program.broadcasts => program.engine \in {"ai", "swarm"}
         /\ program.opening \in Seq(Entries) /\ program.closing \in Seq(Entries)
         /\ program.entry \in Entries /\ program.mined \in Nat /\ program.wallets \in Nat
         /\ program.engine = "coin" => program.wallets = 3
<1> USE DEF Enterprise!Plain, Enterprise!Ledgered, Enterprise!Mines
<1>0. program \in {Enterprise!v1, Enterprise!v2, Enterprise!v3, Enterprise!v4, Enterprise!v5,
                   Enterprise!v6, Enterprise!v7, Enterprise!v8}
  BY DEF Enterprise!EnterpriseProgramAssumption
<1>1. CASE program = Enterprise!v1
  <2>1. /\ program.engine = "core" /\ program.entry = "none" /\ ~program.broadcasts
        /\ program.opening = <<>> /\ program.closing = <<>>
        /\ program.wallets = 0 /\ program.mined = 0
    BY <1>1 DEF Enterprise!v1
  <2>2. program.opening \in Seq(Entries) /\ program.closing \in Seq(Entries)
    BY <2>1, Texts
  <2>3. program.entry \in Entries
    BY <2>1 DEF Entries
  <2> QED BY <2>1, <2>2, <2>3
<1>2. CASE program = Enterprise!v2
  <2>1. /\ program.engine = "core" /\ program.entry = "TICKET_PROCESSED" /\ ~program.broadcasts
        /\ program.opening = <<"SYSTEM_START", "BATCH_START">> /\ program.closing = <<"BATCH_END">>
        /\ program.wallets = 0 /\ program.mined = 0
    BY <1>2 DEF Enterprise!v2
  <2>2. program.opening \in Seq(Entries) /\ program.closing \in Seq(Entries)
    BY <2>1, Texts
  <2>3. program.entry \in Entries
    BY <2>1 DEF Entries
  <2> QED BY <2>1, <2>2, <2>3
<1>3. CASE program = Enterprise!v3
  <2>1. /\ program.engine = "vault" /\ program.entry = "none" /\ ~program.broadcasts
        /\ program.opening = <<>> /\ program.closing = <<>>
        /\ program.wallets = 0 /\ program.mined = 0
    BY <1>3 DEF Enterprise!v3
  <2>2. program.opening \in Seq(Entries) /\ program.closing \in Seq(Entries)
    BY <2>1, Texts
  <2>3. program.entry \in Entries
    BY <2>1 DEF Entries
  <2> QED BY <2>1, <2>2, <2>3
<1>4. CASE program = Enterprise!v4
  <2>1. /\ program.engine = "ai" /\ program.entry = "none" /\ ~program.broadcasts
        /\ program.opening = <<>> /\ program.closing = <<>>
        /\ program.wallets = 0 /\ program.mined = 0
    BY <1>4 DEF Enterprise!v4
  <2>2. program.opening \in Seq(Entries) /\ program.closing \in Seq(Entries)
    BY <2>1, Texts
  <2>3. program.entry \in Entries
    BY <2>1 DEF Entries
  <2> QED BY <2>1, <2>2, <2>3
<1>5. CASE program = Enterprise!v5
  <2>1. /\ program.engine = "ai" /\ program.entry = "none" /\ program.broadcasts
        /\ program.opening = <<>> /\ program.closing = <<>>
        /\ program.wallets = 0 /\ program.mined = 0
    BY <1>5 DEF Enterprise!v5
  <2>2. program.opening \in Seq(Entries) /\ program.closing \in Seq(Entries)
    BY <2>1, Texts
  <2>3. program.entry \in Entries
    BY <2>1 DEF Entries
  <2> QED BY <2>1, <2>2, <2>3
<1>6. CASE program = Enterprise!v6
  <2>1. /\ program.engine = "swarm" /\ program.entry = "SWARM_TASK" /\ program.broadcasts
        /\ program.opening = <<"SWARM_INIT">> /\ program.closing = <<>>
        /\ program.wallets = 0 /\ program.mined = 0
    BY <1>6 DEF Enterprise!v6
  <2>2. program.opening \in Seq(Entries) /\ program.closing \in Seq(Entries)
    BY <2>1, Texts
  <2>3. program.entry \in Entries
    BY <2>1 DEF Entries
  <2> QED BY <2>1, <2>2, <2>3
<1>7. CASE program = Enterprise!v7
  <2>1. /\ program.engine = "coin" /\ program.entry = "GRC_PAYMENT" /\ ~program.broadcasts
        /\ program.opening = <<"GRC_INIT">> /\ program.closing = <<>>
        /\ program.wallets = 3 /\ program.mined = 5
    BY <1>7 DEF Enterprise!v7
  <2>2. program.opening \in Seq(Entries) /\ program.closing \in Seq(Entries)
    BY <2>1, Texts
  <2>3. program.entry \in Entries
    BY <2>1 DEF Entries
  <2> QED BY <2>1, <2>2, <2>3
<1>8. CASE program = Enterprise!v8
  <2>1. /\ program.engine = "mesh" /\ program.entry = "MESH_TXN" /\ ~program.broadcasts
        /\ program.opening = <<"MESH_INIT">> /\ program.closing = <<>>
        /\ program.wallets = 1 /\ program.mined = 0
    BY <1>8 DEF Enterprise!v8
  <2>2. program.opening \in Seq(Entries) /\ program.closing \in Seq(Entries)
    BY <2>1, Texts
  <2>3. program.entry \in Entries
    BY <2>1 DEF Entries
  <2> QED BY <2>1, <2>2, <2>3
<1> QED BY <1>0, <1>1, <1>2, <1>3, <1>4, <1>5, <1>6, <1>7, <1>8

(* Appending an entry to a sequence adds one to those of a kind when it is *)
(* of that kind.                                                           *)
Hits(s, T) == {i \in DOMAIN s : s[i] \in T}

LEMMA HitsOfAppend ==
  ASSUME NEW S, NEW s \in Seq(S), NEW e \in S, NEW T
  PROVE  /\ Cardinality(Hits(s, T)) \in Nat
         /\ Cardinality(Hits(Append(s, e), T)) =
               IF e \in T THEN Cardinality(Hits(s, T)) + 1 ELSE Cardinality(Hits(s, T))
<1> DEFINE n == Len(s)
           t == Append(s, e)
<1>1. n \in Nat /\ DOMAIN s = 1 .. n
  BY LenProperties
<1>2. /\ t \in Seq(S) /\ Len(t) = n + 1 /\ t[n + 1] = e
      /\ \A i \in 1 .. n : t[i] = s[i]
  BY AppendProperties
<1>3. DOMAIN t = 1 .. n + 1
  BY <1>2, LenProperties
<1> HIDE DEF n, t
<1>4. 1 .. n + 1 = 1 .. n \cup {n + 1} /\ n + 1 \notin 1 .. n
  BY <1>1
<1>5. Hits(t, T) = IF e \in T THEN Hits(s, T) \cup {n + 1} ELSE Hits(s, T)
  BY <1>1, <1>2, <1>3, <1>4 DEF Hits
<1>6. n + 1 \notin Hits(s, T)
  BY <1>1, <1>4 DEF Hits
<1>7. IsFiniteSet(Hits(s, T))
  <2>1. IsFiniteSet(1 .. n) /\ Hits(s, T) \subseteq 1 .. n
    BY <1>1, FS_Interval DEF Hits
  <2> QED BY <2>1, FS_Subset
<1>8. /\ Cardinality(Hits(s, T)) \in Nat
      /\ Cardinality(Hits(s, T) \cup {n + 1}) = Cardinality(Hits(s, T)) + 1
  BY <1>6, <1>7, FS_CardinalityType, FS_AddElement
<1> QED BY <1>5, <1>8 DEF t

(* A ledger that repeats an entry after what it opens with. *)
Repeat(n, entry) == [i \in 1 .. n |-> entry]
Ledger(open, n, entry) == open \o Repeat(n, entry)

LEMMA Repeated ==
  ASSUME NEW S, NEW n \in Nat, NEW entry \in S
  PROVE  Repeat(n, entry) \in Seq(S) /\ Len(Repeat(n, entry)) = n
<1> DEFINE r == Repeat(n, entry)
<1>1. r \in [1 .. n -> S]
  BY DEF Repeat
<1>2. r \in Seq(S)
  BY <1>1, SeqDef
<1>3. Len(r) \in Nat /\ DOMAIN r = 1 .. Len(r) /\ DOMAIN r = 1 .. n
  BY <1>1, <1>2, LenProperties
<1> HIDE DEF r
<1>4. Len(r) = n
  <2>1. \A i \in Int : i \in 1 .. Len(r) <=> i \in 1 .. n
    BY <1>3
  <2>2. n <= Len(r)
    BY <1>3, <2>1
  <2>3. Len(r) <= n
    BY <1>3, <2>1
  <2>4. Len(r) \in Nat
    BY <1>3
  <2> QED BY <2>2, <2>3, <2>4
<1> QED BY <1>2, <1>4 DEF r

LEMMA LedgerGrows ==
  ASSUME NEW S, NEW open \in Seq(S), NEW n \in Nat, NEW entry \in S
  PROVE  Append(Ledger(open, n, entry), entry) = Ledger(open, n + 1, entry)
<1> DEFINE r == Repeat(n, entry)
           q == Repeat(n + 1, entry)
<1>1. r \in Seq(S) /\ q \in Seq(S) /\ Len(r) = n /\ Len(q) = n + 1
  BY Repeated
<1>2. /\ \A i \in 1 .. n : r[i] = entry
      /\ \A i \in 1 .. n + 1 : q[i] = entry
  BY DEF Repeat
<1> HIDE DEF r, q
<1>3. /\ Append(r, entry) \in Seq(S) /\ Len(Append(r, entry)) = n + 1
      /\ \A i \in 1 .. n : Append(r, entry)[i] = r[i]
      /\ Append(r, entry)[n + 1] = entry
  BY <1>1, AppendProperties
<1>4. \A i \in 1 .. n + 1 : Append(r, entry)[i] = q[i]
  <2>1. TAKE i \in 1 .. n + 1
  <2>2. i \in 1 .. n \/ i = n + 1
    OBVIOUS
  <2> QED BY <1>2, <1>3, <2>2
<1>5. Append(r, entry) = q
  BY <1>1, <1>3, <1>4, SeqEqual
<1>6. Append(open \o r, entry) = open \o Append(r, entry)
  <2>1. <<entry>> \in Seq(S) /\ open \o r \in Seq(S)
    BY <1>1, ConcatProperties
  <2>2. Append(open \o r, entry) = (open \o r) \o <<entry>>
    BY <2>1, AppendIsConcat
  <2>3. Append(r, entry) = r \o <<entry>>
    BY <1>1, AppendIsConcat
  <2>4. (open \o r) \o <<entry>> = open \o (r \o <<entry>>)
    BY <1>1, <2>1, ConcatAssociative
  <2> QED BY <2>2, <2>3, <2>4
<1> QED BY <1>5, <1>6 DEF Ledger, r, q

LEMMA LedgerBegins ==
  ASSUME NEW S, NEW open \in Seq(S), NEW entry \in S PROVE Ledger(open, 0, entry) = open
<1>1. Repeat(0, entry) = <<>>
  <2>1. Repeat(0, entry) \in Seq(S) /\ Len(Repeat(0, entry)) = 0
    BY Repeated
  <2> QED BY <2>1, EmptySeq
<1>2. open \o <<>> = open
  BY ConcatEmptySeq
<1> QED BY <1>1, <1>2 DEF Ledger

LEMMA TwoMore ==
  ASSUME NEW S, NEW s \in Seq(S), NEW a \in S, NEW b \in S
  PROVE  s \o <<a, b>> = Append(Append(s, a), b)
<1>1. <<a>> \in Seq(S) /\ <<b>> \in Seq(S) /\ <<a>> \o <<b>> = <<a, b>>
  <2>1. <<a>> \in Seq(S) /\ <<b>> \in Seq(S)
    OBVIOUS
  <2>2. <<a, b>> = Append(<<a>>, b)
    OBVIOUS
  <2>3. Append(<<a>>, b) = <<a>> \o <<b>>
    BY <2>1, AppendIsConcat
  <2> QED BY <2>1, <2>2, <2>3
<1>2. Append(s, a) \in Seq(S) /\ Append(s, a) = s \o <<a>>
  BY AppendProperties, AppendIsConcat
<1>3. Append(Append(s, a), b) = Append(s, a) \o <<b>>
  BY <1>2, AppendIsConcat
<1>4. (s \o <<a>>) \o <<b>> = s \o (<<a>> \o <<b>>)
  BY <1>1, ConcatAssociative
<1> QED BY <1>1, <1>2, <1>3, <1>4

(* What handling a ticket does, whichever engine does it: it is escalated  *)
(* or not, and t is kept of it.                                            *)
Statuses == {"escalated", "ai_handled", "escalated_decrypted", "ai_processed_encrypted",
             "encrypted"}
KeptTickets == [needs_human : BOOLEAN, status : Statuses]
Human == {t \in KeptTickets : t.needs_human}
Decisions == {"escalated", "ai_resolved"}
Lines == {"FHE_SYSTEM_INIT", "TICKET_ENCRYPTED", "TICKET_DECRYPTED_FOR_HUMAN",
          "TICKET_PROCESSED_FHE"} \X Nat

Creation == <<"TICKET_ENCRYPTED", Len(stored) + 1>>
Outcome(t) == <<IF t \in Human THEN "TICKET_DECRYPTED_FOR_HUMAN" ELSE "TICKET_PROCESSED_FHE",
                Len(stored) + 1>>

Counts(escalate) ==
    /\ human' = IF escalate THEN human + 1 ELSE human
    /\ ai' = IF escalate THEN ai ELSE ai + 1

Keeps(escalate, t) ==
    IF program.engine \in {"coin", "mesh"}
    THEN stored' = stored /\ blocks' = blocks + 1
    ELSE /\ stored' = Append(stored, t) /\ blocks' = blocks
         /\ program.engine \in {"core", "vault"} => (t \in Human <=> escalate)

Logs(t) ==
    CASE program.engine = "vault" -> vaultLog' = vaultLog \o <<Creation, Outcome(t)>>
      [] program.engine \in {"ai", "swarm"} -> vaultLog' = Append(vaultLog, Creation)
      [] OTHER -> vaultLog' = vaultLog

Tells(escalate) ==
    events' = IF program.broadcasts
              THEN Append(events, IF escalate THEN "escalated" ELSE "ai_resolved") ELSE events

Handles(escalate, t) ==
    /\ pc = "handle" /\ pc' = "head" /\ program' = program
    /\ Counts(escalate) /\ Keeps(escalate, t) /\ Logs(t) /\ Tells(escalate)
    /\ ledger' = IF Enterprise!Ledgered THEN Append(ledger, program.entry) ELSE ledger

LEMMA HandlesOne ==
  ASSUME Enterprise!EnterpriseProgramAssumption, program \in Programs, Walk, Enterprise!Handle
  PROVE  \E escalate \in BOOLEAN, t \in KeptTickets : Handles(escalate, t)
<1> USE DEF Handles, Counts, Keeps, Logs, Tells
<1>1. ASSUME NEW dice \in BOOLEAN, Enterprise!HandleCore(dice)
      PROVE  \E escalate \in BOOLEAN, t \in KeptTickets : Handles(escalate, t)
  <2> DEFINE t == [needs_human |-> dice, status |-> IF dice THEN "escalated" ELSE "ai_handled"]
  <2>1. t \in KeptTickets /\ (t \in Human <=> dice)
    BY DEF KeptTickets, Statuses, Human
  <2>2. stored' = Append(stored, t)
    BY <1>1 DEF Enterprise!HandleCore
  <2> HIDE DEF t
  <2>3. program.engine = "core" /\ ~program.broadcasts
    BY <1>1, Kinds DEF Enterprise!HandleCore
  <2>4. Handles(dice, t)
    BY <1>1, <2>1, <2>2, <2>3 DEF Enterprise!HandleCore, Enterprise!Handled, Enterprise!Count,
       Enterprise!Record, Enterprise!coinVars
  <2> QED BY <2>1, <2>4
<1>2. ASSUME NEW dice \in BOOLEAN, Enterprise!HandleVault(dice)
      PROVE  \E escalate \in BOOLEAN, t \in KeptTickets : Handles(escalate, t)
  <2> DEFINE t == [needs_human |-> dice,
                   status |-> IF dice THEN "escalated_decrypted" ELSE "ai_processed_encrypted"]
  <2>1. t \in KeptTickets /\ (t \in Human <=> dice)
    BY DEF KeptTickets, Statuses, Human
  <2>2. stored' = Append(stored, t)
    BY <1>2 DEF Enterprise!HandleVault, Enterprise!Encrypted
  <2> HIDE DEF t
  <2>3. program.engine = "vault" /\ ~program.broadcasts /\ ~Enterprise!Ledgered
    BY <1>2, Kinds DEF Enterprise!HandleVault
  <2>4. vaultLog' = vaultLog \o <<Creation, Outcome(t)>>
    BY <1>2, <2>1 DEF Enterprise!HandleVault, Creation, Outcome
  <2>5. Handles(dice, t)
    BY <1>2, <2>1, <2>2, <2>3, <2>4 DEF Enterprise!HandleVault, Enterprise!Handled,
       Enterprise!Count, Enterprise!coinVars
  <2> QED BY <2>1, <2>5
<1>3. ASSUME NEW dice \in BOOLEAN, NEW escalate \in BOOLEAN, Enterprise!Handled,
             program.engine \in {"ai", "swarm"}, Enterprise!StoreAndTell(dice, escalate),
             ledger' = IF Enterprise!Ledgered THEN Append(ledger, program.entry) ELSE ledger,
             blocks' = blocks
      PROVE  \E e \in BOOLEAN, t \in KeptTickets : Handles(e, t)
  <2> DEFINE t == [needs_human |-> dice, status |-> "encrypted"]
  <2>1. t \in KeptTickets
    BY DEF KeptTickets, Statuses
  <2>2. stored' = Append(stored, t)
    BY <1>3 DEF Enterprise!StoreAndTell, Enterprise!Encrypted
  <2> HIDE DEF t
  <2>3. Handles(escalate, t)
    BY <1>3, <2>2 DEF Enterprise!StoreAndTell, Enterprise!Handled, Enterprise!Count, Creation
  <2> QED BY <2>1, <2>3
<1>4. ASSUME NEW dice \in BOOLEAN, NEW roll \in BOOLEAN, Enterprise!HandleSwarm(dice, roll)
      PROVE  \E escalate \in BOOLEAN, t \in KeptTickets : Handles(escalate, t)
  BY <1>3, <1>4 DEF Enterprise!HandleSwarm, Enterprise!Record, Enterprise!coinVars
<1>5. ASSUME NEW dice \in BOOLEAN, NEW roll \in BOOLEAN,
             NEW response \in {"text", "no text", "empty"},
             NEW department \in Enterprise!Departments,
             Enterprise!HandleAI(dice, roll, response, department)
      PROVE  \E escalate \in BOOLEAN, t \in KeptTickets : Handles(escalate, t)
  <2> DEFINE escalate == Enterprise!needs_human(Tickets[at].urgent, roll)
  <2>1. escalate \in BOOLEAN
    BY DEF Enterprise!needs_human
  <2>2. /\ program.engine = "ai" /\ Enterprise!Handled
        /\ Enterprise!StoreAndTell(dice, escalate) /\ ledger' = ledger /\ blocks' = blocks
    BY <1>5 DEF Enterprise!HandleAI, Enterprise!coinVars
  <2>3. ~Enterprise!Ledgered
    BY <2>2, Kinds
  <2> HIDE DEF escalate
  <2> QED BY <1>3, <2>1, <2>2, <2>3
<1>6. ASSUME NEW escalate \in BOOLEAN, Enterprise!Handled, Enterprise!Count(escalate),
             program.engine \in {"coin", "mesh"}, Enterprise!Record(at), blocks' = blocks + 1,
             UNCHANGED <<stored, vaultLog, events>>
      PROVE  \E e \in BOOLEAN, t \in KeptTickets : Handles(e, t)
  <2> DEFINE t == [needs_human |-> TRUE, status |-> "encrypted"]
  <2>1. t \in KeptTickets
    BY DEF KeptTickets, Statuses
  <2> HIDE DEF t
  <2>2. ~program.broadcasts
    BY <1>6, Kinds
  <2>3. Handles(escalate, t)
    BY <1>6, <2>2 DEF Enterprise!Handled, Enterprise!Count, Enterprise!Record
  <2> QED BY <2>1, <2>3
<1> DEFINE urgent == Tickets[at].urgent
<1>7. CASE Enterprise!HandleCoin
  <2>1. /\ program.engine = "coin" /\ Enterprise!Handled /\ Enterprise!Count(urgent)
        /\ Enterprise!Record(at) /\ blocks' = blocks + 1 /\ UNCHANGED <<stored, vaultLog, events>>
    BY <1>7 DEF Enterprise!HandleCoin
  <2>2. urgent \in BOOLEAN
    BY <2>1, List, ListItems DEF Enterprise!Handled, Walk
  <2> HIDE DEF urgent
  <2> QED BY <1>6, <2>1, <2>2
<1>8. CASE Enterprise!HandleMesh
  <2>1. /\ program.engine = "mesh" /\ Enterprise!Handled /\ Enterprise!Count(urgent)
        /\ Enterprise!Record(at) /\ blocks' = blocks + 1 /\ UNCHANGED <<stored, vaultLog, events>>
    BY <1>8 DEF Enterprise!HandleMesh, Enterprise!Coin!mine_block
  <2>2. urgent \in BOOLEAN
    BY <2>1, List, ListItems DEF Enterprise!Handled, Walk
  <2> HIDE DEF urgent
  <2> QED BY <1>6, <2>1, <2>2
<1> HIDE DEF Handles
<1> QED BY <1>1, <1>2, <1>4, <1>5, <1>7, <1>8 DEF Enterprise!Handle

(* The accounts main() keeps: what the ledger holds between the opening    *)
(* and the closing, the tickets kept, the events sent and the blocks, each *)
(* against the tickets counted.                                            *)
done == ai + human

BookTypes ==
    /\ program \in Programs /\ ai \in Nat /\ human \in Nat /\ blocks \in Nat
    /\ pc \in {"open", "head", "handle", "asleep"}
    /\ stored \in Seq(KeptTickets) /\ events \in Seq(Decisions)

Recorded == IF Enterprise!Ledgered THEN Ledger(program.opening, done, program.entry)
                                   ELSE program.opening

LedgerTells ==
    /\ pc \in {"head", "handle"} => ledger = Recorded
    /\ pc = "asleep" => ledger = Recorded \o program.closing

TicketsTell ==
    /\ program.engine \notin {"coin", "mesh"} => Len(stored) = done
    /\ program.engine \in {"core", "vault"} => human = Cardinality(Hits(stored, Human))

EventsTell ==
    program.broadcasts => Len(events) = done /\ human = Cardinality(Hits(events, {"escalated"}))

ChainTells ==
    Enterprise!Mines => /\ pc = "open" => blocks <= 1 + program.mined
                        /\ pc # "open" => blocks = 1 + program.mined + done

AtFirst == pc = "open" => done = 0

(* The vault's own ledger: no line is about a ticket still to come, and a  *)
(* ticket's decryption comes after its creation and only for a human.      *)
VaultTells ==
    /\ program.engine \notin {"vault", "ai", "swarm"} => vaultLog = <<>>
    /\ vaultLog \in Seq(Lines)
    /\ \A k \in 1 .. Len(vaultLog) : vaultLog[k][2] <= Len(stored)
    /\ program.engine \in {"vault", "ai", "swarm"} =>
         \A i \in 1 .. Len(stored) : \E j \in 1 .. Len(vaultLog) :
            /\ vaultLog[j] = <<"TICKET_ENCRYPTED", i>>
            /\ \A k \in 1 .. Len(vaultLog) :
                 vaultLog[k] = <<"TICKET_DECRYPTED_FOR_HUMAN", i>> =>
                    k > j /\ stored[i] \in Human

Accounts == BookTypes /\ AtFirst /\ LedgerTells /\ TicketsTell /\ EventsTell /\ ChainTells
            /\ VaultTells

LEMMA AccountsInit ==
  ASSUME Enterprise!EnterpriseProgramAssumption, Enterprise!Init PROVE Accounts
<1>1. /\ program \in Programs /\ pc = "open" /\ stored = <<>> /\ events = <<>>
      /\ ai = 0 /\ human = 0 /\ blocks = 1
      /\ vaultLog = IF program.engine \in {"vault", "ai", "swarm"}
                    THEN <<<<"FHE_SYSTEM_INIT", 0>>>> ELSE <<>>
  BY DEF Enterprise!Init, Enterprise!Coin!Init
<1>2. done = 0
  BY <1>1 DEF done
<1>3. /\ stored \in Seq(KeptTickets) /\ events \in Seq(Decisions)
      /\ Len(stored) = 0 /\ Len(events) = 0
  BY <1>1
<1>4. BookTypes /\ AtFirst /\ LedgerTells
  BY <1>1, <1>2, <1>3 DEF BookTypes, AtFirst, LedgerTells
<1>5. ChainTells
  BY <1>1, Kinds DEF ChainTells
<1>6. \A T : Cardinality(Hits(stored, T)) = 0 /\ Cardinality(Hits(events, T)) = 0
  <2>1. \A T : Hits(stored, T) = {} /\ Hits(events, T) = {}
    BY <1>1 DEF Hits
  <2> QED BY <2>1, FS_EmptySet
<1>7. TicketsTell /\ EventsTell
  BY <1>1, <1>2, <1>3, <1>6 DEF TicketsTell, EventsTell
<1>8. VaultTells
  <2>1. <<"FHE_SYSTEM_INIT", 0>> \in Lines
    BY DEF Lines
  <2>2. ASSUME NEW e \in Lines, e[2] = 0, vaultLog = <<e>>
        PROVE  vaultLog \in Seq(Lines) /\ Len(vaultLog) = 1 /\ vaultLog[1][2] = 0
    BY <2>2
  <2>3. ASSUME vaultLog = <<>> PROVE vaultLog \in Seq(Lines) /\ Len(vaultLog) = 0
    BY <2>3
  <2>4. CASE program.engine \in {"vault", "ai", "swarm"}
    <3>1. vaultLog \in Seq(Lines) /\ Len(vaultLog) = 1 /\ vaultLog[1][2] = 0
      BY <1>1, <2>1, <2>2, <2>4
    <3> QED BY <1>3, <2>4, <3>1 DEF VaultTells
  <2>5. CASE program.engine \notin {"vault", "ai", "swarm"}
    BY <1>1, <1>3, <2>3, <2>5 DEF VaultTells
  <2> QED BY <2>4, <2>5
<1> QED BY <1>4, <1>5, <1>7, <1>8 DEF Accounts

LEMMA HandleKeepsBooks ==
  ASSUME Enterprise!EnterpriseProgramAssumption, Accounts,
         NEW escalate \in BOOLEAN, NEW t \in KeptTickets, Handles(escalate, t)
  PROVE  BookTypes' /\ AtFirst' /\ LedgerTells' /\ TicketsTell' /\ EventsTell' /\ ChainTells'
<1>0. /\ program \in Programs /\ ai \in Nat /\ human \in Nat /\ blocks \in Nat
      /\ stored \in Seq(KeptTickets) /\ events \in Seq(Decisions)
  BY DEF Accounts, BookTypes
<1>1. /\ pc = "handle" /\ pc' = "head" /\ program' = program
      /\ ledger' = IF Enterprise!Ledgered THEN Append(ledger, program.entry) ELSE ledger
  BY DEF Handles
<1>2. /\ human' = IF escalate THEN human + 1 ELSE human
      /\ ai' = IF escalate THEN ai ELSE ai + 1
  BY DEF Handles, Counts
<1>3. done' = done + 1 /\ done \in Nat /\ ai' \in Nat /\ human' \in Nat
  <2>1. CASE escalate
    BY <1>0, <1>2, <2>1 DEF done
  <2>2. CASE ~escalate
    BY <1>0, <1>2, <2>2 DEF done
  <2> QED BY <2>1, <2>2
<1>4. /\ program.opening \in Seq(Entries) /\ program.entry \in Entries /\ program.mined \in Nat
      /\ Enterprise!Mines <=> program.engine \in {"coin", "mesh"}
  BY <1>0, Kinds
<1>5. /\ Enterprise!Ledgered' = Enterprise!Ledgered /\ Enterprise!Mines' = Enterprise!Mines
  BY <1>1 DEF Enterprise!Ledgered, Enterprise!Mines
<1>6. LedgerTells'
  <2>1. ledger = Recorded
    BY <1>1 DEF Accounts, LedgerTells
  <2>2. CASE Enterprise!Ledgered
    <3>1. /\ ledger' = Append(Ledger(program.opening, done, program.entry), program.entry)
          /\ Recorded' = Ledger(program.opening, done + 1, program.entry)
      BY <1>1, <1>3, <1>5, <2>1, <2>2 DEF Recorded
    <3>2. done \in Nat /\ program.opening \in Seq(Entries) /\ program.entry \in Entries
      BY <1>3, <1>4
    <3>3. Append(Ledger(program.opening, done, program.entry), program.entry) =
             Ledger(program.opening, done + 1, program.entry)
      BY <3>2, LedgerGrows
    <3>4. ledger' = Recorded'
      BY <3>1, <3>3
    <3> QED BY <1>1, <3>4 DEF LedgerTells
  <2>3. CASE ~Enterprise!Ledgered
    BY <1>1, <1>5, <2>1, <2>3 DEF LedgerTells, Recorded
  <2> QED BY <2>2, <2>3
<1>7. CASE program.engine \in {"coin", "mesh"}
  <2>1. stored' = stored /\ blocks' = blocks + 1 /\ ~program.broadcasts /\ events' = events
    BY <1>0, <1>7, Kinds DEF Handles, Keeps, Tells
  <2>2. blocks = 1 + program.mined + done
    BY <1>1, <1>4, <1>7 DEF Accounts, ChainTells
  <2>3. blocks' \in Nat /\ blocks' = 1 + program.mined + (done + 1)
    <3>1. done \in Nat /\ program.mined \in Nat
      BY <1>3, <1>4
    <3>2. \A b, m, d \in Nat : b = 1 + m + d => b + 1 \in Nat /\ b + 1 = 1 + m + (d + 1)
      OBVIOUS
    <3>3. blocks + 1 \in Nat /\ blocks + 1 = 1 + program.mined + (done + 1)
      <4>1. blocks \in Nat
        BY <1>0
      <4> HIDE DEF done
      <4> QED BY <2>2, <3>1, <3>2, <4>1
    <3> QED BY <2>1, <3>3
  <2>4. ChainTells'
    BY <1>1, <1>3, <2>3 DEF ChainTells
  <2>5. BookTypes' /\ AtFirst'
    BY <1>0, <1>1, <1>3, <2>1, <2>3 DEF BookTypes, AtFirst
  <2>6. TicketsTell' /\ EventsTell'
    BY <1>1, <1>7, <2>1 DEF TicketsTell, EventsTell
  <2> QED BY <1>6, <2>4, <2>5, <2>6
<1>8. CASE program.engine \notin {"coin", "mesh"}
  <2>1. stored' = Append(stored, t) /\ blocks' = blocks
    BY <1>8 DEF Handles, Keeps
  <2>2. ChainTells'
    BY <1>1, <1>4, <1>5, <1>8 DEF ChainTells
  <2>3. stored' \in Seq(KeptTickets) /\ Len(stored') = Len(stored) + 1
    <3>1. Append(stored, t) \in Seq(KeptTickets) /\ Len(Append(stored, t)) = Len(stored) + 1
      BY <1>0, AppendProperties
    <3> QED BY <2>1, <3>1
  <2> DEFINE d == IF escalate THEN "escalated" ELSE "ai_resolved"
  <2>4. d \in Decisions /\ (d \in {"escalated"} <=> escalate)
    BY DEF Decisions
  <2>5. events' = IF program.broadcasts THEN Append(events, d) ELSE events
    BY DEF Handles, Tells
  <2> HIDE DEF d
  <2>6. Append(events, d) \in Seq(Decisions) /\ Len(Append(events, d)) = Len(events) + 1
    BY <1>0, <2>4, AppendProperties
  <2>7. events' \in Seq(Decisions)
    BY <1>0, <2>5, <2>6
  <2>8. BookTypes' /\ AtFirst'
    BY <1>0, <1>1, <1>3, <2>1, <2>3, <2>7 DEF BookTypes, AtFirst
  <2>9. TicketsTell'
    <3>1. Len(stored') = done'
      BY <1>3, <1>8, <2>3 DEF Accounts, TicketsTell
    <3>2. ASSUME program.engine \in {"core", "vault"}
          PROVE  human' = Cardinality(Hits(stored, Human)')
      <4>1. human = Cardinality(Hits(stored, Human)) /\ (t \in Human <=> escalate)
        BY <1>8, <3>2 DEF Accounts, TicketsTell, Handles, Keeps
      <4>2. Cardinality(Hits(Append(stored, t), Human)) =
               IF t \in Human THEN Cardinality(Hits(stored, Human)) + 1
                              ELSE Cardinality(Hits(stored, Human))
        BY <1>0, HitsOfAppend
      <4>3. Hits(stored, Human)' = Hits(Append(stored, t), Human)
        BY <2>1 DEF Hits, Human
      <4> QED BY <1>2, <4>1, <4>2, <4>3
    <3> QED BY <1>1, <3>1, <3>2 DEF TicketsTell
  <2>10. EventsTell'
    <3>1. ASSUME program.broadcasts
          PROVE  Len(events') = done' /\ human' = Cardinality(Hits(events, {"escalated"})')
      <4>1. Len(events) = done /\ human = Cardinality(Hits(events, {"escalated"}))
        BY <3>1 DEF Accounts, EventsTell
      <4>2. events' = Append(events, d)
        BY <2>5, <3>1
      <4>3. Cardinality(Hits(Append(events, d), {"escalated"})) =
               IF d \in {"escalated"} THEN Cardinality(Hits(events, {"escalated"})) + 1
                                      ELSE Cardinality(Hits(events, {"escalated"}))
        BY <1>0, <2>4, HitsOfAppend
      <4>4. Hits(events, {"escalated"})' = Hits(Append(events, d), {"escalated"})
        BY <4>2 DEF Hits
      <4>5. Len(events') = done'
        BY <1>3, <2>6, <4>1, <4>2
      <4> QED BY <1>2, <2>4, <4>1, <4>3, <4>4, <4>5
    <3> QED BY <1>1, <3>1 DEF EventsTell
  <2> QED BY <1>6, <2>2, <2>8, <2>9, <2>10
<1> QED BY <1>7, <1>8

LEMMA HandleKeepsVault ==
  ASSUME Enterprise!EnterpriseProgramAssumption, Accounts,
         NEW escalate \in BOOLEAN, NEW t \in KeptTickets, Handles(escalate, t)
  PROVE  VaultTells'
<1> DEFINE L == vaultLog
           n == Len(L)
           m == Len(stored)
<1>0. program.engine' = program.engine
  BY DEF Handles
<1>1. /\ stored \in Seq(KeptTickets) /\ L \in Seq(Lines)
      /\ \A k \in 1 .. n : L[k][2] <= m
  BY DEF Accounts, BookTypes, VaultTells
<1>2. m \in Nat /\ n \in Nat /\ \A k \in 1 .. n : L[k] \in Lines
  BY <1>1, LenProperties, ElementOfSeq
<1>3. CASE program.engine \in {"coin", "mesh"}
  <2>1. stored' = stored /\ vaultLog' = vaultLog
    BY <1>3 DEF Handles, Keeps, Logs
  <2> QED BY <1>0, <2>1 DEF Accounts, VaultTells
<1>4. CASE program.engine \notin {"coin", "mesh"}
  <2>1. stored' = Append(stored, t)
    BY <1>4 DEF Handles, Keeps
  <2>2. /\ stored' \in Seq(KeptTickets) /\ Len(stored') = m + 1 /\ stored'[m + 1] = t
        /\ \A i \in 1 .. m : stored'[i] = stored[i]
    <3>1. /\ Append(stored, t) \in Seq(KeptTickets) /\ Len(Append(stored, t)) = m + 1
          /\ Append(stored, t)[m + 1] = t
          /\ \A i \in 1 .. m : Append(stored, t)[i] = stored[i]
      BY <1>1, AppendProperties
    <3> QED BY <2>1, <3>1
  <2>3. CASE program.engine = "core"
    <3>1. vaultLog = <<>> /\ vaultLog' = <<>>
      BY <2>3 DEF Accounts, VaultTells, Handles, Logs
    <3>2. Len(<<>>) = 0 /\ <<>> \in Seq(Lines)
      OBVIOUS
    <3> QED BY <1>0, <2>3, <3>1, <3>2 DEF VaultTells
  <2>4. CASE program.engine \in {"vault", "ai", "swarm"}
    <3> DEFINE c == Creation
               o == Outcome(t)
               C == Append(L, c)
    <3>1. c \in Lines /\ c[1] = "TICKET_ENCRYPTED" /\ c[2] = m + 1
      BY <1>2 DEF Creation, Lines
    <3>2. /\ o \in Lines /\ o[2] = m + 1 /\ o[1] # "TICKET_ENCRYPTED"
          /\ o[1] = "TICKET_DECRYPTED_FOR_HUMAN" => t \in Human
      <4>1. CASE t \in Human
        BY <1>2, <4>1 DEF Outcome, Lines
      <4>2. CASE t \notin Human
        BY <1>2, <4>2 DEF Outcome, Lines
      <4> QED BY <4>1, <4>2
    <3>3. vaultLog' = C \/ vaultLog' = Append(C, o)
      <4>1. L \o <<c, o>> = Append(C, o)
        BY <1>1, <3>1, <3>2, TwoMore
      <4> QED BY <2>4, <4>1 DEF Handles, Logs
    <3>4. c = <<"TICKET_ENCRYPTED", m + 1>>
      BY DEF Creation
    <3> HIDE DEF c, o, L, n, m
    <3>5. /\ C \in Seq(Lines) /\ Len(C) = n + 1 /\ C[n + 1] = c
          /\ \A k \in 1 .. n : C[k] = L[k]
      BY <1>1, <3>1, AppendProperties DEF n
    <3> HIDE DEF C
    <3> DEFINE N == Len(vaultLog')
    <3>6. /\ vaultLog' \in Seq(Lines) /\ N \in Nat /\ N >= n + 1 /\ N <= n + 2
          /\ vaultLog'[n + 1] = c /\ \A k \in 1 .. n : vaultLog'[k] = L[k]
          /\ N = n + 2 => vaultLog'[n + 2] = o
      <4>1. CASE vaultLog' = C
        BY <1>2, <3>5, <4>1
      <4>2. CASE vaultLog' = Append(C, o)
        <5>1. /\ Append(C, o) \in Seq(Lines) /\ Len(Append(C, o)) = Len(C) + 1
              /\ \A k \in 1 .. Len(C) : Append(C, o)[k] = C[k]
              /\ Append(C, o)[Len(C) + 1] = o
          BY <3>2, <3>5, AppendProperties
        <5>2. /\ vaultLog' \in Seq(Lines) /\ N = n + 2 /\ vaultLog'[n + 2] = o
              /\ \A k \in 1 .. n + 1 : vaultLog'[k] = C[k]
          BY <1>2, <3>5, <4>2, <5>1
        <5> QED BY <1>2, <3>5, <5>2
      <4> QED BY <3>3, <4>1, <4>2
    <3> HIDE DEF N
    <3>7. \A k \in 1 .. N : k \in 1 .. n \/ k = n + 1 \/ (k = n + 2 /\ N = n + 2)
      BY <1>2, <3>6
    <3>8. n + 1 \in 1 .. N /\ \A k \in 1 .. n : k \in 1 .. N
      BY <1>2, <3>6
    <3>9. ASSUME NEW k \in 1 .. N PROVE vaultLog'[k][2] <= m + 1
      <4>1. CASE k \in 1 .. n
        <5>1. L[k][2] \in Nat /\ L[k][2] <= m
          BY <1>1, <1>2, <4>1 DEF Lines
        <5>2. L[k][2] <= m + 1
          BY <1>2, <5>1
        <5> QED BY <3>6, <4>1, <5>2
      <4>2. CASE k \notin 1 .. n
        <5>1. vaultLog'[k] = c \/ vaultLog'[k] = o
          BY <3>6, <3>7, <4>2
        <5> QED BY <1>2, <3>1, <3>2, <5>1
      <4> QED BY <4>1, <4>2
    <3>10. ASSUME NEW i \in 1 .. m + 1
           PROVE  \E j \in 1 .. N :
                    /\ vaultLog'[j] = <<"TICKET_ENCRYPTED", i>>
                    /\ \A k \in 1 .. N : vaultLog'[k] = <<"TICKET_DECRYPTED_FOR_HUMAN", i>> =>
                                           k > j /\ stored'[i] \in Human
      <4>1. CASE i \in 1 .. m
        <5>1. PICK j \in 1 .. n :
                /\ L[j] = <<"TICKET_ENCRYPTED", i>>
                /\ \A k \in 1 .. n : L[k] = <<"TICKET_DECRYPTED_FOR_HUMAN", i>> =>
                                       k > j /\ stored[i] \in Human
          BY <2>4, <4>1 DEF Accounts, VaultTells, L, n, m
        <5>2. j \in 1 .. N /\ vaultLog'[j] = <<"TICKET_ENCRYPTED", i>>
          BY <3>6, <3>8, <5>1
        <5>3. ASSUME NEW k \in 1 .. N, vaultLog'[k] = <<"TICKET_DECRYPTED_FOR_HUMAN", i>>
              PROVE  k > j /\ stored'[i] \in Human
          <6>1. i # m + 1
            BY <1>2, <4>1
          <6>2. vaultLog'[k] # c /\ vaultLog'[k] # o
            BY <3>1, <3>2, <5>3, <6>1
          <6>3. k \in 1 .. n /\ vaultLog'[k] = L[k]
            BY <3>6, <3>7, <6>2
          <6> QED BY <2>2, <4>1, <5>1, <5>3, <6>3
        <5> QED BY <5>2, <5>3
      <4>2. CASE i = m + 1
        <5>1. n + 1 \in 1 .. N /\ vaultLog'[n + 1] = <<"TICKET_ENCRYPTED", i>>
          BY <3>4, <3>6, <3>8, <4>2
        <5>2. ASSUME NEW k \in 1 .. N, vaultLog'[k] = <<"TICKET_DECRYPTED_FOR_HUMAN", i>>
              PROVE  k > n + 1 /\ stored'[i] \in Human
          <6>1. k \notin 1 .. n
            <7>1. SUFFICES ASSUME k \in 1 .. n PROVE FALSE
              OBVIOUS
            <7>2. L[k][2] = m + 1 /\ L[k][2] <= m
              BY <1>1, <3>6, <4>2, <5>2, <7>1
            <7> QED BY <1>2, <7>2
          <6>2. vaultLog'[k] # c
            BY <3>1, <5>2
          <6>3. k = n + 2 /\ vaultLog'[k] = o
            BY <3>6, <3>7, <6>1, <6>2
          <6>4. t \in Human
            BY <3>2, <5>2, <6>3
          <6> QED BY <1>2, <2>2, <4>2, <6>3, <6>4
        <5> QED BY <5>1, <5>2
      <4>3. i \in 1 .. m \/ i = m + 1
        BY <1>2
      <4> QED BY <4>1, <4>2, <4>3, Zenon
    <3>11. /\ program.engine' \in {"vault", "ai", "swarm"} /\ Len(stored') = m + 1
           /\ Len(vaultLog') = N
      BY <1>0, <2>2, <2>4 DEF N, m
    <3> QED BY <3>6, <3>9, <3>10, <3>11 DEF VaultTells
  <2>5. program.engine \in {"core", "vault", "ai", "swarm"}
    BY <1>4, Kinds DEF Accounts, BookTypes
  <2> QED BY <2>3, <2>4, <2>5
<1> QED BY <1>3, <1>4

LEMMA AccountsStep ==
  ASSUME Enterprise!EnterpriseProgramAssumption, Walk, Accounts,
         [Enterprise!Next]_(Enterprise!vars)
  PROVE  Accounts'
<1>0. /\ program \in Programs /\ program.opening \in Seq(Entries) /\ program.entry \in Entries
      /\ program.mined \in Nat /\ program.wallets \in Nat /\ blocks \in Nat
  BY Kinds DEF Accounts, BookTypes
<1>1. ASSUME UNCHANGED <<program, ai, human, stored, events, vaultLog>>
      PROVE  /\ done' = done /\ Recorded' = Recorded /\ Enterprise!Mines' = Enterprise!Mines
             /\ TicketsTell' /\ EventsTell' /\ VaultTells'
  <2>1. /\ done' = done /\ Recorded' = Recorded /\ Enterprise!Mines' = Enterprise!Mines
    BY <1>1 DEF done, Recorded, Enterprise!Ledgered, Enterprise!Mines
  <2>2. TicketsTell' /\ EventsTell'
    BY <1>1, <2>1 DEF Accounts, TicketsTell, EventsTell, Hits
  <2>3. VaultTells'
    BY <1>1 DEF Accounts, VaultTells
  <2> QED BY <2>1, <2>2, <2>3
<1>2. CASE Enterprise!Gate \/ UNCHANGED Enterprise!vars
  <2>1. UNCHANGED <<program, ai, human, stored, events, vaultLog, ledger, blocks>>
    BY <1>2 DEF Enterprise!Gate, Enterprise!vars, Enterprise!books, Enterprise!coinVars
  <2>2. \/ pc' = pc
        \/ pc = "head" /\ pc' \in {"head", "handle"}
    BY <1>2 DEF Enterprise!Gate, Enterprise!vars
  <2>3. /\ done' = done /\ Recorded' = Recorded /\ Enterprise!Mines' = Enterprise!Mines
        /\ TicketsTell' /\ EventsTell' /\ VaultTells'
    BY <1>1, <2>1
  <2>4. BookTypes' /\ AtFirst'
    BY <2>1, <2>2, <2>3 DEF Accounts, BookTypes, AtFirst
  <2>5. LedgerTells'
    BY <2>1, <2>2, <2>3 DEF Accounts, LedgerTells
  <2>6. ChainTells'
    BY <2>1, <2>2, <2>3 DEF Accounts, ChainTells
  <2> QED BY <2>3, <2>4, <2>5, <2>6 DEF Accounts
<1>3. CASE Enterprise!Open
  <2>1. /\ pc = "open" /\ pc' \in {"open", "head"} /\ ledger' = program.opening
        /\ UNCHANGED <<program, ai, human, stored, events, vaultLog>>
    BY <1>3 DEF Enterprise!Open
  <2>2. done = 0
    BY <2>1 DEF Accounts, AtFirst
  <2>3. /\ done' = done /\ Recorded' = Recorded /\ Enterprise!Mines' = Enterprise!Mines
        /\ TicketsTell' /\ EventsTell' /\ VaultTells'
    BY <1>1, <2>1
  <2>4. \/ pc' = "open" /\ blocks' = blocks
        \/ pc' = "open" /\ blocks' = blocks + 1 /\ blocks <= program.mined
        \/ pc' = "head" /\ blocks' = blocks /\ ~(blocks <= program.mined)
    <3>1. CASE Enterprise!Cardinality(DOMAIN wallets) <= program.wallets
      BY <1>3, <2>1, <3>1 DEF Enterprise!Open, Enterprise!Coin!CreateWallet
    <3>2. CASE /\ ~(Enterprise!Cardinality(DOMAIN wallets) <= program.wallets)
               /\ blocks <= program.mined
      BY <1>3, <2>1, <3>2 DEF Enterprise!Open, Enterprise!Coin!mine_block
    <3>3. CASE /\ ~(Enterprise!Cardinality(DOMAIN wallets) <= program.wallets)
               /\ ~(blocks <= program.mined)
      BY <1>3, <2>1, <3>3 DEF Enterprise!Open, Enterprise!coinVars
    <3> QED BY <3>1, <3>2, <3>3
  <2>5. blocks' \in Nat
    BY <1>0, <2>4
  <2>6. BookTypes' /\ AtFirst'
    BY <2>1, <2>2, <2>3, <2>5 DEF Accounts, BookTypes, AtFirst
  <2>7. LedgerTells'
    <3>1. Recorded = program.opening
      BY <1>0, <2>2, LedgerBegins DEF Recorded
    <3> QED BY <2>1, <2>3, <3>1 DEF LedgerTells
  <2>8. ChainTells'
    <3>1. ASSUME Enterprise!Mines
          PROVE  /\ pc' = "open" => blocks' <= 1 + program.mined
                 /\ pc' # "open" => blocks' = 1 + program.mined + done
      <4>1. blocks <= 1 + program.mined
        BY <2>1, <3>1 DEF Accounts, ChainTells
      <4>2. blocks <= program.mined => blocks + 1 <= 1 + program.mined
        BY <1>0
      <4>3. ~(blocks <= program.mined) => blocks = 1 + program.mined + 0
        BY <1>0, <4>1
      <4> QED BY <2>2, <2>4, <4>1, <4>2, <4>3
    <3> QED BY <2>1, <2>3, <3>1 DEF ChainTells
  <2> QED BY <2>3, <2>6, <2>7, <2>8 DEF Accounts
<1>4. CASE Enterprise!Handle
  <2>1. PICK escalate \in BOOLEAN, t \in KeptTickets : Handles(escalate, t)
    BY <1>0, <1>4, HandlesOne
  <2> QED BY <2>1, HandleKeepsBooks, HandleKeepsVault DEF Accounts
<1>5. CASE Enterprise!Report
  <2>1. /\ pc = "head" /\ pc' = "asleep" /\ ledger' = ledger \o program.closing
        /\ UNCHANGED <<program, ai, human, stored, events, vaultLog, blocks>>
    BY <1>5 DEF Enterprise!Report, Enterprise!coinVars
  <2>2. /\ done' = done /\ Recorded' = Recorded /\ Enterprise!Mines' = Enterprise!Mines
        /\ TicketsTell' /\ EventsTell' /\ VaultTells'
    BY <1>1, <2>1
  <2>3. BookTypes' /\ AtFirst'
    BY <2>1, <2>2 DEF Accounts, BookTypes, AtFirst
  <2>4. LedgerTells'
    BY <2>1, <2>2 DEF Accounts, LedgerTells
  <2>5. ChainTells'
    BY <2>1, <2>2 DEF Accounts, ChainTells
  <2> QED BY <2>2, <2>3, <2>4, <2>5 DEF Accounts
<1> QED BY <1>2, <1>3, <1>4, <1>5 DEF Enterprise!Next

(* The instance has the operator of its own FiniteSets, which is the same. *)
LEMMA SameCardinality == ASSUME NEW S PROVE Enterprise!Cardinality(S) = Cardinality(S)
BY DEF Enterprise!Cardinality, Cardinality

LEMMA AccountsAgree ==
  ASSUME Enterprise!EnterpriseProgramAssumption, Accounts PROVE Enterprise!BooksAgree
<1>0. /\ program \in Programs /\ ai \in Nat /\ human \in Nat
      /\ stored \in Seq(KeptTickets) /\ events \in Seq(Decisions)
      /\ pc \in {"open", "head", "handle", "asleep"}
  BY DEF Accounts, BookTypes
<1>1. /\ program.opening \in Seq(Entries) /\ program.closing \in Seq(Entries)
      /\ program.entry \in Entries
  BY <1>0, Kinds
<1>2. DOMAIN stored = 1 .. Len(stored) /\ DOMAIN events = 1 .. Len(events)
  BY <1>0, LenProperties
<1>3. \A i \in 1 .. Len(stored) : stored[i] \in Human <=> stored[i].needs_human
  BY <1>0, ElementOfSeq DEF Human
<1> DEFINE between == IF Enterprise!Ledgered THEN [i \in 1 .. ai + human |-> program.entry]
                                             ELSE <<>>
<1>4. ASSUME pc # "open"
      PROVE  ledger = program.opening \o between \o
                        (IF pc = "asleep" THEN program.closing ELSE <<>>)
  <2>1. Recorded = program.opening \o between
    BY <1>1, ConcatEmptySeq DEF Recorded, Ledger, Repeat, done
  <2>2. Recorded \in Seq(Entries)
    <3>1. CASE Enterprise!Ledgered
      <4>1. ai + human \in Nat
        BY <1>0
      <4>2. Repeat(ai + human, program.entry) \in Seq(Entries)
        BY <1>1, <4>1, Repeated
      <4> QED BY <1>1, <3>1, <4>2, ConcatProperties DEF Recorded, Ledger, done
    <3>2. CASE ~Enterprise!Ledgered
      BY <1>1, <3>2 DEF Recorded
    <3> QED BY <3>1, <3>2
  <2> HIDE DEF between
  <2>3. CASE pc = "asleep"
    BY <2>1, <2>3 DEF Accounts, LedgerTells
  <2>4. CASE pc # "asleep"
    <3>1. ledger = Recorded
      BY <1>0, <1>4, <2>4 DEF Accounts, LedgerTells
    <3>2. Recorded \o <<>> = Recorded
      BY <2>2, ConcatEmptySeq
    <3> QED BY <2>1, <2>4, <3>1, <3>2
  <2> QED BY <2>3, <2>4
<1>5. program.engine \notin {"coin", "mesh"} => Len(stored) = ai + human
  BY DEF Accounts, TicketsTell, done
<1>6. program.engine \in {"core", "vault"} =>
         human = Enterprise!Cardinality({i \in DOMAIN stored : stored[i].needs_human})
  <2>1. Hits(stored, Human) = {i \in DOMAIN stored : stored[i].needs_human}
    BY <1>2, <1>3 DEF Hits
  <2>2. program.engine \in {"core", "vault"} => human = Cardinality(Hits(stored, Human))
    BY DEF Accounts, TicketsTell
  <2> QED BY <2>1, <2>2, SameCardinality
<1>7. program.broadcasts => Len(events) = ai + human /\ Enterprise!Escalated(events) = human
  <2>1. Hits(events, {"escalated"}) = {i \in DOMAIN events : events[i] = "escalated"}
    BY DEF Hits
  <2>2. ASSUME program.broadcasts
        PROVE  Len(events) = ai + human /\ human = Cardinality(Hits(events, {"escalated"}))
    BY <2>2 DEF Accounts, EventsTell, done
  <2> QED BY <2>1, <2>2, SameCardinality DEF Enterprise!Escalated
<1>8. ASSUME NEW i \in DOMAIN stored, vaultLog # <<>>
      PROVE  \E j \in DOMAIN vaultLog :
               /\ vaultLog[j] = <<"TICKET_ENCRYPTED", i>>
               /\ \A k \in DOMAIN vaultLog :
                    vaultLog[k] = <<"TICKET_DECRYPTED_FOR_HUMAN", i>> =>
                      k > j /\ stored[i].needs_human
  <2>1. vaultLog \in Seq(Lines) /\ program.engine \in {"vault", "ai", "swarm"}
    BY <1>8 DEF Accounts, VaultTells
  <2>2. DOMAIN vaultLog = 1 .. Len(vaultLog)
    BY <2>1, LenProperties
  <2>3. PICK j \in 1 .. Len(vaultLog) :
          /\ vaultLog[j] = <<"TICKET_ENCRYPTED", i>>
          /\ \A k \in 1 .. Len(vaultLog) :
               vaultLog[k] = <<"TICKET_DECRYPTED_FOR_HUMAN", i>> => k > j /\ stored[i] \in Human
    BY <1>2, <1>8, <2>1 DEF Accounts, VaultTells
  <2>4. stored[i] \in Human => stored[i].needs_human
    BY DEF Human
  <2> QED BY <2>2, <2>3, <2>4
<1>9. Enterprise!Mines /\ pc # "open" => blocks = 1 + program.mined + (ai + human)
  BY DEF Accounts, ChainTells, done
<1> QED BY <1>4, <1>5, <1>6, <1>7, <1>8, <1>9 DEF Enterprise!BooksAgree

(* After every ticket, refused ones included, what main() counted, the     *)
(* tickets kept, both ledgers, the events sent and the chain count the     *)
(* same tickets, in all eight programs and for any list of them            *)
(* (phi_enterprise.cpp:55-97, phi_grc_enterprise.cpp:74-98).               *)
THEOREM AccountsTell == Spec => []BooksAgree
<1> DEFINE Inv == component = "enterprise" => Walk /\ Accounts
<1>1. Init => Inv
  BY ServicesAssumption, WalkInit, AccountsInit DEF Init, ServicesAssumption
<1>2. Inv /\ [Next]_vars => Inv'
  BY ServicesAssumption, ComponentStays, EnterpriseSteps, WalkStep, AccountsStep
     DEF ServicesAssumption
<1>3. Inv => BooksAgree
  BY ServicesAssumption, AccountsAgree DEF BooksAgree, ServicesAssumption
<1> QED BY <1>1, <1>2, <1>3, PTL DEF Spec

-----------------------------------------------------------------------------
(* The types.  What the invariants above do not say of them is said here.  *)

\* The enterprise programs' breaker besides its states, and the coin.
LEMMA Remainder ==
  ASSUME NEW n \in Nat \ {0}, NEW i \in Int PROVE i % n \in 0 .. n - 1
  OBVIOUS

Balances == 0 .. Word - 1

CoinInv ==
    /\ DOMAIN wallets \subseteq Nat /\ IsFiniteSet(DOMAIN wallets)
    /\ \A a \in DOMAIN wallets : wallets[a] \in Balances
    /\ blocks \in Nat \ {0} /\ circulating \in Nat /\ minted \in Nat

LEMMA CoinInit ==
  ASSUME MAX_SUPPLY \in Nat, Word \in Nat, MAX_SUPPLY < Word,
         wallets = [a \in {0} |-> MAX_SUPPLY], blocks = 1, circulating = 0, minted = 0
  PROVE  CoinInv
<1>1. IsFiniteSet({0})
  BY FS_Singleton
<1> QED BY <1>1 DEF CoinInv, Balances

LEMMA NewWallet ==
  ASSUME CoinInv, Word \in Nat \ {0}, UNCHANGED <<blocks, circulating, minted>>,
         wallets' = [a \in DOMAIN wallets \cup {Cardinality(DOMAIN wallets)} |->
                       IF a = Cardinality(DOMAIN wallets) THEN 0 ELSE wallets[a]]
  PROVE  CoinInv'
<1> DEFINE new == Cardinality(DOMAIN wallets)
<1>1. new \in Nat
  BY FS_CardinalityType DEF CoinInv
<1> HIDE DEF new
<1>2. IsFiniteSet(DOMAIN wallets \cup {new})
  BY FS_AddElement DEF CoinInv
<1>3. DOMAIN wallets' = DOMAIN wallets \cup {new}
  BY DEF new
<1>4. 0 \in Balances
  BY DEF Balances
<1>5. \A a \in DOMAIN wallets' : wallets'[a] \in Balances
  BY <1>3, <1>4 DEF CoinInv, new
<1> QED BY <1>1, <1>2, <1>3, <1>5 DEF CoinInv

LEMMA NewBalances ==
  ASSUME CoinInv, DOMAIN wallets' = DOMAIN wallets,
         \A a \in DOMAIN wallets : wallets'[a] \in Balances,
         blocks' \in Nat \ {0}, circulating' \in Nat, minted' \in Nat
  PROVE  CoinInv'
  BY DEF CoinInv, Balances

\* Moving an amount between wallets, and a reward.
LEMMA MovedIsTyped ==
  ASSUME CoinInv, Word \in Nat \ {0}, NEW from, NEW to, NEW amount \in Nat,
         {from, to} \subseteq DOMAIN wallets
  PROVE  /\ DOMAIN Coin!Moved(from, to, amount) = DOMAIN wallets
         /\ \A a \in DOMAIN wallets : Coin!Moved(from, to, amount)[a] \in Balances
<1> DEFINE taken == [wallets EXCEPT ![from] = (@ - amount) % Word]
<1>1. /\ DOMAIN taken = DOMAIN wallets
      /\ taken[from] = (wallets[from] - amount) % Word
      /\ \A a \in DOMAIN wallets : a # from => taken[a] = wallets[a]
  OBVIOUS
<1>2. (wallets[from] - amount) % Word \in Balances
  BY Remainder DEF CoinInv, Balances
<1> HIDE DEF taken
<1>3. \A a \in DOMAIN wallets : taken[a] \in Balances
  BY <1>1, <1>2 DEF CoinInv
<1>4. (taken[to] + amount) % Word \in Balances
  BY <1>3, Remainder DEF Balances
<1> DEFINE moved == [taken EXCEPT ![to] = (@ + amount) % Word]
<1>5. /\ DOMAIN moved = DOMAIN wallets
      /\ \A a \in DOMAIN wallets : moved[a] \in Balances
  BY <1>1, <1>3, <1>4
<1>6. Coin!Moved(from, to, amount) = moved
  BY DEF Coin!Moved, taken
<1> QED BY <1>5, <1>6

LEMMA RewardedIsTyped ==
  ASSUME Word \in Nat \ {0}, NEW r \in Nat, NEW w, NEW D,
         \A a \in D : w[a] \in Balances
  PROVE  \A a \in D : (w[a] + r) % Word \in Balances
<1>1. TAKE a \in D
<1>2. w[a] + r \in Int
  BY DEF Balances
<1> HIDE DEF Balances
<1>3. (w[a] + r) % Word \in 0 .. Word - 1
  BY <1>2, Remainder
<1> QED BY <1>3 DEF Balances

LEMMA MinedIsTyped ==
  ASSUME CoinInv, Word \in Nat \ {0}, NEW validator, Coin!mine_block(validator) PROVE CoinInv'
<1> DEFINE reward == IF validator \in Coin!Addresses THEN Coin!compute_reward(blocks) ELSE 0
<1>0. blocks \in Nat \ {0} /\ circulating \in Nat /\ minted \in Nat
  BY DEF CoinInv
<1>1. reward \in Nat
  BY DEF Coin!compute_reward
<1>2. /\ wallets' = [a \in DOMAIN wallets |->
              IF a = validator THEN (wallets[a] + reward) % Word ELSE wallets[a]]
      /\ minted' = minted + reward /\ blocks' = blocks + 1 /\ UNCHANGED circulating
  BY DEF Coin!mine_block, Coin!Addresses
<1> HIDE DEF reward
<1>3. \A a \in DOMAIN wallets : (wallets[a] + reward) % Word \in Balances
  BY <1>1, RewardedIsTyped DEF CoinInv
<1>4. \A a \in DOMAIN wallets : wallets'[a] \in Balances
  BY <1>2, <1>3 DEF CoinInv
<1>5. minted' \in Nat /\ blocks' \in Nat \ {0}
  BY <1>0, <1>1, <1>2
<1> QED BY <1>0, <1>2, <1>4, <1>5, NewBalances

(* The coin by itself. *)
LEMMA SameCoinCardinality ==
  ASSUME NEW S
  PROVE  /\ Coin!Cardinality(S) = Cardinality(S)
         /\ Enterprise!Coin!Cardinality(S) = Cardinality(S)
BY DEF Coin!Cardinality, Enterprise!Coin!Cardinality, Cardinality

LEMMA CoinStep ==
  ASSUME Coin!GRCCoinAssumption, CoinInv, [Coin!Next]_(Coin!vars) PROVE CoinInv'
<1>0. /\ Word \in Nat \ {0} /\ Amounts \subseteq Nat
      /\ blocks \in Nat \ {0} /\ circulating \in Nat /\ minted \in Nat
  BY DEF Coin!GRCCoinAssumption, CoinInv
<1>1. CASE Coin!CreateWallet
  BY <1>0, <1>1, NewWallet, SameCoinCardinality
     DEF Coin!CreateWallet, Coin!create_wallet, Coin!Addresses
<1>2. ASSUME NEW from, NEW to, NEW amount \in Amounts, Coin!transfer(from, to, amount)
      PROVE  CoinInv'
  <2>1. CASE Coin!Covered(from, to, amount)
    <3>1. /\ wallets' = Coin!Moved(from, to, amount) /\ circulating' = circulating + amount
          /\ UNCHANGED <<blocks, minted>> /\ {from, to} \subseteq DOMAIN wallets
      BY <1>2, <2>1 DEF Coin!transfer, Coin!Covered, Coin!Addresses
    <3>2. circulating' \in Nat /\ amount \in Nat
      BY <1>0, <3>1
    <3>3. /\ DOMAIN wallets' = DOMAIN wallets
          /\ \A a \in DOMAIN wallets : wallets'[a] \in Balances
      BY <1>0, <3>1, <3>2, MovedIsTyped
    <3> QED BY <1>0, <3>1, <3>2, <3>3, NewBalances
  <2>2. CASE ~Coin!Covered(from, to, amount)
    BY <1>2, <2>2 DEF Coin!transfer, CoinInv, Balances
  <2> QED BY <2>1, <2>2
<1>3. ASSUME NEW validator, Coin!mine_block(validator) PROVE CoinInv'
  BY <1>0, <1>3, MinedIsTyped
<1>4. CASE UNCHANGED Coin!vars
  BY <1>4 DEF Coin!vars, CoinInv, Balances
<1> QED BY <1>1, <1>2, <1>3, <1>4 DEF Coin!Next

(* The coin as the programs have it. *)
LEMMA SameCoin ==
  /\ \A from, to, amount :
       Enterprise!Coin!Moved(from, to, amount) = Coin!Moved(from, to, amount)
  /\ \A v : Enterprise!Coin!mine_block(v) <=> Coin!mine_block(v)
BY DEF Enterprise!Coin!Moved, Coin!Moved, Enterprise!Coin!mine_block, Coin!mine_block,
       Enterprise!Coin!Addresses, Coin!Addresses, Enterprise!Coin!compute_reward,
       Coin!compute_reward

LEMMA OpenCoin ==
  ASSUME CoinInv, Word \in Nat \ {0}, Enterprise!Open PROVE CoinInv'
<1>1. CASE Enterprise!Coin!CreateWallet
  BY <1>1, NewWallet, SameCoinCardinality
     DEF Enterprise!Coin!CreateWallet, Enterprise!Coin!create_wallet, Enterprise!Coin!Addresses
<1>2. CASE Enterprise!Coin!mine_block(1)
  <2>1. Coin!mine_block(1)
    BY <1>2, SameCoin
  <2> QED BY <2>1, MinedIsTyped
<1>3. CASE UNCHANGED Enterprise!coinVars
  BY <1>3 DEF Enterprise!coinVars, CoinInv, Balances
<1> QED BY <1>1, <1>2, <1>3 DEF Enterprise!Open

LEMMA PaidCoin ==
  ASSUME Enterprise!EnterpriseProgramAssumption, CoinInv, Word \in Nat \ {0},
         at \in 1 .. Len(Tickets), Enterprise!HandleCoin
  PROVE  CoinInv'
<1> DEFINE worker == IF Tickets[at].urgent THEN 2 ELSE 1
           cost == Tickets[at].cost
           paid == Enterprise!Coin!Covered(3, worker, cost)
           after == IF paid THEN Coin!Moved(3, worker, cost) ELSE wallets
           reward == Enterprise!Coin!compute_reward(blocks)
<1>1. /\ wallets' = [after EXCEPT ![1] = (@ + reward) % Word]
      /\ circulating' = IF paid THEN circulating + cost ELSE circulating
      /\ blocks' = blocks + 1 /\ minted' = minted + reward
  BY SameCoin DEF Enterprise!HandleCoin
<1>2. cost \in Nat /\ reward \in Nat
  BY ListItems DEF Enterprise!Coin!compute_reward
<1>3. paid => {3, worker} \subseteq DOMAIN wallets
  BY DEF Enterprise!Coin!Covered, Enterprise!Coin!Addresses
<1> HIDE DEF worker, cost, paid, reward
<1>4. DOMAIN after = DOMAIN wallets /\ \A a \in DOMAIN wallets : after[a] \in Balances
  <2>1. CASE paid
    BY <1>2, <1>3, <2>1, MovedIsTyped
  <2>2. CASE ~paid
    BY <2>2 DEF CoinInv
  <2> QED BY <2>1, <2>2
<1> HIDE DEF after
<1>5. \A a \in DOMAIN wallets : (after[a] + reward) % Word \in Balances
  BY <1>2, <1>4, RewardedIsTyped
<1>6. DOMAIN wallets' = DOMAIN wallets /\ \A a \in DOMAIN wallets : wallets'[a] \in Balances
  BY <1>1, <1>4, <1>5
<1>7. blocks' \in Nat \ {0} /\ circulating' \in Nat /\ minted' \in Nat
  BY <1>1, <1>2 DEF CoinInv
<1> QED BY <1>6, <1>7, NewBalances

(* main()'s variables: its bucket, the breaker's waits, which never begin, *)
(* and its counts, which no more tickets than are behind it can have       *)
(* raised.                                                                 *)
MainInv ==
    /\ Walk /\ svc = Untouched /\ waited = [s \in Enterprise!Services |-> FALSE]
    /\ Accounts /\ ai + human <= at - 1
    /\ tokens \in 0 .. MaxTokens /\ ollama_available \in BOOLEAN /\ CoinInv

LEMMA MainInit ==
  ASSUME Enterprise!EnterpriseProgramAssumption, Enterprise!Coin!GRCCoinAssumption,
         Enterprise!Init
  PROVE  MainInv
<1>1. Walk /\ svc = Untouched /\ waited = [s \in Enterprise!Services |-> FALSE]
  BY List DEF Enterprise!Init, Enterprise!Breaker!Init, Untouched, Walk
<1>2. CoinInv
  BY CoinInit DEF Enterprise!Init, Enterprise!Coin!Init, Enterprise!Coin!GRCCoinAssumption
<1>3. /\ ai + human <= at - 1 /\ tokens \in 0 .. MaxTokens
  BY DEF Enterprise!Init, Enterprise!EnterpriseProgramAssumption
<1>4. ollama_available \in BOOLEAN
  BY DEF Enterprise!Init
<1> QED BY <1>1, <1>2, <1>3, <1>4, AccountsInit DEF MainInv

LEMMA GateTokens ==
  ASSUME Enterprise!EnterpriseProgramAssumption, tokens \in 0 .. MaxTokens, Enterprise!Gate
  PROVE  tokens' \in 0 .. MaxTokens
<1>0. MaxTokens \in Nat /\ Refills \subseteq Nat
  BY DEF Enterprise!EnterpriseProgramAssumption
<1> DEFINE filled(r) == IF tokens + r > MaxTokens THEN MaxTokens ELSE tokens + r
<1>1. PICK r \in Refills :
        tokens' = IF (program.limiter /\ filled(r) = 0) \/ ~program.limiter
                  THEN 0 ELSE filled(r) - 1
  BY DEF Enterprise!Gate
<1>2. filled(r) \in 0 .. MaxTokens
  BY <1>0
<1> HIDE DEF filled
<1>3. tokens' = 0 \/ (filled(r) # 0 /\ tokens' = filled(r) - 1)
  BY <1>1
<1> QED BY <1>0, <1>2, <1>3

LEMMA MainStep ==
  ASSUME Enterprise!EnterpriseProgramAssumption, Enterprise!Coin!GRCCoinAssumption, MainInv,
         [Enterprise!Next]_(Enterprise!vars)
  PROVE  MainInv'
<1>0. /\ Word \in Nat \ {0} /\ MaxTokens \in Nat /\ at \in Nat
      /\ ai \in Nat /\ human \in Nat /\ program \in Programs
  BY List DEF Enterprise!EnterpriseProgramAssumption, Enterprise!Coin!GRCCoinAssumption, MainInv,
         Walk, Accounts, BookTypes
<1>1. Walk' /\ svc' = Untouched /\ Accounts'
  BY WalkStep, UntouchedStep, AccountsStep DEF MainInv
<1>2. UNCHANGED waited
  <2>1. CASE Enterprise!Gate
    <3> DEFINE m == Tickets[at].module
    <3>1. at \in DOMAIN Tickets
      BY <2>1, List DEF Enterprise!Gate, MainInv, Walk
    <3>2. m \in Enterprise!Services
      BY <3>1 DEF Enterprise!Services
    <3>3. Enterprise!Breaker!Available(m)
      BY <3>2 DEF MainInv, Untouched, Enterprise!Breaker!Available
    <3>4. Enterprise!Breaker!is_available(m) \/ UNCHANGED waited
      BY <2>1, <3>3 DEF Enterprise!Gate
    <3> QED BY <3>4 DEF Enterprise!Breaker!is_available
  <2>2. CASE Enterprise!Handle
    BY <2>2 DEF Enterprise!Handle, Enterprise!HandleCore, Enterprise!HandleVault,
       Enterprise!HandleSwarm, Enterprise!HandleAI, Enterprise!HandleCoin,
       Enterprise!HandleMesh, Enterprise!Succeed, Enterprise!Breaker!record_success
  <2>3. CASE Enterprise!Open \/ Enterprise!Report \/ UNCHANGED Enterprise!vars
    BY <2>3 DEF Enterprise!Open, Enterprise!Report, Enterprise!vars
  <2> QED BY <2>1, <2>2, <2>3 DEF Enterprise!Next
<1>3. tokens' \in 0 .. MaxTokens
  <2>1. CASE Enterprise!Gate
    BY <2>1, GateTokens DEF MainInv
  <2>2. CASE Enterprise!Handle
    <3>1. UNCHANGED tokens
      BY <2>2 DEF Enterprise!Handle, Enterprise!HandleCore, Enterprise!HandleVault,
         Enterprise!HandleSwarm, Enterprise!HandleAI, Enterprise!HandleCoin,
         Enterprise!HandleMesh, Enterprise!Handled
    <3> QED BY <3>1 DEF MainInv
  <2>3. CASE Enterprise!Open \/ Enterprise!Report \/ UNCHANGED Enterprise!vars
    <3>1. UNCHANGED tokens
      BY <2>3 DEF Enterprise!Open, Enterprise!Report, Enterprise!vars
    <3> QED BY <3>1 DEF MainInv
  <2> QED BY <2>1, <2>2, <2>3 DEF Enterprise!Next
<1>4. ollama_available' \in BOOLEAN
  <2>1. ASSUME NEW response, Enterprise!process_ticket(response)
        PROVE  ollama_available' \in BOOLEAN
    BY <2>1 DEF Enterprise!process_ticket
  <2>2. CASE Enterprise!Handle
    BY <2>1, <2>2 DEF MainInv, Enterprise!Handle, Enterprise!HandleCore,
       Enterprise!HandleVault, Enterprise!HandleSwarm, Enterprise!HandleAI,
       Enterprise!HandleCoin, Enterprise!HandleMesh
  <2>3. CASE ~Enterprise!Handle
    BY <2>3 DEF MainInv, Enterprise!Next, Enterprise!Open, Enterprise!Gate,
       Enterprise!Report, Enterprise!vars
  <2> QED BY <2>2, <2>3
<1>5. ai' + human' <= at' - 1
  <2>1. CASE Enterprise!Handle
    <3>1. PICK escalate \in BOOLEAN, t \in KeptTickets : Handles(escalate, t)
      BY <1>0, <2>1, HandlesOne DEF MainInv
    <3>2. at' = at + 1
      BY <2>1 DEF Enterprise!Handle, Enterprise!HandleCore, Enterprise!HandleVault,
         Enterprise!HandleSwarm, Enterprise!HandleAI, Enterprise!HandleCoin,
         Enterprise!HandleMesh, Enterprise!Handled
    <3>3. \/ human' = human + 1 /\ ai' = ai
          \/ human' = human /\ ai' = ai + 1
      BY <3>1 DEF Handles, Counts
    <3> QED BY <1>0, <3>2, <3>3 DEF MainInv
  <2>2. CASE ~Enterprise!Handle
    <3>1. UNCHANGED <<ai, human>> /\ (at' = at \/ at' = at + 1)
      BY <2>2 DEF Enterprise!Next, Enterprise!Open, Enterprise!Gate, Enterprise!Report,
         Enterprise!vars, Enterprise!books
    <3> QED BY <1>0, <3>1 DEF MainInv
  <2> QED BY <2>1, <2>2
<1>6. CoinInv'
  <2>1. CASE Enterprise!Open
    BY <1>0, <2>1, OpenCoin DEF MainInv
  <2>2. CASE Enterprise!HandleCoin
    <3>1. at \in 1 .. Len(Tickets)
      BY <2>2, List DEF Enterprise!HandleCoin, Enterprise!Handled, MainInv, Walk
    <3> QED BY <1>0, <2>2, <3>1, PaidCoin DEF MainInv
  <2>3. CASE Enterprise!HandleMesh
    <3>1. Coin!mine_block(1)
      BY <2>3, SameCoin DEF Enterprise!HandleMesh
    <3> QED BY <1>0, <3>1, MinedIsTyped DEF MainInv
  <2>4. CASE UNCHANGED Enterprise!coinVars
    BY <2>4 DEF Enterprise!coinVars, MainInv, CoinInv, Balances
  <2>5. \/ Enterprise!Open \/ Enterprise!HandleCoin \/ Enterprise!HandleMesh
        \/ UNCHANGED Enterprise!coinVars
    BY DEF Enterprise!Next, Enterprise!Handle, Enterprise!HandleCore, Enterprise!HandleVault,
       Enterprise!HandleSwarm, Enterprise!HandleAI, Enterprise!Gate, Enterprise!Report,
       Enterprise!vars, Enterprise!coinVars
  <2> QED BY <2>1, <2>2, <2>3, <2>4, <2>5
<1> QED BY <1>1, <1>2, <1>3, <1>4, <1>5, <1>6 DEF MainInv

LEMMA MainTypes ==
  ASSUME Enterprise!EnterpriseProgramAssumption, MainInv PROVE Enterprise!TypeOK
<1>0. /\ ai \in Nat /\ human \in Nat /\ at \in 1 .. Len(Tickets) + 1 /\ Len(Tickets) \in Nat
      /\ ai + human <= at - 1
  BY List DEF MainInv, Walk, Accounts, BookTypes
<1>1. {ai, human} \subseteq 0 .. Len(Tickets)
  BY <1>0
<1>2. Enterprise!Breaker!TypeOK
  BY DEF MainInv, Untouched, Enterprise!Breaker!TypeOK, Enterprise!Breaker!States
<1>3. Enterprise!Coin!TypeOK
  BY DEF MainInv, CoinInv, Balances, Enterprise!Coin!TypeOK, Enterprise!Coin!Addresses
<1> QED
  BY <1>0, <1>1, <1>2, <1>3
     DEF MainInv, Walk, Accounts, BookTypes, Decisions, Enterprise!TypeOK

-----------------------------------------------------------------------------
(* What v7's accounts hold.  NothingIsPaid does not say that the client's  *)
(* and the agent's wallets are empty while they are still being made, nor  *)
(* that wallets are numbered in the order of their creation.               *)
Coffers ==
    program.engine = "coin" =>
        /\ \E n \in Nat \ {0} : DOMAIN wallets = 0 .. n - 1
        /\ pc # "open" => {2, 3} \subseteq DOMAIN wallets
        /\ \A a \in DOMAIN wallets : a \in {2, 3} => wallets[a] = 0
        /\ circulating = 0

LEMMA CoffersInit == ASSUME Enterprise!Init PROVE Coffers
<1>1. wallets = [a \in {0} |-> MAX_SUPPLY] /\ circulating = 0 /\ pc = "open"
  BY DEF Enterprise!Init, Enterprise!Coin!Init
<1>2. DOMAIN wallets = 0 .. 1 - 1 /\ 1 \in Nat \ {0}
  BY <1>1
<1> QED BY <1>1, <1>2 DEF Coffers

\* The wallets and the blocks mined at once, which are the program's.
LEMMA CoffersOpen ==
  ASSUME Enterprise!EnterpriseProgramAssumption, program \in Programs, Coffers,
         program.engine = "coin", Enterprise!Open
  PROVE  Coffers'
<1>1. PICK n \in Nat \ {0} : DOMAIN wallets = 0 .. n - 1
  BY DEF Coffers
<1>2. Cardinality(DOMAIN wallets) = n /\ program.wallets = 3
  BY <1>1, FS_Interval, Kinds
<1>3. pc = "open" /\ UNCHANGED program
  BY DEF Enterprise!Open
<1>4. CASE Enterprise!Coin!CreateWallet /\ UNCHANGED pc
  <2>1. /\ wallets' = [a \in DOMAIN wallets \cup {n} |-> IF a = n THEN 0 ELSE wallets[a]]
        /\ UNCHANGED circulating
    BY <1>2, <1>4, SameCoinCardinality
       DEF Enterprise!Coin!CreateWallet, Enterprise!Coin!create_wallet, Enterprise!Coin!Addresses
  <2>2. DOMAIN wallets' = 0 .. (n + 1) - 1 /\ n + 1 \in Nat \ {0}
    BY <1>1, <2>1
  <2> QED BY <1>3, <1>4, <2>1, <2>2 DEF Coffers
<1>5. CASE Enterprise!Coin!mine_block(1) /\ UNCHANGED pc
  <2>1. /\ DOMAIN wallets' = DOMAIN wallets /\ UNCHANGED circulating
        /\ \A a \in DOMAIN wallets : a # 1 => wallets'[a] = wallets[a]
    BY <1>5 DEF Enterprise!Coin!mine_block, Enterprise!Coin!Addresses
  <2> QED BY <1>3, <1>5, <2>1 DEF Coffers
<1>6. CASE /\ ~(Enterprise!Cardinality(DOMAIN wallets) <= program.wallets)
           /\ UNCHANGED Enterprise!coinVars
  <2>1. ~(n <= 3)
    BY <1>2, <1>6, SameCardinality
  <2>2. {2, 3} \subseteq DOMAIN wallets
    BY <1>1, <2>1
  <2> QED BY <1>3, <1>6, <2>2 DEF Coffers, Enterprise!coinVars
<1> QED BY <1>4, <1>5, <1>6 DEF Enterprise!Open

\* A transfer out of the client's empty wallet moves nothing.
LEMMA CoffersPaid ==
  ASSUME Enterprise!EnterpriseProgramAssumption, Word \in Nat \ {0}, Coffers,
         at \in 1 .. Len(Tickets), Enterprise!HandleCoin
  PROVE  Coffers'
<1> DEFINE worker == IF Tickets[at].urgent THEN 2 ELSE 1
           cost == Tickets[at].cost
           paid == Enterprise!Coin!Covered(3, worker, cost)
           after == IF paid THEN Coin!Moved(3, worker, cost) ELSE wallets
           reward == Enterprise!Coin!compute_reward(blocks)
<1>1. /\ wallets' = [after EXCEPT ![1] = (@ + reward) % Word]
      /\ circulating' = IF paid THEN circulating + cost ELSE circulating
      /\ program.engine = "coin" /\ pc = "handle" /\ UNCHANGED program
  BY SameCoin DEF Enterprise!HandleCoin, Enterprise!Handled
<1>2. worker \in {1, 2} /\ cost \in Nat
  BY ListItems
<1>3. paid => /\ 3 \in DOMAIN wallets /\ worker \in DOMAIN wallets /\ wallets[3] >= cost
  BY DEF Enterprise!Coin!Covered, Enterprise!Coin!Addresses
<1>4. /\ {2, 3} \subseteq DOMAIN wallets /\ wallets[2] = 0 /\ wallets[3] = 0 /\ circulating = 0
      /\ \E n \in Nat \ {0} : DOMAIN wallets = 0 .. n - 1
  BY <1>1 DEF Coffers
<1> HIDE DEF worker, cost, paid, reward
<1>5. paid => cost = 0
  BY <1>2, <1>3, <1>4
<1>6. 0 % Word = 0 /\ 0 - 0 = 0 /\ 0 + 0 = 0
  OBVIOUS
<1>7. DOMAIN after = DOMAIN wallets /\ after[2] = 0 /\ after[3] = 0
  <2>1. CASE paid
    <3> DEFINE taken == [wallets EXCEPT ![3] = (@ - cost) % Word]
    <3>1. DOMAIN taken = DOMAIN wallets /\ taken[2] = 0 /\ taken[3] = 0
      BY <1>4, <1>5, <1>6, <2>1
    <3>2. after = [taken EXCEPT ![worker] = (@ + cost) % Word]
      BY <2>1 DEF Coin!Moved
    <3> HIDE DEF taken, after
    <3> QED BY <1>2, <1>4, <1>5, <1>6, <2>1, <3>1, <3>2
  <2>2. CASE ~paid
    BY <1>4, <2>2
  <2> QED BY <2>1, <2>2
<1> HIDE DEF after
<1>8. DOMAIN wallets' = DOMAIN wallets /\ wallets'[2] = 0 /\ wallets'[3] = 0
  BY <1>1, <1>4, <1>7
<1>9. circulating' = 0
  BY <1>1, <1>4, <1>5
<1> QED BY <1>1, <1>4, <1>8, <1>9 DEF Coffers

LEMMA CoffersStep ==
  ASSUME Enterprise!EnterpriseProgramAssumption, Word \in Nat \ {0}, program \in Programs, Walk,
         Coffers, [Enterprise!Next]_(Enterprise!vars)
  PROVE  Coffers'
<1>1. UNCHANGED program
  BY DEF Enterprise!Next, Enterprise!Open, Enterprise!Gate, Enterprise!Handle,
     Enterprise!HandleCore, Enterprise!HandleVault, Enterprise!HandleSwarm,
     Enterprise!HandleAI, Enterprise!HandleCoin, Enterprise!HandleMesh, Enterprise!Handled,
     Enterprise!Report, Enterprise!vars
<1> SUFFICES ASSUME program.engine = "coin" PROVE Coffers'
  BY <1>1 DEF Coffers
<1>2. CASE Enterprise!Open
  BY <1>2, CoffersOpen
<1>3. CASE Enterprise!HandleCoin
  <2>1. at \in 1 .. Len(Tickets)
    BY <1>3, List DEF Enterprise!HandleCoin, Enterprise!Handled, Walk
  <2> QED BY <1>3, <2>1, CoffersPaid
<1>4. CASE UNCHANGED Enterprise!coinVars /\ (pc' # "open" => pc # "open")
  BY <1>1, <1>4 DEF Enterprise!coinVars, Coffers
<1>5. CASE Enterprise!Handle /\ ~Enterprise!HandleCoin
  BY <1>5 DEF Enterprise!Handle, Enterprise!HandleCore, Enterprise!HandleVault,
     Enterprise!HandleSwarm, Enterprise!HandleAI, Enterprise!HandleMesh
<1>6. CASE Enterprise!Gate \/ Enterprise!Report \/ UNCHANGED Enterprise!vars
  BY <1>4, <1>6 DEF Enterprise!Gate, Enterprise!Report, Enterprise!vars, Enterprise!coinVars
<1> QED BY <1>2, <1>3, <1>5, <1>6 DEF Enterprise!Next

(* Whatever the tickets cost and whoever is to be paid, nothing is: once   *)
(* v7 has made its wallets and mined its blocks, the client's and the      *)
(* agent's wallets stay empty and nothing circulates, while a payment is   *)
(* recorded and a block mined for every ticket                             *)
(* (phi_grc_enterprise.cpp:46, 74-98).                                     *)
THEOREM NoCoinMoves == Spec => []NothingIsPaid
<1> DEFINE Inv == component = "enterprise" => Walk /\ program \in Programs /\ Coffers
<1>a. Enterprise!EnterpriseProgramAssumption /\ Word \in Nat \ {0}
  BY ServicesAssumption DEF ServicesAssumption, Coin!GRCCoinAssumption
<1>1. Init => Inv
  <2>1. Enterprise!Init => program \in Programs
    BY DEF Enterprise!Init
  <2> QED BY <1>a, <2>1, WalkInit, CoffersInit DEF Init
<1>2. Inv /\ [Next]_vars => Inv'
  <2> SUFFICES ASSUME component = "enterprise", Walk, program \in Programs, Coffers, [Next]_vars
               PROVE  Inv'
    BY ComponentStays
  <2>1. [Enterprise!Next]_(Enterprise!vars)
    BY EnterpriseSteps
  <2>2. UNCHANGED program
    BY <2>1 DEF Enterprise!Next, Enterprise!Open, Enterprise!Gate, Enterprise!Handle,
       Enterprise!HandleCore, Enterprise!HandleVault, Enterprise!HandleSwarm,
       Enterprise!HandleAI, Enterprise!HandleCoin, Enterprise!HandleMesh, Enterprise!Handled,
       Enterprise!Report, Enterprise!vars
  <2> QED BY <1>a, <2>1, <2>2, WalkStep, CoffersStep
<1>3. Inv => NothingIsPaid
  BY DEF NothingIsPaid, Enterprise!NothingIsPaid, Coffers
<1> QED BY <1>1, <1>2, <1>3, PTL DEF Spec

-----------------------------------------------------------------------------
(* The WebSocket server and the demo database.                             *)
SocketTypes ==
    /\ SocketInv /\ alive \in BOOLEAN /\ sent \in 0 .. MaxEvents
    /\ asked \in [Peers -> {"nothing", "handshake", "other"}] /\ fd \in Fds \cup {Nobody}

LEMMA SocketTypesInit ==
  ASSUME WebSocket!WebSocketServerAssumption, WebSocket!Init PROVE SocketTypes
  BY SocketInit DEF WebSocket!WebSocketServerAssumption, WebSocket!Init, SocketTypes

LEMMA SocketTypesStep ==
  ASSUME WebSocket!WebSocketServerAssumption, SocketTypes, [WebSocket!Next]_(WebSocket!vars)
  PROVE  SocketTypes'
<1>0. SocketInv' /\ MaxEvents \in Nat
  BY SocketStep DEF SocketTypes, WebSocket!WebSocketServerAssumption
<1> USE <1>0 DEF SocketTypes
<1>1. ASSUME NEW p \in Peers, WebSocket!Connect(p) PROVE SocketTypes'
  BY <1>1 DEF WebSocket!Connect
<1>2. ASSUME NEW p \in Peers, NEW what \in {"handshake", "other"}, WebSocket!Ask(p, what)
      PROVE  SocketTypes'
  BY <1>2 DEF WebSocket!Ask
<1>3. ASSUME NEW p \in Peers, NEW how, WebSocket!Leave(p, how) PROVE SocketTypes'
  BY <1>3 DEF WebSocket!Leave
<1>4. ASSUME NEW f \in Fds, WebSocket!Borrow(f) PROVE SocketTypes'
  BY <1>4 DEF WebSocket!Borrow
<1>5. ASSUME NEW p \in Peers, NEW f \in Fds, WebSocket!Accept(p, f) PROVE SocketTypes'
  BY <1>5 DEF WebSocket!Accept
<1>6. CASE WebSocket!Recv
  BY <1>6 DEF WebSocket!Recv
<1>7. CASE WebSocket!Push
  BY <1>7 DEF WebSocket!Push
<1>8. CASE WebSocket!Welcome
  BY <1>8 DEF WebSocket!Welcome
<1>9. CASE WebSocket!Broadcast
  <2>1. /\ alive' \in BOOLEAN /\ UNCHANGED <<asked, fd>>
        /\ sent < MaxEvents /\ sent' = sent + 1
    BY <1>9 DEF WebSocket!Broadcast
  <2> QED BY <2>1
<1>10. CASE UNCHANGED WebSocket!vars
  BY <1>10 DEF WebSocket!vars
<1> QED
  BY <1>1, <1>2, <1>3, <1>4, <1>5, <1>6, <1>7, <1>8, <1>9, <1>10 DEF WebSocket!Next

(* Every row of the ticket table is a seeded one or a browser's. *)
RowStatuses == {"Open", "In Progress", "Resolved"}
Row == [status : RowStatuses, by : Browsers \cup {None}, text : {"plain", "quote"}, made : Nat]

DemoTypes ==
    /\ SeededInv /\ CreatedInv
    /\ proc \in {"down", "seed", "start", "serving", "foreign"}
    /\ {agents, refused} \subseteq SUBSET {Agents[i] : i \in DOMAIN Agents}
    /\ row <= Demo!Rows + 1 /\ (proc = "seed" => row <= Demo!Rows)
    /\ clock \in 0 .. DemoSeconds
    /\ \A i \in DOMAIN tickets : tickets[i] \in Row
    /\ doing \in [Browsers -> {"idle", "tickets", "queue", "agents", "post"}]

LEMMA DemoTypesInit ==
  ASSUME Demo!DemoServerAssumption, Demo!Init PROVE DemoTypes
<1>1. Len(Agents) \in Nat /\ Len(Seeds) \in Nat /\ DemoSeconds \in Nat
  BY Lists DEF Demo!DemoServerAssumption
<1>2. 1 <= Demo!Rows + 1
  BY <1>1 DEF Demo!Rows
<1>3. DOMAIN tickets = {}
  BY DEF Demo!Init
<1> QED BY <1>1, <1>2, <1>3, SeededInit, CreatedInit DEF Demo!Init, DemoTypes

LEMMA InsertTypes ==
  ASSUME Demo!DemoServerAssumption, clock \in Nat, \A i \in DOMAIN tickets : tickets[i] \in Row,
         NEW id, NEW status \in RowStatuses, NEW by \in Browsers \cup {None},
         NEW text \in {"plain", "quote"}, Demo!Insert(id, status, by, text)
  PROVE  \A i \in DOMAIN tickets' : tickets'[i] \in Row
<1> DEFINE new == [status |-> status, by |-> by, text |-> text, made |-> clock \div Minute]
<1>1. clock \div Minute \in Nat
  <2>1. Minute \in Nat \ {0}
    BY DEF Demo!DemoServerAssumption
  <2>2. \A n \in Nat, d \in Nat \ {0} : n \div d \in Nat
    OBVIOUS
  <2> QED BY <2>1, <2>2
<1>2. new \in Row
  BY <1>1 DEF Row
<1>3. tickets' = [i \in DOMAIN tickets \cup {id} |->
                    IF i \in DOMAIN tickets THEN tickets[i] ELSE new]
  BY DEF Demo!Insert
<1> HIDE DEF new
<1> QED BY <1>2, <1>3

LEMMA DemoTypesStep ==
  ASSUME Demo!DemoServerAssumption, DemoTypes, [Demo!Next]_(Demo!vars) PROVE DemoTypes'
<1> DEFINE Crew == SUBSET {Agents[i] : i \in DOMAIN Agents}
<1>0. /\ SeededInv' /\ CreatedInv' /\ Demo!Rows \in Nat /\ clock \in Nat /\ row \in Nat
      /\ Len(Agents) \in Nat /\ Len(Seeds) \in Nat /\ DemoSeconds \in Nat
      /\ Demo!Rows = Len(Agents) + Len(Seeds) /\ DOMAIN Agents = 1 .. Len(Agents)
  <2>1. SeededInv' /\ CreatedInv'
    BY SeededStep, CreatedStep DEF DemoTypes
  <2>2. clock \in Nat /\ row \in Nat /\ DemoSeconds \in Nat
    BY DEF DemoTypes, SeededInv, CreatedInv, Demo!DemoServerAssumption
  <2>3. /\ Len(Agents) \in Nat /\ Len(Seeds) \in Nat
        /\ Demo!Rows = Len(Agents) + Len(Seeds) /\ Demo!Rows \in Nat
    <3>1. Len(Agents) \in Nat /\ Len(Seeds) \in Nat
      BY Lists
    <3> QED BY <3>1 DEF Demo!Rows
  <2> QED BY <2>1, <2>2, <2>3, Lists
<1>1. CASE Demo!Tick
  <2>1. clock < DemoSeconds /\ clock' = clock + 1
        /\ UNCHANGED <<proc, row, agents, refused, tickets, doing>>
    BY <1>1 DEF Demo!Tick, Demo!page
  <2>2. clock' \in 0 .. DemoSeconds
    BY <1>0, <2>1
  <2> QED BY <1>0, <2>1, <2>2 DEF DemoTypes, Demo!Rows, Row
<1>2. CASE Demo!Open
  <2>1. /\ row' = 1 /\ proc' \in {"seed", "start"}
        /\ UNCHANGED <<clock, agents, refused, tickets, doing>>
    BY <1>2 DEF Demo!Open, Demo!page
  <2>2. row' <= Demo!Rows
    <3>1. Len(Agents) >= 1
      <4>1. \A S : Agents \in Seq(S) /\ Agents # <<>> => Len(Agents) # 0
        BY EmptySeq
      <4>2. Len(Agents) # 0
        BY <4>1 DEF Demo!DemoServerAssumption
      <4> QED BY <1>0, <4>2
    <3> QED BY <1>0, <2>1, <3>1
  <2> QED BY <1>0, <2>1, <2>2 DEF DemoTypes, Demo!Rows, Row
<1>3. CASE Demo!Seed
  <2>1. /\ proc = "seed" /\ row' = row + 1 /\ proc' = (IF row = Demo!Rows THEN "start" ELSE "seed")
        /\ UNCHANGED <<clock, doing>>
    BY <1>3 DEF Demo!Seed, Demo!page
  <2>2. row <= Demo!Rows /\ row \in Nat \ {0}
    BY <2>1 DEF DemoTypes, SeededInv
  <2>3. row' <= Demo!Rows + 1 /\ (proc' = "seed" => row' <= Demo!Rows)
    BY <1>0, <2>1, <2>2
  <2>4. (\A i \in DOMAIN tickets' : tickets'[i] \in Row) /\ {agents', refused'} \subseteq Crew
    <3>1. CASE row <= Len(Agents)
      <4>1. Demo!AddAgent(Agents[row])
        BY <1>3, <3>1 DEF Demo!Seed
      <4>2. Agents[row] \in {Agents[i] : i \in DOMAIN Agents}
        BY <1>0, <2>2, <3>1
      <4> QED BY <4>1, <4>2 DEF Demo!AddAgent, DemoTypes
    <3>2. CASE ~(row <= Len(Agents))
      <4> DEFINE n == row - Len(Agents)
      <4>1. Demo!AddTicket(n)
        BY <1>3, <3>2 DEF Demo!Seed
      <4>2. n \in 1 .. Len(Seeds)
        BY <1>0, <2>2, <3>2
      <4>3. Seeds[n] \in RowStatuses
        <5>1. Seeds \in Seq(RowStatuses)
          BY DEF Demo!DemoServerAssumption, RowStatuses
        <5> QED BY <4>2, <5>1, ElementOfSeq
      <4> HIDE DEF n
      <4>4. {agents', refused'} \subseteq Crew
        BY <4>1 DEF Demo!AddTicket, DemoTypes
      <4>5. CASE Demo!Insert(<<"seed", n>>, Seeds[n], None, "plain")
        BY <1>0, <4>3, <4>4, <4>5, InsertTypes DEF DemoTypes
      <4>6. CASE UNCHANGED tickets
        BY <4>4, <4>6 DEF DemoTypes
      <4> QED BY <4>1, <4>5, <4>6 DEF Demo!AddTicket
    <3> QED BY <3>1, <3>2
  <2> QED BY <1>0, <2>1, <2>3, <2>4 DEF DemoTypes, Demo!Rows
<1>4. CASE Demo!Start \/ Demo!Kill
  <2>1. /\ proc' \in {"serving", "down"} /\ UNCHANGED <<row, clock, agents, refused, tickets>>
        /\ (UNCHANGED doing \/ doing' = [b \in Browsers |-> "idle"])
    BY <1>4 DEF Demo!Start, Demo!Kill, Demo!page
  <2> QED BY <1>0, <2>1 DEF DemoTypes, Demo!Rows, Row
<1>5. ASSUME NEW b \in Browsers,
             \/ Demo!loadData(b) \/ Demo!getTicketsJSON(b) \/ Demo!getQueueJSON(b)
             \/ Demo!getAgentsJSON(b)
      PROVE  DemoTypes'
  <2>1. /\ UNCHANGED <<proc, row, clock, agents, refused, tickets>>
        /\ \E then \in {"idle", "tickets", "queue", "agents", "post"} :
             doing' = [doing EXCEPT ![b] = then]
    BY <1>5 DEF Demo!loadData, Demo!getTicketsJSON, Demo!getQueueJSON, Demo!getAgentsJSON,
                Demo!Answer
  <2> QED BY <1>0, <2>1 DEF DemoTypes, Demo!Rows, Row
<1>6. ASSUME NEW b \in Browsers, NEW f \in Demo!Forms, Demo!Submit(b, f) PROVE DemoTypes'
  <2>1. /\ UNCHANGED <<proc, row, clock, agents, refused, tickets>>
        /\ doing' = [doing EXCEPT ![b] = "post"]
    BY <1>6 DEF Demo!Submit
  <2> QED BY <1>0, <2>1 DEF DemoTypes, Demo!Rows, Row
<1>7. ASSUME NEW b \in Browsers, Demo!createTicket(b) PROVE DemoTypes'
  <2> DEFINE values == Demo!Stored(b)
  <2>1. /\ proc = "serving" /\ proc' \in {"serving", "foreign"}
        /\ UNCHANGED <<row, clock, agents, refused>> /\ doing' = [doing EXCEPT ![b] = "tickets"]
        /\ \/ UNCHANGED tickets
           \/ values.text # "apostrophe" /\ Demo!Insert(<<"TKT", clock>>, "Open", values.by,
                                                        values.text)
    BY <1>7 DEF Demo!createTicket, Demo!Answer
  <2>2. \A i \in DOMAIN tickets' : tickets'[i] \in Row
    <3>1. CASE UNCHANGED tickets
      BY <3>1 DEF DemoTypes
    <3>2. CASE values.text # "apostrophe" /\ Demo!Insert(<<"TKT", clock>>, "Open", values.by,
                                                         values.text)
      <4>1. form[b] \in Demo!Forms
        BY DEF DemoTypes, CreatedInv
      <4>2. values.by \in Browsers \cup {None} /\ values.text \in {"plain", "quote"}
        BY <3>2, <4>1 DEF Demo!Forms, Demo!Stored
      <4>3. "Open" \in RowStatuses
        BY DEF RowStatuses
      <4> HIDE DEF values
      <4> QED BY <1>0, <3>2, <4>2, <4>3, InsertTypes DEF DemoTypes
    <3> QED BY <2>1, <3>1, <3>2
  <2> QED BY <1>0, <2>1, <2>2 DEF DemoTypes, Demo!Rows
<1>8. CASE UNCHANGED Demo!vars
  BY <1>0, <1>8 DEF Demo!vars, Demo!page, DemoTypes, Demo!Rows, Row
<1> QED
  BY <1>1, <1>2, <1>3, <1>4, <1>5, <1>6, <1>7, <1>8 DEF Demo!Next, Demo!Serve

(* The coin's steps in the whole. *)
LEMMA CoinSteps ==
  ASSUME [Next]_vars, component = "coin"
  PROVE  component' = component /\ [Coin!Next]_(Coin!vars)
<1>1. CASE UNCHANGED vars
  BY <1>1 DEF vars, coin, Coin!vars
<1>2. CASE Next
  BY <1>2 DEF Next, InBreaker, InCoin, InEnterprise, InWebSocket, InDemo, InStore, InNetwork,
              Coin!Next, Coin!Addresses
<1> QED BY <1>1, <1>2

-----------------------------------------------------------------------------
(* Sums over the wallets.  The library's induction takes a predicate; that *)
(* a set with 0 and every successor holds the numbers needs none, only     *)
(* that a set of numbers has a least element.                              *)
LEMMA AllNumbers ==
  ASSUME NEW T, 0 \in T, \A n \in T : n + 1 \in T PROVE Nat \subseteq T
<1> SUFFICES ASSUME Nat \ T # {} PROVE FALSE
  OBVIOUS
<1> DEFINE R == {ss \in Nat \X Nat : ss[1] < ss[2]}
<1>1. IsWellFoundedOn(R, Nat)
  BY NatLessThanWellFounded DEF OpToRel
<1>2. \A x, y \in Nat : <<y, x>> \in R <=> y < x
  OBVIOUS
<1> HIDE DEF R
<1>3. PICK x \in Nat \ T : \A y \in Nat \ T : ~ (<<y, x>> \in R)
  BY <1>1, WFMin, Zenon
<1>4. x - 1 \in Nat /\ x - 1 < x /\ (x - 1) + 1 = x
  BY <1>3
<1>5. x - 1 \in T
  BY <1>2, <1>3, <1>4
<1> QED BY <1>3, <1>4, <1>5

\* The sum is what its recursion says: one function for each length, each
\* continuing the one before, and the diagonal.
Partial(w, h, n) == h = [i \in 0 .. n |-> IF i = 0 THEN 0 ELSE h[i - 1] + w[i - 1]]

LEMMA PartialExists == ASSUME NEW w PROVE \A n \in Nat : \E h : Partial(w, h, n)
<1> DEFINE T == {n \in Nat : \E h : Partial(w, h, n)}
<1>1. 0 \in T
  <2> DEFINE h == [i \in 0 .. 0 |-> 0]
  <2>1. Partial(w, h, 0)
    BY DEF Partial
  <2> QED BY <2>1
<1>2. ASSUME NEW n \in T PROVE n + 1 \in T
  <2>1. n \in Nat /\ \E h : Partial(w, h, n)
    OBVIOUS
  <2>2. PICK h : Partial(w, h, n)
    BY <2>1
  <2> DEFINE k == [i \in 0 .. n + 1 |-> IF i = n + 1 THEN h[n] + w[n] ELSE h[i]]
  <2>3. \A i \in 0 .. n : h[i] = IF i = 0 THEN 0 ELSE h[i - 1] + w[i - 1]
    BY <2>1, <2>2 DEF Partial
  <2>4. ASSUME NEW i \in 0 .. n + 1
        PROVE  k[i] = IF i = 0 THEN 0 ELSE k[i - 1] + w[i - 1]
    <3>1. CASE i = n + 1
      <4>1. i # 0 /\ i - 1 = n /\ n \in 0 .. n + 1 /\ n # n + 1
        BY <2>1, <3>1
      <4>2. k[i] = h[n] + w[n]
        BY <3>1
      <4>3. k[n] = h[n]
        BY <4>1
      <4> QED BY <4>1, <4>2, <4>3
    <3>2. CASE i # n + 1
      <4>1. i \in 0 .. n /\ (i # 0 => i - 1 \in 0 .. n + 1 /\ i - 1 # n + 1)
        BY <2>1, <3>2
      <4>2. k[i] = h[i] /\ (i # 0 => k[i - 1] = h[i - 1])
        BY <4>1, <3>2
      <4> HIDE DEF k
      <4> QED BY <2>3, <4>1, <4>2
    <3> QED BY <3>1, <3>2
  <2>5. k = [i \in 0 .. n + 1 |-> k[i]]
    OBVIOUS
  <2> HIDE DEF k
  <2>6. Partial(w, k, n + 1)
    BY <2>4, <2>5 DEF Partial
  <2> QED BY <2>1, <2>6
<1> HIDE DEF T
<1>3. Nat \subseteq T
  BY <1>1, <1>2, AllNumbers
<1> QED BY <1>3 DEF T

LEMMA SumExists ==
  ASSUME NEW w
  PROVE  \E g : g = [i \in Nat |-> IF i = 0 THEN 0 ELSE g[i - 1] + w[i - 1]]
<1> DEFINE H(n) == CHOOSE h : Partial(w, h, n)
           g == [n \in Nat |-> H(n)[n]]
<1>1. \A n \in Nat : Partial(w, H(n), n)
  BY PartialExists
<1> HIDE DEF H
<1>2. \A n \in Nat : \A i \in 0 .. n : H(n)[i] = IF i = 0 THEN 0 ELSE H(n)[i - 1] + w[i - 1]
  BY <1>1 DEF Partial
<1>3. ASSUME NEW n \in Nat PROVE H(n + 1)[n] = H(n)[n]
  <2> DEFINE T == {i \in Nat : i <= n => H(n + 1)[i] = H(n)[i]}
  <2>1. 0 \in T
    <3>1. 0 \in 0 .. n /\ 0 \in 0 .. n + 1 /\ n + 1 \in Nat
      OBVIOUS
    <3> QED BY <1>2, <3>1
  <2>2. ASSUME NEW i \in T PROVE i + 1 \in T
    <3>1. CASE i + 1 <= n
      <4>1. /\ i \in Nat /\ i <= n /\ i + 1 \in 0 .. n /\ i + 1 \in 0 .. n + 1 /\ n + 1 \in Nat
            /\ i + 1 # 0 /\ (i + 1) - 1 = i
        BY <3>1
      <4>2. H(n + 1)[i] = H(n)[i]
        BY <4>1
      <4>3. H(n + 1)[i + 1] = H(n + 1)[i] + w[i] /\ H(n)[i + 1] = H(n)[i] + w[i]
        BY <1>2, <4>1
      <4> QED BY <4>1, <4>2, <4>3
    <3>2. CASE ~(i + 1 <= n)
      BY <3>2
    <3> QED BY <3>1, <3>2
  <2> HIDE DEF T
  <2>3. Nat \subseteq T
    BY <2>1, <2>2, AllNumbers
  <2> QED BY <2>3 DEF T
<1>4. ASSUME NEW i \in Nat PROVE g[i] = IF i = 0 THEN 0 ELSE g[i - 1] + w[i - 1]
  <2>1. CASE i = 0
    <3>1. 0 \in 0 .. 0 /\ 0 \in Nat
      OBVIOUS
    <3>2. H(0)[0] = 0
      BY <1>2, <3>1
    <3> QED BY <2>1, <3>2
  <2>2. CASE i # 0
    <3>1. i - 1 \in Nat /\ i \in 0 .. i /\ (i - 1) + 1 = i
      BY <2>2
    <3>2. H(i)[i] = H(i)[i - 1] + w[i - 1]
      BY <1>2, <2>2, <3>1
    <3>3. H(i)[i - 1] = H(i - 1)[i - 1]
      BY <1>3, <3>1
    <3> QED BY <2>2, <3>1, <3>2, <3>3
  <2> QED BY <2>1, <2>2
<1>5. g = [i \in Nat |-> g[i]]
  OBVIOUS
<1> HIDE DEF g
<1>6. g = [i \in Nat |-> IF i = 0 THEN 0 ELSE g[i - 1] + w[i - 1]]
  BY <1>4, <1>5
<1> QED BY <1>6

LEMMA HeldNext ==
  ASSUME NEW w
  PROVE  /\ Coin!Held(w, 0) = 0
         /\ \A n \in Nat : Coin!Held(w, n + 1) = Coin!Held(w, n) + w[n]
<1> DEFINE g == CHOOSE g : g = [i \in Nat |-> IF i = 0 THEN 0 ELSE g[i - 1] + w[i - 1]]
<1>1. g = [i \in Nat |-> IF i = 0 THEN 0 ELSE g[i - 1] + w[i - 1]]
  BY SumExists
<1>2. \A n : Coin!Held(w, n) = g[n]
  BY DEF Coin!Held
<1> HIDE DEF g
<1>3. \A i \in Nat : g[i] = IF i = 0 THEN 0 ELSE g[i - 1] + w[i - 1]
  BY <1>1
<1>4. ASSUME NEW n \in Nat PROVE g[n + 1] = g[n] + w[n]
  <2>1. n + 1 \in Nat /\ n + 1 # 0 /\ (n + 1) - 1 = n
    OBVIOUS
  <2> QED BY <1>3, <2>1
<1> QED BY <1>2, <1>3, <1>4

\* A sum of unsigned balances is a number, and none of them is above it.
LEMMA HeldBounds ==
  ASSUME NEW w, NEW n \in Nat, \A i \in 0 .. n - 1 : w[i] \in Nat
  PROVE  Coin!Held(w, n) \in Nat /\ \A i \in 0 .. n - 1 : w[i] <= Coin!Held(w, n)
<1> DEFINE T == {m \in Nat : m <= n =>
                    /\ Coin!Held(w, m) \in Nat
                    /\ \A i \in 0 .. m - 1 : w[i] <= Coin!Held(w, m)}
<1>1. 0 \in T
  BY HeldNext
<1>2. ASSUME NEW m \in T PROVE m + 1 \in T
  <2>1. CASE m + 1 <= n
    <3>1. m \in Nat /\ m <= n /\ m \in 0 .. n - 1
      BY <2>1
    <3>2. /\ Coin!Held(w, m) \in Nat /\ w[m] \in Nat
          /\ \A i \in 0 .. m - 1 : w[i] <= Coin!Held(w, m)
      BY <3>1
    <3>3. Coin!Held(w, m + 1) = Coin!Held(w, m) + w[m]
      BY <3>1, HeldNext
    <3>4. ASSUME NEW i \in 0 .. (m + 1) - 1 PROVE w[i] <= Coin!Held(w, m + 1)
      <4>1. i \in 0 .. n - 1 /\ (i = m \/ i \in 0 .. m - 1)
        BY <2>1, <3>1
      <4>2. w[i] \in Nat /\ (i = m \/ w[i] <= Coin!Held(w, m))
        BY <3>2, <4>1
      <4> QED BY <3>2, <3>3, <4>2
    <3> QED BY <3>1, <3>2, <3>3, <3>4
  <2>2. CASE ~(m + 1 <= n)
    BY <2>2
  <2> QED BY <2>1, <2>2
<1> HIDE DEF T
<1>3. n \in T
  BY <1>1, <1>2, AllNumbers
<1> QED BY <1>3 DEF T

\* Changing one balance changes the sum by as much.
LEMMA HeldChanged ==
  ASSUME NEW v, NEW w, NEW n \in Nat, NEW a \in 0 .. n - 1,
         \A i \in 0 .. n - 1 : v[i] \in Nat /\ w[i] \in Nat,
         \A i \in 0 .. n - 1 : i # a => v[i] = w[i]
  PROVE  Coin!Held(v, n) = Coin!Held(w, n) + (v[a] - w[a])
<1> DEFINE T == {m \in Nat : m <= n =>
                    /\ Coin!Held(w, m) \in Int /\ Coin!Held(v, m) \in Int
                    /\ Coin!Held(v, m) = Coin!Held(w, m) + (IF m <= a THEN 0 ELSE v[a] - w[a])}
<1>1. 0 \in T
  BY HeldNext
<1>2. ASSUME NEW m \in T PROVE m + 1 \in T
  <2>1. CASE m + 1 <= n
    <3>1. m \in Nat /\ m <= n /\ m \in 0 .. n - 1
      BY <2>1
    <3>2. /\ Coin!Held(w, m) \in Int /\ Coin!Held(v, m) \in Int
          /\ Coin!Held(v, m) = Coin!Held(w, m) + (IF m <= a THEN 0 ELSE v[a] - w[a])
      BY <3>1
    <3>3. /\ Coin!Held(w, m + 1) = Coin!Held(w, m) + w[m]
          /\ Coin!Held(v, m + 1) = Coin!Held(v, m) + v[m]
      BY <3>1, HeldNext
    <3>4. v[m] \in Nat /\ w[m] \in Nat /\ v[a] \in Nat /\ w[a] \in Nat
      BY <3>1
    <3>5. m # a => v[m] = w[m]
      BY <3>1
    <3>6. Coin!Held(v, m + 1)
            = Coin!Held(w, m + 1) + (IF m + 1 <= a THEN 0 ELSE v[a] - w[a])
      <4>1. CASE m = a
        BY <3>1, <3>2, <3>3, <3>4, <4>1
      <4>2. CASE m < a
        BY <3>1, <3>2, <3>3, <3>4, <3>5, <4>2
      <4>3. CASE m > a
        BY <3>1, <3>2, <3>3, <3>4, <3>5, <4>3
      <4> QED BY <3>1, <4>1, <4>2, <4>3
    <3> QED BY <3>1, <3>2, <3>3, <3>4, <3>6
  <2>2. CASE ~(m + 1 <= n)
    BY <2>2
  <2> QED BY <2>1, <2>2
<1> HIDE DEF T
<1>3. n \in T
  BY <1>1, <1>2, AllNumbers
<1> QED BY <1>3 DEF T

\* A wallet beyond those added up is not in the sum.
LEMMA HeldSame ==
  ASSUME NEW v, NEW w, NEW n \in Nat, \A i \in 0 .. n - 1 : v[i] = w[i]
  PROVE  Coin!Held(v, n) = Coin!Held(w, n)
<1> DEFINE T == {m \in Nat : m <= n => Coin!Held(v, m) = Coin!Held(w, m)}
<1>1. 0 \in T
  BY HeldNext
<1>2. ASSUME NEW m \in T PROVE m + 1 \in T
  <2>1. CASE m + 1 <= n
    <3>1. m \in Nat /\ m \in 0 .. n - 1 /\ Coin!Held(v, m) = Coin!Held(w, m)
      BY <2>1
    <3>2. Coin!Held(v, m + 1) = Coin!Held(v, m) + v[m]
      BY <3>1, HeldNext
    <3>3. Coin!Held(w, m + 1) = Coin!Held(w, m) + w[m]
      BY <3>1, HeldNext
    <3> QED BY <3>1, <3>2, <3>3
  <2>2. CASE ~(m + 1 <= n)
    BY <2>2
  <2> QED BY <2>1, <2>2
<1> HIDE DEF T
<1>3. n \in T
  BY <1>1, <1>2, AllNumbers
<1> QED BY <1>3 DEF T

(* The sum is the supply and the rewards, and while the rewards fit the    *)
(* word no balance wraps around: the wallets are numbered in the order of  *)
(* their creation, and a block is worth 50 at most.                        *)
RewardsFit == MAX_SUPPLY + 50 * MaxBlocks < Word

Adds(w, n, total) == DOMAIN w = 0 .. n - 1 /\ Coin!Held(w, n) = total

SupplyInv ==
    /\ CoinInv
    /\ minted <= 50 * (blocks - 1) /\ (blocks = 1 \/ blocks <= MaxBlocks)
    /\ \E n \in Nat \ {0} : Adds(wallets, n, MAX_SUPPLY + minted)

LEMMA SupplyInit == ASSUME Coin!GRCCoinAssumption, Coin!Init PROVE SupplyInv
<1>0. /\ MAX_SUPPLY \in Nat /\ Word \in Nat /\ MAX_SUPPLY < Word
      /\ wallets = [a \in {0} |-> MAX_SUPPLY] /\ blocks = 1 /\ circulating = 0 /\ minted = 0
  BY DEF Coin!GRCCoinAssumption, Coin!Init
<1>1. CoinInv
  BY <1>0, CoinInit
<1>2. DOMAIN wallets = 0 .. 1 - 1 /\ wallets[0] = MAX_SUPPLY
  BY <1>0
<1>3. Coin!Held(wallets, 0 + 1) = Coin!Held(wallets, 0) + wallets[0] /\ Coin!Held(wallets, 0) = 0
  BY HeldNext
<1>4. Adds(wallets, 1, MAX_SUPPLY + minted)
  BY <1>0, <1>2, <1>3 DEF Adds
<1> QED BY <1>0, <1>1, <1>4 DEF SupplyInv

\* Changing one balance, upwards or down, without leaving the word.
LEMMA OneChange ==
  ASSUME NEW w, NEW v, NEW n \in Nat, NEW total \in Int, NEW a \in DOMAIN w, NEW d \in Int,
         NEW word \in Nat, \A i \in DOMAIN w : w[i] \in Nat, Adds(w, n, total),
         0 <= w[a] + d, total + d < word,
         DOMAIN v = DOMAIN w, v[a] = (w[a] + d) % word,
         \A i \in DOMAIN w : i # a => v[i] = w[i]
  PROVE  Adds(v, n, total + d) /\ \A i \in DOMAIN v : v[i] \in Nat
<1>1. DOMAIN w = 0 .. n - 1 /\ Coin!Held(w, n) = total
  BY DEF Adds
<1>2. w[a] \in Nat /\ w[a] <= total /\ a \in 0 .. n - 1
  BY <1>1, HeldBounds
<1>3. \A x \in Nat : x < word => x % word = x
  OBVIOUS
<1>4. w[a] + d \in Nat /\ w[a] + d < word
  BY <1>2
<1>5. v[a] = w[a] + d
  BY <1>3, <1>4
<1>6. \A i \in 0 .. n - 1 : i # a => v[i] = w[i]
  BY <1>1
<1>7. \A i \in 0 .. n - 1 : v[i] \in Nat /\ w[i] \in Nat
  BY <1>1, <1>4, <1>5, <1>6
<1>8. Coin!Held(v, n) = Coin!Held(w, n) + (v[a] - w[a])
  BY <1>2, <1>6, <1>7, HeldChanged
<1>9. Coin!Held(v, n) = total + d
  BY <1>1, <1>2, <1>5, <1>8
<1> QED BY <1>1, <1>7, <1>9 DEF Adds

\* A wallet more.
LEMMA SupplyOpened ==
  ASSUME SupplyInv, Word \in Nat \ {0}, Coin!CreateWallet PROVE SupplyInv'
<1>1. PICK n \in Nat \ {0} : Adds(wallets, n, MAX_SUPPLY + minted)
  BY DEF SupplyInv
<1>2. DOMAIN wallets = 0 .. n - 1 /\ Coin!Held(wallets, n) = MAX_SUPPLY + minted
  BY <1>1 DEF Adds
<1>3. Cardinality(DOMAIN wallets) = n
  BY <1>2, FS_Interval
<1>4. /\ wallets' = [a \in DOMAIN wallets \cup {n} |-> IF a = n THEN 0 ELSE wallets[a]]
      /\ UNCHANGED <<blocks, circulating, minted>>
  BY <1>3, SameCoinCardinality DEF Coin!CreateWallet, Coin!create_wallet, Coin!Addresses
<1>5. CoinInv'
  BY <1>3, <1>4, NewWallet DEF SupplyInv
<1>6. DOMAIN wallets' = 0 .. (n + 1) - 1 /\ wallets'[n] = 0
      /\ \A i \in 0 .. n - 1 : wallets'[i] = wallets[i]
  BY <1>2, <1>4
<1>7. Coin!Held(wallets', n) = Coin!Held(wallets, n)
  BY <1>6, HeldSame
<1>8. Coin!Held(wallets', n + 1) = Coin!Held(wallets', n) + wallets'[n]
  BY HeldNext
<1>9. Coin!Held(wallets, n) \in Nat
  <2>1. \A i \in 0 .. n - 1 : wallets[i] \in Nat
    BY <1>2 DEF SupplyInv, CoinInv, Balances
  <2> QED BY <2>1, HeldBounds
<1>10. Adds(wallets', n + 1, MAX_SUPPLY + minted')
  BY <1>2, <1>4, <1>6, <1>7, <1>8, <1>9 DEF Adds
<1> QED BY <1>4, <1>5, <1>10 DEF SupplyInv

\* An amount moves, from a wallet to itself too.
LEMMA SupplyMoved ==
  ASSUME SupplyInv, RewardsFit, Coin!GRCCoinAssumption, NEW from, NEW to, NEW amount \in Nat,
         Coin!Covered(from, to, amount), wallets' = Coin!Moved(from, to, amount),
         circulating' = circulating + amount, UNCHANGED <<blocks, minted>>
  PROVE  SupplyInv'
<1> PICK n \in Nat \ {0} : Adds(wallets, n, MAX_SUPPLY + minted)
  BY DEF SupplyInv
<1> DEFINE total == MAX_SUPPLY + minted
           taken == [wallets EXCEPT ![from] = (@ - amount) % Word]
           moved == [taken EXCEPT ![to] = (@ + amount) % Word]
<1>0. /\ MAX_SUPPLY \in Nat /\ Word \in Nat \ {0} /\ MaxBlocks \in Nat /\ MAX_SUPPLY < Word
      /\ minted \in Nat /\ blocks \in Nat \ {0} /\ circulating \in Nat
  BY DEF Coin!GRCCoinAssumption, SupplyInv, CoinInv
<1>1. total \in Nat /\ total < Word /\ n \in Nat
  BY <1>0 DEF SupplyInv, RewardsFit
<1>2. Adds(wallets, n, total)
  OBVIOUS
<1>3. /\ from \in DOMAIN wallets /\ to \in DOMAIN wallets /\ wallets[from] >= amount
      /\ \A i \in DOMAIN wallets : wallets[i] \in Nat
  BY DEF Coin!Covered, Coin!Addresses, SupplyInv, CoinInv, Balances
<1>4. /\ DOMAIN taken = DOMAIN wallets
      /\ taken[from] = (wallets[from] - amount) % Word
      /\ \A i \in DOMAIN wallets : i # from => taken[i] = wallets[i]
  BY <1>3
<1>5. /\ DOMAIN moved = DOMAIN taken
      /\ moved[to] = (taken[to] + amount) % Word
      /\ \A i \in DOMAIN taken : i # to => moved[i] = taken[i]
  BY <1>3
<1>6. wallets' = moved /\ total = MAX_SUPPLY + minted'
  BY DEF Coin!Moved
<1> HIDE DEF total, taken, moved
<1> DEFINE d == 0 - amount
<1>7. /\ d \in Int /\ 0 <= wallets[from] + d /\ total + d \in Int /\ total + d < Word
      /\ wallets[from] - amount = wallets[from] + d /\ (total + d) + amount = total
  BY <1>0, <1>1, <1>3
<1> HIDE DEF d
<1>8. Adds(taken, n, total + d) /\ \A i \in DOMAIN taken : taken[i] \in Nat
  <2>1. /\ Word \in Nat /\ total \in Int /\ n \in Nat /\ d \in Int
        /\ from \in DOMAIN wallets /\ \A i \in DOMAIN wallets : wallets[i] \in Nat
        /\ 0 <= wallets[from] + d /\ total + d < Word
    BY <1>0, <1>1, <1>3, <1>7
  <2>2. /\ DOMAIN taken = DOMAIN wallets /\ taken[from] = (wallets[from] + d) % Word
        /\ \A i \in DOMAIN wallets : i # from => taken[i] = wallets[i]
    BY <1>4, <1>7
  <2> QED BY <1>2, <2>1, <2>2, OneChange, Zenon
<1>9. Adds(moved, n, (total + d) + amount)
  <2>1. to \in DOMAIN taken /\ amount \in Int /\ Word \in Nat
    BY <1>0, <1>3, <1>4
  <2>2. 0 <= taken[to] + amount /\ (total + d) + amount < Word
    BY <1>1, <1>7, <1>8, <2>1
  <2> QED BY <1>1, <1>5, <1>7, <1>8, <2>1, <2>2, OneChange, Zenon
<1>10. Adds(wallets', n, MAX_SUPPLY + minted')
  BY <1>6, <1>7, <1>9
<1>11. CoinInv'
  <2>1. /\ DOMAIN wallets' = DOMAIN wallets
        /\ \A a \in DOMAIN wallets : wallets'[a] \in Balances
    BY <1>0, <1>3, MovedIsTyped DEF SupplyInv
  <2> QED BY <1>0, <2>1, NewBalances DEF SupplyInv
<1> QED BY <1>10, <1>11 DEF SupplyInv

\* A block, with a reward if its miner has a wallet.
LEMMA SupplyMined ==
  ASSUME SupplyInv, RewardsFit, Coin!GRCCoinAssumption, NEW validator, blocks < MaxBlocks,
         Coin!mine_block(validator)
  PROVE  SupplyInv'
<1> DEFINE reward == IF validator \in DOMAIN wallets THEN Coin!compute_reward(blocks) ELSE 0
           total == MAX_SUPPLY + minted
<1>0. /\ MAX_SUPPLY \in Nat /\ Word \in Nat \ {0} /\ MaxBlocks \in Nat
      /\ minted \in Nat /\ blocks \in Nat \ {0}
      /\ minted <= 50 * (blocks - 1) /\ blocks < MaxBlocks /\ MAX_SUPPLY + 50 * MaxBlocks < Word
  BY DEF Coin!GRCCoinAssumption, SupplyInv, CoinInv, RewardsFit
<1>1. reward \in 0 .. 50 /\ (validator \notin DOMAIN wallets => reward = 0)
  BY DEF Coin!compute_reward
<1>2. /\ wallets' = [a \in DOMAIN wallets |->
              IF a = validator THEN (wallets[a] + reward) % Word ELSE wallets[a]]
      /\ minted' = minted + reward /\ blocks' = blocks + 1 /\ UNCHANGED circulating
  BY DEF Coin!mine_block, Coin!Addresses
<1> HIDE DEF reward
<1>3. PICK n \in Nat \ {0} : Adds(wallets, n, total)
  BY DEF SupplyInv
<1>4. total \in Int /\ total + reward < Word /\ total + reward = MAX_SUPPLY + minted'
  BY <1>0, <1>1, <1>2
<1> HIDE DEF total
<1>5. \A i \in DOMAIN wallets : wallets[i] \in Nat
  BY DEF SupplyInv, CoinInv, Balances
<1>6. Adds(wallets', n, total + reward)
  <2>1. CASE validator \in DOMAIN wallets
    <3>1. /\ 0 <= wallets[validator] + reward /\ reward \in Int /\ Word \in Nat /\ n \in Nat
      BY <1>0, <1>1, <1>5, <2>1
    <3>2. /\ DOMAIN wallets' = DOMAIN wallets
          /\ wallets'[validator] = (wallets[validator] + reward) % Word
          /\ \A i \in DOMAIN wallets : i # validator => wallets'[i] = wallets[i]
      BY <1>2, <2>1
    <3> QED BY <1>3, <1>4, <1>5, <2>1, <3>1, <3>2, OneChange, Zenon
  <2>2. CASE validator \notin DOMAIN wallets
    <3>1. DOMAIN wallets' = DOMAIN wallets
          /\ \A i \in DOMAIN wallets : wallets'[i] = wallets[i]
      BY <1>2, <2>2
    <3>2. DOMAIN wallets = 0 .. n - 1 /\ Coin!Held(wallets, n) = total
      BY <1>3 DEF Adds
    <3>3. Coin!Held(wallets', n) = Coin!Held(wallets, n)
      BY <3>1, <3>2, HeldSame
    <3>4. total + reward = total
      BY <1>1, <1>4, <2>2
    <3> QED BY <3>1, <3>2, <3>3, <3>4 DEF Adds
  <2> QED BY <2>1, <2>2
<1>7. CoinInv'
  BY <1>0, MinedIsTyped DEF SupplyInv
<1>8. minted' <= 50 * (blocks' - 1) /\ blocks' <= MaxBlocks
  BY <1>0, <1>1, <1>2
<1> QED BY <1>3, <1>4, <1>6, <1>7, <1>8 DEF SupplyInv

LEMMA SupplyStep ==
  ASSUME Coin!GRCCoinAssumption, RewardsFit, SupplyInv, [Coin!Next]_(Coin!vars)
  PROVE  SupplyInv'
<1>0. /\ Word \in Nat \ {0} /\ Amounts \subseteq Nat
  BY DEF Coin!GRCCoinAssumption
<1>1. CASE Coin!CreateWallet
  BY <1>0, <1>1, SupplyOpened
<1>2. ASSUME NEW from, NEW to, NEW amount \in Amounts, Coin!transfer(from, to, amount)
      PROVE  SupplyInv'
  <2>1. CASE Coin!Covered(from, to, amount)
    <3>1. /\ wallets' = Coin!Moved(from, to, amount) /\ circulating' = circulating + amount
          /\ UNCHANGED <<blocks, minted>> /\ amount \in Nat
      BY <1>0, <1>2, <2>1 DEF Coin!transfer
    <3> QED BY <2>1, <3>1, SupplyMoved
  <2>2. CASE ~Coin!Covered(from, to, amount)
    BY <1>2, <2>2 DEF Coin!transfer, SupplyInv, CoinInv, Balances
  <2> QED BY <2>1, <2>2
<1>3. ASSUME NEW validator, blocks < MaxBlocks, Coin!mine_block(validator) PROVE SupplyInv'
  BY <1>3, SupplyMined
<1>4. CASE UNCHANGED Coin!vars
  BY <1>4 DEF Coin!vars, SupplyInv, CoinInv, Balances
<1> QED BY <1>1, <1>2, <1>3, <1>4 DEF Coin!Next

(* Coins come from the genesis allotment and from rewards, and from        *)
(* nowhere else: whatever transfers, wallets and blocks there were, the    *)
(* balances add up to the two and none is above that.                      *)
THEOREM CoinsAreConserved == ASSUME RewardsFit PROVE Spec => []SupplyAccountedFor
<1> DEFINE Inv == component \in Components /\ (component = "coin" => SupplyInv)
<1>a. Coin!GRCCoinAssumption
  BY ServicesAssumption DEF ServicesAssumption
<1>1. Init => Inv
  BY <1>a, SupplyInit DEF Init
<1>2. Inv /\ [Next]_vars => Inv'
  BY <1>a, ComponentStays, CoinSteps, SupplyStep
<1>3. Inv => SupplyAccountedFor
  <2> SUFFICES ASSUME SupplyInv PROVE Coin!SupplyAccountedFor
    BY DEF SupplyAccountedFor
  <2>1. PICK n \in Nat \ {0} : Adds(wallets, n, MAX_SUPPLY + minted)
    BY DEF SupplyInv
  <2>2. DOMAIN wallets = 0 .. n - 1 /\ Coin!Held(wallets, n) = MAX_SUPPLY + minted
    BY <2>1 DEF Adds
  <2>3. Coin!Cardinality(DOMAIN wallets) = n
    BY <2>2, FS_Interval, SameCoinCardinality
  <2>4. \A i \in 0 .. n - 1 : wallets[i] \in Nat
    BY <2>2 DEF SupplyInv, CoinInv, Balances
  <2>5. \A i \in 0 .. n - 1 : wallets[i] <= Coin!Held(wallets, n)
    BY <2>4, HeldBounds
  <2> QED BY <2>2, <2>3, <2>5 DEF Coin!SupplyAccountedFor, Coin!Addresses
<1> QED BY <1>1, <1>2, <1>3, PTL DEF Spec

(* Whichever part runs, its variables keep their types: bounded counters   *)
(* stay in their bounds, unsigned balances in their word, places in lists  *)
(* in the lists, and every row and entry is one of its table's.            *)
THEOREM TypeCorrect == Spec => []TypeOK
<1> DEFINE BreakerI == component = "breaker" => BreakerInv
           CoinI == component = "coin" => CoinInv
           MainI == component = "enterprise" => MainInv
           SocketI == component = "websocket" => SocketTypes
           DemoI == component = "demo" => DemoTypes
           StoreI == component = "store" => SettingsInv /\ SessionsInv
           MeshI == component = "network" => MeshInv
           Inv == /\ component \in Components /\ BreakerI /\ CoinI /\ MainI /\ SocketI /\ DemoI
                  /\ StoreI /\ MeshI
<1>a. /\ Breaker!CircuitBreakerAssumption /\ Coin!GRCCoinAssumption
      /\ Enterprise!EnterpriseProgramAssumption /\ Enterprise!Coin!GRCCoinAssumption
      /\ WebSocket!WebSocketServerAssumption /\ Demo!DemoServerAssumption
      /\ Store!PersistenceAssumption /\ Network!MeshAssumption
  BY ServicesAssumption DEF ServicesAssumption
<1>1. Init => Inv
  <2> SUFFICES ASSUME Init PROVE Inv
    OBVIOUS
  <2>1. component \in Components /\ BreakerI /\ SocketI /\ DemoI /\ MeshI
    BY <1>a, BreakerInit, SocketTypesInit, DemoTypesInit, MeshInit DEF Init
  <2>2. CoinI
    BY <1>a, CoinInit DEF Init, Coin!Init, Coin!GRCCoinAssumption
  <2>3. MainI
    BY <1>a, MainInit DEF Init
  <2>4. StoreI
    BY <1>a, SettingsInit, SessionsInit DEF Init
  <2> QED BY <2>1, <2>2, <2>3, <2>4
<1>2. Inv /\ [Next]_vars => Inv'
  <2> SUFFICES ASSUME Inv, [Next]_vars PROVE Inv'
    OBVIOUS
  <2>0. component' = component
    BY ComponentStays
  <2>1. BreakerI'
    BY <1>a, <2>0, BreakerSteps, BreakerStep
  <2>2. CoinI'
    BY <1>a, <2>0, CoinSteps, CoinStep
  <2>3. MainI'
    BY <1>a, <2>0, EnterpriseSteps, MainStep
  <2>4. SocketI'
    BY <1>a, <2>0, WebSocketSteps, SocketTypesStep
  <2>5. DemoI'
    BY <1>a, <2>0, DemoSteps, DemoTypesStep
  <2>6. StoreI'
    BY <1>a, <2>0, StoreSteps, SettingsStep, SessionsStep
  <2>7. MeshI'
    BY <1>a, <2>0, NetworkSteps, MeshStep
  <2> QED BY <2>0, <2>1, <2>2, <2>3, <2>4, <2>5, <2>6, <2>7
<1>3. Inv => TypeOK
  <2> SUFFICES ASSUME Inv PROVE TypeOK
    OBVIOUS
  <2>1. CoinInv => Coin!TypeOK
    BY DEF CoinInv, Balances, Coin!TypeOK, Coin!Addresses
  <2>2. SocketTypes => WebSocket!TypeOK
    BY DEF SocketTypes, SocketInv, SocketType, Links, WebSocket!TypeOK
  <2>3. ASSUME DemoTypes PROVE Demo!TypeOK
    <3>1. row \in 1 .. Demo!Rows + 1
      <4>1. Len(Agents) \in Nat /\ Len(Seeds) \in Nat
        BY <1>a, Lists
      <4>2. row \in Nat \ {0} /\ row <= Demo!Rows + 1
        BY <2>3 DEF DemoTypes, SeededInv
      <4> QED BY <4>1, <4>2 DEF Demo!Rows
    <3> QED BY <2>3, <3>1 DEF DemoTypes, CreatedInv, Row, RowStatuses, Demo!TypeOK
  <2>4. SettingsInv /\ SessionsInv => Store!TypeOK
    BY DEF SettingsInv, SettingsType, SessionsInv, Store!TypeOK
  <2>5. MeshInv => Network!TypeOK
    BY MeshFacts DEF MeshInv, MeshType, Peer, Network!TypeOK
  <2> QED
    BY <1>a, <2>1, <2>2, <2>3, <2>4, <2>5, MainTypes DEF BreakerInv, TypeOK
<1> QED BY <1>1, <1>2, <1>3, PTL DEF Spec

===============================================================================
