---------------------------- MODULE Persistence ----------------------------
(***************************************************************************)
(* What the programs v14 to v20 keep in divine_bpo.db over a restart, of   *)
(* the settings and the sessions: PhiConfig (src/src/phi_config.h) and     *)
(* PhiAuth (src/src/phi_auth.h) over PhiStorage (src/src/phi_storage.h),   *)
(* whose execute() prints an error and goes on, and whose query_value()    *)
(* takes an error for an empty answer: with no busy timeout, a statement   *)
(* is refused while another program has the file.                          *)
(***************************************************************************)
EXTENDS Naturals, Sequences

CONSTANTS
    Keys,           \* the settings in the order of load_defaults, a sequence
    Users, TTL,     \* a session's life in seconds, 86400
    LastSecond,     \* bound on the clock
    Values,         \* what an operator changes a setting to
    None

PersistenceAssumption ==
    /\ Keys \in Seq(STRING) /\ TTL \in Nat \ {0} /\ LastSecond \in Nat
    /\ {"default", "true", None} \cap Values = {} /\ None \notin {"default", "true"} \cup Users
    /\ "initialized" \notin {Keys[i] : i \in DOMAIN Keys}

Settings == {Keys[i] : i \in DOMAIN Keys} \cup {"initialized"}

VARIABLES
    stage, key,   \* where the program is; the next setting to store
    clock,
    config,         \* the config table
    cache,          \* PhiConfig::cache
    sessions,       \* the sessions table: user, and second of the login
    opening,        \* whose login has seen no session and is to open one
    given,          \* the session the last login returned
    unset,          \* history: the settings whose write was refused
    unstored,       \* history: whether that of the session given was
    unseen          \* history: the sessions another program has opened, or that a
                    \* login whose SELECT was refused has not seen

histories == <<unset, unstored, unseen>>
vars == <<stage, key, clock, config, cache, sessions, opening, given, histories>>

Init ==
    /\ stage = "down" /\ key = 1 /\ clock = 0
    /\ config = [k \in Settings |-> None] /\ cache = [k \in Settings |-> None]
    /\ sessions = {} /\ opening = None /\ given = None
    /\ unset = {} /\ unstored = FALSE /\ unseen = {}

Tick ==
    /\ clock < LastSecond /\ clock' = clock + 1
    /\ UNCHANGED <<stage, key, config, cache, sessions, opening, given, histories>>

\* Somebody with another tool changes a setting.
Edit(k, v) ==
    /\ k # "initialized" /\ config[k] # None /\ config' = [config EXCEPT ![k] = v]
    /\ UNCHANGED <<stage, key, clock, cache, sessions, opening, given, histories>>

\* Killed, or main() returns.
End ==
    /\ stage # "down" /\ stage' = "down" /\ given' = None /\ opening' = None /\ unstored' = FALSE
    /\ UNCHANGED <<key, clock, config, cache, sessions, unset, unseen>>

-----------------------------------------------------------------------------
(* PhiConfig. *)

\* load_defaults looks for the marker; refused, it sees none, and the defaults
\* will replace what an operator has changed.
Boot ==
    /\ stage = "down" /\ key' = 1
    /\ \E seen \in {config["initialized"], None} :
        /\ cache' = [k \in Settings |-> IF k = "initialized" THEN seen ELSE None]
        /\ stage' = IF seen = "true" THEN "running" ELSE "defaults"
    /\ UNCHANGED <<clock, config, sessions, opening, given, histories>>

\* The cache, and the table unless execute() is refused.
set(k, v) ==
    /\ cache' = [cache EXCEPT ![k] = v]
    /\ \/ config' = [config EXCEPT ![k] = v] /\ unset' = unset \ {k}
       \/ unset' = unset \cup {k} /\ UNCHANGED config

\* A slip: the marker goes first.
load_defaults_MarkerFirst ==
    /\ stage = "defaults" /\ key' = key + 1
    /\ IF key = 1 THEN set("initialized", "true") ELSE set(Keys[key - 1], "default")
    /\ stage' = IF key > Len(Keys) THEN "running" ELSE stage
    /\ UNCHANGED <<clock, sessions, opening, given, unstored, unseen>>

\* One set() of load_defaults.
load_defaults ==
    /\ stage = "defaults" /\ key' = key + 1
    /\ IF key <= Len(Keys) THEN set(Keys[key], "default") ELSE set("initialized", "true")
    /\ stage' = IF key > Len(Keys) THEN "running" ELSE stage
    /\ UNCHANGED <<clock, sessions, opening, given, unstored, unseen>>

\* The cache, which nothing refreshes, before the table.
get(k) ==
    /\ stage = "running" /\ opening = None
    /\ \E seen \in {config[k], None} : cache' = [cache EXCEPT ![k] = IF @ # None THEN @ ELSE seen]
    /\ UNCHANGED <<stage, key, clock, config, sessions, opening, given, histories>>

-----------------------------------------------------------------------------
(* PhiAuth.  A token is a hash of user and second: the pair. *)
Live(s) == s.at + TTL > clock

Session(u) == [user |-> u, at |-> clock]
Known(u) == {s \in sessions : s.user = u /\ Live(s)}

\* A slip: login does not look for a session.
login_Always(u) ==
    /\ stage = "running" /\ opening = None /\ opening' = u
    /\ UNCHANGED <<stage, key, clock, config, cache, sessions, given, histories>>

\* The SELECT, which sees none when it is refused.
login(u) ==
    /\ stage = "running" /\ opening = None
    /\ \/ given' \in Known(u) /\ unstored' = FALSE /\ UNCHANGED <<opening, unseen>>
       \/ opening' = u /\ unseen' = unseen \cup Known(u) /\ UNCHANGED <<given, unstored>>
    /\ UNCHANGED <<stage, key, clock, config, cache, sessions, unset>>

\* The INSERT.
OpenSession ==
    /\ opening # None /\ opening' = None
    /\ given' = Session(opening)
    /\ \/ sessions' = sessions \cup {given'} /\ unstored' = FALSE
       \/ unstored' = TRUE /\ UNCHANGED sessions
    /\ UNCHANGED <<stage, key, clock, config, cache, unset, unseen>>

\* Another of the programs opens one.
LoginElsewhere(u) ==
    /\ Session(u) \notin sessions /\ sessions' = sessions \cup {Session(u)}
    /\ unseen' = unseen \cup {Session(u)}
    /\ UNCHANGED <<stage, key, clock, config, cache, opening, given, unset, unstored>>

logout(s) ==
    /\ stage = "running" /\ opening = None
    /\ sessions' \in {sessions \ {s}, sessions}     \* done, or refused
    /\ given' = IF given = s THEN None ELSE given
    /\ UNCHANGED <<stage, key, clock, config, cache, opening, histories>>

Next ==
    \/ Tick \/ End \/ Boot \/ load_defaults
    \/ \E k \in Settings : get(k) \/ \E v \in Values : Edit(k, v)
    \/ OpenSession \/ \E u \in Users : login(u) \/ LoginElsewhere(u)
    \/ \E s \in sessions : logout(s)

Spec == Init /\ [][Next]_vars

-----------------------------------------------------------------------------
(* The types of the variables. *)
TypeOK ==
    /\ stage \in {"down", "defaults", "running"} /\ key \in 1 .. Len(Keys) + 2
    /\ clock \in 0 .. LastSecond
    /\ {config, cache} \subseteq [Settings -> Values \cup {"default", "true", None}]
    /\ sessions \subseteq [user : Users, at : 0 .. LastSecond]
    /\ opening \in Users \cup {None} /\ unstored \in BOOLEAN

(* Killed anywhere while it stores the defaults, the program does not take *)
(* the file for initialised before every setting is there: only a          *)
(* statement refused in silence can leave a marked file with a hole        *)
(* (phi_config.h:43-57, phi_storage.h:43-48).                              *)
MarkedIsWhole ==
    config["initialized"] = "true" =>
        \A k \in Settings : config[k] # None \/ k \in unset

(* Of the sessions that this program opens for a user, the earlier one is  *)
(* over when it opens the next, however it is killed and sessions expire   *)
(* and are logged out: two are live only when the SELECT of a login was    *)
(* refused, or beside one that another program has opened, perhaps         *)
(* between the SELECT and the INSERT.  And the token login returned has    *)
(* its row unless that was refused (phi_auth.h:20-31, phi_storage.h:43-62). *)
OneLiveSession ==
    /\ \A s, t \in sessions \ unseen : s.user = t.user /\ Live(s) /\ Live(t) => s = t
    /\ given # None => given \in sessions \/ unstored

=============================================================================
