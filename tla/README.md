# Divine BPO in TLA+

Divine BPO (`src/src/`, C++17) is a set of small programs that take support
tickets, have an "AI" answer them or hand them to a human, store them, and
report over HTTP.  Most of it is header-only classes in `namespace divine`
(thread pool, swarm of worker cores, connection pool, hash table, error
handler, coin) which twenty-odd `main` files (`phi_prod_v13.cpp` to
`phi_prod_v23_2.cpp` and earlier demonstrations) assemble in different ways.
This directory holds TLA+ models of the parts in which order, concurrency or
failure matter, configurations that check them with TLC, and theorems about
them whose proofs `tlapm` checks.

Contents: [inventory](#inventory), [modules](#modules-and-code),
[runs](#runs), [fairness](#fairness), [proofs](#proofs),
[divergences found](#divergences-found), [what is not modelled](#not-modelled),
[plan](#plan).

## Inventory

State, operations, what is hard, and what makes each part correct.  A part in
brackets is not modelled.

| Part (files) | State | Operations | Hard | Correct when |
|---|---|---|---|---|
| Thread pool (`phi_threadpool.h`) | closure queue, `running`, `active_tasks`, mutex, condition variable | constructor, worker loop, `enqueue`, destructor | flag and counter outside the mutex; lost wake-ups; drain at shutdown | each closure runs exactly once, in order, and none is left at shutdown |
| SQLite pool (`phi_dbpool.h`) | connections, `in_use`, queue of free indices | `acquire`, `release`, `query_int` | threads between acquire and release; growth | a handle has one thread; none is forgotten; growth bounded by the threads |
| Epoll servers (`phi_async_http.h`, `phi_async_http_v2.h`) | epoll set, `active_connections`, closures in the pool | event loop, accept, dispatch, closure | edge-triggered events, descriptor reuse, two threads on one descriptor | a closure serves the connection it was made for; no readiness is lost; requests get answered |
| Swarm (`phi_swarm.h`) | task queue, cores, threads, load | `start`, `process`, core loop, `scale`, `stop` | pointers into a caller's stack; a size that is stale when cores are added | the frame outlives its users; every call returns an answer; growth bounded by the callers |
| Ticket programs (`phi_prod_v13.cpp` … `phi_prod_v20.cpp`) | counters, table of tickets, chain, service status | the ticket loop, report, wait, shutdown | gates, retries and failed writes combined; a signal at any time | every ticket accounted for once; chain and database agree with the counts |
| Retry and degradation (`phi_error.h`) | failure counts, service status | `execute`, `execute_with_fallback` | long runs of failures with successes in between | DOWN after exactly five failures in a row |
| Ticket rate limiter (`phi_rate_limiter.h`) | token bucket | `allow` | truncated refill | bucket capped; refusals accounted for |
| Hash table (`phi_database.h`, `phi_constants.h`) | slots, `size_` | `insert`, `get`, `remove` | tombstones, duplicate entries of a key, a probe sequence that skips slots | a read returns the last write; keys do not disturb each other |
| Ticket core (`phi_core.h`) | counter, hash table | `create_ticket`, `get_ticket`, `process_ticket` | a full table | a ticket whose id was given out is there |
| Circuit breaker (`phi_circuit_breaker.h`) | state and failures per service, time of opening | `is_available`, `record_success`, `record_failure` | HALF_OPEN lets everyone in; a late failure reopens | closed exactly while the failures since the last success are below the threshold |
| Enterprise programs v1 to v8 (`phi_server.cpp`, `phi_enterprise.cpp` and six more) | the books: tickets, two ledgers, counts, events, coin | the ticket loop and its report | two dice for one decision; refusals in the middle of a list; a payment whose result is dropped | the books agree after every ticket; the payments it records never take place |
| Coin and ledger (`phi_grc.h`, `phi_ledger.h`) | wallets of unsigned balances, chain of blocks; chain of entries | `create_wallet`, `transfer`, `mine_block`; `record` | wrap-around, payments to oneself, rewards on top of the supply | balances add up to supply and rewards |
| Settings, sessions, storage (`phi_config.h`, `phi_auth.h`, `phi_storage.h`, `phi_backup.h`) | two tables and a cache; files | `load_defaults`, `set`, `get`, `login`, `logout`; backup | killed between two writes; refused statements nobody hears of, a refused `SELECT` that reads as "no such row"; other programs on the file; expiry | a marked file is whole; one live session per user |
| Live dashboard v23.3 (`phi_server_minimal.cpp`, `phi_database_real.h`) | agent and ticket tables; the page's requests | seeding, four endpoints, restarts | killed while seeding; rows refused unseen; ids of one second; a request in two segments; text pasted into a statement | tickets without an agent only if its row was refused; a ticket whose creation was told is kept as sent and is one browser's |
| Server programs v21 to v23.2 (`phi_prod_v21.cpp` … `phi_prod_v23_2.cpp`) with the blocking server (`phi_http.h`) | metrics, ticket list, flag | metrics thread, accept loop, routes, start-up failure | unlocked counter; one blocking `recv`; a flag the server does not read | the figures shown are accounted for; clients are answered |
| WebSocket server (`phi_websocket.h`) | vector of clients, descriptors | accept thread, `broadcast` | erase in the loop; numbers handed out again; a welcome outside the mutex | broadcast frames go to their clients, and none is missed |
| Mesh node (`phi_network.h`) | peers, online flags | `add_peer`, gossip and heartbeat threads, `stop` | a walk without the mutex; no heartbeat ever arrives | a peer fades when its time is over, stays so, and gets one late heartbeat at most |
| [Per-address limiters (`phi_rate_limit.h`, `phi_gateway.cpp`)] | bucket, window | `allow`, `handle` | constructed by v23.1 and v23.2, asked by nobody; the gateway handles seven fixed requests | — |
| AI and encrypted tickets (`phi_ai.h`, `phi_fhe_core.h`) | availability of Ollama; tickets and their ledger | `process_ticket`, `needs_human`; `create_encrypted_ticket`, `process_encrypted` | an answer that never comes again | creation is recorded before a decryption |
| [Voice and call queue (`phi_voice.h`, `phi_callqueue.h`)] | heap, bounded queue | enqueue, next call | constructed by v23.2, called by nobody | — |
| [Adapters, observability, other pages] | little or none | shell commands, printing | — | — |
| [Encrypted-arithmetic experiments (`phi_fhe.h`, `src/*.cpp`)] | pure | multiply, recode | bounds of carries and noise | equal to plain arithmetic |

How they interact:

```
 main (v13..v20) --process()--> PhiSwarm (cores)          shared: task queue, promise
        |---execute()--> ErrorHandler --insert--> SQLite
        |---mine_block()--> GRCCoin        SIGINT/SIGTERM --> running
 main (v23) --start()--> epoll loop --enqueue()--> ThreadPool --closure--> DBPool
 v1, v2 --> PhiCore --> PhiDatabase      v2..v8 --> RateLimiter, CircuitBreaker, PhiLedger
 v3..v6 --> PhiFHECore (own ledger)      v4, v5 --> PhiAI      v7, v8 --> GRCCoin
 v5, v6 --broadcast--> WebSocketServer thread               shared: clients, mutex
 v8 --add_peer--> PhiNetwork's two threads                  shared: peers, half a mutex
 v21, v22 --start()--> PhiServer <--g_metrics--> metrics thread --query--> SQLite
 v23.3: browser --3 GETs, POST--> SimpleServer --> DivineDatabase --> SQLite
```

Calls are synchronous except for `enqueue` (closure over a descriptor number)
and `process` (pointers to a result and a promise).  Shared state is protected
by one mutex per class, with the exceptions that the models single out:
`running`, `active_tasks`, `cores`, and everything the kernel holds.

`PROJECT.json` lists every component and, under `hazards`, each spot in the
code where something could go wrong that a test would hardly reach.

## Modules and code

Names follow the source.  A definition called `X_Something` that stands right
before `X` (for instance `Acquire_NoPredicate`) is not part of any
specification: it is `X` with a plausible mistake, kept to show that a
property notices it.

**TaskPool** – what the users of a thread pool rely on: FIFO start, at most one
execution, close only when empty.  No threads or locks.

**ThreadPool** – `phi_threadpool.h`.  One program counter per worker: take the
mutex and evaluate the predicate (`Acquire`), block (`Block`, atomic release
and wait), wake (`Woken`, `SpuriousWakeup`), leave (`Exit`) or pop (`Fetch`),
then the increment, the closure, and the decrement outside the mutex.
`active_tasks` is a plain `size_t` changed by several threads: a load into
`reg` and a store modulo `Word`.  `enqueue` is lock, push, and a notification
after the unlock; the destructor's three steps never take the mutex, as in the
code.  The destructor starts when no `enqueue` is under way: the thread that
resets the pool is the thread that enqueues.  ThreadPool implements TaskPool
(pending = the queue, in progress = the closures workers hold).

**DBPool** – `acquire` and `release` under their mutex are one step each,
`query_int` is the two with other threads in between.  A pool that runs dry
opens a connection and never closes one.

**AsyncServer** – the event loop and closures of the epoll servers over an
abstract pool: it INSTANCEs TaskPool and starts at most `NumWorkers` closures,
which is what ThreadPool was shown to implement.  Clients, the accept backlog,
the descriptor table and edge-triggered readiness are the kernel's and modelled
from what the code needs of them.  `Limited` adds the refusal of
`phi_async_http_v2.h`; the limiter's own decision is left open.  `Patient` and
`MaxSegments` choose the clients: with `Patient = TRUE` and one segment a
client sends its whole request at once and waits for the close.  The server's
`stop()` is called by no program, so the loop does not end.  The routing, the
text of responses and the Redis cache are left out.

**Swarm** – `process`, the core loop, `scale` and `stop`.  Critical sections
that do not block are one step; a core between predicate and wait is a state of
its own.  Tasks are the callers whose stack frames they point into.  `scale` reads the
number of cores once (`Scale`, line 75) and its loop runs from that number, one
`push_back` a step (`Grow`), while other callers may be at the same: each caller
may add every core from `BaseCores` to `MaxCores`, so that there may be `Most`
of them, and ids, which are the loop's, are given twice.  How many rounds the
loop has is left open between one and the limit.  An append is one step, as if
the vectors were locked: what their data race does is undefined and left out.
`stop` starts when no `process` is under way, as in every program.  The
statistics the cores keep decide nothing and are left out.

**PhiDatabase** – the open-addressing table; every method holds the mutex all
along, so each is an action.  `phi_probe` is the code's golden-ratio probe with
618034/10^6 for the double `PHI_INV`; for capacities below 1000 the truncated
products agree.  The sequence is *not* a permutation: with four slots it visits
offsets 0, 2, 0, 3.  The character loop of the hash is the constant `Hash`.
`promised` is a history variable.  What an insert dropped for want of a slot,
or a read after a remove that exposes an older copy of the key, should return
is promised by nothing in the repository (no program calls `remove`), so no
property speaks of them.

**PhiCore** – the ticket desk over an INSTANCE of PhiDatabase, driven from one
thread as its programs do.  A ticket already escalated and processed again
falls through to `ai_handled`, as in the code.

**TicketProgram** – the loop of v13, v14, v15, v16, v17, v18 and v20, which are
assemblies of the same parts.  A record per program says which gates it has and
in which order, which rejections it counts, whether the AI is asked through
`ErrorHandler`, whether a fallback answer makes the ticket a human's, what it
does with the result of the write, and whether it waits for a signal at the
end.  `ErrorHandler`'s two operations are written out once
(`Retry`/`GiveUp`/`Succeed`).  The time between two calls of the rate limiter
is what it is worth in tokens, truncated.  An SQL error is printed and dropped
(`Insert`).  An exception outside `ErrorHandler` ends the program
(`Terminate`).  After the report, or the signal, comes `swarm.stop()` (line 191
of v20; 112, 156, 147, 161, 157 and 170 of v13 to v18), which joins cores that
may have missed its notification: that it returns (`Stopped`) is a step that
need not come.  Left out: the circuit breaker's gate, because no program's
breaker ever opens (EnterpriseProgram's `BreakerNeverTrips` shows it for the
only one that reports a failure); start-up, backups, and calls to Redis,
RabbitMQ and the notifier, whose results nobody uses.

**ServerProgram** – v21 to v23.2: `main()`, the detached metrics thread whose
query and assignment are two steps, `PhiServer`'s loop step by step, and
`db_tickets++` as a load and a store.  The backlog is `PhiServer`'s; the epoll
servers' is AsyncServer's business.  The epoll servers of v23 on appear as
what AsyncServer shows of them: a client that has sent its request is answered
(`AnswerAsync`).  Requests are what distinguishes them: which figures they
show, and whether the body of a create comes with the headers.  A start-up
whose port is taken runs the shutdown lines with the metrics thread still
going, which may query a destroyed storage (`main = "crashed"`).

**CircuitBreaker** – the three calls, per service, and the thirty seconds as a
flag.  **GRCCoin** – wallets, transfers and mining with 64-bit wrap-around;
addresses are numbers, because they are hashes of numbers.

**EnterpriseProgram** – `main()` of v1 to v8 as records over one loop, with
both modules above as instances: opening entries and wallets (`Open`), limiter
and breaker (`Gate`), one `Handle…` action per engine, the report.  The dice
the code rolls are nondeterministic, and so is the department `classify_module`
finds; a ticket's text is whether it is urgent.  The ledgers are sequences: nothing rewrites an entry.

**WebSocketServer** – the accept thread (accept, handshake, push under the
mutex, welcome outside it) beside `main()`'s broadcasts, which hold the mutex
from end to end.  The vector of clients is a set of entries: no step depends on
its order, and a peer is in it once.  The kernel's part is external: numbers handed out again, here
or to another server; a close that only the second send notices, and then by
SIGPIPE, which no program handles (`alive`).  `FramesGoHome` is about the
broadcasts: the welcome, sent after the mutex is released, may reach whoever has
the number by then.

**DemoServer** – the program of v23.3 between `Open` (tables, a look at the
tickets, which sees none when it is refused), `Seed` (one row per step, each
committed by itself or refused unseen, `AddAgent` and `AddTicket`) and serving;
`Kill` anywhere; the page's three loads in a row and its creates.  What is
stored of a form (`Stored`) is its text, or the defaults under no name when the
body came late.  A text with an apostrophe goes unescaped into
`sqlite3_exec`: the statement is refused, or it is another one, and what that
does to the file is left open (`proc = "foreign"`, of which no property speaks).
`made` is the minute, the precision by which the list is sorted.  `refused`
remembers the agents whose row was refused when last tried.

**Persistence** – `load_defaults` one `set` per step, the cache in front of the
table, sessions with their expiry.  Every statement may be refused without the
caller's notice; a refused `SELECT` reads as "no such row", for the marker
(`Boot`), a setting (`get`) and a session (`login`).  `login` is two statements
(`login`, `OpenSession`) with other programs' logins in between
(`LoginElsewhere`).  `unset`, `unstored` and `unseen` remember what was refused
or done elsewhere.

**Mesh** – the node v8 runs: gossip rounds under the mutex, the heartbeat walk
(look, then send) without it, and `add_peer`, which may move the vector under
the walk (`lost`: from there the walk does nothing, anything being possible).
`round` and `faded` remember the last gossip round and whom one has found
offline.

**Services** – the seven modules that are small and share nothing but for
EnterpriseProgram and its two parts, side by side: `Init` chooses the part that
steps (`component`), the others stay as they begin, and a step of the whole is a
step of that part.  One module states the types and properties of all of them,
for one run and one module of proofs.

**ThreadPoolProofs**, **DBPoolProofs**, **SwarmProofs**, **PhiDatabaseProofs**,
**TicketProgramProofs**, **AsyncServerProofs**, **ServerProgramProofs** and
**ServicesProofs** hold the proofs.  The `MC*` modules give the constants their
values and define nothing else.

## Runs

| Run | Instance | Distinct states | Question |
|---|---|---|---|
| `thread_pool` | 2 workers, 2 producers, 3 closures, word of 4 | 29 991 | exactly once, FIFO, drained at shutdown, liveness, refinement of TaskPool |
| `thread_pool_shutdown` | same | — | does the destructor return?  No |
| `db_pool` | 4 threads, 2 connections | 496 | exclusive, nothing forgotten |
| `async_server` | 3 clients, 2 descriptors, 2 workers | 68 165 | closures, edges, counter, answers, liveness |
| `async_server_edges` | clients that send twice or hang up | — | is a closure ever on another's connection?  Yes |
| `swarm` | 2 callers, 2 to 4 cores | 73 133 | frames, liveness while two callers grow it |
| `hash_table` | 3 keys (two collide), 4 slots, 2 values | 27 681 | last write, unbroken paths |
| `ticket_core_full` | 3 slots, 5 tickets | — | is every ticket given out stored?  No |
| `ticket_programs` | 7 programs, 5 tickets | 163 602 | accounting, DOWN, shutdown after a signal |
| `ticket_persisted` | v20, same tickets | — | is every handled ticket persisted?  No |
| `server_programs` | 5 programs, 3 browsers with 3 kinds of request | 197 164 | figures accounted for, creates numbered, everyone answered |
| `services` | seven modules, see below | 702 806 | thirteen properties, one to three per part |

Why the bounds are enough, and where they bite:

* *thread_pool*: two workers and two producers give every race between a
  predicate, a wait, a notification and the destructor; of three closures two
  can be in hand and one queued, at shutdown too, and their order is seen.  `Word = 4` lets the
  counter wrap.  Tasks is a bound on the number of `enqueue` calls.
* *db_pool*: more threads than connections, so that the pool must grow, and
  few enough connections for some to be handed over again and again.
* *async_server*: three clients on two descriptors force reuse of a number
  while closures are queued, an `accept` that fails for want of descriptors,
  and a client that waits in the backlog; two workers run closures side by side.
* *swarm*: the code's threshold is more than 1.5 tasks per core: with two cores
  it takes four waiting callers to grow, and two more to grow at the same time.
  The run lowers it to 1/3 (`LoadNum`/`LoadDen`), at which two callers do: one
  has decided to add the third core, the other has read the size before and
  adds it too.  `MaxCores = 3` stands for 50, and the swarm then has four.
* *hash_table*: three keys and four slots of which the probe sequence reaches
  three: collisions, chains of tombstones, two copies of one key, and inserts
  that find no place all occur.  `MaxSize` bounds `size_`, which grows on
  updates too; inserts beyond it are not explored.
* *ticket_programs*: a valid, an urgent and an invalid ticket and two more;
  two attempts and a threshold of three stand for three and five, so that five
  tickets can take a service down, also after a success has reset the count.
  `Refills` offers nothing, one token, and more than the bucket holds.
* *server_programs*: three browsers, so that one can be served, one wait and
  one keep silent; `Seeded = 2` stands for eight, `MaxRows = 1` lets another
  program's insert change the count between the metrics thread's two halves.
* *services*: *breaker*, two services, threshold 2 for 5, failures up to 4;
  *coin*, two wallets beside genesis, two blocks mined, a supply of 10, amounts that
  are nothing, too much, all, and a reward; *enterprise*, all eight programs,
  four tickets over three departments, a bucket of 2, the real threshold 5;
  *websocket*, two clients on two numbers and three broadcasts, the fewest with
  a number handed out again and a neighbour erased; *demo*, two agents, two
  tickets, two browsers that may create in the same second or the next (each a
  minute of its own), a list of three of up to four; *store*, two settings and
  the marker, a session of two seconds that may expire in the third;
  *network*, three peers (the vector moves twice) and a quiet time of two
  seconds in six.

`CHECK_DEADLOCK FALSE` is given where the system may stop: a destroyed pool, a
stopped swarm, a program that has exited, a server whose clients are all gone,
a bound of `services` that has been reached.
The database pool and the hash tables have no final state, and there deadlock
is checked.

Every property of a passing run has a mutant in `PROJECT.json` – the
definition, the mistaken form of it – under which TLC finds the property
violated.

## Fairness

* ThreadPool: weak fairness of every worker's steps, of an `enqueue` that has
  begun, and of a destructor that has begun.  The operating system schedules
  runnable threads and closures return; no `enqueue`, destruction or spurious
  wake-up is ever assumed to happen.
* AsyncServer: weak fairness of the event loop, of the pool starting closures
  and of each closure; clients promise nothing.
* Swarm: weak fairness of cores and of callers inside `process`.  It is enough:
  while the queue is not empty no core goes to sleep, so the mutex stays free
  for one of them to pop.  Nobody has to call `process` or `stop`.
* TicketProgram: weak fairness of `main` up to `swarm.stop()`, which need not
  return (`Stopped` has no fairness); a signal need never come.
* ServerProgram: weak fairness of `main`, of the metrics thread, of the accept
  loop (its `recv` is enabled only when the client has sent) and, for the epoll
  servers, of the answer AsyncServer's `EveryRequestServed` promises.  Browsers,
  signals and other programs promise nothing; `EveryClientAnswered` therefore
  asks of the blocking server only what holds if no client keeps it waiting for
  ever.
* EnterpriseProgram: weak fairness of `main`; no property uses it yet.
* The other modules state safety only.

## Proofs

Checked by `tlapm` for every value of the constants that satisfies the named
assumption of the module: `ThreadPoolAssumption`, `DBPoolAssumption`,
`SwarmAssumption`, `DatabaseAssumption`, `TicketAssumption`,
`AsyncServerAssumption`, `ServerProgramAssumption`, and `ServicesAssumption`,
which is those of its parts together.  They say what kind of value a constant
is, and besides: a pool has a worker and a swarm a base of two cores, as the
code's constants do; descriptors, and the browsers of ServerProgram, are
finitely many; the programs are v1 to v8 as recorded; there is an agent to
seed (there are five); a supply fits its word; special values differ from
ordinary ones.  Two hypotheses belong to theorems and not to modules,
`OneRequestEach` and `RewardsFit`, explained below.

Every invariant of every passing run is stated by a theorem.

* **ThreadPoolProofs.**  `IInv` = types, who holds the mutex at which program
  counter, which counters go with holding a closure, that a pop is defined,
  what the destructor's progress implies of the queue and the workers, and
  `TasksConserved`.  Without the mutex part a pop could meet an emptied queue,
  which is why `PopIsDefined` is not inductive alone; `ShutdownDrains` follows
  from the destructor part.  From it: `TypeCorrect`, `TasksAreConserved`,
  `PopsAreDefined`, `ShutdownIsClean`, and `PoolImplementsTaskPool` – every
  step of the pool is a TaskPool step or invisible.
* **DBPoolProofs.**  Exclusiveness and the balance of queue and flags are one
  inductive invariant; the growth bound then counts holders
  (`FiniteSetTheorems`): the pool grows only when every connection is held and
  the thread that asks holds none.
* **SwarmProofs.**  `IInv` says in terms of queue elements that a caller's
  frame has one user at most and that a set promise means an answer and no user
  left; `FrameAlive` and `ReturnsAnswer` follow for any number of callers and
  cores and any growth threshold.  The bound on the cores is `GrowInv`:
  with the rounds that the callers inside `scale` have still before them there
  are never more than `Most`, because a caller that enters `scale` has no more
  of them than the cores that are missing to `MaxCores`, and each of the others no
  more than the loop can have.
* **PhiDatabaseProofs.**  `LastWriteWins` is not inductive: it does not say
  where the entry is.  `DatabaseInv` adds, for each promised key, the live
  entry a search reaches (`Witnessed`) and `PathsUnbroken`.  The proofs use of
  the probe sequence only that it stays inside the table, so they hold for the
  real capacity and hash as they do for the small one.  `SizeIsEnough` counts
  the live slots.  `KeysAreIndependent` is the action property, from the same
  invariant.
* **TicketProgramProofs.**  The properties speak of the top of the loop;
  `IInv` speaks of every point in it: the counters are right everywhere,
  because a ticket is left and counted in one step, the table may be one row
  ahead between the write and the count, and a service's failures in a row are
  at most the tickets it has been asked about.  Any program that a record can
  describe is covered, not only the seven.
* **AsyncServerProofs.**  All five theorems are under `OneRequestEach`: a client
  sends its request in one segment and waits for the close.  Without it they are
  false – run `async_server_edges` is the counterexample – and the run
  `async_server` makes the same choice.  `IInv` says that a client has caused no
  closure or one (`EventInv`, `JobInv`), that while it is not yet closed its
  descriptor is still the one captured, and that a readiness nobody has taken up
  is in `edges` or in the batch; the properties follow together, none alone.  The
  pool's own steps are TaskPool's, about which `Enqueue`, `Dequeue` and `Advance`
  say what moves between queued, running and done.
* **ServerProgramProofs.**  `Places` (who may be where at which step of
  `PhiServer`), `Numbered` (a create's number is at most the total, below it
  while the next is being counted, and no two share one) and `Covered` (no
  figure shown, sampled, or on its way is above the rows and the creates there
  have been) are inductive together.  The torn `db_tickets++` is covered: the
  store is compared with the load it belongs to.
* **ServicesProofs.**  First the composition: the part chosen stays chosen, and
  every step is one of its steps or changes nothing of it (`ComponentStays`,
  `BreakerSteps`, ...).  Then each part by itself:
  - *Breaker*: `TripsAtThreshold` with types is inductive.  In the programs
    nothing is inductive but "no breaker was ever touched" (`Untouched`).
  - *Enterprise*: `Accounts` says at every ticket what each book holds as a
    function of the number handled: chain, tickets, events, vault and ledger each
    have a conjunct, and the ledger is described entry by entry (`LedgerTells`).
    `NoCoinMoves` rests on `Coffers`: all that v7 ever mines goes to its first
    wallet, so that the client's stays empty and covers no cost above nothing.
  - *Coin*: while the rewards fit the word (`RewardsFit`; a supply of 2.6
    million, fifty a block, 2^64) the sum bounds every balance, so that no
    addition wraps.  The sum is a recursive function, and the library's induction
    does not apply; that it is what its recursion says is proved from the least
    element of a set of numbers (`AllNumbers`, `SumExists`), and `HeldNext`,
    `HeldBounds`, `HeldChanged` and `HeldSame` are what is used of it.
  - *WebSocket*: a number has one entry (`OneDescriptor`), each entry's number
    is still its peer's (`Homes`), the one the accept thread has in hand is not in
    the vector yet (`InHand`), and what a peer has heard follows from
    when it joined (`Heard`).
  - *Demo*: `SeededInv` says which agents have been tried at each row of the
    seeding (`Tried`: in the table or refused when last tried) and that no ticket
    is inserted before all of them; `CreatedInv` rests on `Kept`: until a text is
    run as a statement, a row is never removed nor written again, since an insert
    with a key that is there does nothing.
  - *Store*: `SettingsInv` adds how far `load_defaults` has come: while it runs
    every earlier setting is there or was refused (`SoFar`).  The file need not be
    unmarked then: a refused look at the marker runs it over a whole one, which
    stays whole.  A clock that moves can only end sessions, and between the
    `SELECT` of a login and its `INSERT` every live session of that user is one
    in `unseen` (`SessionsInv`).
  - *Network*: `online` is what the last round made of the peer's age (`round`),
    and rounds only move on, so that no later one finds a faded peer young
    (`PeerFades`).  The heartbeat thread may have chosen a peer that then fades;
    that `late` counts none until it sends, and one at most, is the strengthening.
  - `TypeCorrect` puts the types of all parts together; balances, for one, need
    the remainder of every sum, sessions and rows the bounds of their places.

In DBPoolProofs `TypeCorrect` comes from the same invariant as exclusiveness.

Only model-checked: every liveness property (`EveryTaskRuns`,
`EveryRequestServed`, `EveryTicketAnswered`, `SignalIsHeard`,
`EveryClientAnswered`), since the prover does not reason about `ENABLED`; and
the four runs that end in a violation, PhiCore's among them.  Some theorems
(`PopsAreDefined`, `PoolStaysBounded`, `AnswersAreReturned`,
`KeysAreIndependent`, `SizeIsEnough`, `RowsStayCounted`, `ChainIsTicketsHandled`)
need no run beside them: they hold of every instance.

## Divergences found

Each is a run whose one property quotes the repository and is violated; what the
models show besides is listed after them.

* `thread_pool_shutdown` – the destructor (`phi_threadpool.h:67`) clears
  `running` and notifies without the mutex; a worker between predicate and wait
  misses both and `join` never returns.  `phi_prod_v23.cpp:130` calls this a
  graceful shutdown.  `phi_swarm.h:139` has the same window.
* `async_server_edges` – descriptors are registered edge-triggered without
  `EPOLLONESHOT` (`phi_async_http.h:219`): a client that sends two segments, or
  sends and hangs up, causes two closures, and the second may work on whoever
  got the number next.
* `ticket_core_full` – `insert` drops an entry when no slot is left and
  `create_ticket` (`phi_core.h:50`) returns the id all the same; with the
  default capacity the first such ticket is `TKT-65538`.  `phi_server.cpp:57`
  dereferences the result of the lookup unasked.
* `ticket_persisted` – SQL errors never reach the caller (`phi_storage.h:47`),
  so a ticket the database refused is counted as handled and the program ends
  with "All data persisted" (`phi_prod_v20.cpp:192`).

Without a run of their own:

* `scale` (`phi_swarm.h:75-83`) appends to the vectors of cores and threads
  without the mutex, from a size it read before.  With concurrent callers two
  cores get one id and the swarm passes its limit of 50; and the append is a data
  race with the cores that write their elements.  The programs of the repository
  have one caller.
* A signalled program of v13 to v20 may hang in `swarm.stop()`
  (`phi_swarm.h:139-141`), before "Goodbye".
* No GRC payment of v7 takes place: the wallet created for the client
  (`phi_grc_enterprise.cpp:46`) is never funded, every transfer from it fails
  (line 89) and its result is dropped, while a block is mined and a
  `GRC_PAYMENT` recorded, against "pay in GRC" (line 76).
* "Rate Limit: 100 req/s/IP" (`phi_prod_v23_1.cpp:55` and `117`,
  `phi_prod_v23_2.cpp:58`) is printed by programs that create a limiter and never
  ask it.
* A refused `SELECT` reads as "no such row" (`phi_storage.h:50-62`): `login`
  opens a second live session, and `load_defaults` writes its defaults over what
  an operator has changed, against "Survives across versions" (`phi_config.h:2`).
* The dashboard's seeding (`phi_database_real.h:97`, `121`) ignores a refused row,
  and a file with one ticket is never seeded again (line 81).
* The dashboard pastes a browser's text unescaped into its statement
  (`phi_database_real.h:181-186`), so that an apostrophe spoils it.
* SIGINT does not end v21 to v23.2: it clears the program's flag, and the
  server reads its own.  "Graceful shutdown" is reached only when the port was
  taken, with the metrics thread still using what `main()` destroys.
* A POST to `/api/tickets/create` counts a ticket and inserts none.
* The only failure a circuit breaker is told of is its own refusal
  (`phi_enterprise.cpp:70-72`), so that it never trips.
* `mine_block` pays rewards on top of `MAX_SUPPLY`, which genesis holds in full.
* A client that leaves a WebSocket can end the process: the second send to it
  raises SIGPIPE (`phi_websocket.h:137`).
* Every mesh peer goes offline ten seconds after it was added, for good.

## Not modelled

* Pure text and I/O: answers of the rules, JSON, logging, metrics, the pages of
  v13 to v23.2, adapters that shell out to `redis-cli`, `curl` and the like.
  They keep no state that a property here could be about.
* The voice handler and the call queue: v23.2 constructs them and nothing calls
  them, so there is no caller to take the order and the threads of their
  operations from.  The same holds of `RequestQueue`, `reset_service`,
  `Backup::restore` and the servers' `stop()`.
* The per-address limiter of `phi_rate_limit.h`: v23.1 and v23.2 create one and
  never ask it; the server that would, `AsyncPhiServerV2`, is created by no
  program.  The gateway (`phi_gateway.cpp`) handles seven fixed requests and
  ends.
* What a data race does (the swarm's vectors, a vector of peers moved under its
  walk, a storage that is destroyed) and what a text run as SQL does: the models
  have the step that leads there and claim nothing after it, but for the
  swarm, where the appends are taken as if they were locked.
* Backups: one call copies a file and prunes the oldest; the file system is all
  there is to it.  That the copy misses what is still in SQLite's WAL is listed
  as a hazard.
* The Redis cache of v23.1 (`phi_async_http_v2.h`): what a missing key reads
  back as is the external command's.
* The library experiments: straight-line calls of OpenFHE and SEAL, whose
  arithmetic is the libraries'.

## Plan

Order: the concurrent core first (done), then the state that outlives a
process, then the sequential policies, then algorithms.

1. Done: TaskPool, ThreadPool, DBPool, AsyncServer, Swarm; PhiDatabase and
   PhiCore; TicketProgram with ErrorHandler and the ticket limiter;
   ServerProgram; EnterpriseProgram over CircuitBreaker and GRCCoin;
   WebSocketServer, DemoServer, Persistence, Mesh; the proofs listed
   above.
2. Done: the proofs of AsyncServer, ServerProgram and the parts of Services,
   which leave no checked invariant without a theorem.  Next: that
   WebSocketServer and Persistence implement smaller specifications of what they
   promise, and action properties such as "a closed connection stays closed".
3. Algorithms as pure operators against reference definitions: the 4-bit
   encrypted multiplier, the carry stabiliser, Zeckendorf recoding.

Composition: AsyncServer over TaskPool, PhiCore over PhiDatabase,
EnterpriseProgram over CircuitBreaker and GRCCoin; ServerProgram uses
AsyncServer's liveness as an assumption about the server.
