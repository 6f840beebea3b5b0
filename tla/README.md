# A TLA+ model of the OpAMP fleet server

This directory holds TLA+ modules that model the fleet server under `src/`, TLC
configurations that check them on small instances, and theorems about them with
proofs checked by TLAPS. `PROJECT.json` maps every definition to the lines it
models, lists the runs, the hazards the properties are aimed at, the findings
and the theorems.

## 1. Inventory

The server is one Go process. OpenTelemetry collectors keep a WebSocket to it
(OpAMP); operators use a REST API and a React page. A SQLite file (or an
in-memory store) keeps agents and the history of config pushes.

| Component | Source | State it keeps | Operations |
|---|---|---|---|
| Connection registry | `internal/opampserver/registry.go` | map uid -> connection, peer address, metrics port; one mutex | `set`, `setMetricsPort`, `get`, `removeByConn`, `snapshot` |
| OpAMP message handling | `internal/opampserver/handler.go`, `attrs.go` | none of its own | `onConnecting`, `onConnected`, `onMessage`, `onConnectionClose` |
| Config push | `internal/opampserver/push.go`, `internal/api/agents.go` | none of its own | `handlePushConfig`, `PushConfig` |
| Stale sweeper | `internal/opampserver/sweeper.go` | a listed copy of the table during a pass | `sweepOnce` on a ticker |
| Fleet store | `internal/store/*.go` | tables `agents`, `config_pushes`; a pool of one connection | `UpsertAgent` (read, mutate, write in one transaction), `GetAgent`, `ListAgents`, `AppendConfigPush`, ... |
| Failed-attempt limiter | `internal/ratelimit` | map key -> bucket of failures | `Allow`, `RecordFailure`, `RecordSuccess`, eviction |
| Credential verifiers | `internal/auth` | token set, user/password pair | `Reload`, `Verify`, `AutoReload` |
| Self-telemetry scraper | `internal/metrics` | previous samples, metrics store with a capped history | `scrapeAll`, `scrapeOne`, `update`, `Prune` |
| REST API | `internal/api` | none | read endpoints, push, authentication, panic recovery |
| Server process | `cmd/opamp-server`, `internal/config` | configuration | start, reload, shutdown |
| UI | `ui/src` | credential, session, polled fleet, page of an agent with its push dialog, builder | login, polling, push dialog, rendering |

How they interact:

- `onMessage` writes the registry (`set`, then `setMetricsPort` if the message
  describes the agent) and the agent's row (`UpsertAgent`), whose error column has two
  sources: the health report, and a config that failed to apply.
- `onConnectionClose` removes one entry of the registry and leaves the row to
  the sweeper.
- `PushConfig` reads the registry once, writes `config_pushes`, writes the
  agent's row, then writes to the connection it found in the beginning.
- The sweeper lists the rows, decides, and updates row by row.
- Every one of these is a call of the store, and the calls take turns on its
  one connection until `main` closes it under them.
- The scraper reads `snapshot()` of the registry and calls the addresses.
- The REST API reads the rows; the tab polls it, from two places that share one
  credential.

What is hard: nothing holds a lock across two of these steps. Every connection
has its own goroutine, every REST request has one, the sweeper and the scraper
one each; the registry, the rows and the history are updated one critical
section at a time; the process may die between two of them and keeps the tables
but not the registry. Collectors send only what has changed, so a message that
is lost or comes late is not made up for by the next. In the tab, polls overlap
and answers come in any order, also after the operator has moved on.

What makes each component correct:

- *Registry*: an agent is routed to the connection it was last heard on; a close
  event that comes late does not unroute it; no closed connection is used; only
  peers of live connections are scraped.
- *Messages*: once everything is read a row shows its agent as it last reported
  itself; "synced" means the agent acknowledged its latest push.
- *Push*: recorded, adopted and sent in that order, at most once, to the agent
  it names; the HTTP answer says what happened.
- *Sweeper*: only agents that are silent are downgraded; a silent agent ends up
  disconnected; nothing but the connection state is touched.
- *Store*: calls are atomic, what is returned as done is in the file, every call
  returns, no call is refused for the sake of another.
- *Process*: an orderly shutdown answers what it has begun and then ends.
- *Limiter and verifiers*: a limit on failures that honest use cannot lock for
  ever; no reload leaves a verifier without a credential.
- *Scraper*: rates and ratios that are meaningful across counter resets, bounded
  history, no history of agents that left.
- *UI*: the fleet view ends up with the latest answer or an error that stands in its way;
  what is pushed is what was confirmed; a draft is not lost to anything but its
  own push or its author.

## 2. Modules

    GoMaps                Go maps and keyed tables as functions
    FleetTypes            constants of the modules below
      ConnRegistry        registry.go
      AgentRecord         lifecycle columns of a row and the functions run on them
        OpampServer       the interleaving of everything above (EXTENDS both)
          MCOpampServer   small instances for TLC
          OpampServerProofs, LifecycleProofs
    ConfigLifecycle       abstract: what is promised about a config
    Reports               the reported columns of a row, against their collector
      MCReports, ReportsProofs
    AtomicStore           abstract: what the store promises its callers
    FleetStore            sqlite.go: transactions over a pool of one connection
      ServerProcess       main.go and the goroutines that call the store
        MCServerProcess, StoreProofs
    Scraper               the metrics scraper, over what the registry offers it
      MCScraper, ScraperProofs
    Admission             a door of the server: limiter, verifiers, their callers
      MCAdmission, AdmissionProofs
    Browser               the tab: credential, session, poll of the fleet
      Console             the page of an agent in it, with its push dialog
        MCConsole, ConsoleProofs
    MapLemmas             facts about Put and Delete

| Module | Models | State |
|---|---|---|
| `ConnRegistry` | every method of `connRegistry`, each an operator from map to map (`RemoveByConn` to a *set* of maps: the order of a Go range loop is unspecified) | value of `byUID` |
| `AgentRecord` | the zero `Agent`, `UpsertAgent`, `applyAgentToServer`, `applyRemoteConfigStatus`, the mutators of `PushConfig` and of the sweeper | value of a row |
| `OpampServer` | goroutines: message loops, push requests, sweeper; time; restart | see below |
| `ConfigLifecycle` | the abstract specification `OpampServer` implements | `stage`, `target`, `sync`, `acked` |
| `Reports` | `applyAgentToServer` for description, health and effective config, with `flattenAttributes`, `firstNonEmpty`, `joinConfigMap`, and what `applyRemoteConfigStatus` writes to `LastError`; a collector that omits what has not changed; connections that break with messages unread | `row`, `unread`; `truth`, `sent`, `cur` are the collector's; `said`, `suspect`, `retried` are history |
| `FleetStore` | `SQLiteStore`: waiting for the connection, `UpsertAgent` statement by statement, the calls of one statement, failures, `Close` | `agents`, `pushes`, `db`, `at`, `call`, `seen`, `outcome` |
| `ServerProcess` | `run` of `cmd/opamp-server`: start, signal, both shutdowns, the deferred `Close`, exit; messages, pushes and the sweeper as callers of `FleetStore` | `phase`, `expired`, `early`, `step`, `sweep`, `todo` |
| `AtomicStore` | the abstract specification `ServerProcess` implements | `agents`, `pushes`, `stage`, `call`, `outcome`, `answer` |
| `Scraper` | rounds of `scrapeAll`, `scrapeOne`, rates, `appendCapped`, `Prune`; collectors and their restarts are its environment, as is a wall clock that may be set back | `round`, `todo`, `live`, `prevs`, `byID`; `offered`, `counters`, `clock`; `work`, `steps`, `stepped` are history |
| `Admission` | `FailureLimiter`, `TokenVerifier`, `BasicAuthVerifier` and the requests that go through them (`withAuth`, `onConnecting`) | `buckets`, `tokens`, `pair`, `userRead`, `pc`; the files; `recent` is history |
| `Browser` | `api/client.ts`, the session of `App.tsx` and `Login.tsx`, `useFleetData`; the answers of `withAuth` (`internal/api/middleware.go`) | `credential`, `authed`, `session`, `shown`, `error`, `net`; `valid`, `table` are the server's; `refused` is history |
| `Console` | `AgentDetail.tsx`: its poll, the editor, the push and the timer that closes the dialog | `open`, `mount`, `page`, `timer`; `asked`, `accepted` are history |

`OpampServer`'s actions and the code:

| Action | Code |
|---|---|
| `Connect`, `Break` | a connection opens / its peer goes away (opamp-go) |
| `OnMessage` | `onMessage` up to and including `conns.set` |
| `LearnPort` | `setMetricsPort`, only after a description |
| `PersistMessage`, `LoseMessage` | the `UpsertAgent` transaction; its failure, which is logged |
| `OnConnectionClose` | the close callback, after the loop of that connection has ended |
| `ReceivePush` | `handlePushConfig`: 404, 400, or go on |
| `FindConnection` | `conns.get`: 409 or go on |
| `AppendPush`, `AdoptPush`, `SendPush`, `AcceptPush` | `AppendConfigPush`, `UpsertAgent`, `conn.Send`, the 202; each with its failure |
| `SweepList`, `SweepClock`, `SweepUpdate`, `SweepSkip`, `SweepEnd` | one pass of `sweepOnce` |
| `Tick` | time passes |
| `Restart` | the process dies and starts again on the same file |

In `OpampServer` the grain is one critical section: one lock of the registry's mutex, one store
transaction, one `Send`. A state change that the code makes inside one of them
is one action. That a store transaction may be taken as one action is what
`ServerProcess` shows: it implements `AtomicStore`.

`Reports`: `Receive` is `onMessage` with the whole mutator, `Lose` the same when
the store fails. `Change`, `Connect`, `Report` and `Drop` are the collector's, `CutOff` the end of a
connection with what nobody has read. A message is a function from the sections it
carries, so "omitted" is not a value. The section of the config's status is there for `LastError` alone:
a failed one with a text writes it, after the health of the same message if it has one (`ErrorOf`). The
properties speak of columns (`Columns`, `Told`), of which the error is one, to be compared with what the
collector told of last (`said`); what a status does to the sync state is in `AgentRecord`.

`FleetStore`: `Enter` makes a call, `Acquire` gets the connection, `ReadRow`, `WriteRow` and `Commit`
are the statements of `UpsertAgent`, `Append` and `Query` calls of one statement, `Fail` the
rollback at any of them, `TurnAway` the answer of a closed pool, `Die` the end of the process. A row
is the set of callers whose mutators are folded into it, so that an update which
overwrites another would show. `ServerProcess` has `main`'s `Start`, `Signal`, `ListenerFails`,
`RestDown`, `Expire`, `OpampDown`, `CloseStore`, `Exit` and, at any point, `Kill`. Its callers are `Receive` (a
message), `Arrive`, `Record`, `Adopt` and `Answer` (a push) and the sweeper's pass. A request may `Arrive`
until `Shutdown` of the REST server has returned, and later still if it gave up waiting or never ran (`Accepting`).

`Scraper`'s actions: `StartRound` takes the targets, `Scrape` and `ScrapeFails` are the two
outcomes of `scrapeOne` for one of them, `EndRound` prunes. `Offer`, `Withdraw`,
`Collect`, `RestartCollector` and `Tick` are the registry, the collectors and the clock, `StepBack` a wall
clock set back between two samples (scraper.go:135 takes `UTC()`, which has no monotonic reading): a sample
of a time that is not after the previous one's only replaces it, and no point is stored (line 162).
`scrapeOne` is one action: only the scraper's goroutine writes `prevs` and the
store, so nothing can come between its parts but what the environment may as well do
before it. Floats that are quotients are kept as pairs of operands.

`Admission` models one door; the program has two, the REST API's and the OpAMP
listener's, which share no state. A caller's request is `Ask` (`Allow`), then `Refuse` (429), or
`Verify` and then `Reject` (`RecordFailure`, 401) or `Admit` (`RecordSuccess`): between any two of
these other requests, reloads and evictions may come. `ReloadTokens` is one action, for
the file is opened once: a rotation between that and the lock looks like one after it.
`BasicAuthVerifier.Reload` opens two files and is two actions, `ReadUser` and `ReadPassword`.
A file that cannot be read and one without a usable line have the same effect and are
one value. Times are ages, which saturate where the code does not tell them apart.

`Browser` and `Console`: `SignIn`, `SignOut`, `OpenPage` and `LeavePage` are App's; `FleetStep` and `PageStep` are ticks
of the two intervals, which send requests; `Answered` is an answer, of one of the two
requests of a fleet poll, of a page's reload, or of a push. `StartEdit`, `Edit`, `CancelEdit`, `AskConfirm`,
`CancelConfirm` and `Confirm` are the dialog's buttons, `CloseDialog` its timer. A call keeps the session or the
mounted page it belongs to, which is what React's cleanup functions test. `Rotate`
and `Progress` are the server: other credentials, a newer table. `Results` is what a call may be answered:
the table if its credential is valid, else 401 or, for an address with enough failures behind it, 429, which
leaves the credential (which of the two is up to the limiter, so either may come at any time); and whatever
goes wrong otherwise, a 429 for the failures of others included, a bounded number of times.

Variables called history in their modules are read by no guard. In
`OpampServer` these are `heard`, `spoke` and `reported`: which connection last called `set` for an
agent, who called it on a connection, and which reports reached a row.

Choices of abstraction:

- A config body stands for its SHA-256 hash, so distinct bodies have distinct hashes.
- The columns of a row are split over three modules by who writes them and what the
  properties ask: `AgentRecord` has connection state, age and the lifecycle of the
  config, `Reports` what the agent tells of itself, `FleetStore` which writes took effect. Version, node and pod follow the
  rule of the name and are left out.
- `LastSeen` is an age in ticks that saturates at `DisconnectedAfter`: the code
  only compares the age with two thresholds.
- A message with a uid that is not 16 bytes is answered without any state
  change, so it has no action.
- A write to a broken connection may succeed or fail (the kernel decides); to a
  closed one it fails; `Send` on a nil connection panics and `withRecover`
  answers 500.
- An agent reports on configs it was sent, or on an unknown hash (`Echoes`): a
  collector cannot invent the SHA-256 of a config it has not seen.
- The joined text of several config files is a sequence of (name, body): what matters is
  that each is there once; the order is that of a Go range loop, any.
- SQLite is external: snapshot reads, one writer, `SQLITE_BUSY` for a reader that would
  write over a newer commit. With one connection that answer never comes
  (`NoneRefusedAsBusy`); the mutant with two shows that the model can give it.
- A text on the agent's page is the version the server showed or one the operator typed.

Operators whose comment begins with "Faulty" are no part of the model. Each is a
plausible bug in the operator that follows it; replacing one by the other makes
the property named in `PROJECT.json` ("mutants") fail, which shows that the
property depends on the code being right.

## 3. What the runs check

Each run is of an `MC` module. Passing runs:

| Run | Instance | Question and answer |
|---|---|---|
| `Push` | 1 agent, 1 connection, 2 pushes of different configs, all report kinds, early and late, store failures, 1 restart | Does the server implement `ConfigLifecycle`, and does "synced" mean that the latest push was acknowledged, while pushes race? Yes. |
| `TwoAgents` | 2 agents sharing 2 connections, a valid and an invalid push, failures, 1 restart | Who is routed where, who receives what, does each HTTP answer tell the truth? To where it was last heard; its own config; yes. |
| `Silence` | 1 agent that describes itself and acknowledges, 2 connections, 1 push, sweeper, time, failing updates, 1 restart, with fairness | Are scrape targets live peers, does an agent that stops talking, its connections closed, broken or open, end up disconnected for good, and does the sweeper leave the lifecycle of its config alone? Yes, with one agent per connection. |
| `Reports` | a collector with 3 descriptions, 3 healths, 2 configs, 2 statuses of a config, 2 connections, 2 messages unread, a change, a dropped connection and a lost update, with fairness | Does its row show what it last reported, of its errors the one it told of last, and come to show it as it is? Yes, but for columns the store lost or an older connection overwrote. |
| `Shutdown` | 1 message loop, 1 push, the sweeper, 1 agent, known before or not; statements that fail, signal, failing listener, kill and start again as often as one likes, with fairness | Is the store atomic, are its returns true, does no call block another for ever, does a shutdown wait for REST requests and end? Yes. |
| `Scrape` | 1 agent that comes, goes and restarts, a clock set back once, history of 2, with fairness | Are its series bounded and aligned and, while the clock is not set back, in order and without gaps, do rates never overstate, does the metrics store forget it once it is gone? Yes. |
| `Admission` | 2 callers behind one address, one with a token and one with a password, 2 rotations, window 2, with fairness | How many failures does an address get, is an address refused that has not failed, does a valid credential get in in the end, are idle buckets dropped and no others? Max and what is in flight per window, and not quite twice that in a span of that length since its last success; no; yes; yes. |
| `Console` | 2 credentials of which one is withdrawn, 2 calls under way, 1 login, 1 change of the table, 1 failure, 1 page with 1 push, calls that are refused or throttled, with fairness | What comes on the screen, what is sent, what is lost, is an error seen by who is refused, does the dialog go away? Only answers to this session's polls, in the end the fleet as it is; what was confirmed; no draft; yes, and it stays, though 429 may take the place of 401; yes. |

How some of them are to be read:

- `ImplementsLifecycle`: `ConfigLifecycle` has no messages, so its report steps are possible nearly always. That
  neither the sweeper nor a restart nor a lost report moves a sync state is therefore seen only as far as
  a move would not look like a report: one to "synced" without the hash of the latest push, or to
  "", or of any other variable. `SyncedIsAcknowledged` says more of "synced".
- `AnswersMatchEffects`: "once" is to one connection, once; what the connection makes of a write is opamp-go's.
- `SilentAgentEndsDisconnected`: an agent is silent when no message of it is being handled (`Silent`), which
  says nothing of its connections. A message whose handler hangs in the store still counts as being
  heard; `CallsReturn` says that none does.
- `ThrottledOnlyForFailures`, `AttemptsAreBounded`, `BurstIsBounded`: the limiter knows addresses. A caller behind
  a shared one may be refused for the failures of another, and a success of either starts the count of both again:
  across successes the failures of a span have no bound (failurelimiter.go:74-78).
- `HistoriesAreCoherent`: bounds and alignment hold always; order in time and "no gaps" of histories over
  which the clock was not set back (`stepped` has the others).
- `TypeOK` of `Admission`: no reload leaves a verifier without a credential. That a second file that cannot be
  read does not take the first one over follows from basicauth.go:49-76, where both are read before either is kept.
- `AnswersOfThisSession`: the screen changes only for an answer of this session. Until the first one it has
  what the session before left there, for logging out does not clear `useFleetData`'s state.

Runs that end in a violation state what a comment says, and show a
behaviour of the code that disagrees:

| Run | What the source says | What happens |
|---|---|---|
| `DeadSocket` | handler.go:151-152, the close callback drops the connection so that no push or scrape uses a dead socket | two agents on one connection: `removeByConn` returns after the first entry, the other keeps the dead socket |
| `StaleFailure` | store.go:18-19, handler.go:245-247 | FAILED does not look at the hash: the failure of an older config is shown as the newer push's |
| `ResetRatio` | types.go:38, `ExportSuccessRatio` is in 0..1 | a collector restarts between two samples; `rate` knows about resets, the ratio does not and may be negative or above 1 |
| `LostReport` | handler.go:190-191, after a failed update "the next successful message will retry the write" | a message is not kept, the next one omits what has not changed, and nobody asks for the full state: the row stays without it until the agent reconnects |

More was observed while modelling. It can be read off the code or off a trace of the
models, and no run is kept for it:

- *Server, connections.* Between `set` and `setMetricsPort` a newer connection may register and close: the entry
  comes back with a nil connection, `get` finds it, and a push panics (500 instead of 409;
  registry.go:63). A late message on an older connection takes the entry over, and
  its close then unroutes an agent whose newer connection is open, against push.go:15-16. Two
  pushes may adopt in one order and send in the other: the hash kept is then not
  that of the config sent last (store.go:57). A message of an older connection that is handled after the
  newer one's full report leaves the row with older values (`suspect` in `Reports` allows for it).
- *Server, rows.* Nothing calls `UpdateConfigPushResult`, so the push history never shows a
  success, although push.go:26-28 and store.go:72 say it does. A row starts with the sync state `""`, none
  of the four of store.go:22-27 and not the `pending` of the schema (sqlite.go:30). `LastError` has two
  writers, FAILED reports and health, and shows the one that came last (`QuietRowIsTrue`): a failure's text stays after
  a later APPLIED, until the next health report, which blanks it although the config is as it was. A message in
  which an agent says it disconnects marks it connected. The sweeper writes what it decided on a
  listed copy, so an agent heard in between is shown stale until its next message or the next sweep.
- *Store and process.* sqlite.go:58-61 says that reads proceed while a callback writes; with
  `SetMaxOpenConns(1)` they wait for it. `GetAgent` turns every error into "not found", so that a failing
  disk answers 404 (sqlite.go:202-203). `STALE_AFTER=1ns` passes `validate`, and the sweeper's
  `NewTicker(staleAfter / 2)` panics on 0.
- *Scraper and doors.* `prevs` of the scraper is never pruned, although the history it belongs to
  is. After the clock was set back the next scrape of an agent stores nothing, and its series go on with
  earlier times. The limiter's window, "sliding" in failurelimiter.go:13, is fixed from its first failure
  (`BurstIsBounded` says what that allows). While a basic auth secret is replaced, `Reload` may load the old
  user name with the new password, until the next reload (`GoodCallersStayIn` says it does not last).
- *UI.* After a credential was withdrawn the polls go on without one. After ten refused requests, which is five
  polls, the limiter answers 429 in place of 401, and "too many failed attempts" replaces "unauthorized" on the
  screen (middleware.go:60-63). A late 401 clears the credential of whatever session is there by then (client.ts:75-78). The
  reload after a push whose operator has signed out is sent without a credential, and is such
  a call; hence the exception in `CredentiallessOnlyAfterRefusal`. An error of the agent page stays until
  the page is left, and hides an editor with a draft in it. The interval of that page keeps the first render's `reload`, so
  each poll selects the latest history entry again (AgentDetail.tsx:31). The configuration builder
  tests whether its text may be pushed when the confirmation is asked for, not when it is given
  (ConfigBuilder.tsx:122).

### Bounds and why they are enough

- One or two agents: the components keep state per agent; two are needed only
  where agents share a connection or where a config could go to the wrong one
  (`TwoAgents`, `DeadSocket`).
- Two connections: a connection is never reused in `OpampServer`, so an older and a newer one are
  all that routing can confuse. Longer chains of reconnects are covered by the
  theorems, which hold for any set of connections.
- One or two push requests: races are between pairs; again the theorems have no bound.
- `StaleAfter = 1`, `DisconnectedAfter = 2`: the smallest values that are legal and keep
  fresh, stale and disconnected apart.
- `MaxRestarts <= 1` in the runs: a restart forgets the same things each time. `Shutdown` has no such bound.
- In the runs over `UntimedSpec` (`Push`, `TwoAgents`) no time passes, so every agent stays
  fresh and the sweeper has nothing to write; what it writes as time passes is
  checked in `Silence`, and the theorems are about `Spec`, with time.
- `Reports`: `MaxUnread = 2` lets a change follow a full report that nobody has read;
  with one drop the two connections overlap. One change, drop and loss each let every pair of
  them meet; the theorems have no bound. `MaxInt64 = 7` and `Second = 2` put a start time below a second, one in
  range and one beyond it.
- `Shutdown`: three callers are all the kinds there are; two of them update the same row, and a second
  pass of the sweeper meets a second life of the process. A message or push runs
  once; the theorems allow any number.
- `Scrape`: a history of two points overflows within three samples (`MaxTime = 2`);
  counters of at most 1 rise and fall over a restart, `ResetRatio` needs 2. One step back of the clock
  (`MaxSteps = 1`) meets a sample before and one after it. One agent: agents share nothing but the round.
- `Admission`: `Max = 2` and two callers let a count pass its limit; a window of two ticks lets
  failures of two windows fall into one span of its length; idle buckets go after two
  windows (ten in the code, any number in the theorems). One address: keys are
  touched one at a time, and the theorems hold for any set of them.
- `Console`: two slots let a poll overlap the next one, or a call outlive its session. To keep the instance
  small, `MCConsole` leaves out states (`Sparse`): until a page is opened any two polls of the fleet overlap; from then on
  only a poll of the page and the push or the reload of its dialog do, and anything else is alone under way. The module has no
  such bound, nor have the theorems. One login after a kept credential makes two sessions.
- Deadlock is checked in every run but `Console`: a tab whose bounds are used up and whose
  operator has signed out may stop. Clocks, sweeps, rounds and reloads never stop,
  a process can always be started again, and a collector can always report.

### Fairness

`Silence`, `Reports`, `Shutdown`, `Scrape`, `Admission` and `Console` use it (`FairSpec`; in `Console`
`SparseSpec`, the same without the steps its bound leaves out).

- The sweeper: `WF(Tick)`, clocks advance; `WF` on its own steps, a ticker in a loop that
  only the end of the process leaves; `SF(SweepUpdate(u))`, a store does not refuse the
  same update for ever: with weak fairness alone every pass might skip the agent, and the
  code, which logs and goes on, does not retry within the pass.
- The collector and its rows: `WF` on connecting again and on reporting, which is what a collector
  does (a heartbeat counts as a report); `WF` on `Receive` of each connection, a read loop. `Converges` lets
  losses go on as often as their bound says and excepts what they hit.
- The store: `SF(Acquire(c))`, for the pool picks among those waiting at random; `WF` on the steps of a call
  that has the connection (`busy_timeout` and the driver end them one way or the other). `WF` on `main`'s own steps
  and on `Expire`, the 15 s of its context; on a push as far as its calls of the store.
  Nothing makes it answer: its `Send` waits for a peer, which is why `StopsInTheEnd` needs `Expire`.
- The scraper: `WF` on starting and ending a round (a ticker in a loop) and on finishing
  a scrape one way or the other (`scrapeTimeout` ends every request).
- A door: `WF` on the reloads and the eviction (tickers that only the end of the process stops) and on
  the steps of a request that has come in; no caller has to come back.
- The tab: `WF` on the answer to each call (a browser's `fetch` ends, if only in an error) and on the timer; `SF`
  on the two polls, whose intervals keep firing although the bound on calls under way disables them at times.

Nothing is assumed of operators, connections, collectors (but in `Reports`) or requests that
have not come in: they may stop at any point.

## 4. What is proved

For all values of the constants allowed by the named assumptions
(`FleetConstants`, `RegistryConstants`, `ThresholdsValid`, `ServerConstants`, `ReportConstants`,
`StoreConstants`, `ProcessConstants`, `ScraperConstants`, `AdmissionConstants`, `BrowserConstants`, `ConsoleConstants`):

| Theorem | States |
|---|---|
| `OpampServerProofs!TypeCorrect` | `Spec => [](TypeOK /\ OnlyValidBodies)` |
| `OpampServerProofs!LastHeardRouted` | `Spec => []LastHeardIsRouted` |
| `OpampServerProofs!EntriesAreLive` | under `OneAgentPerConn`: `Spec => [](NoClosedConnRegistered /\ ScrapeTargetsAreLivePeers)` |
| `OpampServerProofs!ConfigIsAddressed` | `Spec => []ConfigReachesOnlyItsAgent` |
| `OpampServerProofs!AnswersAreTrue` | `Spec => []AnswersMatchEffects` |
| `OpampServerProofs!SilenceIsNoticed` | `Spec`, `AgesRunOut(u)` and `UpdatesGetThrough(u)` for each agent, `PassesGetOn` imply `SilentAgentEndsDisconnected` |
| `LifecycleProofs!SyncedMeansAcknowledged` | `Spec => []SyncedIsAcknowledged` |
| `LifecycleProofs!LifecycleImplemented` | `Spec => ImplementsLifecycle` (refinement) |
| `ReportsProofs!TypeCorrect` | `Spec => []TypeOK` |
| `ReportsProofs!QuietRowsAreTrue` | `Spec => []QuietRowIsTrue` |
| `ReportsProofs!LosslessRowsAreTrue` | `Spec /\ [][Lossless]_vars => []AllColumnsTrue` |
| `ReportsProofs!RowsConverge` | `Spec /\ Settles /\ ReportsGoOn /\ ReportsAreRead => Converges` |
| `ReportsProofs!StartTimesAreReal` | `Spec => []StartTimeIsReal` |
| `ReportsProofs!NamesAreKept` | `Spec => KnownStaysKnown` |
| `StoreProofs!OneAtATime`, `StoreProofs!TypeCorrect` | `Spec => [](TypeOK /\ StoreInv /\ NoneRefusedAsBusy)` |
| `StoreProofs!StoreIsAtomic` | `Spec => ImplementsAtomicStore` (refinement) |
| `StoreProofs!StoreTellsTheTruth` | `Spec => []ReturnsTellTheTruth` |
| `StoreProofs!ShutdownWaits` | `Spec => []StoreOutlivesRequests` |
| `StoreProofs!EveryCallReturns` | `Spec /\ CallsGoOn => CallsReturn` |
| `StoreProofs!ProcessStops` | `Spec /\ DeadlineExpires /\ MainGoesOn => StopsInTheEnd` |
| `ScraperProofs!ScraperCoherent`, `ScraperProofs!TypeCorrect` | `Spec => [](TypeOK /\ HistoriesAreCoherent)` |
| `ScraperProofs!RatesTrue` | `Spec => RatesNeverOverstate` |
| `ScraperProofs!FractionsWithoutRestarts` | `Spec /\ NoCollectorRestarts => []RatioIsAFraction` |
| `ScraperProofs!AbsentIsForgotten` | `Spec /\ RoundsKeepEnding => AbsentAgentIsForgotten` |
| `AdmissionProofs!TypeCorrect` | `Spec => []TypeOK`, with: no reload leaves a verifier without a credential |
| `AdmissionProofs!AttemptsBounded` | `Spec => []AttemptsAreBounded` |
| `AdmissionProofs!EvictionInvisible` | `Spec => EvictionIsInvisible` |
| `AdmissionProofs!RefusedHaveFailed` | `Spec => []ThrottledOnlyForFailures` |
| `AdmissionProofs!BurstsBounded` | `Spec => []BurstIsBounded` |
| `AdmissionProofs!IdleIsForgotten` | `Spec`, `IdlingCounts(k)` for each key, `EvictionsGoOn` imply `IdleKeysAreForgotten` |
| `AdmissionProofs!GoodCallersGetIn` | `Spec`, `FilesSettle`, `ReloadsGoOn`, for each key `FailuresEnd(k)`, `WindowsElapse(k)`, `RefusalsEnd(k)` imply `GoodCallersStayIn` |
| `ConsoleProofs!TypeCorrect` | `Spec => []TypeOK` |
| `ConsoleProofs!CredentialsAreSent` | `Spec => []CredentiallessOnlyAfterRefusal` |
| `ConsoleProofs!ScreenIsOfItsSession` | `Spec => AnswersOfThisSession` |
| `ConsoleProofs!SendsWhatWasConfirmed` | `Spec => []SentAsConfirmed` |
| `ConsoleProofs!DraftsAreKept` | `Spec => DraftIsKept` |
| `ConsoleProofs!DialogGoesAway` | `Spec /\ CallsEnd /\ TimerFires => DialogCloses` |
| `ConsoleProofs!FleetGetsShown` | `Spec /\ CallsEnd /\ PollsAreMade /\ EarlierPollsEnd /\ ServerSettles => FleetIsShown` |
| `ConsoleProofs!RefusalGetsShown` | `Spec /\ CallsEnd /\ PollsAreMade /\ PollsBeforeEnd => RefusalIsShown` |

The arguments:

- **Types.** Inductive as they stand or with one conjunct more: `OnlyValidBodies` (a body that is no YAML
  never leaves "receive", so what is recorded and adopted is a config), `QueuesOK` and
  `NetOK`, which say what is in a queue and in a call under way.
- **Routing.** `LastHeardIsRouted` alone is not inductive: `setMetricsPort` rewrites
  an entry, and a close removes one. `RegistryInv` adds that a connection an
  agent was heard on is not new (`HeardIsNotNew`), that an entry is either half-filled,
  without connection and address, or holds the connection its agent was last heard on,
  with that peer's address (`EntriesAgree`), and that a connection carries only
  messages of its own agents (`SpokenFor`). Removal is by
  identity, so it can only hit the agent's entry if it holds the closing connection.
- **Live entries.** The premise `OneAgentPerConn` (each connection carries at most
  one uid) is what `DeadSocket` shows to be necessary: `removeByConn` deletes
  one entry, which is all of them only then.
- **Addressing.** `AddressInv` adds that the connection a push holds in `via` is one its
  agent has spoken on, however long ago; registry entries are spoken on too.
- **Answers.** `EffectsInv` ties `at`, `answer`, `pushes` and `outbox` of each request
  together: recorded exactly from "upsert" on, written exactly at "sent", once.
- **Acknowledgement.** `AckInv`: a row that is synced has a hash and that hash was
  reported applied; a push resets the row to "pending", the sweeper and lost
  messages do not touch these columns.
- **Lifecycle.** `stage` is where the request got to, `target` and `sync` are
  columns of the row, `acked` the hashes reported applied. Each action maps to
  one abstract action or to a stutter; the sweeper and restarts always stutter.
- **Rows.** `QuietRowIsTrue` speaks only of moments when everything is read. `ReportInv` is what makes it
  inductive, column by column: of the messages the current connection has yet to deliver, the last one that
  tells of a column says of it what the collector said last, and a column that none of them
  tells of is shown already, or is suspect. The error is told of by health and by failed statuses alike, so "the last" is over
  both. `HeadTaken` says what taking the first message does to "the last that
  tells", `AppliedShows` that the mutator makes the row show what it was given: that the
  joined text has each file once rests on the library's bijection between a finite set and
  an initial segment of the numbers.
- **Atomicity.** `OneHolder`: at most one call has the connection, for the pool has one. So between `ReadRow` and
  `Commit` nobody else writes, what a transaction has read is still the table
  (`seen[c] = agents` in `StoreInv`), it is never refused as busy, and its commit is the one
  instant at which the call takes effect. Every other step of a call is a stutter of
  `AtomicStore` or its refusal; the death of the process is its `Crash`.
- **Returns.** `TruthInv`: a caller is folded into its row exactly if its update returned success
  (`StoredIffReturned`; later updates keep it, for they fold into what they read), and a push comes to its
  update only after its append (`CallerInv`).
- **Shutdown.** From the return of the REST server's `Shutdown` to the exit no request is in flight,
  unless a listener failed or the grace period was over (`ShutdownInv`): requests start while that `Shutdown` waits, and
  it returns only when there are none left; after it none starts.
- **Histories.** `ScraperInv` adds that the last point of a history was taken with the
  sample kept in `prevs`, which is not of the future, unless the clock was set back over it (`SamplesFit`), without
  which a rate could leave a gap, and that a counter grew by no more than its collector received (`WorkCovers`).
  `AppendCappedExtends` says what an append does to a series; `RatesCoherent` applies it to
  three series of different length at once.
- **Attempts.** `AttemptsAreBounded` is inductive with the types (`BoundedAt` is its part
  for one address). While a count is below `Max`, at most all callers of the address are in
  flight; at `Max` nobody enters, and each failure counted takes one out of flight.
- **Eviction.** `SeenWithinWindow`: while a window runs, its last failure is no older than
  its first, so a bucket idle for at least a window has none that runs.
- **What a bucket recalls.** `RecalledAt` ties a bucket to the failures that really
  happened since the last success of its address (`recent`): while its window runs, its count is exactly the failures since that
  window opened (`Counted`); those of the last span that are older belong to one earlier window,
  whose opening failure is already out of the span (`Room`); nothing is as young as the
  bucket's last failure is old. Of an elapsed window the same is left (`Elapsed`), and
  without a bucket there is no failure to recall, which is why eviction must wait.
- **Forgetting in the scraper.** A round that starts when an agent is not offered has no
  work for it, so its end prunes it and no later scrape brings it back.
- **Fractions.** `FractionInv`: as long as its counters only grow, what the sample kept of a
  collector counts as sent and as failed is no more than it counts now (`CountsCover`).
- **Lossless rows.** `suspect` stays empty, so `QuietRowIsTrue` has no exceptions.
- **The dialog.** `DialogInv`: calls of the page belong to instances there have been
  (`OwnersExist`), so a new page hears of none of them; while the dialog is not idle the draft is what it was
  opened for (`DraftFixed`); the call under way fits the state of the dialog, and the timer runs only
  without one (`CallsFit`); there is at most one (`OneCall`), so no second answer finds the
  dialog in another state.

### What is proved of liveness

The prover knows nothing of `ENABLED`, so `WF` and `SF` say nothing to it, and it has no induction over
time. The theorems above that conclude something eventual therefore name what they rest
on, in one of three forms:

- *Fairness, stated with the guard*: `[]<>~guard \/ []<><<Action>>_vars` for `WF`, `<>[]~guard`
  for `SF`. So are `CallsGoOn`, `DeadlineExpires`, `MainGoesOn`, `CallsEnd`, `TimerFires`, `UpdatesGetThrough`,
  `EvictionsGoOn`, `ReloadsGoOn`. That guard and `ENABLED` agree was checked with TLC in all states of the instances.
- *Progress of a loop*: `PassesGetOn`, `RoundsKeepEnding`, `PollsAreMade`, `ReportsGoOn` say that a ticker or a
  heartbeat comes round again and again.
- *What takes an induction*, over ticks (`AgesRunOut`, `IdlingCounts`, `WindowsElapse`), the length of a
  queue (`ReportsAreRead`) or the requests under way at a time (`FailuresEnd`, `RefusalsEnd`,
  `EarlierPollsEnd`, `PollsBeforeEnd`). `Settles`, `FilesSettle` and `ServerSettles` say that the environment,
  which a run bounds by a counter, stops changing.

Each of them was checked with TLC to follow from the specification of its run, on the run's
instance. What the proofs add to the runs is the rest, for all constants:

- **Silence.** Once an agent is silent and its row old, a pass that lists it then sees
  what there is (`Fresh`), so its clock decides for "disconnected" or the row says so
  already; an older pass may still write something else, once. No message of the agent is being
  handled, so nothing refreshes its row, whatever becomes of its connections.
- **Convergence.** Once a collector has reported everything and the queue repeats nothing of it
  (`CaughtUp`), that stays so (`StaysCaughtUp`), and `ReportInv` says what the row shows.
- **Calls of the store.** Whoever has the connection goes through the statements to its
  release (`CallMoves`, `HolderGoesOn`), so the pool is free again and again (`PoolGetsFree`),
  and entry is fair to those who wait for it; a closed store turns all away.
- **End of the process.** The four phases of `main` lead to one another; only the first
  waits, and its deadline passes.
- **Limiter.** Without a failure of its own a bucket only ages or goes (`BucketAges`). A reload that has
  read a user name before the files settled ends, the next one reads what there is
  (`ReadIsCurrent`), so both verifiers come to hold the files (`ReloadsConverge`) and nobody
  valid fails; then the throttle, once lifted, stays so.
- **Dialog.** `DialogServed`: a dialog that neither rests nor waits for the operator waits for a call of
  its own or for its timer, and each of these leads to the next.
- **Screen.** A poll of the session has heard only the table as it is (`GoodPolls`), so the second of its
  answers shows that (`SteadyStep`). If the credential does not work, it can only be cleared, once (`OutCredential`), so in
  the end it stays as it is (`CredentialStays`); polls made with it hear of nothing but failures (`RefusedPolls`,
  `RefusedAnswer`), so the first answer of each puts an error on the screen and no second one wipes it away
  (`RefusedStep`, `RefusedIsTold`).
- **Drafts.** A step that is not the operator's changes an editor only when its dialog ends in success, and then the
  server has the draft (`DialogInv`); answers to polls write the text beside it.

Every property of a passing run is a theorem, the eventual ones from the premises named. What stays
with TLC is the step from the fairness of the runs to the premises of the second and third form,
and that the four comments quoted in section 3 are not what the code does.
The proofs use no induction over data and the modules no `RECURSIVE` operator.

## 5. Not modelled, and why

- OpAMP over plain HTTP: the server is given WebSocket connections; a
  plain-HTTP request would be a connection that carries one message.
- opamp-go, SQLite, `database/sql`, React and the browser: modelled as external, from how the code
  uses them.
- Cancellation of a REST request by its client: it shows as a store failure.
- Sub-second `LastSeen` is irrelevant to the comparisons and is left out.
- `MemoryStore`: one mutex around each method, and no table that outlives it; only tests and
  development use it. `UpdateConfigPushResult` and `DeleteAgent` have no caller outside tests.
- The Prometheus text format and the choice among metric names: a sample is their result.
- `config.Load` and `validate` run once, before anything else, and keep nothing. What the rest relies on,
  that the two thresholds are positive and ordered, is the assumption `ThresholdsValid`.
- REST read endpoints, DTOs and namespace summaries: one read of a store each, which
  `FleetStore` has (`GetAgent`, `ListAgents`), and a rendering of it.
- The line diff, the problem list and the views of the UI are functions of what was polled; nothing
  is kept and nothing else depends on them. The configuration builder adds a form to a push dialog like the modelled one.
- Wiring, logging, static files, manifests and rendering hold no state the
  properties could be about.

## 6. Plan

1. (done) `FleetTypes`, `ConnRegistry`, `AgentRecord`, `ConfigLifecycle`, `OpampServer`,
   their runs and theorems.
2. (done) `Admission` and `Scraper`, their runs and theorems.
3. (done) `Reports`: what deltas, lost updates and overlapping connections make of a row, with its theorems.
4. (done) `AtomicStore`, `FleetStore`, `ServerProcess`: transactions, shutdown, kill, with the refinement proved.
5. (done) `Browser`, `Console`: sessions, polls and the push dialog, with theorems.
6. (done) Theorems for every property of the passing runs, the eventual ones from the
   premises named in section 4.
7. Left: pure operators (namespace summaries, the line diff against the longest common
   subsequence, the component references of the builder) and the in-memory store.
