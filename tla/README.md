# TLA+ models of wosdashboard

wosdashboard is a Go server (gin, MySQL through sqlx, Redis) with a React dashboard, with
which the players' alliances of one state of a game run their roster, their battles and
their gift codes. This folder models the parts of it whose correctness depends on the
order in which things happen, checks the models with TLC on small instances, and proves
theorems about them with TLAPS. Paths below are those of the repository; each definition's
source lines are in `PROJECT.json`, under `map`.

    tlasany M.tla                          parse a module
    tlc -config RedeemEngine.cfg MCRedeemEngine    run a model
    tlapm RedeemEngineProofs.tla           check the proofs

## 1. The system and its parts

One server process holds everything that runs: the HTTP handlers (one goroutine each), the
gift-code worker, the event broker, the two schedulers, and background goroutines started
by handlers. MySQL and Redis outlive it. The dashboards talk to it by HTTP and hold one
event stream each.

| Component | State | Operations | Works with | What is hard |
|---|---|---|---|---|
| Gift-code engine: `processor.go`, `redeem_controller.go`, `redis.go`, `reporter.go` | `JobQueue` (100), the worker's locals, the `jobs` row, Redis `global_job_lock` and `current_job_status`, the CSV | `Redeem`, `StartJob`, `worker`, `processJob` | game API by `redeemForPlayer`; dashboard widget polls the status key | check-then-act, two records of progress, ignored errors, crash between any two writes, the lock's 24 h and the status key's 1 h |
| Redemption: `redeemForPlayer`, `gift_client.go`, `MarkAsRedeemed` | attempt count, `isPaused`/`pauseUntil`, `player_gift_codes` | one call for a player and code | the game, the roster | lost answers, blocks, retries of what was already done, a player deleted meanwhile |
| Live updates: `sse_broker.go`, stream handler of `router.go`, `LiveSyncManager.jsx` | map of clients, three channels | `AddClient`, `RemoveClient`, broadcast | every handler that writes notifies it | one goroutine everybody waits for; a client dropped in silence |
| Custom reminders: `cron_manager.go`, `db/cron.go`, handlers of `discord_controller.go` | `discord_custom_crons`; the batch the loop has read | tick, post, reschedule; create, edit, pause, delete | Discord, dashboards | a stale copy, a crash between post and write, dropped ticks, calendar arithmetic |
| Authentication: `auth_controller.go`, `auth.go`, `middleware.go` | tokens, the refresh cookie, Redis counters, MFA and WebAuthn sessions | login, verify, refresh, player login | users | counters read and raised apart, one-time sessions, role changes against live tokens |
| Session client: `client.js`, `AuthContext.jsx`, `AppContext.jsx`, `Login.jsx`, `AdminLayout.jsx`, `MfaSetupModal.jsx`, `App.jsx`, `navigation.js` | the stored token, `user`, `isRefreshing`, `failedQueue`, the login form, the route | hydrate, login, second factor, logout, the interceptors, reloads, guards | `/refresh`, `/admin/auth/me` | many calls waiting for one refresh, logouts and logins under way, filters written down three times |
| Discord integration: `discord_controller.go`, `db/discord.go`, `discord_service.go` | routes, guild, Redis button limits, package variables | save route, post rotation, disconnect | Discord | limits kept in shared variables, delete and insert without transaction |
| System crons: `cron_scheduler.go` | none | each minute: ministry, pets | ministry, strategy, Discord | exact-minute comparisons |
| War room and squads: `warmanager_controller.go`, `db/warmanager.go`, `WarRoom.jsx`, `Squads.jsx` | `players`' battle columns, `teams`, locks, session, attendance; the pages' copies and marks | start, lock, deploy, mark, archive, promote, disband, assign | roster, broker | handlers of several statements without a transaction, an archive checked on one copy and made from another |
| Roster: `db/roster.go`, `db/players.go`, `Roster.jsx` | `players`; each dashboard's copy and open form | add, edit, delete, transfer out, sync | everything | whole rows sent back from old copies, the sync's old list |
| Transfer seasons: `transfers.go`, `transfers_controller.go`, `TransferManager.jsx` | `transfer_seasons`, `transfer_records`; the page's copies | open, edit, activate, close; add, edit, invite, decline, confirm | roster, broker | decisions taken twice, rows written from pages that show an earlier season |
| User transfers: `alliances.go` | `alliance_transfers`, `users` | request, resolve | users | two managers, state that moved since the request |
| Ministry, foundry, rotation, strategy, pets | their tables | reserve, archive, schedule, activate | roster, crons | double booking, one active of a kind, limits |
| Server lifecycle: `cmd/server/main.go` | - | start, graceful shutdown | all | open streams against `Shutdown`, stores closed under a running worker |

### Not modelled

Not state machines, and left out for that reason: the scraper (a command line tool), the image
renderer and the avatar service (output), the player look-up client (one request, one answer),
configuration and utilities, migrations, the audit log. Left out so far: axios's default
Authorization header (`client.js:70`), which outlives a logout but is overridden by the request
interceptor as long as there is a token; the insides of the pages Foundry, StrategyMeta,
MinistryReservations, Rotation, Alliances, Users, Profile, DiscordConfig, DiscordCrons and
EventHistory with their handlers, the redemption widget, the login limiter, the Discord buttons
(see the plan). Left out within the modelled pages: announcements to Discord, statistics, search
and sorting, texts and layout.

What makes each component correct:

* Engine: one job at a time over all servers; a COMPLETED row has its full report; progress
    never runs ahead of work, never goes down, and its two records agree; a 409 is for a job some
  worker is at; an accepted job ends; a crash does not block the next job for ever.
* Redemption: what is recorded was redeemed; a lost answer is recovered (but for one that an HTML
  page hides) and a mere block is not mistaken for one; a block silences the worker; a call ends.
* Broker: a registered dashboard misses nothing; the map holds live clients only; nobody
  waits for a slow dashboard.
* Reminders: a due run is posted, once, and never passed over; a user's change is not overtaken;
  what is posted is current; the weekly rule picks the right day.
* Sessions: every waiting call ends with the refresh, whatever logs out or in meanwhile; who is
  shown as logged in has a token; links lead to their pages.
* Transfers: a confirmed record has its player on the roster; a departure stays on record; a
  ledger that has missed no event and no answer is current; a closed season is final (it is not).
* War room: an archive stores no unresolved attendance of a player its check saw.
* Limiter (planned): its bound holds; an MFA session is used once.
* Schedules (planned): a slot has one holder, a type one active strategy, an alliance no more
  buildings than the week allows; an announcement is made once.

## 2. Modules

| Module | What it is |
|---|---|
| `JobLifecycle` | The abstract life of a job: answered once, run at most once, one at a time, lost with its server |
| `RedeemEngine` | The gift-code engine; implements `JobLifecycle` |
| `MCRedeemEngine` | Symmetry for its runs |
| `RedeemEngineProofs` | Theorems about its jobs, lock and report, and the refinement |
| `RedeemRecordsProofs` | Theorems about its records of progress, on top of those |
| `RedeemCall` | What one call of `redeemForPlayer` promises its caller |
| `RedeemForPlayer`, `MCRedeemForPlayer` | One redemption, its retries and blocks, against the game; implements `RedeemCall` |
| `RedeemForPlayerProofs` | Theorems about it |
| `SSEBroker` | The broker, the notifying handlers, the stream handlers, the dashboards |
| `SSEBrokerProofs` | Theorems about it |
| `CronManager` | The custom reminder scheduler against the handlers that change reminders |
| `WeeklyNext` | The rule for weekly reminders, as operators, with its reference definition |
| `MCCronManager` | Both together, for TLC |
| `CronManagerProofs` | Theorems about both |
| `Roster` | The players table, its handlers, the dashboards' copies and the Roster page |
| `Transfers`, `MCTransfers` | Transfer seasons and the TransferManager page; extends `Roster` |
| `TransfersProofs` | Theorems about the ledger and the roster |
| `Navigation` | Links, cards and the guards of the routes, as operators |
| `Session`, `MCSession` | One browser tab against the server; extends `Navigation` |
| `SessionProofs` | Theorems about it |
| `WarRoom`, `MCWarRoom` | War room and squads: the tables, the handlers' statements, the two pages |
| `WarRoomProofs` | Theorems about it |

The modules of the pages have one shape. The server's operators (named after the methods of
`db.Store`) change the tables; the page has its copies, the set of what may be pressed
(`...Controls`, read off the JSX), and one action per handler of the page, whose guard is its
button and whose effect is the server's operator applied to what the page's copy holds. A
`due` or `stale` flag stands for a fetch that has been asked for and not yet answered; the
fetch's answer is the table at the moment of its action. An event reaches any part of the pages
that listen: the broker drops it for a client that is still busy (`sse_broker.go:41`), and a stream
that broke is not opened again (`LiveSyncManager.jsx:29-34`). A fetch may fail too, which leaves
the old copy with nothing outstanding.

### RedeemEngine

A job is named by the request that asks for it. `req[j]` is the handler's place in `Redeem`:
`CheckRunning` is `IsJobRunning` (409 or on), `CreateJob` the insert of the row (500 on an error),
`Enqueue` the channel send, disabled while the queue is full as the send blocks. Each server's
worker is `pc`, `job` and the locals of `processJob`: `count` targets are done, `tried` codes of
the next, `entries` are the report's. A step of the worker ends where another process can see a
difference: `Dequeue`, `AcquireLock` (SETNX; a taken lock or an error drops the job),
`ResetProgress` (the deferred release is set before it), `RedeemCode` for each code, `NextTarget`
(count and row), `PublishProgress` (key), `ExportReport`, `CompleteJob`, `PublishCompleted`,
`ReleaseLock`. Errors the code ignores are the outcomes of `Written` and of `ExportReport`'s
alternatives; `Faults` says which kinds may happen. `ExpireLock` is Redis's 24 h and
`ExpireStatus` the status key's 1 h; with `OverrunTTL = FALSE` the lock of a living job does not
expire. `CrashRestart` loses a process: its handlers, its queue, its worker; the stores stay.

The model leaves out what one redemption does (`RedeemForPlayer`) and `GetPlayers`, whose
snapshot is `total[j]` (0 when it fails: its error is ignored, and the job is empty).

### RedeemForPlayer

`call` is the state of the one call the worker is in: `Begin` with a pair of player and code,
`CheckPause`, `Send` with one of the `Replies` the game may give for what it remembers,
`RetryBlocked`, `Retry`, `Succeed` with its two statements `EnsurePlayer` and `RecordRedeemed`, or
`Fail`. An attempt may redeem under any answer of `MayRedeem`: a lost one, an unknown one, and a
WAF_BLOCK, for `RedeemGift` takes each HTML page for a block, that of a gateway which gave up
after the game had executed the request too. `LostAnswerRecovered` names the case that follows:
the block is retried uncounted, "already used" comes on a first attempt, and the code reports
Failed. Both statements of `MarkAsRedeemed` may fail without changing the answer. The game is an
external party: it remembers redeemed codes and accepts one of a type, and players may redeem by
themselves (`ClaimInGame`). Moderators delete and add players in between.

`RedeemCall` is the same call seen from outside, without attempts, pauses and messages: it runs or
not, for a pair, and has an answer. In its middle its code may be redeemed and its player be put
on the roster; `Succeed` asks that the game has used the code, or one of its type, for that
player, and at that moment the record may be made, if the player is there; it is not promised, for
the code reports Success also when its statement failed; nothing else a call does can be seen. The
instance `Promise` maps `calling` to the call's `pc`, its answer to `result`, and the tables to
themselves. This is the step `RedeemEngine` takes for one code.

### SSEBroker

`listen` is the broker's goroutine, in its `select` or with the clients of `listen.left` still
to be offered the event. A client channel is unbuffered, so `Offer` succeeds only when the
handler waits at it (`Park`); otherwise the broker drops the client. A controller is `Write`
then `Notify`, which blocks while the `Notifier` buffer (one event) is full. A dashboard
refetches on each event (`Refetch`), and its handler unregisters after the stream closed.

### CronManager

Times are minutes from now; a `Tick` lowers them all and fills the ticker's one slot. The
goroutine reads what is due (`ReadDue`, or the query fails), and for each reminder posts
(`Send`) and then writes (`Reschedule`) from its copy: a reminder that does not repeat is
deactivated, another moves on by one of `Steps` from the copied time. An error of the post is
logged and changes nothing, so `Send` has one outcome. Handlers change the table at any time.
`CrashRestart` is also a graceful stop: `Stop` does not wait for the loop.

`Owed` are the runs the scheduler owes a post: what is due in the table, and of the reminders in its
hands those not yet posted. `NothingSkipped` says that a step takes a run out of it only by posting
it or by a user's hand, which a scheduler that moved the row before it posted would not do (its
mutant, `ReadDueClaiming`); `DueIsPosted` says that no run stays in it for ever. A reminder that a
user changes while the scheduler holds it is left out of both: its run may be overwritten.

`WeeklyNext` is the step of a weekly reminder: `calculateWeeklyNext` on days counted from a
Sunday, for which `AddDate` is an addition. `IsNextRun` says what is meant by "every n weeks on
these days": the first chosen day that follows, of this week or of the one n weeks on. The week
begins with the Sunday, whose number is 0, although the form shows it last. A rule without days
gives the zero time and deactivates the reminder, which `CronManager` counts as one that runs
once; a day outside 0..6 can come only past the form, and is left out.

### Roster and Transfers

`roster[u]` is AppContext's copy of `GET /players`, `season[u]` and `view[u]` TransferManager's
copies, `form[u]` the row an edit began with. Each change of a record goes to
`UpdateTransferRecord` as the copy's whole row with one field changed, as in `handleUpdateRecord`;
the server looks neither at the row's status nor at the season's. `ConfirmInboundTransfer` and
`ConfirmOutboundTransfer` are transactions and so one step each. `Concerned` says who is to
refetch after a call: the page that made it if its handler does, and on the event the admins with
the page open (`LiveSyncManager` serves admins only, so a moderator's page stays as it is until he
acts). `Call` lets the answer and the event reach any of them; `missed` marks the admins whom one
did not reach, or whose fetch failed, since they opened the page. It is read by
`AdminsLedgerCurrent` alone: the code cannot tell such a page from another. `joined` and
`departed` record which transactions have been made; nothing reads them. A name, an avatar, a
state are left out; `power` counts only against the season's cap. The answers of one page's
fetches are taken to arrive in the order asked; were they not, `AdminsLedgerCurrent` would fail
for a page that missed nothing (`PROJECT.json`, hazards).

### Session and Navigation

`calls[c]` is the server's verdict on its way to the browser, decided when the call goes out, or
where the call waits: `waiting` for the refresh it started, `queued` in `failedQueue`. `Answer` is
the response interceptor, `RefreshDone` and `RefreshFailed` are its `try` and `catch` with
`processQueue` and the `finally`, which run without a yield. `leaving` is `window.location.href`
set and the document not yet gone: in that time answers still arrive. `Load` is a new document:
every call is lost, the token and the cookie stay. `SetUser` renders the router again (`Landing`
is `ProtectedRoute` with `RequireAlliance`) and starts AppContext's fetch. The login form's `wait`
names the request that is under way, so that switching the tab during a login is possible, as on
the page. `ChangeAccount` is another admin's change of the row: the token keeps its old role.

### WarRoom

A handler of two statements is two actions (`Promote` and `PromoteCaptainJoins`, `Demote` and
`DemoteCaptainDeletes`), for nothing holds them together; the archive is one transaction. The
foreign key of `players.team_id` is `SetTeam`'s condition and what `DemoteCaptainDeletes` clears.
`DeployAnswered`, `DeployFailed` and `ArchiveAnswered` are the page's code after its `await`.
`seen` marks attendance of players the page's check looked at, without those whose marks a pending
answer of the same page is about to reset.

## 3. Runs

All bounds are constants of the cfg files, and the comment at each constant says what it
bounds.

| Run | Instance | Shows |
|---|---|---|
| `engine` | 1 server, 2 jobs, up to 2 targets and 2 codes, queue of 1, every fault, 1 crash, lock may expire | `CompletedMeansReported`, `ProgressNotAheadOfWork`, `StatusNotAheadOfRow`, `ConflictMeansRunning`, `NoJobDroppedInOneLife`, `ProgressMonotone` |
| `two_servers` | 2 servers, 2 jobs, 1 target, 1 code, every fault, 1 crash, lock outlives the job | `OneJobAtATime`, the refinement `ImplementsLifecycle` |
| `engine_live` | 1 server, 2 jobs, no fault, 1 crash | `JobsComplete`, `LockEventuallyFree` |
| `second_job` | 1 server, no fault, no crash | violation of `SecondJobConflicts` |
| `accepted` | 1 server, no fault, 1 crash | violation of `AcceptedJobsComplete` |
| `redemption` | 1 player, 3 codes of which 2 of one type, 3 attempts, a pause of 2 ticks | `LostAnswerRecovered`, `NoGhostOutOfBlocks`, `RecordedMeansRedeemed`, `BlockedMeansQuiet`, the refinement `ImplementsCall`, `CallReturns` |
| `broker` | 2 dashboards, 3 writes | `RegisteredMissNothing`, `RegisteredAreServed`, `NotifyReturns`, `CloseReturns` |
| `reminders` | 2 reminders, run times now or in a minute, steps of a minute, 1 restart, failing queries | `PostedOncePerRun`, `EditKept`, `PostsAreCurrent`, `NothingSkipped`, `DueIsPosted`; the weekly rule, from each day of two weeks, for each choice of days and up to four weeks (an assumption TLC evaluates) |
| `transfers` | an admin and a moderator, 1 player, 2 seasons, 3 records, 3 calls that write, lost events and failing fetches | `ConfirmedJoined`, `DeparturesOnRecord`, `AdminsLedgerCurrent` |
| `closed_season` | the same with fewer seasons and records | violation of `ClosedIsFinal` |
| `session` | 1 page call beside the context's two, a token or cookie that expires once, 1 change of the account, 2 pages | `WaitersHaveRefresh`, `SignedInHasToken`, `LinksLead`, `CallsSettle` |
| `war_room` | 2 admins, 1 player, 1 fighting alliance, 1 squad, 3 calls that write, lost events and failing fetches | `SeenAreResolved` |

Why the bounds are enough: of two jobs one runs, or fills the queue of one, while the other runs
too, waits in the queue, or blocks in its handler, which is each relation of two jobs the code can
tell apart; two targets and two codes give a first, a next and a last round of both loops, and
empty loops with 0; one crash at any step meets both the state before and the life after it. Two
codes of a type and one apart are the cases of the game's rule; three attempts are the code's own
number. Two dashboards are a registered and a leaving one in the middle of a broadcast; three
writes are one event being broadcast, one in the `Notifier` and one whose controller blocks. Two
reminders make a batch, in which the second is changed while the first is posted. A lag above
`MaxLag` makes no difference to a query for `<= now`. Of the pages' modules the bound that matters
is the number of calls that write: with three, one decision is made, a second from a copy older
than it, and a third from a copy older than either; two pages are then enough, as each call has
one author and one stale copy. An admin and a moderator are the two kinds of page (one hears of
events, the other does not); three records are a candidate and two departures, the second one of a
player who was archived and came back, two seasons a closed and an open one. `transfers` starts
with the player on the roster of an alliance and the candidate bound for one (`SettledInit`),
`war_room` with a player who has an alliance of his own (`HousedInit`): of the others no departure
is recorded and no squad made, and the proofs are about any start. In both, states after the last
call are checked but not gone on from (`Unfinished`): what the invariants are about changes by
calls, and a fetch brings what the tables hold. A player is deployed, then made a captain, and his squad disbanded or archived, or he is deployed,
marked and archived; that more squads and players make no difference is what `WarRoomProofs`
proves. A token that expires once meets every moment of a login, a logout and a page call, and
with the context's own two calls there are three that may wait for one refresh; `/war-room` and
`/discord` are the two kinds of guarded route, and `LinksLead` looks at every route in each state.

Deadlock checking is off in the engine's runs: its requests are finitely many, and a server
that has answered them all and done its jobs rests. The other modules never stop.

### Violations: where the texts and the code differ

* `second_job`: `docs/gift_code_engine.mmd` answers 409 while a job is running. The check
  reads `current_job_status`, which is first written after the first target, so an earlier
  request gets its job queued behind the first.
* `accepted`: the same diagram ends every accepted job with COMPLETED. After a crash in
  mid-job the lock stays for up to 24 h; as the status key may be absent or expire before
  it, a new request is accepted, and the worker drops its job, whose row stays PENDING.
* `closed_season`: on closing, `TransferManager.jsx` says "This action is permanent and freezes
  all records." No handler looks at the season's status, so a page that still shows the season
  edits, declines or confirms its records, or sets the season Active again.

Not a run, but met on the way: `docs/sse.mmd` says the broker broadcasts to all connected
clients. A client whose handler is still writing the previous event is deleted, with its stream
open and nothing to tell the dashboard so; hence `RegisteredMissNothing`.

### Fairness

* Engine, `FairSpec`: each handler and worker goroutine is scheduled while it can go on;
  a redemption ends (see `CallReturns`). The send to a full channel needs strong fairness:
  Go's channels serve blocked senders first in, first out. `FairExpirySpec` adds that Redis
  drops a key at the end of its time. Nothing is assumed of requests or crashes.
* Redemption: the call goes on, time passes, and the game does not answer with
  a block (an HTML page or a rate limit) for ever.
* Broker: its goroutine, notifying and closing handlers go on; channel sends and receives that
  compete for the `select` are served in the end (Go's `select` chooses at random among the
  ready cases). Nothing is assumed of the dashboards.
* Reminders: minutes pass, the goroutine runs, a post returns (the HTTP client has no timeout,
  so this is an assumption about Discord and the network), the query does not fail each time.
* Session: a call the browser has sent is answered or given up by the network (`Answer`), the same
  of the refresh, and a document that is leaving leaves. Nothing is assumed of the user, of
  expiry or of other admins. A 401 that a new token does not cure (a wrong old password is one)
  would refresh for ever; the marks `_retry` prevent it, and `CallsSettle`'s mutant removes them.

## 4. Proofs

All theorems hold for every value of the constants that satisfies the module's `ASSUME` (counts
are natural numbers, a buffer holds at least one event, values that stand for "none" are not among
the others); nothing else is assumed. Each safety invariant and action property that a passing run
checks is also proved, the type invariants included, and so are both refinements, the engine's for
locks that outlive their jobs. The arguments have one shape: a strengthened invariant, a lemma for
each part of the next-state relation that can disturb one of its parts, and the properties as its
consequences.

### The engine

| Theorem | States |
|---|---|
| `WorkInductive`, `TypeCorrect` | `WorkInv`, `TypeOK` |
| `MutualExclusion` | `OneJobAtATime` |
| `CompletedReported` | `CompletedMeansReported` |
| `Refinement` | if `~OverrunTTL`, `ImplementsLifecycle` |
| `Inductive` | `IInv`, which is `WorkInv /\ RecordsInv` |
| `ProgressHonest` | `ProgressNotAheadOfWork` |
| `StatusBehindRow` | `StatusNotAheadOfRow` |
| `ConflictIsReal` | `ConflictMeansRunning` |
| `NoneDroppedInOneLife` | `NoJobDroppedInOneLife` |
| `ProgressOnlyGrows` | `ProgressMonotone` |

None of these properties is inductive alone. `WorkInv` says who works on what: `FateOK`, only
a queued job can have ended; `WorkerOK`, the job in a worker is accepted, open and of its own
server; `QueueOK`, a queued job is so too, is queued once, and is in nobody's hands; `LockOK`,
the lock names the job of whoever is inside (this is what excludes the second worker, and what
`ReleaseLock`'s unconditional DEL relies on); `LoopOK`, where the loops stand and which
entries they have collected (this is what makes the report full when the row is completed).
`WorkerOK` and `QueueOK` together say that no job is in two places, which is what makes a
job of the refinement start only once.

`RecordsInv` says what the records tell of it, and rests on `WorkInv`. `ProgressOK`: the row and
the key count no more than the worker has done, and a job nobody has begun has left no trace in
either. `RowExact`: while no write to the row was lost it says exactly how far its worker is,
which is why the key, written after it, cannot be ahead. `LockInUse`: a server alone, in its first
life, with Redis answering, holds the lock it finds taken; so it never finds it taken, and drops
nothing. `ConflictMeansRunning` needs one more conjunct, `RunningHeld` of `RedeemRecordsProofs`:
in such a life whoever has written RUNNING has not come past the place where he writes COMPLETED.
It says that no way out of the loop, a failed export's included, leaves the key behind.
`ProgressMonotone` follows from `ProgressOK`, as `ResetProgress` finds a row that nobody has
counted in.

`Refinement` maps each action to `Answer`, `Start`, `Finish`, `Lose` or a stutter with `Phase`:
`Enqueue` and a refusal are `Answer`, a successful `AcquireLock` is `Start` (its guard, that no
job is running, is `LockOK`), `ReleaseLock` is `Finish`, a dropped job or a crash is `Lose`.

### The other modules

* `RedeemForPlayerProofs`: `TypeOK`, `LostAnswerRecovered`, `NoGhostOutOfBlocks`,
  `RecordedMeansRedeemed`, `BlockedMeansQuiet`. `ReplyInv` ties the reply the call looks at to
  what the game has done, `AttemptInv` says that only a counted attempt leads past the first,
  `PauseInv` that the pause is set between a block and the next look at it only and makes up for
  the time missing since the block. Assumed: at least one attempt, a pause of at least a tick.
  `CallKeepsPromise` is the refinement of `RedeemCall` (`ImplementsCall`): the attempts, pauses
  and retries are stutters, an attempt that redeems and the insert of the player are `Work`,
  `RecordRedeemed` is `Succeed`; that the game has then used the code, the guard of `Succeed`, is
  `SuccessInv`. That a record is made is no part of it, since the code does not see to it.
* `SSEBrokerProofs`: `TypeOK`, `RegisteredMissNothing`, `RegisteredAreServed`, for any
  dashboards and writes. The strengthening is that nobody outside the map is owed an event, so
  that a new registration starts clean.
* `CronManagerProofs`: `TypeOK`, `PostedOncePerRun`, `EditKept`, `PostsAreCurrent`,
  `NothingSkipped`, for any reminders, steps and restarts. `PostInv` says that a reminder that is
  in the batch or may come into it has not been posted since the last restart; `EditInv` that what
  a user asked for is not of the reminder the scheduler is about to write; `BatchInv` that what is
  still to be posted is due, or a user has touched it. The types need `HeldDue`: the next run is
  counted from a copy that was due. Of the weekly rule: `WeeklyNextIsNextRun`, it is the reference
  definition, for every day, choice of days and interval; `WeeklyMovesOn`, it moves on by at least
  a day and at most the interval, as `CronAssumption` asks of each step; `ZeroWeeksStandStill`,
  with an interval of 0, which the form refuses and the handler does not, a reminder whose week
  has no chosen day left is due again at once. The last is why the assumption is there.
* `TransfersProofs`: `ConfirmedJoined` by an argument on rows: each write of a page is a copy
  that the ledger lets him change, so one that is not confirmed, with another field changed or
  declined; whatever the table holds by then, the row is not confirmed after it. `TypeOK` is
  inductive with `CopiesLead` (a page shows only records there are, and none turns from a
  candidate into a departure or back) and `SeasonsExist` (seasons are numbered one after the
  other and none goes). `DeparturesOnRecord` follows from the first: what a page can send is a
  candidate's row. `AdminsLedgerCurrent` splits the steps into those after which every
  admin's page is to refetch or has missed something and those that leave what the server would
  answer as it is, but for departures.
* `SessionProofs`: `TypeOK`, `WaitersHaveRefresh`, `SignedInHasToken`, `LinksLead`, for any calls,
  features and bounds. The token needs `TokenInv`: a document that hydrates has a token (or is
  being left), asks by the one call "me", and has no other call, form or foreign refresh under
  way; after that, "me" is never out. It is proved together with the calls' queue, for a
  refresh sends again what waits. `LinksLead` is a fact about `Navigation`'s lists and filters,
  case by case over the links.
* `WarRoomProofs`: `TypeOK`, and `SeenAreResolved`, by `SeenInv`: nobody an open modal's check saw
  has lost his mark since, as the modal covers the page and the answers still to come are about
  others. For any admins, players, alliances, squads and sessions.

### Only model-checked

Liveness stays with TLC, for TLAPS reasons neither about `ENABLED` nor about fairness:
`JobsComplete`, `LockEventuallyFree`, `CallReturns`, `NotifyReturns`,
`CloseReturns`, `DueIsPosted`, `CallsSettle`. `ImplementsLifecycle` and `ImplementsCall` are
refinements of safety only, as `JobLifecycle` and `RedeemCall` state no fairness. The bounds
(`MaxCrashes`, `MaxLag`, the numbers of calls and expiries) are in the guards the theorems are
about, and arbitrary there. The three properties expected to fail are of course not proved.

## 5. Hazards and plan

`PROJECT.json` lists each hazard at its line with the properties that guard it, and in a note what
they leave open. No property guards:

* whole rows saved from old copies (`roster.go:80`), a reminder's edit form that sends back an
  old run time (`DiscordCrons.jsx:257`), a squad that outlives a move between alliances
  (`warmanager.go:85`) or half of its own making (`warmanager.go:214`), the release of another job's
  lock after 24 h (`processor.go:160`), a report cut short by a failed flush (`reporter.go:32`), a
  stream left open by the broker (`sse_broker.go:41`): the code lets it happen and nothing in the
  repository says otherwise, so there is no property to hold;
* the login limiter, MFA sessions, the Discord buttons' shared variables, the background sync,
  user transfers, ministry slots and the exact-minute crons: not modelled yet;
* the weekly rule with zero weeks (`cron.go:142`): a theorem rather than a run.

The work ahead, in this order:

1. `Limiter`: the login limiter's counters, MFA sessions in Redis, the Discord buttons.
2. The background sync in `Roster`, and user transfers beside it.
3. `Schedules`: ministry slots, active strategy, rotation limits, foundry archive, exact-minute
   crons, with their pages.
4. The redemption widget against the engine's status key; the shutdown sequence.
5. Abstract specifications, and refinements proved as the two there are: a ledger whose records
   are decided once, for `Transfers`; a log that each registered dashboard reads in order, for
   `SSEBroker`.
