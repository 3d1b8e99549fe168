# Elythia: TLA+ models of the queue, delivery, upload and match machinery

Elythia is a Misskey-compatible social network server in Go. This directory
holds TLA+ modules that model the parts of it in which several goroutines,
processes or requests share state without a single transaction around them,
TLC configurations that check those models on small instances, and TLAPS proofs
that carry the main invariants to instances of every size.

`PROJECT.json` is the index: which definition models which lines, which run
checks which property, which mutant of the model each property rejects, which
hazards of the code the properties are for, and which findings came out.

Contents

1. Inventory of the system
2. Plan
3. The modules and the code
4. The runs
5. The proofs
6. Assumptions, and what is not modelled
7. Findings

## 1. Inventory of the system

The backend is layered: `internal/api` decodes requests and checks permissions,
`internal/core/*` are the services, `internal/repository` is SQL over
`internal/model`, `internal/entity` packs answers. Beside the request path run
the job queue (`internal/queue`, on a BullMQ-compatible store in Redis called
mkq), the WebSocket streams (`internal/stream`), federation
(`internal/core/federation`, `internal/activitypub`), plugins, backup and
maintenance tools. Any number of server and queue processes work on one
PostgreSQL and one Redis, so most services are exposed to interleavings even
where a single process would be sequential.

The table lists, for each component, the state it keeps, its operations and
partners, what is hard about it, and the property that makes it correct. The
six at the top are modelled.

| Component | State | Operations and partners | Hard | Correct when |
|---|---|---|---|---|
| Worker pool (`queue/driver/mkqdriver/server.go`) | roster, quarantine, protection, sizes under `pool.mu`; two atomics per worker; abandoned-handler counter | Start, Resize (from the autoscaler), the supervisor's reconcile, Shutdown (from a signal), handler deadline | goroutines that cannot be killed, spawn errors half way, a lock captured before Shutdown | every dispatcher is on the books, the leak budget holds, stuck capacity is replaced, Shutdown is final and ends |
| Autoscaler (`queue/autoscale`, `server/autoscale_wiring.go`) | one AIMD controller per queue, the shared ledger of worker counts | ticks that read, decide, book, Resize, book again; start and Stop | ticks of queues interleave between their four steps; Resize fails or falls short | the cap is not overbooked, no slot leaks, pools shrink only when idle, a backlog gets workers |
| Delivery breaker (`core/deliveryhealth/breaker.go`, `queue/processors/deliver.go`) | per host in Redis: failure count, interval, probe time and lock, throttle, reserved slots, index | check, send, report from any queue node; list and close by an administrator | steps of many nodes, lost reports, late answers, timers | one probe at a time, back-off respected, reserved times spaced, held hosts visible, everything delivered when the host is back |
| Chunked upload (`core/drive/chunked_upload.go`) | session row; multipart upload and object in S3 | start, append, finish, abort, collection of expired sessions | two stores without a transaction, expiry, retries, crashes | one intact file per session, nothing acknowledged is lost, no upload is left without a row |
| Bubble-game matches (`core/bubbleversus`) | one JSON value per match in Redis with an expiry, an index of invitations, times of last contact, a record in the database | invite, accept, decline, cancel, ready, attack, claim a disconnection, report | optimistic transactions of both players, what follows them unprotected, clocks | every match in which a player persists is decided once, justly, and the record says so |
| Reversi (`core/reversi`) | game row (board derived from its log of moves), turn timers and federation session in Redis | settings, ready, start, put, surrender, time-out, cancel; from streams and the federation inbox | whole rows read, changed and saved without a condition | a ready game starts once, its moves are legal, it ends for one reason with the winner the rules give |
| Following, blocking (`core/following`, `core/blocking`, `core/fsck`) | relation rows, denormalised counters | follow, request, accept, block, federation echoes | concurrent inverse operations | counters agree with rows, no relation across a block |
| Charts (`core/chart`, `internal/charttick`) | in-memory deltas, hour and day rows | increment, flush under a Redis lock | crash or overlap of flushes | every increment counted once |
| Ephemeral notes, relays (`core/ephemeral`, `core/relay`) | notes in Redis, relay subscription states | store, promote, accept, reject | promotion races expiry | promoted once, never to a dangling reference |
| User and role caches (`core/cache`, `core/user`, `core/role`) | process-local copies | load, invalidate over pubsub | a load in flight during an invalidation | a stale value does not outlive the invalidation |
| Streaming (`internal/stream`) | connections, subscriptions, send queues | connect, subscribe, dispatch, close | close against dispatch, full queues | no send after close, a slow client blocks nobody |
| Two-factor, strong authentication (`core/twofactor`, `core/strongauth`, `core/passwordguard`) | used codes, attempt counters | verify | two logins with one code | a code is used once |
| Reactions and polls (`core/reaction`, `core/poll`) | rows, counters, buffered counts | react, unreact, vote, expire | buffered counters against removal | counters agree with rows |
| Instances (`core/instance`) | touch, counter and capability buffers | buffer, flush | flush failures | nothing counted twice |
| Backup (`internal/backup`, `core/backupadmin`) | generations, schedule | run, verify, prune, restore | crash during a run | the last good generation is never pruned |
| Emoji and signup applications (`core/emojiapplication`, `core/signupapplication`) | request state machines | apply, approve, reject | two moderators | decided once |
| Notes, timelines, antennas, notifications, chat, drive files, federation documents, media, search, diagnostics, plugins, HTTP API, entities, wiring, frontend | rows and lists | mostly one transaction or one Redis command each | little beyond the above | listed in `PROJECT.json` with the reason for leaving each out |

How the modelled parts meet: the autoscaler calls `Server.Resize` and
`WorkerCount` of the worker pool; delivery jobs run as handlers inside the
pool's workers (that is why a hanging handler matters there) and their waits are
queue delays; the collector of expired upload sessions is a cron job of the same
queue. What the autoscaler may rely on is the abstract pool of `Pool`, which
`WorkerPool` is shown to implement; the pool's side of `Autoscale` (a size asked
for, a number of live workers, a Resize that may fail after it has stored the new
size, a supervisor that fills up later) is written from that promise, by hand: a
Resize is one step there and several of `Pool`, so there is no checked refinement
between the two. The two games stand alone: they share only Redis and the database with the rest.

## 2. Plan

Order of work, most important behaviour first. Done:

1. `WorkerPool`: everything asynchronous depends on it; with `Pool`, the
   abstract specification it implements.
2. `Autoscale`: drives the pool.
3. `DeliveryBreaker`: decides whether federation works.
4. `ChunkedUpload`: the one place where two stores are kept in step by hand.
5. `BubbleVersus`: optimistic transactions in Redis with a database record
   behind them.
6. `ReversiEngine` and `ReversiMatch`: the rules, and a row that several
   requests rewrite as a whole.

To come, in this order:

7. The waiting queue of reversi (`match_any.go`) together with the creation of
   games and the invitations.
8. Upload sessions of one user: the quota checks of `StartChunkedUpload` across
   concurrent starts, as an extension of `ChunkedUpload`.
9. `Following` with blocks and counters, against a reference count.
10. `ChartBuffer` and the instance buffers: buffered increments and flushes.
11. `CacheInvalidation`: loads in flight against pubsub invalidation.
12. `StreamConnection`: close against dispatch and full send queues.
13. `OneTimeCode` replay, application state machines, `BackupDaemon`, poll expiry,
    reaction count writer, relay states, concurrent resolution of one remote
    object.

Every invariant and every action property of the passing runs is stated by a
theorem. Worth proving next: that the pool's side of `Autoscale` follows from
`Pool` when a Resize is split into its steps; and how far the cap can be exceeded
when workers do hang, which `CapHolds` excludes.

Runs are shared: one configuration per distinct question, safety and liveness
together where the instance is small enough.

## 3. The modules and the code

Every module starts with a comment that says what it models and which data it
abstracts. Properties are at its end. A definition whose comment begins with
"Mutant" is the definition that follows it with one plausible mistake; it is
used only to show that the property named in `PROJECT.json` notices it.

### WorkerPool

One queue's pool. `roster`, `quarantine`, `protected`, `desired`, `peakDesired`
and `shutdown` are the fields of `workerPool`; `pc`, `over` and `returned` are
what a worker publishes through its two atomics (`busySince`, `completed`);
`holder`, `phase` and `doomed` say who holds `pool.mu` and how far reconcile is.

| Action | Code |
|---|---|
| `TakeJob`, `Overrun`, `CountCompleted`, `ClearBusy`, `DispatcherExits` | a dispatcher around its handler; the two atomics are stored in two steps |
| `HandlerAbandoned`, `HandlerReturnedLate` | the handler deadline and `abandonCounters` |
| `QuarantineStuck`, `ReinstateProvenLive`, `AdjustStopAll`, `AdjustGrow`, `AdjustSpawnFails`, `AdjustShrink`, `StopHandles`, `StopsReturn` | `reconcileLocked` and what it calls, step by step, with `pool.mu` held |
| `StartPool`, `Publish`, `StartSupervisor` | `Server.Start` |
| `SuperviseTick`, `SuperviseReconciles`, `SuperviseExits` | the supervisor goroutine |
| `ResizeCapture`, `ResizeLocked` | `Server.Resize`: looking the pool up and, later, locking it |
| `StopSupervisor`, `JoinSupervisor`, `Unpublish`, `ShutdownLocked` | `Server.Shutdown` |

The lock makes each reconcile exclusive, but a worker moves between any two of
its steps, which is where the snapshot and victim races live.

### Pool

What the server promises to whoever resizes a queue: sizes are asked for with
`Ask`, capacity is filled exactly to the goal the budget leaves (`Fill`), no
worker the goal needs is released (`Release`), hanging workers are set aside and
taken back, and a closed pool is empty for good. `WorkerPool!ImplementsPool` maps
`desired`, `peakDesired`, `roster` and `quarantine` to it; locks, goroutines, the
supervisor, the phases of reconcile and the order of Shutdown disappear.

### Autoscale

`Observe`, `Increased` and `Decreased` are `AIMDController`; `Decide`, `Book`,
`Resize`, `Commit` and `Rollback` are the steps of one tick in
`autoscaleRunner`; `StartResize` and `StartBook` the start loop; `Cancel`,
`TickerExits`, `StopReturns` are Stop. `WorkerSticks` and `Reconcile` stand for
the pool's own behaviour, and so do the outcomes of a Resize: `ResizeDone`,
`ResizeShort` (the leak budget has no room), `ResizeFails` (nothing can be
spawned) and `ResizeSpares` (a shrink leaves a worker that is back from
quarantine in the job it holds). `ledger` is `workerCounts`; `slipped` is a history
variable, the queues that at some time since their last full Resize had fewer
workers than asked for, and `spared` another, those whose last Resize left more.

### DeliveryBreaker

One host. `Check` (with `Reserve` and `TakeProbe`) is `checkScript`, `Failed`
(with `FailOpen`, `FailOpens`, `FailCounts`) is `failureScript`, `Close` is
`closeScript`, `LocalError` is `releaseScript`, `Throttle` the pipeline of a 429.
A Lua script is one step; everything a job does between its scripts is not.
`CheckUnavailable` is the check that goes unanswered, whether the script has run
(it then reserved a send time nobody waits for, or took the lock for a token
nobody has) or not.
`Tick` lets one unit of time pass in all timers at once. `ListReads` and
`ListDropsStale` are the two halves of `List`; `dropped` is a history variable,
true when the second half removed a host that had opened since the first.

### ChunkedUpload

One session. `row`, `idSet`, `parts`, `finishing`, `expired`, `grace` are the
row, `upload`, `stored`, `extra` and `object` what S3 holds, `files` the
DriveFiles made. A request is a handler with a program counter: `Append_` loads
the row, then `Create`, `Record` (or `Undo`), `Put`, `Commit`; `Finish` loads it,
then `Claim`, `Complete` (or `Release`), `Store`, `Unlink`, `Drop`;
`AbortSession` and `Collect` load it and go to `AbortUpload` and `Drop`. Expiry,
the end of the grace period and crashes may come at any moment.

### BubbleVersus

One match. `match` is the JSON value, `listed` its entry in the invitation index,
`age` the seen keys, `row` the database record, `since` the time since the agreed
start. A request has a slot with a `draft`, the copy of the match it is going to
EXEC; a successful EXEC takes away the drafts of all others, which is what WATCH
does, and they go through `Retry`.

| Definition | Code |
|---|---|
| `MayAccept`, `MayDecline`, `CancelCheck`, `InvitedOnly`, `MayReady`, `MayAttack`, `MayClaim`, `MayReport` | what the closures refuse |
| `Accepted`, `Removed`, `ReadySet`, `Attacked`, `Claimed`, `Reported` | what they write |
| `Read`, `Exec`, `Retry` | `update` and `remove` |
| `Unlist`, `TouchStart`, `Touch`, `Publish`, `SaveReport`, `Finish` | what follows an EXEC, each a step of its own |
| `State`, `Invitations`, `Tick`, `Expire`, `Crash`, `SaveReportFails` | operations outside the transaction, time, faults |

`got` counts the stones whose event reached a client and `held` what it was when
the stored report was sent: an honest report claims no more than that.

### ReversiEngine and ReversiMatch

`ReversiEngine` has no state: `EffectsInLine`, `Effects`, `CanPut`, `FirstAble`
(the turn), `NewGame`, `PutStone`, `Winner` and `EngineFromGame`, the replay of a
log, are `game.go` as functions of a configuration and a position.

`ReversiMatch` is one game. `row` is the row or `NoGame`; a request that has
decided carries the row it is about to write in `draft`. `AskReady`,
`UpdateSettings`, `PutStone`, `Surrender`, `CheckTimeout` and `CancelGame` are the
operations up to their first statement; `UpdateReadyState`, `Reread`,
`MarkStarted`, `SetTurnTimer`, `PublishStarted`, `TurnTimerExists`, `Save`,
`Delete` and `CleanupFedCache` the statements that follow. `Save` is gorm's: the
whole row, without a condition, and an insert if the row is gone. The checksum is
represented by the settings and moves it was computed from. Three variables are
history: `armed` holds the turns a timer was really set for (none without a time
limit), `undone` counts Saves of settings that took a started game back to before
its start, and `late` becomes true when a Save of settings happens while a request
is between the re-read of the row and `MarkStarted`, which then stores what it
computed from the settings of before. A game begins with any settings of
`Settings` and at most one player ready, so that a run need not go through what
earlier requests did.

## 4. The runs

All passing runs cover their whole state space. `TypeOK` of each module is not
among the runs' properties: the theorem `TypeCorrect` covers every instance.
`CHECK_DEADLOCK` is off
throughout because every one of these systems may legitimately come to rest
(no jobs, server stopped, all delivered, session gone).

| Run | Instance | Question |
|---|---|---|
| `pool_resize` | 3 workers, base 1, headroom 1, one Resize to 2 or 0 | books, budget, the job a reinstated worker holds, and the abstract pool, under all interleavings |
| `pool_live` | 2 workers, deadlines, up to 2 abandoned handlers | stuck workers leave, proven-live ones return, capacity comes back, exhausted budget winds the pool down |
| `pool_shutdown` | 2 workers, handlers without deadline, Resize(1) | Shutdown ends and is final, also against a Resize that captured the pool before |
| `pool_shutdown_during_start` | 1 worker | violated: Shutdown before Start has published |
| `autoscale_faults` | 2 queues, 5 to 10 workers, cap 15, 2 faults | proposals, idle shrinking, released slots, and the cap with ticks in any order |
| `autoscale_live` | 2 queues, cap 4, 2 faults | a backlog gets its workers |
| `breaker` | 3 jobs, one with a deadline, threshold 2, 1 fault, an administrator | one probe, back-off, spacing, a complete index, and delivery once the host is back |
| `upload_session` | 2 requests and the collector, 2 chunks, 2 contents, 1 fault | one intact file, acknowledged chunks, freed storage, repeated finish |
| `upload_untracked` | the same without faults | violated: an open upload without a row |
| `bubble` | any 2 requests of either side, limit 2, 1 fault, 1 stone, 5 reports | decided once and justly, honest reports, the record, the index |
| `bubble_live` | 1 request of each side, side 0 patient | nobody can stall a match |
| `reversi_match` | 2 requests at a time out of 4, 5 settings on 2 maps (4 to begin with), 1 death | ready games start once, legal moves, explained outcomes, timers, flips and turns |

Why the bounds are enough. Each instance is the smallest in which every branch
of the code is taken and a third party can interfere with two that race. Three
workers with base 1 and headroom 1 give a roster, a quarantine and a victim at
once; a fourth repeats one of the roles. Worker counts up to 10 are needed for
the additive step (`cur / 4`) to differ from 1 below the maximum, threshold 2 for the count and
the opening to be different steps, intervals 2 and 3 for doubling to hit its
maximum, two chunks for a snapshot to be neither empty nor full, two contents
for a part to be overwritten by something else. Two scores and one stone tell
win, draw and impossible report apart, and two requests suffice for an EXEC to
overtake a read. On the line of six cells the turn alternates or passes and
either colour can win; there are the plain rules on it, the same board looped, and
the game in which fewer stones win and every empty cell may be played. The ring is
three by three around a cell that is not part of the board; the one move on it
ends in a draw, with a time limit and without. A game begins with the plain, the
looped, the other or the ring's settings, there without a limit; a change of one
key leads from the plain board to the looped one and back and gives the ring a
limit or takes it away, and any setting may be written again with the value it
has. With one player ready at the beginning, four operations reach the start and
two moves, or a surrender, a claim or a change of settings in their way. That the
draw, the win with fewer stones, a move that turns nothing, a timeout without a
limit, both cases of `late` and an undone start do occur was checked by asking TLC
for a state of each.
`MaxSent`, `MaxAsked`, `MaxAbandoned`, `MaxFaults`,
`Depths`, `Sizes` and `Chunks` are the named bounds. The theorems remove them
for the properties they cover. Symmetry is used only in runs without liveness.

Fairness. In each `Fairness` the comment gives the reason. In short: goroutines
that can run do run, the supervisor and the tickers fire, Go's mutex serves its
waiters (hence strong fairness on lock acquisition), spawning a worker does not
fail for ever, `Stop` of a worker returns within `stopWorkerTimeout`, held
deliveries are put back by their delay, an HTTP request ends by its timeout, the
cron job of the collector is run again, a client with all chunks sent keeps
asking to finish, requests of a match in flight are served, its time passes, and
a patient player keeps claiming (with claims served before the match's expiry,
which is 24 minutes later). Nothing is assumed of job handlers (they may hang for ever),
of load, of the remote host, of administrators, of clients in the middle of an
upload, or of faults.

## 5. The proofs

`tlapm` checks every leaf; nothing is assumed but the named `ASSUME`s, which TLC
also evaluates on each run.

- **WorkerPoolProofs.** `TypeCorrect`; `Books` (`NoOrphanDispatcher`) from
  `LockInv /\ BooksInv`: what is being stopped belongs to the lock's holder, and
  roster, quarantine, doomed and stopped workers partition the existing ones.
  The property alone is not inductive because a spawn that fails has to put its
  workers somewhere before it releases the lock. `Finality` (`ShutdownIsFinal`,
  unless Shutdown may overtake Start) from `ClosingInv`, which ties the progress
  of Shutdown to the lock, to `published` and to the `shutdown` flag that turns
  late Resizes away. `Budget` (`PoolWithinBudget`) from the cardinality of
  roster and quarantine together, which growth raises only up to the ceiling and
  nothing else raises. `Refinement` (`ImplementsPool`): every step of the server
  is a step of `Pool` or leaves it alone, from the invariants above and
  `OpenInv`, which says that the phases of reconcile are only gone through in a
  pool that is not shut down, and that Start begins with an empty one.
  `HeldJobs` (`HeldJobSurvives`, a property of steps) from `HeldInv`: a worker
  still in the job it was reinstated with is in its handler, is protected and has
  not returned since, so the end of protection passes it by and a shrink finds it
  among the protected; counting the roster then shows that a shrink which takes
  it had nothing else to take.
- **AutoscaleProofs.** `TypeCorrect`; `ProposalsSound` from lemmas on the
  arithmetic of increase and decrease and on `Observe` for any depth;
  `SlotsReleased` (`NoSlotLeaked`, when no worker hangs) from `SlotInv`, which
  follows the slot through the four steps of a tick and both error paths;
  `ShrinksWhenIdle` from `IdleInv`: a controller never counts more idle
  cycles than empty queues it has seen in a row. `CapHolds`
  (`PromisedWithinCap`) says that the sizes of the pools whose last Resize was
  achieved, together with what the ledger books for the others, stay within the
  cap; it says nothing of the size the others were asked for. It follows from
  `CapInv`: the ledger adds up to no more than the cap. Only the reservation checks the sum, so the invariant has to show that no
  other booking raises an entry. For a commit and a rollback that is what they
  follow on; for a shrink it is not, because after a Resize that fell short or
  failed the entry is lower than the size asked for, and the supervisor may have
  filled the pool up since. What saves it is that one increase at most doubles a
  pool and a decrease halves it: `CapOf` keeps a booking of at least half the
  size asked for, so half of the live workers are never more than the booking.
  The sum itself (`MapThenSumSet`, a recursive function on sets) is unfolded once,
  in `SumsExist` and `TotalIsSum`, and used through `TotalMonotone` and
  `TotalBounded`. The theorem assumes that no worker hangs and that the start
  loop is through before the first tick (section 6).
- **DeliveryBreakerProofs.** `TypeCorrect`, which here includes that fields and
  timers of the hash appear and vanish together; `Backoff` from `LockInv`: a
  lock exists only while the breaker is open and its time to probe has come, so
  a stale probe is not taken for the current one; `Spaced` from the fact that no
  reservation lies beyond the last slot; `HeldIsListed`: a host that is held
  back is in the index unless a List has removed it since it became so;
  `ProbesAlone` (`OneProbe`) from `ProbeInv`, which relates the age of every
  probe under way to what is left of its lock and of the interval it started.
- **ChunkedUploadProofs.** `TypeCorrect`, `SingleFile`, `Intact` and
  `Acknowledged`, all from `Inv`: what a request loaded is a prefix of the
  row's parts (`SnapshotsOK`), at most one request is between claim and file
  and the claim is never given back once there is a file (`ClaimOK`), and what
  was assembled is the whole of the parts (`ObjectOK`).

- **BubbleVersusProofs.** All from one invariant, `NothingIsTakenBack` (the
  outcome and reports stay, a reporter is not disconnected, an accepted match is
  not withdrawn) through one lemma for each part. The heart of the invariant is
  `LockInv`: a request that may still EXEC holds exactly what its closure makes
  of the current match, so an EXEC is a step of one closure on the current match
  whatever else is in flight; only the clock may have moved, and `Timeless` is
  what then remains of the closure's condition. `ShapeOf` says what a match
  holds in each status, `CopyInv` and `RowInv` that the record lags behind the
  match only by what is on its way to it, `ListedInv` that an index entry is
  removed only for an answered match. `HonestReports` (`HonestNeverInvalid`)
  needs three more parts: `CountInv`, that the stones a client has received and
  those counted but not yet published together never exceed the count a report
  is judged by; `SnapInv`, that what a report in flight claims has been received
  by now; and the property itself, because a report is judged against a count
  that goes on growing.
- **SetInduction.** Induction over the natural numbers, and their well-ordering,
  with a set in place of a predicate. The library's induction rules take an
  operator as parameter, which the provers cannot instantiate; these are applied
  by naming the set of numbers a claim holds of. They carry the three proofs
  about recursive functions: the sum over the ledger, the replay of a log, and
  the loop of `effectsInLine`. Each of those first shows that the function
  the recursion describes exists (its definition is a CHOOSE), then what it
  computes.
- **ReversiEngineProofs.** For every map and all rules: `ReplayIsPosition`, that
  every log leads to a board of stones and empty cells with a player to move who
  can move, or with nobody who can; and `EffectsAreSandwiched`, that the loop of
  `effectsInLine` turns the stones the rules name. The latter goes over the first
  step at which the loop stops: there is one within as many steps as the board
  has cells (`StopsAtSize`: a line has left the board by then, or on a looped one
  it is back at the move), the loop returns what lies before it (`LineTurns`),
  and a sandwiched run ends exactly there (`LineIsRun`), since a line that is
  inside at its end was inside on its way (`InsideBefore`).
- **ReversiMatchProofs.** `TypeInv` adds to `TypeOK`
  what a request holds at each statement. `ReadyStarts` and
  `SettledForGood` need only that. `TimeoutWasTimed` needs `TimerInv`: in a game
  with a limit, a turn that any row or draft has reached has its timer set or about
  to be, unless a Save overtook the start. `FreshInv` says what such a start may
  have stored: a request before `MarkStarted` carries the settings of the row or
  `late` holds. `LogsArePlayable` needs it for the checksum of a game without
  moves; a move renews the checksum. `LogsArePlayable`, `OutcomeIsExplained` and
  `GamesGoOn` need `PlayInv`, that every draft, however stale, is itself a sound
  game, so that whichever Save comes last the row is one; `StartsOnce` counts
  starters as a cardinality (`StartInv`). Up to here the rules are used only as far
  as a legal move is a legal move. `GamesGoOn` (`RunningGameGoesOn`) and
  `FlipsAreExact` (`FlipsExact`) apply the results on the engine to the position of
  the row, whose settings and log `TypeOK` provides; the flips are exact between
  any two steps, not only at rest.

Only model-checked: all liveness (`ShutdownCompletes`, `StuckLeavesRoster`,
`ProvenLiveReturns`, `CapacityRestored`, `WindsDown`, `BacklogGetsWorkers`,
`AllDelivered`, `ExpiredFreed`, `FinishRetried`, `NoStalling`), because fairness
and ENABLED are out of the prover's reach.

## 6. Assumptions, and what is not modelled

- Breaker: a send is shorter than the first probe interval (`LongestSend <
  InitialInterval`). With the Ed25519 attempt and its RSA retry both running
  into their timeouts the two are about equal, and at equality `OneProbe` would
  not hold. The eight-day expiry of a host's state does not fall into the five
  minutes of a probe's lock. Redis commands either happen or fail as a whole; the
  answer of a check may be lost after its script has run, that of a report only
  decides how long the job waits, and a report counts as lost or as answered.
- Autoscale: `autoscale_faults` assumes that the start loop ends before the first
  tick (`QuickStart`); without it a tick can see queues that are not yet in the
  ledger and overbook. A scale-down frees its slots in the ledger before the
  workers have ended their jobs, so what is bounded is the sizes asked for, not
  the goroutines. Hanging workers are left to `autoscale_live`. With them
  a queue holds a slot its pool does not use, and the cap can be overbooked: if
  so many workers of a pool hang after its tick decided to shrink it that the
  smaller size has to be spawned, and the spawn fails, the rollback books the old
  larger count although its slots have gone to another queue meanwhile (one to
  three workers, cap 4, two hanging workers and one failed Resize suffice). That
  is why `SlotsReleased` and `CapHolds` exclude them. A queue whose Resize failed or fell short is booked with the
  workers it has, while its pool keeps the larger size and fills up later; the
  cap is stated with such queues counted as booked, so the pools themselves may be
  past it once the supervisor has filled these up.
- Worker pool: Redis connections, the rate limiter and metrics are left out; a
  worker's identity is reused when its goroutine is gone.
- Upload: a database error means the statement had no effect; the storage keeps
  the last content of a part and compares ETags on completion; completing an
  assembled upload again may succeed or fail, and aborting one that is not open
  may be answered with an error (S3) or accepted. Nobody deletes the DriveFile.
- Bubble game: a match lives longer than a request and, while it is played,
  longer than the time limit and the wait for a silent opponent; a refused
  request has no effect; finitely many requests are in flight. The logs of a report count only through their stones.
- Reversi: one game that exists; the engine's maps are rectangular, of any size,
  with four kinds of cells (`NewGame` takes every character of a map for one of
  them). `applySetting` accepts any list of strings for a map (service.go:910); with
  rows of different lengths the engine would index beyond a row. The
  activities sent to another server, the inbox's parsing and all events but
  `started` are left out.

Behaviour of the code that the models show and that has no run of its own. The
first list is at odds with a comment; the property that comes near it excludes the
case by name, and says so.

- Breaker: a List can remove a host from the index that opened after List had read
  it (breaker.go gives such a removal as the reason for another script;
  `IndexComplete`, `dropped`).
- Autoscaler: a failed Resize leaves the pool with a size the ledger does not know
  of, and it grows past the strict cap later (`PromisedWithinCap`, `slipped`). A
  shrink that spares a worker is booked with that worker; when the supervisor stops
  it later, the slot stays booked until the pool is resized again, for ever if the
  pool is at its floor, and other queues wait for it, which is what the comment at
  autoscale_wiring.go:258 wants to avoid (`BacklogGetsWorkers`, `spared`).
- Upload: an append that loses the commit of a chunk may have overwritten the
  acknowledged part in storage. The ETags then differ, no finish succeeds any more,
  and a resend is answered from the row and stores nothing, although the comment at
  chunked_upload.go:491 leaves the conflict to the client's resync
  (`FinishRetried`, `stored = parts`).
- Reversi: a Save of settings between the re-read of the row and `MarkStarted`
  leaves the started game with the checksum and the timer of the settings it
  replaced; until the first move `/reversi/verify` compares with the position of
  another map (service.go:513; `LogsPlayable` and `TimeoutHadTimer`, `late`). With a
  time limit of 0, which service.go:21 speaks of as unlimited time, any claim of a
  timeout wins (`TimeoutHadTimer`). A stone can be put on a cell that is not part of
  the board (`CellNull`, "cannot be placed on", game.go:22) if stones are turned
  from there, because without `canPutEverywhere` `CanPut` looks only at what is
  turned, while a line that passes such a cell ends there (`LogsPlayable`,
  `RunningGameGoesOn`).

Of the following the code says nothing.

- Worker pool: a supervisor started between the two critical sections of Shutdown
  is never cancelled; a worker whose protection has ended can be stopped in its next
  job; a worker evicted between its two atomic stores stays in quarantine until it
  completes another job; a worker stopped while its handler hangs is outside the
  leak budget until its deadline has passed.
- Autoscaler: Stop may return at its deadline with a tick still under way; the live
  count read at the start of a tick may be stale when a failed Resize books it.
- Breaker: failures with a success in between can open the breaker, because whether
  to reset the count is decided before the send.
- Upload: an upload that was assembled while the answer was lost may never become a
  file (`FinishRetried`, `upload = "open"`); a finish that dies after assembling
  leaves an object, and with S3 a row, that the collector cannot remove; a failed
  finish whose release fails as well cannot be repeated before the session expires.
- Bubble game: the late touch of a match's start may overwrite a newer time of
  contact, and that key is not WATCHed by a claim; two invitations to one user, or a
  block, may come between Invite's check and its EXEC.
- Reversi: a Save of settings read before the start takes a started game back, and
  it is started a second time (`StartedOnce`, `undone`); of two requests that end
  one game the later Save wins, after the other outcome was published; cancelling
  deletes a game that has just started; a claim of a timeout between a move's Save
  and its new timer wins; if the request that was to start a game dies, the game
  waits for another ready; a game begun on a map on which nobody can move is not
  ended and can only be given up (`RunningGameGoesOn`).

Not modelled yet, but seen while reading: two users who wait in the reversi queue
and call `match-any` again at the same moment can each remove the other's entry
before their own is gone, so that two games are created for the pair; the comment
at `internal/api/reversi/handler.go:803` says that this does not happen.

The components that are not modelled are listed in `PROJECT.json`, each with
the reason.

## 7. Findings

- `pool_shutdown_during_start`: Shutdown takes the pools that Start has
  published. Called earlier, by a signal during start-up, it finds none and
  returns, and Start then publishes a running pool.
- `upload_untracked`: abort and the collector delete the row they loaded before
  the first append recorded its upload; the upload stays open with nothing
  naming it.
