# memo-syncer: verification project

memo-syncer walks the `members` table, fetches every Chinese-region member's best
fights from FFLogs with API keys that users have donated, and posts them to
memo-server. It is one process: a scan loop with a producer and eight workers, a
maintenance goroutine, and a small HTTP API that reports progress. What it must get
right is mostly about *sharing*: many workers draw on few keys, each with an hourly
quota that FFLogs keeps and the syncer only estimates; and about *not losing work*:
a member whose sync failed has to be looked at again, one that succeeded not for a day.

- [Inventory](#inventory)
- [Plan](#plan)
- [The modules and the code](#the-modules-and-the-code)
- [The runs](#the-runs)
- [Where the code departs from what is said of it](#where-the-code-departs-from-what-is-said-of-it)
- [The proofs](#the-proofs)
- [What is not modelled](#what-is-not-modelled)

## Inventory

| Component | State | Operations | Interacts with |
|---|---|---|---|
| **Key pool** `service/keypool` | `Pool.keys` under `Pool.mu`: per key the limit, the local estimate of points spent, the end of the quota window, use and error counters, `Disabled`, `Forbidden`, a cooldown. Table `logs_keys`: `use_count`, `err_count` | `Load`, `AddEnvKey`, `Acquire`, `Release`, `MarkError`, `Reconcile`, `FlushStats`, `PoolSummary` | called by main, the workers and the maintenance goroutine; calls FFLogs and the database outside the mutex |
| **Scan loop** `service/memo`, `main.go` | the producer's cursor and batch, `memberCh`, each worker's member and lease, the atomic counters, `stateStore`. Table `members`: `logs_sync_time` | `SyncMembers`, `produceMembers`, `runWorker`, `syncOneMember`, `waitForKey`, `classifyAndMark`, `markSynced`, `MarkIdle` | key pool, FFLogs, memo-server, database |
| **FFLogs client, character cache** `service/fflogs` | Redis: (name, server) to character id, 30 days | `ResolveCharacterID`, `FetchBestFights`, `BuildMemberZoneProgress`, `FetchRateLimit` | Redis, FFLogs |
| **Fight mapping** `service/fflogs`, `util` | none | `MapToMemo`, `GroupServer`, `GroupDeath`, `GetJobID` | |
| **memo-server client** `service/memo/client.go` | none | `CreateFight` | memo-server |
| **Progress API** `api/handlers.go` | none; reads the counters, `stateStore`, the last snapshot and the pool one after another | `GetProgress`, `GetMemberProgress` | scan loop, key pool |
| **Health checks** `api/status.go` | a result channel per request | `runChecks` | database, Redis |
| **Metrics**, **router and middleware**, **set-up**, **logging** | none of their own | gauges, wiring | |

Concurrency. The pool's mutex is held for memory only; every network and database call
is made outside it, on data copied under it. The maintenance goroutine is alone, so
`Reconcile` and `FlushStats` exclude each other, and nothing else. The workers
share the channel, the counters (atomics) and `stateStore` (a mutex). Each member has a
deadline of 60 s that covers waiting for a key, FFLogs *and* memo-server.

Failure. Every outside call may fail or hang; an `UPDATE` may be applied and still report
an error; characters are renamed and deleted at FFLogs behind the cache's back; a sync may
panic and is recovered; the process may die, and only the two tables and the cache survive.

What makes each component correct:

- *Key pool*: the estimate never falls behind what FFLogs has said, concurrent leases do
  not overdraw a key, every use is accounted for in `use_count` exactly once, a disabled
  key serves nobody, a forbidden row stays forbidden, a worker told to wait waits neither
  too long nor in vain.
- *Scan loop*: every row is walked and every kept member is handled by exactly one worker,
  failed members stay due, the counters add up, the published status is true at
  every instant, and every scan ends.
- *Character cache*: an id it returns is one FFLogs gave for that player within 30 days, since
  FFLogs answers a stale id with `character: null` and the member is then marked as synced
  with no data; Redis failing never makes a character disappear.
- *Fight mapping*: each player of a fight is sent with its own server, deaths and job, and
  the fight under the zone it was fought in.
- *Progress API*: what one response shows is consistent, or wrong only in known ways.
- *Health checks*: one dependency's slowness is not reported as the other's failure.

## Plan

| Done | |
|---|---|
| `KeyState`, `KeyPool`, `KeyPoolProofs` | the pool, its arithmetic, its safety and liveness, all its safety proved |
| `LeasePool`, `KeyPoolRefinement` | what the pool promises, and the proof (in `KeyPoolProofs`) that it keeps it |
| `SyncMembers`, `SyncMembersProofs` | the scan loop over the pool's interface, with panics and crashes |
| `KeyWaiters`, `KeyWaitersProofs` | the workers that wait for a key, composed with the pool itself |
| `ProgressView`, `ProgressViewProofs` | a reader of `/progress` against the stores of a scan |
| `CharCache`, `FightMapping`, `HealthChecks`, each with its `...Proofs` | the parts around them |
| `FiniteNats` | the lemmas on minima and cardinalities that the proofs share |

Every invariant and every action property of a passing run is now a theorem; what TLC alone
checks is liveness. To come: properties of steps that have none yet, such as a counter that
never falls within a scan or a member never taken twice in one, stated, checked and proved from the
inductive invariants that are there. No further module is
planned: what is left over is named under [What is not modelled](#what-is-not-modelled).

## The modules and the code

### KeyState

One key: the record of `state.go` and each piece of arithmetic that `pool.go` does on
it, as operators from a record to a record (`RollReset`, `Debit`, `Settle`, `Refresh`,
`Failed`, `Drained`, ...). Points and times are integers in units of the model's choosing;
FFLogs' fractions come in halves, which is enough to tell `int(f)` (down, for limits) from
the rounding up of spent points. `Limit = 0` and a reset of 0 or beyond an hour are
in the domain, since the code treats them specially.

### KeyPool

The whole pool with its users. An action is what happens under one hold of the mutex, or
one outside call:

| Code | Actions |
|---|---|
| `Load` | `LoadRows`, `ProbeNext` (both passes), `RetryProbes`, `Publish` |
| `main`, `AddEnvKey` | `AddEnvKey`, `ExitWithoutKeys` |
| `Acquire` | `Acquire` (a lease, or `ErrAllExhausted`, whose time is `NextReset`) |
| `Release`, `MarkError` | `Release`; `MarkError` under the mutex, `WriteForbidden` after it |
| `syncOneMember` without a character, a recovered panic | `Drop` |
| `Reconcile` | `ReconcileStart` (copies the due keys), `ReconcileKey` (one answer each) |
| `FlushStats` | `FlushStart` (copies the batch), `FlushWrite` (one `UPDATE`), `FlushSettle` (drains it) |
| time, the process | `Tick`, `Restart` |

Abstractions. The request inside `Reconcile` is not an action: an answer may carry any
figures, as old as they please. An error is the set of substrings the code looks for
in it. When several keys have the same number of points left the code takes the first of
a `SELECT` without `ORDER BY`; the model takes any. The tickers' periods are left out:
maintenance may run at any time when it is not running already. Two history variables
make the properties expressible: `granted`, the uses `use_count` should come to, and
`word`, what FFLogs last said was spent in this window, unrounded, in half points. Of
`PoolSummary`, which `/progress` and the gauges read, only the recovery time is modelled
(`EarliestReset`), since it is computed next to `Acquire`'s own; the rest are sums. After a crash
`granted` starts from the table: uses that were not flushed are lost by design.

### LeasePool, KeyPoolRefinement

`LeasePool` is the pool as its users see it: it opens with some keys in service, grants
leases of those, ends them (and with a lease, at most, its key's service), records uses, and
in a crash forgets the ones not recorded. `KeyPoolRefinement` maps the code's state to it:

| `LeasePool` | `KeyPool` |
|---|---|
| `open` | `phase = "running"` |
| `serving` | the keys that are not `Disabled`, once the pool runs |
| `leases`, `uses` | the leases out, `granted` |
| `recorded` | `use_count` in the table; 0 for the environment's key, which has no row |
| `Overcount` | acknowledgements of an `UPDATE` may get lost |

Probing, rolling a window, refreshing, copying a batch and draining it are stutters.

### KeyWaiters

`waitForKey`, which `SyncMembers` has over an interface, over the pool itself, with clock,
timers and member deadlines: `Ask` is `Acquire`; `MarkAndSleep` is the
`markWaitingForKeys(+1)` of a member's first refusal and the timer of every one; `Wake` and
`GiveUp` are two arms of the `select`; `Leave` is the deferred `markWaitingForKeys(-1)`. A
worker that can move does so before the clock; a call to FFLogs takes any time. `FlushStats`
and crashes do not touch what `Acquire` reads, and are left to `KeyPool`'s runs.

### SyncMembers

The scan loop. `main`'s loop is `StartScan`, `CountMembers`, `FinishScan`, `MarkIdle`; the
producer is `FetchBatch`, `WalkRow`, `SendMember`; a worker goes

    idle -TakeMember-> acquire -AcquireKey-> resolve -ResolveCharacter-> best
      -FetchBestFights-> (build -BuildZone-> upload -UploadZone->)* release
      -ReleaseKey-> mark -MarkSynced-> idle

and from `acquire` to `wait` and `retry` while the pool is exhausted (`AcquireKey`, `Wake`,
`GiveUp`), and from the FFLogs calls back to `idle` when one fails (`FFLogsFails`). `Expire`
is the member's deadline; from then on every call with that context fails (`InTime`), and
`late` remembers where it struck. `Panic` is a recovered panic, `Crash` the process dying.
`Insert` and `Age` are the world: memo-server adds members, sync times get old
(`RESET_STALE_SYNC` is all of them at once). Three history variables serve the properties: each
member's `fate` in this scan, the rows at its `start`, and `owed`, the members queued whose sync has
not come to its end since, which neither a new scan nor a crash forgets. The pool is its interface here: it may refuse
a key at any time and for as long as it likes. `ErrNoKey` cannot come back from
`Acquire`, because `main` does not start the loop with an empty pool.

`SyncMembers`' own context is cancelled only by its `defer`, after everyone has returned,
so the producer's and the workers' branches on it are dead and left out. `ExpectedQueued`
and `CurrentMember` are written and never read by the loop, and are left to `ProgressView`;
`TotalMembers` is not modelled. The filter reads the sync time that was in the batch; the model reads
the table's, which is the same unless it has aged meanwhile: only the worker that
has this very row would write it, and the row is walked once.

### ProgressView

`GET /progress` against a scan. The handler holds no lock: it copies `stateStore`, loads one
atomic counter after the other, then the last snapshot. So every store, add and load is an
action of its own here, where `SyncMembers` takes them together: `MarkScanStarted` and nine
times `ResetCounter`; `Precount`; `WalkRow`, `NameMember`, `Decide`, `Send` for a row; `Take`,
`Upload`, `Finish`, `Abandon` in a worker; `SaveSnapshot`, `ForgetMember`, `MarkIdle` at the end;
`Begin` and `Load` in the handler. In return the pool, deadlines, batches and the bound of
the channel are left out. The order of the loads is that in which Go evaluates the composite
literal of `buildCurrentScan`.

### CharCache

`ResolveCharacterID`: `Begin`; `Hit`, `Miss` or `RedisFails` for the `GET`; `Fetch` or
`FetchFails` at FFLogs; `Store` or `StoreFails` for the `SET`. `Change` is FFLogs (characters
created, renamed, deleted), `Evict` Redis losing a key, `Tick` time. Times are ages, so that
the state space is finite without a clock's bound. A member has one lookup at most: rows are
unique by name and server, and scans do not overlap. `Deadline` bounds a lookup: the member's
timeout, with Redis' own limits where a command is already under way.

### FightMapping

`BuildMemberZoneProgress`, `MapToMemo`, `GroupServer`, `GroupDeath` and `GetJobID` as
operators from a report to a fight, and the loop over `InterestZones` as actions: `SkipZone` (no
rank), `SkipReport` (`ErrNoProgress`), `Post`, `Fail`. What FFLogs holds is chosen at the start.
The way of an encounter to its zone is there hop by hop, as a slip in any of them would send
fights under the wrong zone: `Encounters`, `Variables` (`enc1..4`), `BestFights` (the query's aliases),
`Zone(i)`. `JobMap` is a constant: the lookup matters, the list of jobs does not. Start time,
duration and `EnemyHp` are copied and left out. It keeps no state of its own, so there is no type invariant.

### HealthChecks

`runChecks`: `Request` spawns the probes, `StartProbe` and `EndProbe` are their goroutines,
`Collect` the loop over the channel. `Leave` is the client's context being cancelled, `Turn` a
dependency coming up, going down or hanging. Time passes when no goroutine can run (`Quiet`,
which the guards `CanStart`, `CanEnd` and `CanCollect` spell out so that it can be reasoned about).
How a hanging ping ends depends on the client. `database/sql` returns when the context is done.
go-redis looks at the context while it reads only with `ContextTimeoutEnabled`, which `InitRedis` does
not set: it sits out its own read timeout (`ReadTimeout`, 3 s by default), and between two attempts
sees whether time is left (`RetryPing`) or the context is done. `Deaf` is the set of dependencies
with such a client; `readEnds` is when it looks next. The back-off between two attempts (below
half a second) and the limit on attempts, which the timeout does not let it reach, are left out.

## The runs

All runs are exhaustive for their bounds. The `MC...` modules hold the definitions the
configurations name.

| Run | Shows | Bounds |
|---|---|---|
| `PoolSafety` | `TypeOK`, `EstimateBounded`, `ReserveAbsorbsLeases`, `UsesAccounted`, `DisabledIsFinal`, `ProbeForbiddenSticks`, `ImplementsLeasePool` | 1 key and the environment's, 2 workers, instants 1 to 3 with a window of 2, 4 leases of a key, 1 crash; 2 million states |
| `PoolMaintenance` | `UsesFlushed`, `DueRefreshed`; `UsesAccounted` with lost acknowledgements | 1 key, 1 worker, 2 leases, instants 1 to 2 |
| `PoolWaiters` | `SleepIsPrecise`, `EtaAgrees`, `CountdownIsRecent`, `NoHotLoop` | 2 keys and the environment's, 2 workers, deadline of 1, instants 1 to 4 with a window of 2; 3.5 million states |
| `ScanSafety` | `TypeOK`, `MembersInOnePlace`, `CountersAgree`, `ScanIsComplete`, `FailureIsRetried`, `StatusAgrees` | 3 ids, one of another region, 2 workers, 2 zones, a channel of 1, batches of 2, panics, 1 crash, any number of scans; 4.7 million states |
| `ScanLive` | `ScanEnds`, `DueIsRetried` | 3 ids, 1 worker, 1 zone, a channel of 1, batches of 2, panics, any number of scans; 0.6 million states |
| `ProgressView` | `TypeOK`, `CountersFit`, `DataWasUploaded`, `IdleIsFrozen`, `LastScanAddsUp` | 2 ids, 2 workers, 1 zone, one scan after another one; 5.2 million states |
| `CharCache` | `TypeOK`, `ServedIsRecent`, `NoCharacterIsCurrent`, `SelfHeals` | 2 members of one name, 1 id, a TTL of 2, lookups of at most 1 |
| `FightMapping` | `PlayersAreThemselves`, `ZoneFitsEncounter` | every report of 3 players, 2 names, 2 servers or none, up to 2 in the fight and 2 deaths; all sets of ranked encounters |
| `HealthChecks` | `TypeOK`, `SteadyIsReported`, `AnswersInTime`, `RequestAnswered` | 2 dependencies, one of them deaf while it reads, a timeout of 3 and reads of 2, instants 0 to 7, 3 changes of health |
| `PoolForbidden`, `MemoServerSlow`, `HealthProbeSlow` | a counterexample each, [below](#where-the-code-departs-from-what-is-said-of-it) | 1 key; 1 member; as `HealthChecks` |

Why the bounds are enough.

- *Pool.* The budget (reserve 4, pre-debit 2, zones of 1, limits of 9 and 10) puts two leases
  below the ceiling, a third at it, and lets both workers hold leases of one key across a
  refresh, a 429 and a window's end in any order; the reserve is exactly what the two workers'
  zones need. The threshold of 2 stands for 100: one failure short of it and one at it. One
  key suffices because no two keys' states depend on each other. One of the replies reports
  half a point, so that an estimate rounded down would show. The safety properties of every
  passing run are also proved, for all bounds.
- *Waiters.* Two keys, because the time `Acquire` returns is a minimum over keys. A window of 2 is
  longer than the deadline of 1, as an hour is longer than a minute; four instants let one
  member after another run into its deadline while the reset time passes and is moved by a refresh.
- *Scan.* Three members, batches of two and a channel of one make the producer fetch
  twice, block on the channel with a row in hand and find the last batch short; a second
  worker gives the waiting count its interleavings, a second zone the upload before a failure.
  For liveness one worker and one zone do: a worker waits for nobody but the producer, and
  every zone ends alike. `ScanLive` has no crash, since it would add nothing: `Init` allows any table
  and any sync times, so what a crash leaves is an initial state.
- *Progress.* The run begins with what a first scan of one member leaves (`MCInit`, a state
  such a scan ends in), so that a counter the next scan fails to clear would show, and
  responses are read across the end of one scan and the whole of the next.
- *Cache.* A TTL of 2 and lookups of 1 let a rename fall before, into and after a lookup and
  an entry be read several times in its life. One id suffices: an answer is that id or none.
- *Mapping.* Three actors give a player a namesake with a server and one without.
- *Health.* A timeout of 3 falls between the first read's end at 2 and the second's at 4, as 5 s
  fall between 3 s and 6 s. `MaxTime` leaves room for two requests that do not take their
  longest, and a request begins only where its own fits; three changes let each dependency fail, and one recover, under one request.

`MaxTime`, `MaxUses`, `MaxErrs`, `MaxRestarts`, `MaxCrashes`, `MaxScans` and `MaxTurns` bound what
nothing else bounds. Symmetry is used for workers, and for keys in `PoolWaiters`, in safety
runs only. Deadlock is checked for the scan loop and the character cache; elsewhere a run
ends where its bounds do, or the process may really have exited.

Each property of a passing run has a mutant, a plausible bug of the mapped code (an
`>=` for a `>`, a flush that zeroes the accumulator, a counter loaded after its parts, a hit that
renews its entry, a line of a query copied), kept next to the definition it changes, under which TLC finds the
property violated.

### Fairness

Liveness is checked under fairness that the code's scheduling justifies, and no more:

- `SyncMembers!FairSpec`. Weak fairness of main, of the producer and of each worker: Go runs every
  goroutine that can run, FFLogs and memo-server calls end with the member's deadline, and
  database calls, which in `markSynced` and the precount carry none, are *assumed* to return.
  Weak fairness of each deadline: it is a timer. Strong fairness of `GiveUp`: a worker that is
  woken and refused again and again meets its expired deadline in the same `select` as the
  retry timer, and `select` chooses at random among ready cases, so it cannot lose for ever.
  Nothing is assumed of the pool: the scan ends even if it never grants another lease.
  `DueIsRetried` has a premise besides, `TableReadable`: from some point on the database answers
  `COUNT` and the producer's `SELECT`. A scan is cut short otherwise, and may be for ever.
- `KeyPool!FairSpec`. Strong fairness of starting a refresh and of starting a flush, which are cases of
  one `select`; FFLogs and the database, asked again and again, do not fail for ever; and a
  call `Reconcile` makes returns, which is an *assumption*, for it carries no deadline. The
  workers may do as they like.
- `CharCache!FairSpec`. Members are looked up again, a lookup's steps return, time passes.
  Nothing is assumed of Redis or FFLogs answering.
- `HealthChecks!FairSpec`. Goroutines that can run do, and the clock moves on.

## Where the code departs from what is said of it

Three of these are runs that TLC ends with a counterexample.

| Run | Said | Done |
|---|---|---|
| `PoolForbidden` | "forbidInDB writes err_count = ForbiddenErrThreshold directly so the next Pool.Load filters this row out" (`pool.go:81`) | `FlushStats` writes back the `err_count` it copied earlier (`pool.go:497`), and the row is loaded again. It needs no race: the next flush of the same key, which still has uses to persist, writes its local `ErrCount`, which after one 401 is 1 |
| `MemoServerSlow` | "memo-server errors aren't key errors — don't penalize the key" (`service.go:350`) | the hanging POST uses up the deadline the next FFLogs call runs under, and that failure goes to the key |
| `HealthProbeSlow` | "healthProbeTimeout caps one dep probe." (`status.go:15`), and it is 5 s | a ping of a Redis that hangs goes on to the end of the read it is in, at about 6 s (`status.go:145`, `flow/redis.go:24`). `AnswersInTime` states the bound that does hold: the timeout and less than one read |

The others are behaviours of the models, each a few steps long, for which no run is kept:

| Said | Done | In the model |
|---|---|---|
| "reaching ForbiddenErrThreshold triggers a runtime disable + DB write" (`state.go:25`) | failed refreshes count too, and look at no threshold (`pool.go:438`) | `KeyPool!ReconcileKey` |
| Acquire "returns a lease that must be Released or MarkError'd" (`pool.go:96`) | a member without a character returns neither (`service.go:304`) | `KeyPool!Drop` |
| active: "Keys that are available for acquisition right now." (`openapi.yaml:594`) | every key that is not disabled, exhausted or not (`pool.go:287`) | `KeyPool!Active` |
| keys_recover_at: "Earliest `ResetAt` among exhausted keys." (`openapi.yaml:425`) | the time named to the last member that began to wait, whatever a refresh has changed since (`status.go:88`) | `KeyWaiters!MarkAndSleep` |
| errors: "Transient FFLogs/network errors plus panics. Does NOT count memo-server upload failures" (`openapi.yaml:548`) | upload failures count (`service.go:345`), as `metrics.go:58` says; panics do not (`service.go:270`) | `SyncMembers!UploadZone`, `Panic` |
| "All values are reset at the start of each scan." (`openapi.yaml:439`) | the new start is published before the first of nine separate resets (`service.go:99`) | `ProgressView!ResetCounter` |
| "pre-compute the honest denominator for the /progress ring" (`service.go:113`) | members inserted or grown stale during the walk are queued and not expected | `ProgressView!Precount` |
| members_with_data: "members FFLogs returned at least one fight for" (`metrics.go:48`) | members of whom a fight was uploaded | `ProgressView!Finish` |

The cooldown of a disabled key has no effect, since nothing re-enables it (`DisabledIsFinal`).

## The proofs

All safety properties of the passing runs are theorems, for every value of the constants that
satisfies the named assumptions: any finite set of keys, workers and dependencies, any number
of members and zones, any budget, timeout, TTL, batch and channel size. The bounds of the model
(`MaxTime`, `MaxUses`, `MaxScans`, ...) only disable steps; the proofs hold for every value of
them. Each theorem follows one shape: the initial states, one step per action of `Next`, the
temporal conclusion by `PTL`. The inductive invariants were model-checked in the runs' own
instances before they were proved.

**The pool** (`KeyPoolProofs`; `PoolConfig`, `PoolConstants`)

- `TypeCorrect`: `TypeOK`. The point is that no estimate, counter or time goes below
  zero, Go's `uint` subtraction in `FlushStats` included.
- `UsesAlwaysAccounted`: `UsesAccounted`, of the running process. Not inductive by itself: that the drain's
  guard `UseCount >= useDelta` always holds, and that a row of the batch is still owed in
  full, is the strengthening `FlushInv`, one half of `UsesInv`.
- `DisabledStaysOut`: `DisabledIsFinal`, an action property, from `TypeOK` alone.
- `EstimateAlwaysBounded`: `EstimateBounded`, in half points, so
  that the rounding of what FFLogs reports is part of it (`RoundingUp`). The measure is the number of workers
  *without* a lease of the key: each pre-debit takes one of them away and is granted
  only under the ceiling, each settlement gives one back and adds at most the zones of a
  member (`LeaseReturned`, `BoundedKept`, `BoundedAnew`).
- `ReserveSuffices`: `ReserveAbsorbsLeases`, a corollary of it: with the code's
  numbers, 8 workers, 4 zones of 10 points and a reserve of 500, the 320 points that
  are not debited in advance fit, and they would up to 12 workers (`SYNCER_WORKERS` is not
  capped).
- `SleepAlwaysPrecise`, `EtaAlwaysAgrees`: `SleepIsPrecise`, `EtaAgrees`. Both rest on
  `PublishedInForce`: every published key is disabled, or has no cooldown and a window whose end
  is known. Without it a key that was never refreshed would make the time returned zero, and a
  cooldown would make it wrong; that no cooldown outlives `Disabled` is what makes
  `PoolSummary`, which ignores cooldowns, agree with `Acquire`. `EarliestWindow` then
  says the time returned is the least end of a window, over any number of keys.
- `ProbeForbiddenAlwaysSticks`: `ProbeForbiddenSticks`, an action property. The
  strengthening, `ForbiddenUnused`, is that a key forbidden at start-up is never probed again or
  leased, so that it has no uses and no batch of `FlushStats` writes its row.
- `PoolImplementsPromise`: `ImplementsLeasePool`, that `KeyPool` implements
  `LeasePool` under the mapping above. Most steps are stutters of the promise, by what they
  leave alone (`UnseenStutters`); `Load` and `AddEnvKey` open it, `Acquire` grants, `Release`,
  `MarkError` and `Drop` end a lease, an `UPDATE` records, a crash forgets. That an `UPDATE` never
  records a use that was not granted needs `UsesInv`; that a refresh or a settlement
  that comes late puts no key back in service is `Disabled` being left alone by each of them.

**The waiters** (`KeyWaitersProofs`; `WaitConstants` besides the pool's)

- `CountdownAlwaysRecent`, `NeverHotLoop`: `CountdownIsRecent`, `NoHotLoop`. Every step
  of the composition is a step of the pool or leaves it alone (`PoolBelow`), so that the pool's
  invariants hold here too; `PublishedInForce` is what makes a time `Acquire` names lie
  ahead. `WaitInv` adds, of each worker: it slept since it last asked, its deadline is not passed
  while it waits, and the countdown lies at most `PerMemberTimeout` before the deadline
  of *every* member that waits, not only of the one that set it.

**The scan loop** (`SyncMembersProofs`; `ScanConstants`)

`ScanTypeCorrect`, `OnePlaceAlways`, `CountersAlwaysAgree`, `ScanAlwaysComplete`,
`FailuresAlwaysRetried` and `StatusAlwaysAgrees` state the six invariants of `ScanSafety`. None of
them is inductive alone; `IInv` is their conjunction with what ties the parts together:

| Part | Says | Needed since |
|---|---|---|
| `Phases` | outside a running scan there is no producer, no worker and nothing in the channel; a worker leaves only a closed, empty one | a scan that returns has left nobody behind |
| `Jobs` | what a worker holds at each step | a released or dropped lease tells `MarkSynced` what to count |
| `Cursor`, `Walked`, `Ahead` | the batch lies ahead of the cursor, no member beyond it has a fate, every row of the start without one is beyond it | `ScanIsComplete`, while the table grows |
| `Placement` | `MembersInOnePlace` without counting: the channel has no duplicates, no two workers have one member | counting needs finite sets, membership does not |
| `Owing` | `FailureIsRetried`, and that no worker is about to mark a member that is still owed a sync | a member taken is owed until its sync has come to its end, in whichever scan or process |
| `Tally` | `CountersAgree`, with the members counted before their sync has ended, and the workers that have uploaded | `withData <= uploaded` does not survive `MarkSynced` otherwise |

**The reader of `/progress`** (`ProgressViewProofs`; `ViewConstants`)

`ViewTypeCorrect`, `CountersAlwaysFit`, `DataAlwaysUploaded`, `IdleAlwaysFrozen` and
`LastScanAlwaysAddsUp`. A response is put together from loads that other steps come between; the
argument gives each counter the value the response will show at the least (`Shown`: what
was loaded, or what is there to load), and carries the inequalities of the response over
those from the first load on (`Showing`), because in one scan the counters loaded later only grow.
They start from the scan's own book-keeping (`Tally`: each queued member has one outcome at most,
each member with data an upload) and from `Resets`: `toReset` is what is left of nine resets, and
those before it are zero. `Frozen` is the same for a response that says idle, with equality.
All three speak of responses begun after the resets and read before the next scan starts
(`InOneScan`): one that meets a scan's start mixes two scans' figures, and of it nothing is proved
but the types.

**The parts around them**

- `CharCacheProofs` (`CacheAssumption`): `CacheTypeCorrect`, `ServedAlwaysRecent`,
  `NoCharacterAlwaysCurrent`. `EntryFresh`: an entry's time to live and the age of its id add
  up to at most the TTL and a lookup, because a lookup stores an id no older than itself
  (`CallFresh`), FFLogs' answer of now has no age (`OwnerFresh`), and an entry is written by
  its own member's lookups only. For the last, `CacheAssumption` says what a member is: a pair of
  a name and a server, which is what the code makes its cache key of.
- `FightMappingProofs` (`FFLogsReports`): `PlayersAlwaysThemselves`, `ZoneAlwaysFits`, for
  any report. `FFLogsReports` says what FFLogs' answer is: actors numbered, and an
  entry of the composition or the deaths naming an actor of the report by the name it
  has there. The invariant, `Mapped`, is that what was posted is the report mapped for one zone and
  stamped with it; the rest is about the operators (`ServerOf`, `DeathsOf`, `JobOf`).
- `HealthChecksProofs` (`HealthConstants`): `HealthTypeCorrect`, `SteadyAlwaysReported`,
  `AlwaysAnswersInTime`. `Places`: each dependency is being probed, or has its one result in
  the channel, or has it collected, so the channel never overflows and the count in `Collect` is
  right; `Timely`: the probes all start in the instant of the request, one whose client heeds its
  context is over at its deadline, and a deaf one began the read it is in (`InRead`) before that;
  `AlwaysAnswersInTime` follows, with the timeout and less than one read as its bound; `Steady`: the probe of a
  dependency that has been up has time left, for time does not pass while it can answer.

Only model-checked: `UsesFlushed`, `DueRefreshed`, `ScanEnds`, `DueIsRetried`, `SelfHeals` and
`RequestAnswered`. They are liveness under fairness, which needs `ENABLED` and is out of TLAPS' reach.
`PoolForbidden`, `MemoServerSlow` and `HealthProbeSlow` are refuted, and have nothing to prove.

## What is not modelled

- Metrics: gauges that read the counters and the pool one by one, and no document says what a
  scrape has to agree on. Router, CORS, logging, version: they read or wire, and decide nothing.
- `GetMemberProgress`, which is one `SELECT`, and `StatusLive`, which answers without a check.
- The rate limiter's state, which is in `redis_rate`, and `flow`, which opens connections
  once.
- `main`'s `os.Exit` paths other than the pool's, and what memo-server does with a fight
  posted twice.
- The time a probe pass takes and the tickers' periods: no property is about durations other
  than the quota window, the member's deadline, the cache's TTL and the probes' timeout.
- `Reconcile` hanging for ever. Its calls carry no deadline; the liveness properties say what
  is true if they return, and if one does not, nothing is flushed or refreshed again.
- Two things the models do and no property forbids, since nothing says the code should do
  otherwise: a member whose uploads have all failed is marked as synced, and a `forbidInDB` whose
  `UPDATE` fails is not tried again.
