# Verification of the alpaca-playground backend

The program is a small Go backend that serves stock bars. A poller and HTTP
handlers ask a read-through cache (`internal/store`) for the bars of a symbol,
at a timeframe, over a window that ends now. The cache fetches from Alpaca what
it lacks or what has gone stale, keeps it in memory or in SQLite, and answers
from there.

This directory holds TLA+ modules of that program, TLC configurations that check
them on small instances, and theorems that TLAPS proves for all instances.
`PROJECT.json` is the index: what is modelled, the runs, the lines of code behind
each definition, the hazards, and for every checked property a mistaken variant
of the code that violates it.

## The system

| part | code | state it keeps | operations |
|---|---|---|---|
| coverage algebra | `store/coverage.go` | none | `Plan`, `normalizeCoverage`, `mergeBars`, `clip` and their helpers |
| read-through store | `store/store.go` | the lock table | `Get` |
| key locks | `store/store.go` `lockKey` | `locks`, `refs`, the mutexes | lock, unlock |
| repositories | `store/memory.go`, `store/sqlitestore` | bars and fetched intervals per key | `Bars`, `Intervals`, `PutBars`, `PutIntervals`, `Close` |
| ranges | `ranges/ranges.go` | tables | `Resolve`, `Start`, ttl and live horizon per timeframe |
| poller | `poller/poller.go` | ticker | `Run`, `refresh` |
| HTTP API | `httpapi/handlers.go` | none | `GET /bars`, `/watchlist`, `/healthz` |
| Alpaca client | `alpaca/client.go` | none | `GetBars`: pages, over a retrying transport |
| lifecycle | `main.go` | context, wait group, error channel | start, serve, shut down |
| configuration, telemetry | `config`, `observability` | providers | `Load`, `Setup`, `RecordError`, `CountError` |

How they interact: handlers and the poller run concurrently and call `Get`.
`Get` reads the clock, takes the lock of its (symbol, timeframe), reads the
stored intervals, plans, and for each planned range calls the client and writes
the bars; then it writes the coverage, reads the bars back and releases the
lock. Coverage and bars are written separately, so a crash can come between
them; every repository call can fail with SQLite, none with the memory backend.

What is hard, and the property that makes it right:

- **Coverage is a claim about bars.** An interval that is stored while a bar
  inside it is not is a hole that is never fetched again (`CoverageBacked`). An
  interval with too new a stamp hides stale data for a ttl (`CoverageHonest`),
  and one that is lost is fetched again (`CoverageNeverLost`).
- **The clock is read before the key is held.** Gets of a key run in the order in
  which they get it, with instants in another order. Plans, stamps and the
  history boundary are computed from an old instant while the stored coverage may
  be newer, so the boundary of compaction can go back (`FreshnessKept`).
- **History is never fetched again.** What ages past the live horizon is covered
  whatever its stamp, so the compaction may forget stamps there, and only there.
- **One connection for everything.** SQLite has a single connection, which every
  call of every key waits for; a path that keeps it stops them all
  (`EveryCallReturns`). A write is several statements, the migration is four
  without a transaction, and both can stop anywhere (`ImplementsRepository`,
  `SchemaReady`). After a power failure the file may be some commits behind.
- **Two backends, one behaviour.** One keeps sorted slices, the other rows of a
  table, and they must return the same (`MemoryAgrees`).
- **Pages.** A window is fetched page by page, each page by a request that is
  repeated, while upstream goes on publishing and revising (`FetchesWindow`).
  A part must not pass for the whole: the whole is credited.
- **Locks come and go.** The last user of a lock object deletes it from the table
  while others look it up (`MutualExclusion`, `ImplementsMutex`).
- **Every path gives the key back** (`EveryGetReturns`).
- **Shutdown** must end (`ShutsDown`), in an order that closes the repository under
  no `Get` (`RepositoryOutlivesGets`), flush telemetry when nothing makes any more
  (`FlushedLast`), and not lose the error it has read (`FailureIsReported`).
- **Failure in the middle.** A fetch fails after another succeeded, bars are not
  written, coverage is not written, the last read fails: what was fetched is
  credited, what was not is not, and the answer is complete all the same
  (`ServedWithinPromise`).

## The modules

How they stand on one another:

| module | stands for | its promise |
|---|---|---|
| `Upstream` | what a fetch may deliver | used by `Store` as assumption, by `BarFetch` as promise |
| `Coverage` | `coverage.go`, as operators on sets | what `PlanLoop` and `NormalizeLoop` are shown to compute |
| `PlanLoop`, `NormalizeLoop` | `Plan` and `normalizeCoverage`, iteration by iteration | `PlanAgrees`, `NormalizeAgrees` |
| `Store` | `Get`, for one key | `ServedWithinPromise` |
| `KeyLock` | `lockKey`, for all keys | implements `KeyMutex`, which `Store`'s `holder` and `Lifecycle` rely on |
| `SqliteRepo` | `sqlitestore.go`, for all keys | implements `Repository`, as whose atomic calls `Store` reads and writes |
| `BarLoops` | `memory.go`, `mergeBars`, `clip` | agrees with `SqliteRepo`'s rows (`MemoryAgrees`) and with `Coverage` (`MergeAgrees`) |
| `StoreDurability` | `Store` over a file that power failures throw back | that of `Store` |
| `AlpacaClient` | `client.go` | implements `BarFetch`, whose fetch is what `Store`'s `Fetch` takes |
| `Lifecycle` | `main.go`, `poller.go` | `ShutsDown`, `KeepsWarm` |

### Coverage: the interval algebra

Time is the code's `int64` nanoseconds, an integer; the interval between two
successive instants is a *tick*. The code's functions work on sorted slices of
ranges; here a range is the set of its ticks, and a result is the set of maximal
runs of what is left. `Plan` is the ticks of the window that no stored interval
covers (`Covers`: history at any age, live ticks within the ttl), less the
forgiven trailing gap, with gaps at most a sliver apart bridged.
`NormalizeCoverage` is the set of maximal segments that may carry one stamp
(`Mergeable`).

A bar is only its start and, for its value, the instant it was obtained from
upstream. `MergeBars` and `Clip` work on functions from starts to those instants.
Prices and volumes bear on nothing here.

`PlanLoop` and `NormalizeLoop` are the code over its slices, an action per
iteration, so that the short definitions used everywhere else are not taken on
trust. `PlanLoop` has `Plan`'s loop over the stored intervals (`ClipNext`), the sort
(`SortPieces`: pieces with one start in any order), and the loops of `coalesce`,
`subtract` with `forgiveTrailingGap`, and `mergeSlivers` (`CoalesceNext`,
`SubtractNext`, `SubtractEnds`, `MergeNext`); `pc` is the loop in progress, `todo`
the slice it ranges over, `k` its index, `out` the slice it builds. `NormalizeLoop`
has the sweep over successive bounds (`SweepNext`): `todo` are the bounds not left
behind, `out` the segments so far. The sort and the removal of equal bounds before
it are the set `todo` and the choice of its two least members. `MCPlan` adds
the inputs TLC enumerates, `MCNormalize` the fetches that follow one another, each
compacted with what the one before left, under a boundary of its own. `frontier` is
the newest boundary so far: what lies before it some compaction took for history,
and only there may stamps have been forgotten.

### Store: one key of the cache

The state is the clock, the key's `bars` and `intervals` in the repository, the
`holder` of the key and, for each goroutine, the locals of its `Get`. There is an
action for every point at which another goroutine, the clock, a failure or a
crash can come between:

| action | code |
|---|---|
| `Call` | a handler or the poller reads its clock and computes the window |
| `Enter` | `now := s.now()`, line 98 |
| `Lock` | `s.lockKey(k)` |
| `ReadIntervals`, `ReadIntervalsFails` | lines 103-125, the plan included |
| `Fetch`, `FetchFails` | one turn of the loop up to the credit, lines 132-139 |
| `PutBars`, `PutBarsFails` | lines 140-143 |
| `PutIntervals`, `PutIntervalsFails`, `SkipIntervals` | lines 146-159 |
| `Serve`, `ServeFails` | the final read, lines 119 and 169 |
| `Degrade`, `DegradeFails` | lines 161-168 |
| `Return` | the deferred unlock |
| `Tick`, `Crash` | time passes; the process dies and is restarted |

The upstream has a bar from the instant it starts and may revise it until it is
`LiveHorizon` old, so what a fetch returns is as good as the instant it was read. The
`-Fails` actions are enabled for the SQLite backend only, except `FetchFails`. A
transaction is one step; a `PutBars` of no bars returns before it can fail. A read
of the bars that fails may return the first of them beside its error
(`PartialReads`): `ServeFails` passes them on with the error, which the handlers and
the poller then look at alone, and `DegradeFails` merges them into its answer.

A crash keeps `bars` and `intervals` when `Persistent`, and loses them otherwise.
The clock never goes back, as `time.Now` does not within a process; a wall clock
set back between runs is not modelled.

A fetch takes time. `FetchNext` notes when a `Get` goes on to a range (`since`), and
`Fetch` takes what may have been delivered by the time it returns (`Deliveries`):
each bar as of some instant in between, not all of the same one, as the client
reads them page by page; every bar that had started by `since`, and any that
started later. `Upstream` says so in one operator, which `BarFetch` states as the
promise of a call. The call itself begins at `since` or later, and delivers no more
than `Fetch` allows for (`ClientFits`).

### KeyLock and KeyMutex: one lock per key

`KeyLock` is `lockKey` and its unlock function statement by statement: `Store.mu`,
the table, `refs`, and the mutex of each object. Objects have identities; one
that has been deleted may still be referred to, and a new one takes an identity
nobody refers to. `KeyMutex` is what it should amount to: each key has at most
one owner. `ImplementsMutex` is the refinement, with the caller past the lock as
the owner. `Store` relies on it: its `holder` is the owner of its key.

### Repository, SqliteRepo and BarLoops: the backends

`Repository` is what `repository.go` and its conformance suite
(`storetest/contract.go`) promise: a call takes effect at one instant between its
start and its return, or fails and has none; a read that fails may still hand over
a part of its result (`Parts`). `Save`, `Crash` and `PowerFailure`
say what may be lost: the end of the history of writes, for all keys alike, and
never a part of a write. A key has one call at a time, as `Store` holds its lock;
calls of different keys overlap.

`SqliteRepo` is `sqlitestore.go` statement by statement. `db` is the `sql.DB`, or
the statement of `migrate` that is next; `conn` is the call that has the only
connection. A read is `Query`, a `NextRow` per row, in the order of `ORDER BY t` for
bars and in any for intervals, and `RowsEnd`, `ScanFails`, which returns nothing, or
`RowsBreakOff`, which returns the rows so far with the error of `rows.Err`; a write
is `BeginPutBars` or `BeginPutIntervals` (with its `DELETE`), an `ExecBar` or
`ExecInterval` per row, and `Commit` or the deferred `Rollback`. `ConnectFails` is
whatever ends the wait for the connection: a context that is done, a database
that is closed, a first statement that fails. `Open`, `Migrate` and `OpenFails` run
at every start. Rows of different keys are in the same tables, so `file.data`
holds all keys, and a restart reaches all of them.

A bar's row is its start and a value, an interval its start and its stamp; the
end of an interval is data the repository does not look at. `ExecInterval` has the
primary key: no two intervals with one start. The sets come normalized from
`Store`, so it never refuses one (`NormalizeAgrees` has them disjoint).

`BarLoops` is the memory backend's slice: bars are upserted, sorted, and read by a
loop that stops at the first bar after the window. `MCRepository` runs the loop of
`memRepo.PutBars` in step with SQLite's: `MemBegin` copies the slice where SQLite
begins its transaction, `MemUpsert` takes the bar whose row `ExecBar` writes, and
`MemStore` sorts and stores where SQLite commits; `sort.Slice` is any permutation
that is in order. A write that SQLite rolls back is dropped, and a restart gives
the slices of the rows that are left. The comment that the two backends behave
identically (`repository.go:10-12`) is `MemoryAgrees`; that `mergeBars` and `clip`,
which work on slices too, are `Coverage`'s functions is `MergeAgrees`. Its inputs are
those of the degraded path: a stored slice, and `freshBars`, which is one fetched
batch appended to another and need not be in order.

SQLite's own guarantees are external: a transaction that is committed is there
for every later reader, one that is not, or whose `COMMIT` fails, is rolled back,
and with `journal_mode=WAL` and `synchronous=NORMAL` a power failure loses the
transactions since the last checkpoint, never one before another that stays.

### StoreDurability: the store over such a file

`Store` with one more variable, `durable`: what a power failure would leave of the
key. It is what the repository held at an earlier instant, bars and intervals of
the same one, because `SqliteRepo` implements `Repository` and both are in one file.

### AlpacaClient and BarFetch: upstream

`AlpacaClient` is `GetBars`: `Send` a request, get a `Page`, or a failure that the
transport repeats (`Repeat`), passes on (`RequestFails`), or the context's end
(`ContextEnds`). `clock` moves in between, and with it what upstream has. A failure
is recorded under its kind, and drops the pages that were read. `BarFetch` is the
`FetchFunc` of `store.go` as `Store` needs it: all of the window that had started when
the call began, obtained during the call, or nothing.

External are upstream (a page holds the next bars of the window in order, a token
comes with at least one bar and continues after the last) and go-retryablehttp
with its default policy: it repeats a 429, a 5xx other than 501, and a transport
error, `RetryMax` times at most and not after the context is done, and
`PassthroughErrorHandler` hands the last answer on. A 501 is one of the
`other_status` here. The generated client that builds a request and decodes an
answer is one step, which may fail as it may.

### Lifecycle: the process

`run` of `main.go` as a sequence of steps (`Load`, `Setup`, `OpenRepo` or `BootFails`,
`Boot`, `SelectDone` or
`SelectErr`, `Stop`, `ShutApi`, `DrainApi`, `ShutAdmin`, `Wait`, `Flush`, `Close`,
`Return`), beside the goroutine of each server (`Listen`, `ServeFails`, `Send`,
`ServerClosed`), the requests it serves (`Request`, `Respond`) and `Poller.Run`
(`PollAsk`, `PollGot`, `PollRefreshed`, `NewTickerPanics`, `PollTick`, `PollStop`,
`Tick`). A `Get` is
three phases: out, waiting for its key, and inside, where it holds the key and
uses the repository. The keys are an instance of `KeyMutex`, so the module stands
on what `KeyLock` is shown to implement.

The context is done when a signal came or `stop()` was called. Before signals are
listened for, and after `stop()`, a signal has its default effect and kills the
process (`Kill`). `Shutdown` returns
when no request is being served or when `shutdownCtx` expires
(`DrainTimesOut`); a server shut down before it listens returns at once. The
order in which a refresh asks for the keys is the configuration's, and any order
here.

## The runs

| run | checks | bounds |
|---|---|---|
| `plan` | `PlanAgrees`, `PlanMissesNothing`, `PlanWastesNothing`, `PlanForgivesDrift` | all slices of at most 3 disjoint intervals on 0..6, in any order, all windows stamped 5 or 6; ttl 2, live horizon 4, sliver 1 |
| `normalize` | `NormalizeAgrees`, `FreshnessKept`, `HistoryCompacts` | all sequences of 3 fetches on 0..5, each under any boundary of history |
| `key_lock` | `TypeOK`, `MutualExclusion`, `TableInUse`, `ImplementsMutex`, `EveryCallerEnters` | 3 callers, 2 keys, 3 objects |
| `store_returns` | `NoDoubleFetch`, `CoverageNeverLost`, `EveryGetReturns` | 2 callers, clock to 4, bars at 0 and 3, lookback 3, ttl 2, live horizon 4, sliver 1, all failures, crashes |
| `store_disk` | `CoverageBacked`, `CoverageHonest`, `ServedWithinPromise`, `NoDoubleFetch`, `CoverageNeverLost`, `BarsNeverRegress` | 2 callers, clock to 4, bars at 1 and 3, lookbacks 1 and 2, ttl 1, live horizon 3, no bridging, all failures, crashes |
| `store_durability` | `TypeOK`, `CoverageBacked`, `CoverageHonest`, `ServedWithinPromise` | 1 caller, clock to 5, bars at 1 and 3, lookback 1 and all history, ttl 1, live horizon 3, all failures, crashes, power failures |
| `repository` | `SchemaReady`, `MemoryAgrees`, `MergeAgrees`, `ImplementsRepository`, `EveryCallReturns` | 2 keys, bars at 2 instants with 2 values, batches of none, one and three rows, one set of intervals, 2 writes, any number of reads, failures, restarts and power failures |
| `alpaca_client` | `DeliveredInOrder`, `FailuresRecordedOnce`, `FetchesWindow`, `EveryCallEnds` | 4 bars, 3 windows, pages of at most 2, 2 repetitions, clock to 3 |
| `lifecycle` | `TypeOK`, `RepositoryOutlivesGets`, `FailureIsReported`, `FlushedLast`, `ShutsDown`, `KeepsWarm` | 1 request, 3 keys of which 2 watched, both servers |
| `history_is_complete`, `read_errors`, `poll_interval` | `HistoryIsComplete`, `ReadErrorsReported`, `PollsUntilCancelled`: one each, violated | 1 caller, 1 request |

Why these bounds. A tick can be live and stale only when the live horizon is at
least the ttl plus two, since it is fetched after it has passed; every
configuration keeps that distance, as every timeframe of the program does. A
trailing gap can be forgiven only when the ttl is at least two; `plan` and
`store_returns` have that. The clock has to pass the live horizon by one for a
fetched tick to have been live and fresh, live and stale, and then history;
`store_durability` goes on by another so that history is compacted and then
extended. Two callers are enough for one to wait with an old instant while
another stores with a newer one. Three intervals give a plan a covered piece
between two gaps, touching pieces of different stamps, and a trailing gap after
a stale piece. Three callers of a lock are a holder that leaves, a waiter, and a
newcomer that finds the table changed.

Two writes are enough for one that replaces another, of the same key or of
another that waits for its connection, and for a power failure that keeps the
first and loses the second; one batch repeats a start out of order, which only
the upsert's last row and the slice's sort get right. Three pages of a window
need three bars and a page of one; two repetitions are one that is repeated and
one that is not.

`store_disk` uses the symmetry of its callers; no other run does, and no run that
checks liveness may. `store_returns` has the backend whose calls fail, so that every
path on which the key has to be given back is taken: the early return after a
failed read of the coverage, the failed fetch, the degraded answer. The memory
backend's calls do not fail, and after a restart it is empty; without failures and
restarts the two have the same steps, and the theorems about `Store` hold for both.
The loops of `MCPlan` and `MCNormalize` end when their inputs do; the runs of
`Lifecycle` end with the process. All other runs check for deadlock.

What the runs show: the plan fetches a tick exactly when it has to, up to
bridged slivers and the forgiven tail; compaction after every fetch is as good as
remembering the newest stamp of every tick that no `Get` so far took for history; the two backends return the
same; and under every interleaving, failure, crash and power failure within the
bounds a successful `Get` returns every bar of its window that was a ttl old when
it was called, the mutable ones no staler than the ttl.

`ServedWithinPromise` speaks of a bar that is mutable at the time of the answer.
A caller that waited with an old instant may find, merged into history under a
newer stamp, a bar its own instant still calls live; by then the bar is
immutable, and nothing is promised of its stamp. And it speaks of answers whose
reads of the repository succeeded; the others are `ReadErrorsReported`.

Of the process they show that it ends after a signal or the failure of a server,
although the poller waits for keys without watching its context and both servers
may fail at once; that it exits without an error only after a signal, and never when
its select took the failure of a server; that telemetry is flushed when nothing makes any more; and that a `Get` finds the
repository closed only when it belongs to a request that the drain gave up on.
When a signal and a failure are both ready the select may take the signal; the failure
is then left in the channel and the program exits without an error. No comment
says otherwise, and `FailureIsReported` allows it. The exception of the drain is real,
too: `Shutdown` returns when its ten seconds are over, the
wait group does not count handlers, and `repo.Close()` follows.

### Fairness

- `Enter`, and every step of a `Get` that holds its key, is weakly fair: a
  goroutine that can run does, and clients and drivers return (`EveryCallEnds`,
  `EveryCallReturns`).
- `Lock`, and in `KeyLock` the acquisition of `Store.mu`, is strongly fair:
  `sync.Mutex` enters starvation mode after a millisecond and is then handed to
  the longest waiter.
- In `KeyLock` a holder eventually unlocks. That is what `Store` shows of `Get`,
  from the fairness of the steps it takes once it holds the key; it never waits
  for a second key, so the two arguments do not lean on one another.
- In `SqliteRepo` every step of a call that has the connection is weakly fair: a
  statement returns, at the latest when its busy timeout of 5 s is over. `Begin`
  is strongly fair: `database/sql` hands a connection that is given back to the
  requests that wait for it. A closed database fails those that still wait.
- In `AlpacaClient` `Send` and the answer are weakly fair: the pauses between
  repetitions are bounded, and so is an attempt, by the 30 s of its HTTP client.
  `ContextEnds` is one of the answers; nothing makes a context end.
- In `Lifecycle` the steps of `run`, of the servers' goroutines, of the poller, its
  ticker and `shutdownCtx` are weakly fair, and a request is answered once its
  `Get` holds its key (`EveryGetReturns`). `PollStop` is strongly fair: a select
  picks at random among what is ready, so it does not choose the tick for ever.
- `Call`, `Tick`, `Crash` and `PowerFailure`, `Invoke`, `Open`, `Close` and
  `Checkpoint`, `ContextDone`, and `Request`, `ServeFails`, `Signal` and `Kill` of
  `Lifecycle`, are not fair.

### Where the code does not do what is written

- `HistoryIsComplete`: a window ends at the instant of the call, inside the period
  of a bar that is still open. That bar is stored as it is. If the key is not
  asked for again within the live horizon, as happens to a symbol outside the
  watchlist, to the timeframes the poller does not refresh, or when the process
  is down, the interval has become history and the partial bar is served for
  ever. The design document says that *completed* historical bars are cached
  indefinitely.
- `ReadErrorsReported`: the error of the final read leaves `Get` unrecorded, and a
  degraded `Get` whose read of the repository fails succeeds with the bars it
  fetched itself and the part of the others the read may have returned. The design document says that a read error is recorded and
  returned.
- `PollsUntilCancelled`: `Load` accepts a `POLL_INTERVAL` of zero or less, with which
  `NewTicker` panics after the first refresh and takes the process along. The
  comment on `Run` says that it refreshes until its context is cancelled.
- Two comments of `coverage.go` differ on a covered sliver of exactly the
  threshold: line 22 says that gaps *less* than it apart are merged, line 209 that
  those at most as far apart are. The code and `PlanWastesNothing` follow the second.

## The proofs

TLAPS proves the following for every value of the constants: any callers, keys,
bars, windows, batches, page size, ttl, live horizon and sliver threshold, and
either backend. The bounds `MaxClock` and `MaxWrites` are any natural numbers. The
proofs assume what the modules ASSUME of their constants: that instants and
durations are natural numbers, that `NoProc`, `NoObj`, `NoKey`, `NoBar` and
`NoValue` are none of what they stand beside, in `KeyLock` that the callers are
finitely many, in `Repository` that no two intervals of a set that is
written have the same start, and in `MCRepository` that its `NoValue` is
`Coverage`'s `NoBar`.

**CoverageProofs.** First, that a set of integers bounded below has a least
element and one bounded above a greatest. Where a proof would need an induction
over data, which the prover does not offer, it takes the least or the greatest of
a suitable set: the ends of a run of ticks, the first tick of a window that is
needed, the last row of a batch under one key.

Then, about a plan: its ranges lie in the window, are not empty and are runs of
what is fetched (`PlanRuns`); every tick of the window that is a ttl old and not
adequately covered is in one of them (`PlanCompletes`); what is left out is
covered, or the forgiven tail (`PlanOmits`); a covered tick is in one only if
it lies in a sliver between two that are not (`PlanNeeds`); and a range that
reaches the end of the window starts with it or is as old as the ttl
(`PlanForgives`). About normalizing: it covers the ticks that were covered and no
others (`NormalizeKeepsTicks`), each once (`NormalizeDisjoint`); a live tick has the
newest of the stamps over it (`NormalizeFresh`); and what touches could not have been
joined (`NormalizeJoins`, `NormalizeHistory`). The later proofs cite these and never
unfold the algebra.

**PlanLoopProofs.** The inductive invariant `LoopInv` has a conjunct for each
loop, about the ticks in the slice it builds. While clipping (`Clipping`) they are
what the intervals so far cover of the window; while coalescing (`Coalescing`),
what the pieces so far held, in ranges that do not touch, the last of which starts
no later than any piece to come; while subtracting (`Subtracting`), what is not
covered before `cur`; while merging (`Merging`), the gaps so far and what bridges two
of them, in ranges more than a sliver apart. That the sort is there for a reason shows:
without the order of the pieces `Coalescing` is not inductive. Only the ends of the
loops compare slices and sets, and there one lemma does it: a sorted sequence of
ranges that do not touch is the set of maximal runs of its ticks (`ApartRuns`). So
`Plan`'s loops compute `Plan` (`LoopsComputePlan`), whatever slice they are given, also
one with overlaps or out of order, of which the comment on `Plan` speaks only as a
precondition. From that and the lemmas above follow `PlanNeverMisses`,
`PlanNeverWastes` and `PlanCanBeEmpty`.

**MCNormalizeProofs.** First the sweep. The inductive invariant `SweepInv` says of the
segments so far that they cover what the intervals cover before the next bound
and no more, are in order, could each be a segment of the result (`Mergeable`), and
that where two touch the second could not extend the first: it is live and its
newest stamp is another (`Parted`). Between two successive bounds all ticks lie in the
same intervals (`SegmentOver`), which is why the code may look at one segment at a
time. That such a sequence, once complete, has all maximal segments and no others
(`SweptIsNormalized`) rests on `Reaches`: whatever could be one segment lies within one of
the sequence, since where it left the one it starts in, the two would have had the
same stamp up to there, of the live tick before or of the whole history, and the
tick after, which is live, has but one newest. From this follows `AnySweepNormalizes`,
for any intervals and boundary.

Then the fetches. What compaction keeps is an invariant of their sequence
(`FreshInv`): the intervals of the sweep in progress cover the ticks ever fetched, and
a tick from `frontier` on has the newest stamp it was fetched with. It is stated
against the newest boundary used, not the last one: a `Get` that waited long compacts
under an older boundary, and a tick which is live again for it may have lost its
stamp to an earlier compaction. From `frontier` on a tick was live at every one, and no
stamp was forgotten there. From it follow `SweepComputesNormalize`,
`CompactionKeepsFreshness` and `CompactionIsComplete`.

**StoreProofs**, first part. The inductive invariant `IndInv` strengthens `TypeOK`
with

- the lock discipline: a process that is past `Lock` and has not returned is the
  holder, so what it read of the repository is still what the repository holds;
- what a call in progress knows: a fetched range that was written is backed, one
  in `putBars` is backed by the bars of its batch, its stamp is the call's own
  instant and no bar of it is older;
- that no instant held by anyone lies in the future, and that a fetch in progress
  began after its call was stamped and after every stored bar was obtained
  (`Begun`).

`CoverageBacked` and `CoverageHonest` are not inductive without the second: the
write of coverage would credit ranges about which nothing is known. From
`IndInv` follow `TypeCorrect`, `Backed` and `Honest`, and the action property
`NeverRegress`: what a fetch brings was obtained after it began, and what is stored
before. `Begun` is what makes `Honest` true although the pages of a window are read
at different instants; stamping the credit when the fetch has returned would break it
(`CreditAtReturn`, the mutant of `CoverageHonest`).

**StoreProofs**, second part. `PromiseInv` says of a call that has planned and whose
fetches have not failed: every bar of its window that is due is in the
repository or in its memory, as current as promised, or in a range that is still
to be fetched (`Promised`). The plan establishes it (`PlanCompletes`, `Backed`,
`Honest`), a fetch moves bars from the third case to the second, a write to the
first, and at the answer the third is empty. Around it: what is left to fetch
was planned against the coverage that is still stored (`Planned`), and what was
fetched is in the repository unless a write failed (`FreshHeld`). From it follow
`KeepsPromise`; `NeverFetchedTwice`, from `Planned` and `PlanNeeds`; and
`NothingForgotten`, from `NormalizeKeepsTicks`, for which the invariant also says
that stored coverage is bounded.

**StoreProofs**, third part, is about `StoreDurability`. What a power failure would leave satisfies the
repository's part of `IndInv`: it once was the repository, and time only makes
fewer bars mutable. So `CoverageBacked` and `CoverageHonest` hold after it, and
`ServedWithinPromise` of the calls that follow.

**SqliteRepoProofs.** The inductive invariant says who has the connection (a call
that reads or writes, exactly then: `ConnectionGivenBack`), that the migration has
run as far as `db` says, and what a call in progress will have done: for a read,
the rows delivered and the rows left are the result its statement saw; for a
write, the transaction with the rows that are left applied to it is the effect of
the whole call on the file. The last makes `Implements` hold: every row is a
stutter, and `Commit` is `Repository`'s `Do`. A read that breaks off is a `Fail` with the
rows read so far, which are the first in time because rows come in that order
(`InOrder`). A power failure is `Repository`'s,
since `durable` was the file.

Its second part is about `MCRepository`. A slice *agrees* with a table when it
holds the table's rows, each start once. `MemInv` says that every stored slice is
ascending and agrees with the file, every saved one with what a power failure
leaves of it, and, the part that makes it inductive, that the slice a write is
making, which is not sorted yet, agrees with SQLite's open transaction. `PutBar`
is an upsert of both (`PutBarAgrees`), a permutation that is in order and has
each start once is ascending (`ResortedAgrees`), and in an ascending slice the loop
that stops early misses nothing (`ReadAgrees`): so `BackendsAgree`. `LoopsMerge`
takes the same lemmas through the bars of both slices (`AddedAgrees`), by the
least number of them for which the claim would fail: `mergeBars` of any two slices
agrees with `Coverage`'s `MergeBars` of their tables, the table of a concatenation
being that of the first with the second upserted (`UpsertConcat`). It assumes that the two
modules write the absence of a bar alike (`NoBarAssumption`).

**AlpacaProofs.** The inductive invariant says of the bars delivered so far that
they are in order, in the window, obtained during the call, and not past the
token while there are pages to come; and that every bar up to the token that had
started when the call began is among them. `DeliveredInOrder` is not inductive
without the token. From it follow `InOrder`, `RecordedOnce` and `Implements`: the
last page is `BarFetch`'s `Succeed`.

**KeyLockProofs.** The inductive invariant says that the object of a key is
referred to by exactly the callers of that key that are between `Find` or
`Create` and `Deref`, that its `refs` is their number, that distinct keys have
distinct objects, and that the caller past the lock is the `held` of its object.
The count is what needs cardinalities: `Deref` deletes when the count is one,
and the proof shows that the leaver is then the only one left. From it follow
`TypeCorrect`, `Exclusion` and `TableCorrect`, and `Implements`: each step is an
`Acquire`, a `Release` or a stutter of `KeyMutex`.

**LifecycleProofs.** The inductive invariant follows the shutdown in order: before
`Boot` nothing runs; from the drain on the API server lets no request in, after
it none is being served unless time was up; past the wait group the poller and
the servers have returned; and the repository is closed only before `OpenRepo` and
after `Close`. The failure of a server is in the channel until it has made `run` fail
(`FailureKept`). The poller has a `Get` only for a key its refresh has left, so a
poller that returned has none. `stop()` is called only on the way from a signal
or a failure. From these follow `TypeCorrect`, `Outlives`, `Reported` and `Flushed`.

Every safety property and every refinement that a passing run checks is thereby
proved. Model-checked only, or argued in the text:

- liveness, which needs ENABLED: `EveryCallerEnters`, `EveryGetReturns`,
  `EveryCallReturns`, `EveryCallEnds`, `ShutsDown`, `KeepsWarm`;
- that `Store`'s atomic reads and writes stand for `Repository`'s calls, for which no
  refinement is stated: the key is held during each, and a call takes effect at
  one instant or not at all. Stating it needs a repository whose intervals have
  ends, and is what the proofs have left.

## Not modelled

The repository has 13,585 lines of implementation, of which 11,839 are Alpaca
bindings generated from an OpenAPI description, with a client for every operation
of that API. The program calls one, `StockBars`; `AlpacaClient` has its outcomes,
and the others are dead code here. That leaves some 1,700 lines written by hand,
and the map covers what of them changes state or decides something.

- Of the bars: prices, volumes and the other fields, which nothing compares.
- Of the HTTP API: validation of parameters, the mapping of outcomes to statuses
  and JSON, CORS, `/watchlist` and `/healthz`: formatting of what `Get` returns,
  with no state. A response that outlasts `WriteTimeout` is lost to its client;
  what the `Get` stored stays, and the next request is another `Call`.
- Of telemetry: spans, metrics, logs and exporters, except that it is set up and
  flushed, and whether and under which kind a failure is recorded. A failure of
  startup leaves it unflushed, as `BootFails` does.
- Of the configuration: the parsing of names and lists. `POLL_INTERVAL` is
  modelled; timeframes, ttls, live horizons and lookbacks are constants, and the
  proofs hold for all of them.
- The wait of a caller for its key does not watch its context. A cancelled caller
  still waits its turn and then fails at its first read or fetch, so it is one
  of the failing calls of `Store`.
- Time zones and `time.Time`'s monotonic part: instants are compared as the code
  compares them. Overflow of `int64` nanoseconds, out of range for the dates in
  question.
- Deployment files, the telemetry stack and scripts: no logic of the program.

Two callers with more than one lookback, live history and bridging at once are
beyond TLC in a reasonable time; the theorems do not depend on it.
