------------------------------- MODULE Store -------------------------------
(***************************************************************************)
(* The read-through bar cache of internal/store/store.go for one (symbol,  *)
(* timeframe) key: concurrent Gets (HTTP handlers and the poller) that     *)
(* plan against the stored coverage, fetch from upstream, persist bars and *)
(* then coverage, and answer.  Gets of other keys share only the lock      *)
(* table, which is KeyLock; here the lock of the key is its abstraction,   *)
(* the holder.                                                             *)
(*                                                                         *)
(* A bar is abstracted to the instant its value was obtained from          *)
(* upstream: bars[t] is that instant for the bar that starts at t, or      *)
(* NoBar.  Upstream publishes a bar as soon as it starts and may revise it *)
(* until it is LiveHorizon old; a fetch takes time, and returns each bar   *)
(* as of some instant of that time, as Upstream says and AlpacaClient      *)
(* provides.                                                               *)
(***************************************************************************)
EXTENDS Coverage

CONSTANTS
  Procs,         \* the goroutines that call Get
  NoProc,        \* holder of a free lock
  BarTimes,      \* the instants at which upstream has a bar
  Lookbacks,     \* the lookbacks callers ask for, 0 for all history
  Epoch,         \* start of all history, before the program ever runs
  Ttl,           \* age at which live data must be fetched again
  LiveHorizon,   \* age at which a bar becomes immutable
  Persistent,    \* the SQLite backend: survives a crash, and may fail
  MaxClock       \* bound on the clock, for TLC

ASSUME ProcsAssumption   == NoProc \notin Procs
ASSUME TimesAssumption   == BarTimes \subseteq Nat /\ Epoch \in Nat /\ MaxClock \in Nat
ASSUME RangesAssumption  == Lookbacks \subseteq Nat /\ Ttl \in Nat /\ LiveHorizon \in Nat
ASSUME BackendAssumption == Persistent \in BOOLEAN

VARIABLES
  clock,       \* time.Now
  bars,        \* the repository's bars of the key
  intervals,   \* the repository's fetched intervals of the key
  holder,      \* the Get that holds the key
  get          \* the locals of each process's Get

vars == <<clock, bars, intervals, holder, get>>

U == INSTANCE Upstream

BarSets == [BarTimes -> Nat \cup {NoBar}]
NoBars  == [t \in BarTimes |-> NoBar]

Pcs == {"idle", "called", "waiting", "locked", "fetch", "putBars",
        "putIntervals", "serve", "degrade", "done"}

Locals ==
  [pc : Pcs, start : Int, end : Int, now : Nat,
   stored : SUBSET Interval, toFetch : SUBSET Range, since : Nat,
   fetched : SUBSET Interval, batch : BarSets, freshBars : BarSets,
   persistFailed : BOOLEAN, fetchErr : BOOLEAN,
   ok : BOOLEAN, readFailed : BOOLEAN, recorded : BOOLEAN, resp : BarSets]

Idle ==
  [pc |-> "idle", start |-> 0, end |-> 0, now |-> 0,
   stored |-> {}, toFetch |-> {}, since |-> 0,
   fetched |-> {}, batch |-> NoBars, freshBars |-> NoBars,
   persistFailed |-> FALSE, fetchErr |-> FALSE,
   ok |-> FALSE, readFailed |-> FALSE, recorded |-> FALSE, resp |-> NoBars]

Init ==
  /\ clock = Epoch + 1
  /\ bars = NoBars
  /\ intervals = {}
  /\ holder = NoProc
  /\ get = [p \in Procs |-> Idle]

\* One process's locals change.
Becomes(p, g) == get' = [get EXCEPT ![p] = g]

-----------------------------------------------------------------------------
(* The call, up to the lock *)

Start(lookback, now) == IF lookback = 0 THEN Epoch ELSE now - lookback

\* A caller reads the clock and asks for the window that ends there.
Call(p) ==
  /\ get[p].pc = "idle"
  /\ \E l \in Lookbacks :
       Becomes(p, [get[p] EXCEPT !.pc = "called", !.start = Start(l, clock),
                                 !.end = clock])
  /\ UNCHANGED <<clock, bars, intervals, holder>>

\* Get reads the clock itself, before it has the key.
Enter(p) ==
  /\ get[p].pc = "called"
  /\ Becomes(p, [get[p] EXCEPT !.pc = "waiting", !.now = clock])
  /\ UNCHANGED <<clock, bars, intervals, holder>>

\* A mistaken variant: Get does not wait for the key.
LockWithoutWaiting(p) ==
  /\ get[p].pc = "waiting"
  /\ holder' = p
  /\ Becomes(p, [get[p] EXCEPT !.pc = "locked"])
  /\ UNCHANGED <<clock, bars, intervals>>

Lock(p) ==
  /\ get[p].pc = "waiting"
  /\ holder = NoProc
  /\ holder' = p
  /\ Becomes(p, [get[p] EXCEPT !.pc = "locked"])
  /\ UNCHANGED <<clock, bars, intervals>>

\* A Get with ranges left to fetch starts to fetch the next of them.
FetchNext(g, otherwise) ==
  IF g.toFetch = {} THEN [g EXCEPT !.pc = otherwise]
                    ELSE [g EXCEPT !.pc = "fetch", !.since = clock]

\* The stored coverage is read and the fetches planned; nothing to fetch is a
\* cache hit.
ReadIntervals(p) ==
  /\ get[p].pc = "locked"
  /\ LET g    == get[p]
         plan == Plan(intervals, g.start, g.end, g.now, Ttl, LiveHorizon)
     IN  Becomes(p, FetchNext([g EXCEPT !.stored = intervals, !.toFetch = plan], "serve"))
  /\ UNCHANGED <<clock, bars, intervals, holder>>

ReadIntervalsFails(p) ==
  /\ Persistent
  /\ get[p].pc = "locked"
  /\ Becomes(p, [get[p] EXCEPT !.pc = "done", !.readFailed = TRUE, !.recorded = TRUE])
  /\ UNCHANGED <<clock, bars, intervals, holder>>

-----------------------------------------------------------------------------
(* Fetching, one range at a time *)

\* What the fetch of r that g began may return by now.
Deliveries(g, r) ==
  {new \in [BarTimes -> (g.since .. clock) \cup {NoBar}] :
     \A t \in BarTimes : U!Delivers(r.From, r.To, g.since, clock, t, new[t])}

\* A mistaken variant: the bounds are swapped.
SwappedCredit(r, now) == [From |-> r.To, To |-> r.From, FetchedAt |-> now]

\* A mistaken variant: the credit is stamped when the fetch has returned.
CreditAtReturn(r, now) == [From |-> r.From, To |-> r.To, FetchedAt |-> clock]

\* Credit for a fetched range carries the instant read before the lock.
Credit(r, now) == [From |-> r.From, To |-> r.To, FetchedAt |-> now]

Fetch(p) ==
  /\ get[p].pc = "fetch"
  /\ \E r \in get[p].toFetch :
       /\ \A s \in get[p].toFetch : r.From <= s.From
       /\ \E new \in Deliveries(get[p], r) :
            Becomes(p, [get[p] EXCEPT !.pc = "putBars",
                                      !.toFetch = @ \ {r},
                                      !.since = 0,
                                      !.fetched = @ \cup {Credit(r, get[p].now)},
                                      !.batch = new,
                                      !.freshBars = MergeBars(@, new)])
  /\ UNCHANGED <<clock, bars, intervals, holder>>

\* A failed fetch abandons the ranges that are left.
FetchFails(p) ==
  /\ get[p].pc = "fetch"
  /\ Becomes(p, [get[p] EXCEPT !.pc = "putIntervals", !.toFetch = {}, !.since = 0,
                               !.fetchErr = TRUE])
  /\ UNCHANGED <<clock, bars, intervals, holder>>

PutBars(p) ==
  /\ get[p].pc = "putBars"
  /\ bars' = MergeBars(bars, get[p].batch)
  /\ Becomes(p, FetchNext([get[p] EXCEPT !.batch = NoBars], "putIntervals"))
  /\ UNCHANGED <<clock, intervals, holder>>

\* Writing no bars cannot fail.
PutBarsFails(p) ==
  /\ Persistent
  /\ get[p].pc = "putBars"
  /\ get[p].batch # NoBars
  /\ Becomes(p, FetchNext([get[p] EXCEPT !.batch = NoBars, !.persistFailed = TRUE],
                          "putIntervals"))
  /\ UNCHANGED <<clock, bars, intervals, holder>>

-----------------------------------------------------------------------------
(* Persisting coverage *)

AfterPersist(g, persistFailed) ==
  IF g.fetchErr THEN "done" ELSE IF persistFailed THEN "degrade" ELSE "serve"

\* A mistaken variant: a failed write of bars is forgotten.
MayPersistAnyway(g) == g.fetched # {}

\* Coverage is written for the ranges fetched, unless a write of bars failed.
MayPersist(g) == g.fetched # {} /\ ~g.persistFailed

\* A mistaken variant: the new coverage replaces the stored one.
PutFetchedOnly(p) ==
  /\ get[p].pc = "putIntervals"
  /\ MayPersist(get[p])
  /\ intervals' = NormalizeCoverage(get[p].fetched, get[p].now - LiveHorizon)
  /\ Becomes(p, [get[p] EXCEPT !.pc = AfterPersist(get[p], FALSE)])
  /\ UNCHANGED <<clock, bars, holder>>

PutIntervals(p) ==
  /\ get[p].pc = "putIntervals"
  /\ MayPersist(get[p])
  /\ intervals' = NormalizeCoverage(get[p].stored \cup get[p].fetched,
                                    get[p].now - LiveHorizon)
  /\ Becomes(p, [get[p] EXCEPT !.pc = AfterPersist(get[p], FALSE)])
  /\ UNCHANGED <<clock, bars, holder>>

PutIntervalsFails(p) ==
  /\ Persistent
  /\ get[p].pc = "putIntervals"
  /\ MayPersist(get[p])
  /\ Becomes(p, [get[p] EXCEPT !.pc = AfterPersist(get[p], TRUE), !.persistFailed = TRUE])
  /\ UNCHANGED <<clock, bars, intervals, holder>>

SkipIntervals(p) ==
  /\ get[p].pc = "putIntervals"
  /\ ~MayPersist(get[p])
  /\ Becomes(p, [get[p] EXCEPT !.pc = AfterPersist(get[p], get[p].persistFailed)])
  /\ UNCHANGED <<clock, bars, intervals, holder>>

-----------------------------------------------------------------------------
(* The answer *)

Answer(p, answered) ==
  Becomes(p, [get[p] EXCEPT !.pc = "done", !.ok = TRUE,
                            !.resp = Clip(answered, get[p].start, get[p].end)])

Serve(p) ==
  /\ get[p].pc = "serve"
  /\ Answer(p, bars)
  /\ UNCHANGED <<clock, bars, intervals, holder>>

\* What a read of the window that fails may return beside its error: no bars, or those
\* up to where the rows broke off.
PartialReads(g) ==
  {Clip(bars, g.start, last) : last \in {g.start - 1} \cup {t \in BarTimes : t <= g.end}}

\* The error of the last read is returned as it is, not recorded.
ServeFails(p) ==
  /\ Persistent
  /\ get[p].pc = "serve"
  /\ \E read \in PartialReads(get[p]) :
       Becomes(p, [get[p] EXCEPT !.pc = "done", !.readFailed = TRUE, !.resp = read])
  /\ UNCHANGED <<clock, bars, intervals, holder>>

\* A mistaken variant: a degraded call answers like any other.
DegradeToRepository(p) ==
  /\ get[p].pc = "degrade"
  /\ Answer(p, bars)
  /\ UNCHANGED <<clock, bars, intervals, holder>>

\* What could not be persisted is served from memory over what the repository
\* holds.
Degrade(p) ==
  /\ get[p].pc = "degrade"
  /\ Answer(p, MergeBars(bars, get[p].freshBars))
  /\ UNCHANGED <<clock, bars, intervals, holder>>

\* The repository's part of the answer is missing, or ends too early, and the call
\* succeeds.
DegradeFails(p) ==
  /\ Persistent
  /\ get[p].pc = "degrade"
  /\ \E read \in PartialReads(get[p]) :
       LET answered == Clip(MergeBars(read, get[p].freshBars), get[p].start, get[p].end)
       IN  Becomes(p, [get[p] EXCEPT !.pc = "done", !.ok = TRUE, !.readFailed = TRUE,
                                     !.recorded = TRUE, !.resp = answered])
  /\ UNCHANGED <<clock, bars, intervals, holder>>

\* A mistaken variant: a failed call keeps the key.
ReturnWithoutUnlock(p) ==
  /\ get[p].pc = "done"
  /\ holder' = IF get[p].ok THEN NoProc ELSE holder
  /\ Becomes(p, Idle)
  /\ UNCHANGED <<clock, bars, intervals>>

\* The key is given back on every path.
Return(p) ==
  /\ get[p].pc = "done"
  /\ holder' = NoProc
  /\ Becomes(p, Idle)
  /\ UNCHANGED <<clock, bars, intervals>>

-----------------------------------------------------------------------------

Tick ==
  /\ clock < MaxClock
  /\ clock' = clock + 1
  /\ UNCHANGED <<bars, intervals, holder, get>>

\* The process dies and is started again: every call is gone, and so are the
\* contents of the memory backend.
Crash ==
  /\ get' = [p \in Procs |-> Idle]
  /\ holder' = NoProc
  /\ bars' = IF Persistent THEN bars ELSE NoBars
  /\ intervals' = IF Persistent THEN intervals ELSE {}
  /\ UNCHANGED clock

\* What a Get does once it holds the key.
Work(p) ==
  \/ ReadIntervals(p) \/ ReadIntervalsFails(p)
  \/ Fetch(p) \/ FetchFails(p)
  \/ PutBars(p) \/ PutBarsFails(p)
  \/ PutIntervals(p) \/ PutIntervalsFails(p) \/ SkipIntervals(p)
  \/ Serve(p) \/ ServeFails(p)
  \/ Degrade(p) \/ DegradeFails(p)
  \/ Return(p)

Next ==
  \/ \E p \in Procs : Call(p) \/ Enter(p) \/ Lock(p) \/ Work(p)
  \/ Tick
  \/ Crash

Spec == Init /\ [][Next]_vars

\* A goroutine runs when it can, repository and upstream calls return, and a
\* sync.Mutex in starvation mode hands itself to the longest waiter.
Fairness ==
  \A p \in Procs : /\ WF_vars(Enter(p))
                   /\ SF_vars(Lock(p))
                   /\ WF_vars(Work(p))

FairSpec == Spec /\ Fairness

-----------------------------------------------------------------------------
(* Properties *)

TypeOK ==
  /\ clock \in Nat
  /\ bars \in BarSets
  /\ intervals \in SUBSET Interval
  /\ holder \in Procs \cup {NoProc}
  /\ get \in [Procs -> Locals]

Within(t, r) == r.From <= t /\ t <= r.To

\* Coverage never claims what is not there: every bar inside a stored interval,
\* both ends included, is stored.  A failed or missing write of bars, or a
\* crash between the writes of bars and of coverage, must not leave an
\* interval behind (store.go:140-154).
CoverageBacked ==
  \A iv \in intervals : \A t \in BarTimes : Within(t, iv) => bars[t] # NoBar

\* Coverage never claims data fresher than it is: a bar that is still mutable
\* was obtained no earlier than the stamp of any interval over it, whatever was
\* merged with it since (coverage.go:68-77).
CoverageHonest ==
  \A iv \in intervals : \A t \in BarTimes :
    Within(t, iv) /\ t > clock - LiveHorizon => bars[t] >= iv.FetchedAt

\* What a successful Get promises: it returns every bar of its window that was
\* ttl old when it was called, and the mutable ones among them no staler than
\* the ttl, whether they come from the repository, from upstream, or from both
\* after a failure to persist.  An answer whose read of the repository failed
\* is ReadErrorsReported's concern.
ServedWithinPromise ==
  \A p \in Procs : LET g == get[p] IN
    g.pc = "done" /\ g.ok /\ ~g.readFailed =>
      \A t \in BarTimes : g.start <= t /\ t <= g.end /\ t <= g.now - Ttl =>
        /\ g.resp[t] # NoBar
        /\ t > clock - LiveHorizon => g.resp[t] >= g.now - Ttl

Fetched(p) == get'[p].fetched \ get[p].fetched

\* Concurrent callers do not fetch the same gap twice (store.go:64-65): a tick
\* that is fetched is, at that moment, not adequately covered in the
\* repository, or lies in a covered sliver between two ticks that are not.
NoDoubleFetch ==
  [][\A p \in Procs : get[p].pc = "fetch" =>
       \A r \in Fetched(p) :
         LET g == get[p]
             covered(t) == \E iv \in intervals : Covers(iv, t, g.now, Ttl, LiveHorizon)
             need == {t \in Ticks(r) : ~covered(t)}
         IN  \A t \in Ticks(r) \ need :
               \E a, b \in need : a < t /\ t < b /\ b - a - 1 <= SliverThreshold]_vars

\* What was credited stays credited, whoever persists next: no Get's write of
\* coverage loses another's.  Only the memory backend forgets, all at once, when
\* the process dies.
CoverageNeverLost ==
  [][ Persistent \/ intervals' # {} =>
        \A iv \in intervals : \A t \in Ticks(iv) : Over(intervals', t) # {}]_vars

\* A stored bar is never overwritten by an older fetch of it, nor removed.
BarsNeverRegress ==
  [][ Persistent \/ bars' # NoBars => \A t \in BarTimes : bars'[t] >= bars[t]]_vars

\* Every Get that is called returns: the key is given back on every path.
EveryGetReturns == \A p \in Procs : get[p].pc # "idle" ~> get[p].pc = "idle"

-----------------------------------------------------------------------------
(* What the documents say and the code does not do *)

\* "completed historical bars cached indefinitely": a bar served from beyond the
\* live horizon, which is never fetched again, is complete: it was obtained
\* once the next one had started.
HistoryIsComplete ==
  \A p \in Procs : LET g == get[p] IN
    g.pc = "done" /\ g.ok /\ g.end = g.now =>
      \A t \in BarTimes : g.resp[t] # NoBar /\ t < g.now - LiveHorizon =>
        \E u \in BarTimes : t < u /\ u <= g.resp[t]

\* "Read path (Bars/Intervals error) -> observability.RecordError(...) and return
\* the error": a failed read of the repository is recorded, and fails the call.
ReadErrorsReported ==
  \A p \in Procs : LET g == get[p] IN
    g.pc = "done" /\ g.readFailed => g.recorded /\ ~g.ok

=============================================================================
