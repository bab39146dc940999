---------------------------- MODULE StoreProofs ----------------------------
(***************************************************************************)
(* Proofs about Store, for any processes, bar times, lookbacks, ttl and    *)
(* horizon, either backend and an unbounded clock: types, coverage that is *)
(* backed by bars and honest about their freshness, bars that never        *)
(* regress, and the promise to the callers; and about StoreDurability,     *)
(* that all of it survives power failures.                                 *)
(***************************************************************************)
EXTENDS StoreDurability, CoverageProofs

\* Where a Get holds the key, and where it still owes the repository coverage.
Inside  == {"locked", "fetch", "putBars", "putIntervals", "serve", "degrade", "done"}
Filling == {"fetch", "putBars", "putIntervals"}

\* Nothing in the repository comes from the future.
Past == clock \in Nat \ {0} /\ \A t \in BarTimes : bars[t] <= clock

\* Only the holder is inside.
KeyHeld(p, g) == g.pc \in Inside => holder = p

\* A Get asks for no instant after the one it is stamped with, which has passed.
Stamped(g) ==
  /\ g.end <= clock
  /\ g.pc \in Inside \cup {"waiting"} => g.end <= g.now /\ g.now <= clock

\* A Get starts with nothing fetched.
Unfetched(g) ==
  g.pc \in {"idle", "called", "waiting", "locked"} => g.fetched = {} /\ ~g.persistFailed

\* A fetch begins after the Get is stamped, and once the repository's bars are
\* written.
Begun(g) ==
  g.pc = "fetch" => /\ g.now <= g.since /\ g.since <= clock
                    /\ \A t \in BarTimes : bars[t] <= g.since

\* The batch in hand is no older than the bars it will overwrite.
BatchNewer(g) ==
  g.pc = "putBars" => \A t \in BarTimes :
    g.batch[t] # NoBar => bars[t] <= g.batch[t] /\ g.batch[t] <= clock

\* What the repository holds once the batch in hand is written.
Written(g) == IF g.pc = "putBars" THEN MergeBars(bars, g.batch) ELSE bars

\* What a Get knows while it fills the gaps: the stored coverage is the one it
\* read, what is left to fetch is in its window, and unless a write failed every
\* bar of the ranges it fetched is written and no older than its stamp.
Filled(g) ==
  g.pc \in Filling =>
    /\ g.stored = intervals
    /\ \A r \in g.toFetch : r.To <= g.end
    /\ \A iv \in g.fetched : iv.FetchedAt = g.now
    /\ ~g.persistFailed =>
         \A iv \in g.fetched : \A t \in BarTimes : Within(t, iv) => Written(g)[t] >= g.now

LocalInv(p, g) ==
  /\ KeyHeld(p, g) /\ Stamped(g) /\ Unfetched(g) /\ Begun(g) /\ BatchNewer(g) /\ Filled(g)

IndInv ==
  /\ TypeOK /\ Past
  /\ \A p \in Procs : LocalInv(p, get[p])
  /\ CoverageBacked /\ CoverageHonest

-----------------------------------------------------------------------------
(* Lemmas about sets of bars *)

LEMMA BarOperators ==
  ASSUME NEW a \in BarSets, NEW b \in BarSets
  PROVE  /\ NoBars \in BarSets
         /\ MergeBars(a, b) \in BarSets
         /\ \A t \in BarTimes :
              MergeBars(a, b)[t] = IF b[t] # NoBar THEN b[t] ELSE a[t]
         /\ \A from, to \in Int : Clip(a, from, to) \in BarSets
BY DEF BarSets, NoBars, MergeBars, Clip

LEMMA PartialTyped ==
  ASSUME bars \in BarSets, NEW g \in Locals
  PROVE  PartialReads(g) \subseteq BarSets
<1>1. \A last \in {g.start - 1} \cup {t \in BarTimes : t <= g.end} :
        last \in Int /\ g.start \in Int
  BY TimesAssumption DEF Locals
<1> QED
  BY <1>1, BarOperators DEF PartialReads

\* What a fetch returns was obtained since it began, and is whole up to then.
LEMMA Delivered ==
  ASSUME NEW g \in Locals, NEW r \in Range, NEW new \in Deliveries(g, r), clock \in Nat
  PROVE  /\ new \in BarSets
         /\ \A t \in BarTimes : new[t] # NoBar => g.since <= new[t] /\ new[t] <= clock
         /\ \A t \in BarTimes : Within(t, r) /\ t <= g.since => new[t] # NoBar
<1>1. g.since \in Nat
  BY DEF Locals
<1>2. new \in [BarTimes -> (g.since .. clock) \cup {NoBar}]
  BY DEF Deliveries
<1>3. new \in BarSets
  BY <1>1, <1>2 DEF BarSets
<1>4. ASSUME NEW t \in BarTimes, new[t] # NoBar
      PROVE  g.since <= new[t] /\ new[t] <= clock
  BY <1>1, <1>2, <1>4
<1>5. ASSUME NEW t \in BarTimes, Within(t, r), t <= g.since
      PROVE  new[t] # NoBar
  <2>1. U!Delivers(r.From, r.To, g.since, clock, t, new[t])
    BY DEF Deliveries
  <2>2. new[t] \in g.since .. clock
    BY <1>5, <2>1 DEF U!Delivers, Within
  <2> QED
    BY <1>1, <2>2 DEF NoBar
<1> QED
  BY <1>3, <1>4, <1>5

\* The bars that BarFetch lets a call succeed with, when the call begins at any
\* instant since g went on to the range, are among those that Fetch may take: Store
\* sits on the client with nothing between (store.go:133).
THEOREM ClientFits ==
  ASSUME NEW g \in Locals, NEW r \in Range, clock \in Nat,
         NEW began \in Nat, g.since <= began, began <= clock,
         NEW new \in [BarTimes -> (0 .. clock) \cup {NoBar}],
         \A t \in BarTimes : U!Delivers(r.From, r.To, began, clock, t, new[t])
  PROVE  new \in Deliveries(g, r)
<1>1. g.since \in Nat
  BY DEF Locals
<1>2. ASSUME NEW t \in BarTimes
      PROVE  /\ new[t] \in (g.since .. clock) \cup {NoBar}
             /\ U!Delivers(r.From, r.To, g.since, clock, t, new[t])
  <2>1. PICK at \in (0 .. clock) \cup {NoBar} : at = new[t]
    OBVIOUS
  <2>2. U!Delivers(r.From, r.To, began, clock, t, at) /\ t \in Nat
    BY <2>1, TimesAssumption
  <2>3. r.From \in Int /\ r.To \in Int
    BY DEF Range
  <2>4. CASE at = NoBar
    BY <1>1, <2>2, <2>3, <2>4 DEF U!Delivers, NoBar
  <2>5. CASE at # NoBar
    BY <1>1, <2>1, <2>2, <2>3, <2>5 DEF U!Delivers, NoBar
  <2> QED
    BY <2>1, <2>4, <2>5, Zenon
<1> QED
  BY <1>2 DEF Deliveries

LEMMA IdleTyped == Idle \in Locals /\ NoBars \in BarSets
BY DEF Idle, Locals, Pcs, NoBars, BarSets

\* Going on to the next range changes where a Get is, and since when.
LEMMA FetchNextIs ==
  ASSUME NEW g \in Locals, NEW otherwise \in Pcs \ {"fetch"}, clock \in Nat,
         NEW n, n = FetchNext(g, otherwise)
  PROVE  /\ n \in Locals
         /\ n.pc = IF g.toFetch = {} THEN otherwise ELSE "fetch"
         /\ n.pc = "fetch" => n.since = clock
         /\ n.start = g.start /\ n.end = g.end /\ n.now = g.now
         /\ n.stored = g.stored /\ n.toFetch = g.toFetch /\ n.fetched = g.fetched
         /\ n.batch = g.batch /\ n.freshBars = g.freshBars
         /\ n.persistFailed = g.persistFailed /\ n.fetchErr = g.fetchErr
         /\ n.ok = g.ok /\ n.readFailed = g.readFailed
<1>1. CASE g.toFetch = {}
  <2>1. n = [g EXCEPT !.pc = otherwise]
    BY <1>1 DEF FetchNext
  <2> QED
    BY <1>1, <2>1 DEF Locals
<1>2. CASE g.toFetch # {}
  <2>1. n = [g EXCEPT !.pc = "fetch", !.since = clock]
    BY <1>2 DEF FetchNext
  <2> QED
    BY <1>2, <2>1 DEF Locals, Pcs
<1> QED
  BY <1>1, <1>2

-----------------------------------------------------------------------------
(* Types *)

\* What a change of one process's locals leaves of get.
LEMMA Becoming ==
  ASSUME TypeOK, NEW p \in Procs, NEW g \in Locals, Becomes(p, g)
  PROVE  /\ get' \in [Procs -> Locals]
         /\ get'[p] = g
         /\ \A q \in Procs \ {p} : get'[q] = get[q]
BY DEF Becomes, TypeOK

\* A step of one process preserves the invariant when what it makes of the
\* repository and of its own locals does; the others are not inside if it
\* changes what they rely on.
LEMMA StepInv ==
  ASSUME IndInv, NEW p \in Procs, NEW g \in Locals, Becomes(p, g), clock' = clock,
         bars' \in BarSets, intervals' \in SUBSET Interval, holder' \in Procs \cup {NoProc},
         Past', LocalInv(p, g)', CoverageBacked', CoverageHonest',
         \A q \in Procs \ {p} : get[q].pc \in Inside => UNCHANGED <<bars, intervals, holder>>
  PROVE  IndInv'
<1>1. /\ get' \in [Procs -> Locals]
      /\ get'[p] = g
      /\ \A q \in Procs \ {p} : get'[q] = get[q]
  BY Becoming DEF IndInv
<1>2. TypeOK'
  BY <1>1 DEF IndInv, TypeOK
<1>3. ASSUME NEW q \in Procs \ {p} PROVE LocalInv(q, get[q])'
  <2>1. LocalInv(q, get[q]) /\ get'[q] = get[q]
    BY <1>1 DEF IndInv
  <2>2. CASE get[q].pc \in Inside
    BY <2>1, <2>2
    DEF LocalInv, KeyHeld, Stamped, Unfetched, Begun, BatchNewer, Filled, Written
  <2>3. CASE get[q].pc \notin Inside
    BY <2>1, <2>3
    DEF LocalInv, KeyHeld, Stamped, Unfetched, Begun, BatchNewer, Filled, Inside, Filling
  <2> QED
    BY <2>2, <2>3
<1> QED
  BY <1>1, <1>2, <1>3 DEF IndInv

\* In particular when it touches its own locals only.
LEMMA LocalStepInv ==
  ASSUME IndInv, NEW p \in Procs, NEW g \in Locals, Becomes(p, g), LocalInv(p, g),
         UNCHANGED <<clock, bars, intervals, holder>>
  PROVE  IndInv'
<1>1. Past' /\ CoverageBacked' /\ CoverageHonest'
  BY DEF IndInv, Past, CoverageBacked, CoverageHonest
<1>2. LocalInv(p, g)'
  BY DEF LocalInv, KeyHeld, Stamped, Unfetched, Begun, BatchNewer, Filled, Written
<1>3. bars' \in BarSets /\ intervals' \in SUBSET Interval /\ holder' \in Procs \cup {NoProc}
  BY DEF IndInv, TypeOK
<1> QED
  BY <1>1, <1>2, <1>3, StepInv

-----------------------------------------------------------------------------
(* The steps before the lock *)

LEMMA CallInv == ASSUME IndInv, NEW p \in Procs, Call(p) PROVE IndInv'
<1>1. get[p] \in Locals /\ clock \in Int /\ LocalInv(p, get[p])
  BY DEF IndInv, TypeOK
<1>2. PICK l \in Lookbacks :
        Becomes(p, [get[p] EXCEPT !.pc = "called", !.start = Start(l, clock), !.end = clock])
  BY DEF Call
<1>3. Start(l, clock) \in Int
  BY <1>1, TimesAssumption, RangesAssumption DEF Start
<1>4. PICK g \in Locals :
        g = [get[p] EXCEPT !.pc = "called", !.start = Start(l, clock), !.end = clock]
  BY <1>1, <1>3 DEF Locals, Pcs
<1>5. LocalInv(p, g)
  BY <1>1, <1>4
  DEF Call, Locals, LocalInv, KeyHeld, Stamped, Unfetched, Begun, BatchNewer, Filled, Inside, Filling
<1> QED
  BY <1>2, <1>4, <1>5, LocalStepInv DEF Call

LEMMA EnterInv == ASSUME IndInv, NEW p \in Procs, Enter(p) PROVE IndInv'
<1>1. get[p] \in Locals /\ clock \in Nat /\ LocalInv(p, get[p])
  BY DEF IndInv, TypeOK
<1>2. PICK g \in Locals : g = [get[p] EXCEPT !.pc = "waiting", !.now = clock]
  BY <1>1 DEF Locals, Pcs
<1>3. LocalInv(p, g)
  BY <1>1, <1>2
  DEF Enter, Locals, LocalInv, KeyHeld, Stamped, Unfetched, Begun, BatchNewer, Filled, Inside, Filling
<1> QED
  BY <1>2, <1>3, LocalStepInv DEF Enter

\* Nobody is inside when the lock is free.
LEMMA LockInv == ASSUME IndInv, NEW p \in Procs, Lock(p) PROVE IndInv'
<1>1. get[p] \in Locals /\ LocalInv(p, get[p])
  BY DEF IndInv, TypeOK
<1>2. PICK g \in Locals : g = [get[p] EXCEPT !.pc = "locked"]
  BY <1>1 DEF Locals, Pcs
<1>3. LocalInv(p, g)'
  BY <1>1, <1>2
  DEF Lock, Locals, LocalInv, KeyHeld, Stamped, Unfetched, Begun, BatchNewer, Filled, Inside, Filling
<1>4. \A q \in Procs : get[q].pc \notin Inside
  BY ProcsAssumption DEF Lock, IndInv, LocalInv, KeyHeld
<1>5. Past' /\ CoverageBacked' /\ CoverageHonest'
  BY DEF Lock, IndInv, Past, CoverageBacked, CoverageHonest
<1>6. clock' = clock /\ bars' \in BarSets /\ intervals' \in SUBSET Interval
      /\ holder' \in Procs \cup {NoProc}
  BY DEF Lock, IndInv, TypeOK
<1> QED
  BY <1>2, <1>3, <1>4, <1>5, <1>6, StepInv DEF Lock

-----------------------------------------------------------------------------
(* The steps of the holder *)

\* A Get that is past filling, or returns, has only its stamps left to keep.
LEMMA FinishingInv ==
  ASSUME IndInv, NEW p \in Procs, NEW g \in Locals, Becomes(p, g),
         UNCHANGED <<clock, bars, intervals, holder>>,
         get[p].pc \in Inside, g.pc \in {"serve", "degrade", "done"},
         g.end = get[p].end, g.now = get[p].now
  PROVE  IndInv'
<1>1. LocalInv(p, get[p])
  BY DEF IndInv
<1>2. LocalInv(p, g)
  BY <1>1 DEF LocalInv, KeyHeld, Stamped, Unfetched, Begun, BatchNewer, Filled, Inside, Filling
<1> QED
  BY <1>2, LocalStepInv

LEMMA ReadIntervalsInv ==
  ASSUME IndInv, NEW p \in Procs, ReadIntervals(p) \/ ReadIntervalsFails(p)
  PROVE  IndInv'
<1>1. get[p] \in Locals /\ LocalInv(p, get[p]) /\ intervals \in SUBSET Interval
  BY DEF IndInv, TypeOK
<1>2. CASE ReadIntervals(p)
  <2> DEFINE plan == Plan(intervals, get[p].start, get[p].end, get[p].now, Ttl, LiveHorizon)
  <2>1. get[p].start \in Int /\ get[p].end \in Int /\ get[p].now \in Int
    BY <1>1 DEF Locals
  <2>2. \A r \in plan : r \in Range /\ r.To <= get[p].end
    BY <2>1, PlanWithin, RangesAssumption
  <2> HIDE DEF plan
  <2>3. PICK read \in Locals : read = [get[p] EXCEPT !.stored = intervals, !.toFetch = plan]
    BY <1>1, <2>2 DEF Locals
  <2>4. clock \in Nat
    BY DEF IndInv, TypeOK
  <2>5. PICK g : g = FetchNext(read, "serve")
    OBVIOUS
  <2>6. /\ read.end = get[p].end /\ read.now = get[p].now /\ read.stored = intervals
        /\ read.toFetch = plan /\ read.fetched = get[p].fetched
    BY <1>1, <2>3 DEF Locals
  <2>7. /\ g \in Locals /\ g.pc \in {"serve", "fetch"} /\ (g.pc = "fetch" => g.since = clock)
        /\ g.end = read.end /\ g.now = read.now /\ g.stored = read.stored
        /\ g.toFetch = read.toFetch /\ g.fetched = read.fetched
        /\ g.persistFailed = read.persistFailed
    <3>1. "serve" \in Pcs \ {"fetch"}
      BY DEF Pcs
    <3> QED
      BY <2>4, <2>5, <3>1, FetchNextIs
  <2>8. Becomes(p, g) /\ get[p].pc = "locked" /\ UNCHANGED <<clock, bars, intervals, holder>>
    BY <1>2, <2>3, <2>5 DEF ReadIntervals, plan
  <2>9. Begun(g)
    BY <1>1, <2>1, <2>4, <2>6, <2>7, <2>8
    DEF IndInv, Past, LocalInv, Stamped, Begun, Inside
  <2>10. LocalInv(p, g)
    BY <1>1, <2>2, <2>6, <2>7, <2>8, <2>9
    DEF LocalInv, KeyHeld, Stamped, Unfetched, BatchNewer, Filled, Inside, Filling
  <2> QED
    BY <2>7, <2>8, <2>10, LocalStepInv
<1>3. CASE ReadIntervalsFails(p)
  <2>1. PICK g \in Locals :
          g = [get[p] EXCEPT !.pc = "done", !.readFailed = TRUE, !.recorded = TRUE]
    BY <1>1 DEF Locals, Pcs
  <2>2. g.pc = "done" /\ g.end = get[p].end /\ g.now = get[p].now
    BY <1>1, <2>1 DEF Locals
  <2> QED
    BY <1>3, <2>1, <2>2, FinishingInv DEF ReadIntervalsFails, Inside
<1> QED
  BY <1>2, <1>3

\* What a fetch makes of a Get: the bars in hand were obtained since it began,
\* none that had started by then is missing, and the range is credited.
LEMMA FetchStep ==
  ASSUME IndInv, NEW p \in Procs, Fetch(p)
  PROVE  \E r \in get[p].toFetch, credit \in Interval, new \in BarSets, g \in Locals :
           /\ r \in Range /\ \A s \in get[p].toFetch : r.From <= s.From
           /\ credit.From = r.From /\ credit.To = r.To /\ credit.FetchedAt = get[p].now
           /\ \A t \in BarTimes :
                new[t] # NoBar => get[p].since <= new[t] /\ new[t] <= clock
           /\ \A t \in BarTimes : Within(t, r) /\ t <= get[p].since => new[t] # NoBar
           /\ Becomes(p, g) /\ UNCHANGED <<clock, bars, intervals, holder>>
           /\ g.pc = "putBars" /\ g.batch = new
           /\ g.toFetch = get[p].toFetch \ {r} /\ g.fetched = get[p].fetched \cup {credit}
           /\ g.freshBars = MergeBars(get[p].freshBars, new)
           /\ g.start = get[p].start /\ g.end = get[p].end /\ g.now = get[p].now
           /\ g.stored = get[p].stored /\ g.persistFailed = get[p].persistFailed
           /\ g.fetchErr = get[p].fetchErr /\ g.ok = get[p].ok
           /\ g.readFailed = get[p].readFailed
<1>1. get[p] \in Locals /\ clock \in Nat
  BY DEF IndInv, TypeOK
<1>2. PICK r \in get[p].toFetch :
        /\ \A s \in get[p].toFetch : r.From <= s.From
        /\ \E new \in Deliveries(get[p], r) :
             Becomes(p, [get[p] EXCEPT !.pc = "putBars",
                                       !.toFetch = @ \ {r},
                                       !.since = 0,
                                       !.fetched = @ \cup {Credit(r, get[p].now)},
                                       !.batch = new,
                                       !.freshBars = MergeBars(@, new)])
  BY DEF Fetch
<1>3. PICK new \in Deliveries(get[p], r) :
        Becomes(p, [get[p] EXCEPT !.pc = "putBars",
                                  !.toFetch = @ \ {r},
                                  !.since = 0,
                                  !.fetched = @ \cup {Credit(r, get[p].now)},
                                  !.batch = new,
                                  !.freshBars = MergeBars(@, new)])
  BY <1>2
<1>4. r \in Range /\ get[p].now \in Int /\ get[p].freshBars \in BarSets
  BY <1>1, <1>2 DEF Locals
<1>5. /\ new \in BarSets
      /\ \A t \in BarTimes : new[t] # NoBar => get[p].since <= new[t] /\ new[t] <= clock
      /\ \A t \in BarTimes : Within(t, r) /\ t <= get[p].since => new[t] # NoBar
  BY <1>1, <1>3, <1>4, Delivered
<1>6. PICK credit \in Interval : credit = Credit(r, get[p].now)
  BY <1>4 DEF Credit, Interval, Range
<1>7. credit.From = r.From /\ credit.To = r.To /\ credit.FetchedAt = get[p].now
  BY <1>6 DEF Credit
<1>8. MergeBars(get[p].freshBars, new) \in BarSets
  BY <1>4, <1>5, BarOperators
<1>9. PICK g \in Locals :
        g = [get[p] EXCEPT !.pc = "putBars", !.toFetch = @ \ {r}, !.since = 0,
                           !.fetched = @ \cup {credit}, !.batch = new,
                           !.freshBars = MergeBars(@, new)]
  BY <1>1, <1>5, <1>8 DEF Locals, Pcs
<1>10. /\ g.pc = "putBars" /\ g.batch = new
       /\ g.toFetch = get[p].toFetch \ {r} /\ g.fetched = get[p].fetched \cup {credit}
       /\ g.freshBars = MergeBars(get[p].freshBars, new)
       /\ g.start = get[p].start /\ g.end = get[p].end /\ g.now = get[p].now
       /\ g.stored = get[p].stored /\ g.persistFailed = get[p].persistFailed
       /\ g.fetchErr = get[p].fetchErr /\ g.ok = get[p].ok
       /\ g.readFailed = get[p].readFailed
  BY <1>1, <1>9 DEF Locals
<1>11. Becomes(p, g)
  BY <1>3, <1>6, <1>9
<1>12. UNCHANGED <<clock, bars, intervals, holder>>
  BY DEF Fetch
<1> QED
  BY <1>2, <1>4, <1>5, <1>7, <1>10, <1>11, <1>12

\* What is fetched was obtained after everything stored, and after the stamp the
\* range is credited with; the range ends before that stamp.
LEMMA FetchInv == ASSUME IndInv, NEW p \in Procs, Fetch(p) PROVE IndInv'
<1>1. /\ get[p] \in Locals /\ LocalInv(p, get[p]) /\ get[p].pc = "fetch"
      /\ bars \in BarSets /\ clock \in Nat
  BY DEF IndInv, TypeOK, Fetch
<1>2. PICK r \in get[p].toFetch, credit \in Interval, new \in BarSets, g \in Locals :
        /\ r \in Range
        /\ credit.From = r.From /\ credit.To = r.To /\ credit.FetchedAt = get[p].now
        /\ \A t \in BarTimes : new[t] # NoBar => get[p].since <= new[t] /\ new[t] <= clock
        /\ \A t \in BarTimes : Within(t, r) /\ t <= get[p].since => new[t] # NoBar
        /\ Becomes(p, g) /\ UNCHANGED <<clock, bars, intervals, holder>>
        /\ g.pc = "putBars" /\ g.batch = new
        /\ g.toFetch = get[p].toFetch \ {r} /\ g.fetched = get[p].fetched \cup {credit}
        /\ g.end = get[p].end /\ g.now = get[p].now
        /\ g.stored = get[p].stored /\ g.persistFailed = get[p].persistFailed
  BY FetchStep
<1>3. /\ get[p].since \in Int /\ get[p].now \in Int /\ get[p].end \in Int
      /\ r.From \in Int /\ r.To \in Int
      /\ \A t \in BarTimes : t \in Int /\ bars[t] \in Int /\ new[t] \in Int
  BY <1>1, <1>2, TimesAssumption DEF Locals, Range, BarSets, NoBar
<1>4. /\ get[p].now <= get[p].since /\ get[p].since <= clock
      /\ \A t \in BarTimes : bars[t] <= get[p].since
  BY <1>1 DEF LocalInv, Begun
<1>5. KeyHeld(p, g) /\ Stamped(g) /\ Unfetched(g) /\ Begun(g)
  BY <1>1, <1>2 DEF LocalInv, KeyHeld, Stamped, Unfetched, Begun, Inside
<1>6. BatchNewer(g)
  BY <1>1, <1>2, <1>3, <1>4 DEF BatchNewer
<1>7. \A t \in BarTimes :
        /\ MergeBars(bars, new)[t] \in Int
        /\ MergeBars(bars, new)[t] = IF new[t] # NoBar THEN new[t] ELSE bars[t]
  BY <1>1, <1>2, <1>3, BarOperators
<1>8. \A t \in BarTimes : bars[t] <= MergeBars(bars, new)[t]
  BY <1>2, <1>3, <1>4, <1>7
<1>9. ASSUME NEW t \in BarTimes, Within(t, credit)
      PROVE  MergeBars(bars, new)[t] >= get[p].now
  <2>1. r.To <= get[p].end /\ get[p].end <= get[p].now
    BY <1>1 DEF LocalInv, Filled, Filling, Stamped, Inside
  <2>2. Within(t, r) /\ t <= get[p].since
    BY <1>2, <1>3, <1>4, <1>9, <2>1 DEF Within
  <2>3. new[t] # NoBar
    BY <1>2, <2>2
  <2> QED
    BY <1>2, <1>3, <1>4, <1>7, <2>3
<1>10. Filled(g)
  <2>1. ASSUME ~get[p].persistFailed, NEW iv \in g.fetched, NEW t \in BarTimes, Within(t, iv)
        PROVE  MergeBars(bars, new)[t] >= g.now
    <3>1. CASE iv = credit
      BY <1>2, <1>9, <2>1, <3>1
    <3>2. CASE iv \in get[p].fetched
      <4>1. bars[t] >= get[p].now
        BY <1>1, <2>1, <3>2 DEF LocalInv, Filled, Filling, Written
      <4> QED
        BY <1>2, <1>3, <1>7, <1>8, <4>1
    <3> QED
      BY <1>2, <2>1, <3>1, <3>2
  <2> QED
    BY <1>1, <1>2, <2>1 DEF LocalInv, Filled, Filling, Written
<1> QED
  BY <1>2, <1>5, <1>6, <1>10, LocalStepInv DEF LocalInv

LEMMA FetchFailsInv == ASSUME IndInv, NEW p \in Procs, FetchFails(p) PROVE IndInv'
<1>1. get[p] \in Locals /\ LocalInv(p, get[p]) /\ get[p].pc = "fetch"
  BY DEF IndInv, TypeOK, FetchFails
<1>2. PICK g \in Locals :
        g = [get[p] EXCEPT !.pc = "putIntervals", !.toFetch = {}, !.since = 0,
                           !.fetchErr = TRUE]
  BY <1>1 DEF Locals, Pcs
<1>3. LocalInv(p, g)
  BY <1>1, <1>2
  DEF Locals, LocalInv, KeyHeld, Stamped, Unfetched, Begun, BatchNewer, Filled, Written, Inside, Filling
<1> QED
  BY <1>2, <1>3, LocalStepInv DEF FetchFails

\* Writing the batch makes bars newer, so coverage stays backed and honest.
LEMMA PutBarsInv == ASSUME IndInv, NEW p \in Procs, PutBars(p) PROVE IndInv'
<1>1. /\ get[p] \in Locals /\ LocalInv(p, get[p]) /\ get[p].pc = "putBars"
      /\ bars \in BarSets /\ clock \in Nat /\ get[p].batch \in BarSets
      /\ \A t \in BarTimes : bars[t] <= clock
  BY DEF IndInv, TypeOK, Past, PutBars, Locals
<1>2. bars' = MergeBars(bars, get[p].batch) /\ UNCHANGED <<clock, intervals, holder>>
  BY DEF PutBars
<1>3. PICK g \in Locals :
        /\ g = FetchNext([get[p] EXCEPT !.batch = NoBars], "putIntervals")
        /\ g.pc \in {"fetch", "putIntervals"} /\ (g.pc = "fetch" => g.since = clock)
        /\ g.end = get[p].end /\ g.now = get[p].now
        /\ g.toFetch = get[p].toFetch /\ g.fetched = get[p].fetched
        /\ g.stored = get[p].stored /\ g.persistFailed = get[p].persistFailed
  <2>1. PICK put \in Locals : put = [get[p] EXCEPT !.batch = NoBars]
    BY <1>1, IdleTyped DEF Locals
  <2>2. /\ put.end = get[p].end /\ put.now = get[p].now
        /\ put.toFetch = get[p].toFetch /\ put.fetched = get[p].fetched
        /\ put.stored = get[p].stored /\ put.persistFailed = get[p].persistFailed
    BY <1>1, <2>1 DEF Locals
  <2>3. "putIntervals" \in Pcs \ {"fetch"}
    BY DEF Pcs
  <2>4. PICK g : g = FetchNext(put, "putIntervals")
    OBVIOUS
  <2>5. /\ g \in Locals /\ g.pc \in {"fetch", "putIntervals"}
        /\ g.pc = "fetch" => g.since = clock
        /\ g.end = put.end /\ g.now = put.now
        /\ g.toFetch = put.toFetch /\ g.fetched = put.fetched
        /\ g.stored = put.stored /\ g.persistFailed = put.persistFailed
    BY <1>1, <2>3, <2>4, FetchNextIs
  <2> QED
    BY <2>1, <2>2, <2>4, <2>5
<1>4. get[p].now \in Int
  BY <1>1 DEF Locals
<1>5. bars' \in BarSets /\ \A t \in BarTimes : bars[t] <= bars'[t] /\ bars'[t] <= clock
  <2>1. \A t \in BarTimes :
          get[p].batch[t] # NoBar => bars[t] <= get[p].batch[t] /\ get[p].batch[t] <= clock
    BY <1>1 DEF LocalInv, BatchNewer
  <2>2. \A t \in BarTimes : bars[t] \in Int
    BY <1>1 DEF BarSets, NoBar
  <2> QED
    BY <1>1, <1>2, <2>1, <2>2, BarOperators
<1>6. Past'
  BY <1>1, <1>2, <1>5 DEF IndInv, Past
<1>7. LocalInv(p, g)'
  <2>1. Filled(g)'
    BY <1>1, <1>2, <1>3 DEF LocalInv, Filled, Filling, Written
  <2>2. Begun(g)'
    BY <1>1, <1>2, <1>3, <1>4, <1>5 DEF LocalInv, Stamped, Begun, Inside
  <2> QED
    BY <1>1, <1>2, <1>3, <2>1, <2>2 DEF LocalInv, KeyHeld, Stamped, Unfetched, BatchNewer, Inside
<1>8. CoverageBacked' /\ CoverageHonest'
  <2>1. \A t \in BarTimes : bars[t] \in Nat \cup {NoBar} /\ bars'[t] \in Nat \cup {NoBar}
    BY <1>1, <1>5 DEF BarSets
  <2>2. CoverageBacked'
    BY <1>2, <1>5, <2>1 DEF IndInv, CoverageBacked, NoBar
  <2>3. \A iv \in intervals : iv.FetchedAt \in Int
    BY DEF IndInv, TypeOK, Interval
  <2>4. CoverageHonest'
    BY <1>2, <1>5, <2>1, <2>3 DEF IndInv, CoverageHonest, NoBar
  <2> QED
    BY <2>2, <2>4
<1>9. \A q \in Procs \ {p} : get[q].pc \notin Inside
  BY <1>1 DEF IndInv, LocalInv, KeyHeld, Inside
<1>10. Becomes(p, g) /\ intervals' \in SUBSET Interval /\ holder' \in Procs \cup {NoProc}
  BY <1>2, <1>3 DEF PutBars, IndInv, TypeOK
<1> QED
  BY <1>2, <1>5, <1>6, <1>7, <1>8, <1>9, <1>10, StepInv

LEMMA PutBarsFailsInv == ASSUME IndInv, NEW p \in Procs, PutBarsFails(p) PROVE IndInv'
<1>1. /\ get[p] \in Locals /\ LocalInv(p, get[p]) /\ get[p].pc = "putBars"
      /\ clock \in Nat /\ \A t \in BarTimes : bars[t] <= clock
  BY DEF IndInv, TypeOK, Past, PutBarsFails
<1>2. PICK put \in Locals : put = [get[p] EXCEPT !.batch = NoBars, !.persistFailed = TRUE]
  BY <1>1, IdleTyped DEF Locals
<1>3. /\ put.end = get[p].end /\ put.now = get[p].now
      /\ put.toFetch = get[p].toFetch /\ put.fetched = get[p].fetched
      /\ put.stored = get[p].stored /\ put.persistFailed
  BY <1>1, <1>2 DEF Locals
<1>4. PICK g : g = FetchNext(put, "putIntervals")
  OBVIOUS
<1>5. /\ g \in Locals /\ g.pc \in {"fetch", "putIntervals"}
      /\ g.pc = "fetch" => g.since = clock
      /\ g.end = put.end /\ g.now = put.now
      /\ g.toFetch = put.toFetch /\ g.fetched = put.fetched
      /\ g.stored = put.stored /\ g.persistFailed = put.persistFailed
  <2>1. "putIntervals" \in Pcs \ {"fetch"}
    BY DEF Pcs
  <2> QED
    BY <1>1, <1>4, <2>1, FetchNextIs
<1>6. Begun(g)
  BY <1>1, <1>3, <1>5 DEF LocalInv, Stamped, Begun, Inside, Locals
<1>7. LocalInv(p, g)
  BY <1>1, <1>3, <1>5, <1>6
  DEF LocalInv, KeyHeld, Stamped, Unfetched, BatchNewer, Filled, Inside, Filling
<1> QED
  BY <1>2, <1>4, <1>5, <1>7, LocalStepInv DEF PutBarsFails

\* Normalizing claims no more than the stored coverage and the ranges fetched,
\* which are backed, and no fresher in what is still live.
LEMMA PutIntervalsInv == ASSUME IndInv, NEW p \in Procs, PutIntervals(p) PROVE IndInv'
<1>1. /\ get[p] \in Locals /\ LocalInv(p, get[p]) /\ get[p].pc = "putIntervals"
      /\ ~get[p].persistFailed
      /\ bars \in BarSets /\ clock \in Nat \ {0}
  BY DEF IndInv, TypeOK, Past, PutIntervals, MayPersist
<1>2. PICK in \in SUBSET Interval, h \in Int :
        in = intervals \cup get[p].fetched /\ h = get[p].now - LiveHorizon
  <2>1. intervals \cup get[p].fetched \in SUBSET Interval
    BY <1>1 DEF Locals, IndInv, TypeOK
  <2>2. get[p].now - LiveHorizon \in Int
    BY <1>1, RangesAssumption DEF Locals
  <2> QED
    BY <2>1, <2>2
<1>3. /\ intervals' = NormalizeCoverage(in, h)
      /\ UNCHANGED <<clock, bars, holder>>
  BY <1>1, <1>2 DEF PutIntervals, LocalInv, Filled, Filling
<1>4. get[p].now \in Int /\ get[p].now <= clock
  BY <1>1 DEF Locals, LocalInv, Stamped, Inside
<1>5. \A iv \in get[p].fetched : \A t \in BarTimes :
        iv.FetchedAt = get[p].now /\ (Within(t, iv) => bars[t] >= get[p].now)
  BY <1>1 DEF LocalInv, Filled, Filling, Written
<1>6. intervals' \in SUBSET Interval
  BY <1>2, <1>3, NormalizeSegments
<1>7. CoverageBacked'
  <2> SUFFICES ASSUME NEW s \in NormalizeCoverage(in, h), NEW t \in BarTimes, Within(t, s)
               PROVE  bars[t] # NoBar
    BY <1>3 DEF CoverageBacked
  <2>1. PICK iv \in in : Within(t, iv)
    <3>1. t \in Int
      BY TimesAssumption
    <3> QED
      BY <3>1, NormalizeCoversNoMore DEF Within
  <2>2. CASE iv \in intervals
    BY <2>1, <2>2 DEF IndInv, CoverageBacked
  <2>3. CASE iv \in get[p].fetched
    <3>1. bars[t] >= get[p].now
      BY <1>5, <2>1, <2>3
    <3> QED
      BY <1>1, <3>1 DEF Locals, NoBar
  <2> QED
    BY <1>2, <2>1, <2>2, <2>3
<1>8. CoverageHonest'
  <2> SUFFICES ASSUME NEW s \in NormalizeCoverage(in, h), NEW t \in BarTimes, Within(t, s),
                      t > clock - LiveHorizon
               PROVE  bars[t] >= s.FetchedAt
    BY <1>3 DEF CoverageHonest
  <2>1. h < t
    BY <1>1, <1>2, <1>4, TimesAssumption, RangesAssumption
  <2>2. PICK iv \in in : Within(t, iv) /\ iv.FetchedAt = s.FetchedAt
    <3>1. t \in Int
      BY TimesAssumption
    <3>2. s.From <= t /\ t <= s.To
      BY DEF Within
    <3>3. \E iv \in in : iv.From <= t /\ t <= iv.To /\ iv.FetchedAt = s.FetchedAt
      BY <2>1, <3>1, <3>2, NormalizeKeepsStamps
    <3> QED
      BY <3>3 DEF Within
  <2>3. CASE iv \in intervals
    BY <2>2, <2>3 DEF IndInv, CoverageHonest
  <2>4. CASE iv \in get[p].fetched
    BY <1>5, <2>2, <2>4
  <2> QED
    BY <1>2, <2>2, <2>3, <2>4

<1>9. PICK g \in Locals : g = [get[p] EXCEPT !.pc = AfterPersist(get[p], FALSE)]
  BY <1>1 DEF Locals, Pcs, AfterPersist
<1>10. g.pc \in {"done", "serve"} /\ g.end = get[p].end /\ g.now = get[p].now
  BY <1>1, <1>9 DEF Locals, AfterPersist
<1>11. LocalInv(p, g)'
  BY <1>1, <1>3, <1>10
  DEF LocalInv, KeyHeld, Stamped, Unfetched, Begun, BatchNewer, Filled, Inside, Filling
<1>12. \A q \in Procs \ {p} : get[q].pc \notin Inside
  BY <1>1 DEF IndInv, LocalInv, KeyHeld, Inside
<1>13. /\ Becomes(p, g) /\ Past' /\ clock' = clock
       /\ bars' \in BarSets /\ holder' \in Procs \cup {NoProc}
  BY <1>3, <1>9 DEF PutIntervals, IndInv, TypeOK, Past
<1> QED
  BY <1>6, <1>7, <1>8, <1>11, <1>12, <1>13, StepInv

LEMMA NotPersistedInv ==
  ASSUME IndInv, NEW p \in Procs, PutIntervalsFails(p) \/ SkipIntervals(p)
  PROVE  IndInv'
<1>1. get[p] \in Locals /\ get[p].pc = "putIntervals"
  BY DEF IndInv, TypeOK, PutIntervalsFails, SkipIntervals
<1>2. CASE PutIntervalsFails(p)
  <2>1. PICK g \in Locals : g = [get[p] EXCEPT !.pc = AfterPersist(get[p], TRUE),
                                               !.persistFailed = TRUE]
    BY <1>1 DEF Locals, Pcs, AfterPersist
  <2>2. g.pc \in {"done", "degrade"} /\ g.end = get[p].end /\ g.now = get[p].now
    BY <1>1, <2>1 DEF Locals, AfterPersist
  <2> QED
    BY <1>1, <1>2, <2>1, <2>2, FinishingInv DEF PutIntervalsFails, Inside
<1>3. CASE SkipIntervals(p)
  <2>1. PICK g \in Locals :
          g = [get[p] EXCEPT !.pc = AfterPersist(get[p], get[p].persistFailed)]
    BY <1>1 DEF Locals, Pcs, AfterPersist
  <2>2. g.pc \in {"done", "serve", "degrade"} /\ g.end = get[p].end /\ g.now = get[p].now
    BY <1>1, <2>1 DEF Locals, AfterPersist
  <2> QED
    BY <1>1, <1>3, <2>1, <2>2, FinishingInv DEF SkipIntervals, Inside
<1> QED
  BY <1>2, <1>3

LEMMA AnswerInv ==
  ASSUME IndInv, NEW p \in Procs,
         Serve(p) \/ ServeFails(p) \/ Degrade(p) \/ DegradeFails(p)
  PROVE  IndInv'
<1>1. /\ get[p] \in Locals /\ get[p].pc \in {"serve", "degrade"}
      /\ get[p].start \in Int /\ get[p].end \in Int
      /\ bars \in BarSets /\ get[p].freshBars \in BarSets
      /\ UNCHANGED <<clock, bars, intervals, holder>>
  BY DEF IndInv, TypeOK, Locals, Serve, ServeFails, Degrade, DegradeFails
<1>2. ASSUME NEW b \in BarSets, Answer(p, b) PROVE IndInv'
  <2>1. PICK resp \in BarSets : resp = Clip(b, get[p].start, get[p].end)
    BY <1>1, BarOperators
  <2>2. PICK g \in Locals : g = [get[p] EXCEPT !.pc = "done", !.ok = TRUE, !.resp = resp]
    BY <1>1 DEF Locals, Pcs
  <2>3. g.pc = "done" /\ g.end = get[p].end /\ g.now = get[p].now
    BY <1>1, <2>2 DEF Locals
  <2> QED
    BY <1>1, <1>2, <2>1, <2>2, <2>3, FinishingInv DEF Answer, Inside
<1>3. CASE Serve(p)
  BY <1>1, <1>2, <1>3 DEF Serve
<1>4. CASE Degrade(p)
  <2>1. PICK b \in BarSets : b = MergeBars(bars, get[p].freshBars)
    BY <1>1, BarOperators
  <2> QED
    BY <1>2, <1>4, <2>1 DEF Degrade
<1>5. CASE ServeFails(p)
  <2>1. PICK read \in BarSets :
          Becomes(p, [get[p] EXCEPT !.pc = "done", !.readFailed = TRUE, !.resp = read])
    BY <1>1, <1>5, PartialTyped DEF ServeFails
  <2>2. PICK g \in Locals :
          g = [get[p] EXCEPT !.pc = "done", !.readFailed = TRUE, !.resp = read]
    BY <1>1 DEF Locals, Pcs
  <2>3. g.pc = "done" /\ g.end = get[p].end /\ g.now = get[p].now
    BY <1>1, <2>2 DEF Locals
  <2> QED
    BY <1>1, <1>5, <2>1, <2>2, <2>3, FinishingInv DEF ServeFails, Inside
<1>6. CASE DegradeFails(p)
  <2>1. PICK resp \in BarSets :
          Becomes(p, [get[p] EXCEPT !.pc = "done", !.ok = TRUE, !.readFailed = TRUE,
                                    !.recorded = TRUE, !.resp = resp])
    BY <1>1, <1>6, PartialTyped, BarOperators DEF DegradeFails
  <2>2. PICK g \in Locals : g = [get[p] EXCEPT !.pc = "done", !.ok = TRUE,
                                 !.readFailed = TRUE, !.recorded = TRUE, !.resp = resp]
    BY <1>1 DEF Locals, Pcs
  <2>3. g.pc = "done" /\ g.end = get[p].end /\ g.now = get[p].now
    BY <1>1, <2>2 DEF Locals
  <2> QED
    BY <1>1, <1>6, <2>1, <2>2, <2>3, FinishingInv DEF DegradeFails, Inside
<1> QED
  BY <1>3, <1>4, <1>5, <1>6

LEMMA IdleLocal == IndInv => \A p \in Procs : LocalInv(p, Idle)
BY DEF IndInv, Past, LocalInv, KeyHeld, Stamped, Unfetched, Begun, BatchNewer, Filled, Inside,
       Filling, Idle

LEMMA ReturnInv == ASSUME IndInv, NEW p \in Procs, Return(p) PROVE IndInv'
<1>1. /\ get[p].pc = "done" /\ LocalInv(p, get[p])
      /\ UNCHANGED <<clock, bars, intervals>> /\ holder' = NoProc
  BY DEF IndInv, Return
<1>2. PICK g \in Locals : g = Idle
  BY IdleTyped
<1>3. LocalInv(p, g)'
  BY <1>1, <1>2, IdleLocal
  DEF LocalInv, KeyHeld, Stamped, Unfetched, Begun, BatchNewer, Filled, Inside, Filling, Idle
<1>4. \A q \in Procs \ {p} : get[q].pc \notin Inside
  BY <1>1 DEF IndInv, LocalInv, KeyHeld, Inside
<1>5. /\ Becomes(p, g) /\ Past' /\ CoverageBacked' /\ CoverageHonest'
      /\ bars' \in BarSets /\ intervals' \in SUBSET Interval
  BY <1>1, <1>2 DEF Return, IndInv, TypeOK, Past, CoverageBacked, CoverageHonest
<1> QED
  BY <1>1, <1>3, <1>4, <1>5, StepInv

-----------------------------------------------------------------------------
(* The clock and the crash *)

LEMMA TickInv == ASSUME IndInv, Tick PROVE IndInv'
<1>1. clock \in Nat \ {0} /\ clock' = clock + 1 /\ UNCHANGED <<bars, intervals, holder, get>>
  BY DEF IndInv, Past, Tick
<1>2. TypeOK' /\ CoverageBacked'
  BY <1>1 DEF IndInv, TypeOK, CoverageBacked
<1>3. \A t \in BarTimes : bars[t] \in Int
  BY DEF IndInv, TypeOK, BarSets, NoBar
<1>4. Past'
  BY <1>1, <1>3 DEF IndInv, Past
<1>5. CoverageHonest'
  BY <1>1, TimesAssumption, RangesAssumption DEF IndInv, CoverageHonest
<1>6. ASSUME NEW p \in Procs PROVE LocalInv(p, get[p])'
  <2>1. /\ LocalInv(p, get[p]) /\ get[p].end \in Int /\ get[p].now \in Int
        /\ get[p].since \in Int /\ get[p].batch \in BarSets
    BY DEF IndInv, TypeOK, Locals
  <2>2. \A t \in BarTimes : get[p].batch[t] \in Int
    BY <2>1 DEF BarSets, NoBar
  <2> QED
    BY <1>1, <2>1, <2>2
    DEF LocalInv, KeyHeld, Stamped, Unfetched, Begun, BatchNewer, Filled, Written
<1> QED
  BY <1>2, <1>4, <1>5, <1>6 DEF IndInv

LEMMA CrashInv == ASSUME IndInv, Crash PROVE IndInv'
<1>1. /\ get' = [p \in Procs |-> Idle] /\ holder' = NoProc /\ clock' = clock
      /\ \/ UNCHANGED <<bars, intervals>>
         \/ bars' = NoBars /\ intervals' = {}
  BY DEF Crash
<1>2. TypeOK'
  BY <1>1, IdleTyped DEF IndInv, TypeOK
<1>3. Past' /\ CoverageBacked' /\ CoverageHonest'
  BY <1>1 DEF IndInv, Past, CoverageBacked, CoverageHonest, NoBars, NoBar
<1>4. \A p \in Procs : LocalInv(p, Idle)'
  BY <1>1 DEF IndInv, Past, LocalInv, KeyHeld, Stamped, Unfetched, Begun, BatchNewer, Filled,
              Inside, Filling, Idle
<1> QED
  BY <1>1, <1>2, <1>3, <1>4 DEF IndInv

-----------------------------------------------------------------------------
(* The theorems *)

LEMMA InitInv == Init => IndInv
<1> SUFFICES ASSUME Init PROVE IndInv
  OBVIOUS
<1>1. clock \in Nat \ {0}
  BY TimesAssumption DEF Init
<1>2. TypeOK
  BY <1>1, IdleTyped DEF Init, TypeOK
<1>3. Past /\ CoverageBacked /\ CoverageHonest
  BY <1>1 DEF Init, Past, CoverageBacked, CoverageHonest, NoBars, NoBar
<1>4. \A p \in Procs : LocalInv(p, Idle)
  BY <1>1 DEF Init, LocalInv, KeyHeld, Stamped, Unfetched, Begun, BatchNewer, Filled, Inside,
              Filling, Idle
<1> QED
  BY <1>2, <1>3, <1>4 DEF Init, IndInv

LEMMA NextInv == IndInv /\ [Next]_vars => IndInv'
<1> SUFFICES ASSUME IndInv, [Next]_vars PROVE IndInv'
  OBVIOUS
<1>1. CASE UNCHANGED vars
  BY <1>1 DEF vars, IndInv, TypeOK, Past, CoverageBacked, CoverageHonest, LocalInv,
              KeyHeld, Stamped, Unfetched, Begun, BatchNewer, Filled, Written
<1>2. ASSUME NEW p \in Procs, Call(p) \/ Enter(p) \/ Lock(p) PROVE IndInv'
  BY <1>2, CallInv, EnterInv, LockInv
<1>3. ASSUME NEW p \in Procs, Work(p) PROVE IndInv'
  BY <1>3, ReadIntervalsInv, FetchInv, FetchFailsInv, PutBarsInv, PutBarsFailsInv,
     PutIntervalsInv, NotPersistedInv, AnswerInv, ReturnInv DEF Work
<1> QED
  BY <1>1, <1>2, <1>3, TickInv, CrashInv DEF Next

THEOREM InvariantHolds == Spec => []IndInv
BY InitInv, NextInv, PTL DEF Spec

\* Every variable keeps its type: in particular no empty interval is planned,
\* credited or stored.
THEOREM TypeCorrect == Spec => []TypeOK
<1>1. IndInv => TypeOK
  BY DEF IndInv
<1> QED
  BY <1>1, InvariantHolds, PTL

\* Coverage never claims a bar that is not stored.
THEOREM Backed == Spec => []CoverageBacked
<1>1. IndInv => CoverageBacked
  BY DEF IndInv
<1> QED
  BY <1>1, InvariantHolds, PTL

\* Coverage never claims a live bar fresher than it is.
THEOREM Honest == Spec => []CoverageHonest
<1>1. IndInv => CoverageHonest
  BY DEF IndInv
<1> QED
  BY <1>1, InvariantHolds, PTL

\* Bars change when a batch is written, which makes them newer, and when the
\* memory backend forgets them in a crash.
THEOREM NeverRegress == Spec => BarsNeverRegress
<1> DEFINE Newer == Persistent \/ bars' # NoBars => \A t \in BarTimes : bars'[t] >= bars[t]
<1>1. ASSUME IndInv, [Next]_vars PROVE Newer
  <2>1. bars \in BarSets /\ \A t \in BarTimes : bars[t] \in Int
    BY <1>1 DEF IndInv, TypeOK, BarSets, NoBar
  <2>2. CASE bars' = bars
    BY <2>1, <2>2
  <2>3. ASSUME NEW p \in Procs, PutBars(p) PROVE Newer
    <3>1. /\ bars' = MergeBars(bars, get[p].batch) /\ get[p].batch \in BarSets
          /\ get[p].pc = "putBars" /\ LocalInv(p, get[p])
      BY <1>1, <2>3 DEF PutBars, IndInv, TypeOK, Locals
    <3>2. \A t \in BarTimes : get[p].batch[t] # NoBar => bars[t] <= get[p].batch[t]
      BY <3>1 DEF LocalInv, BatchNewer
    <3>3. \A t \in BarTimes : bars'[t] = IF get[p].batch[t] # NoBar THEN get[p].batch[t] ELSE bars[t]
      BY <2>1, <3>1, BarOperators
    <3>4. \A t \in BarTimes : get[p].batch[t] \in Int
      BY <3>1 DEF BarSets, NoBar
    <3> QED
      BY <2>1, <3>2, <3>3, <3>4
  <2>4. CASE Crash
    BY <2>1, <2>4 DEF Crash
  <2>5. ASSUME NEW p \in Procs, Call(p) \/ Enter(p) \/ Lock(p) \/ Work(p), ~PutBars(p)
        PROVE  bars' = bars
    BY <2>5
    DEF Call, Enter, Lock, Work, ReadIntervals, ReadIntervalsFails, Fetch, FetchFails,
        PutBarsFails, PutIntervals, PutIntervalsFails, SkipIntervals, Serve, ServeFails,
        Degrade, DegradeFails, Return
  <2> QED
    BY <1>1, <2>2, <2>3, <2>4, <2>5 DEF Next, Tick, vars
<1>2. IndInv /\ [Next]_vars => [Newer]_vars
  BY <1>1
<1> QED
  BY <1>2, InvariantHolds, PTL DEF Spec, BarsNeverRegress

-----------------------------------------------------------------------------
(* The promise, and the coverage *)

\* The bars a caller is promised, and what is promised of each.
Due(g, t)        == g.start <= t /\ t <= g.end /\ t <= g.now - Ttl
Current(g, b, t) == b # NoBar /\ (t > clock - LiveHorizon => b >= g.now - Ttl)

\* What is known of the bars of a window, in the repository or in memory.
Held(g) == MergeBars(Written(g), g.freshBars)

\* A window is never empty.
Opened(g) == g.pc # "idle" => g.start < g.end

\* A call in whose plan nothing was done yet, and one that has not answered.
Untouched(g) ==
  /\ g.pc \in {"idle", "called", "waiting", "locked"} => g.freshBars = NoBars /\ ~g.fetchErr
  /\ g.pc # "done" => ~g.ok

\* What is left to fetch was planned against the coverage that is still stored.
Planned(g) ==
  g.pc \in Filling =>
    g.toFetch \subseteq Plan(intervals, g.start, g.end, g.now, Ttl, LiveHorizon)

\* Coverage is written when nothing is left to fetch, and a call that answers fetched
\* all it planned.
Exhausted(g) ==
  /\ g.pc \in {"putIntervals", "serve", "degrade"} => g.toFetch = {}
  /\ g.pc \in {"serve", "degrade"} => ~g.fetchErr
  /\ g.pc = "serve" => ~g.persistFailed

\* What was fetched is in memory, and in the repository unless a write failed.
FreshHeld(g) ==
  /\ g.pc = "putBars" => \A t \in BarTimes : g.batch[t] # NoBar => g.freshBars[t] # NoBar
  /\ g.pc \in Filling \cup {"serve"} /\ ~g.persistFailed =>
       \A t \in BarTimes : g.freshBars[t] # NoBar => Written(g)[t] >= g.freshBars[t]

\* Every bar that is due is there, as current as promised, or is going to be fetched.
Promised(g) ==
  g.pc \in Filling \cup {"serve", "degrade"} /\ ~g.fetchErr =>
    \A t \in BarTimes : Due(g, t) =>
      Current(g, Held(g)[t], t) \/ \E r \in g.toFetch : Within(t, r)

Served(g) ==
  g.pc = "done" /\ g.ok /\ ~g.readFailed =>
    \A t \in BarTimes : Due(g, t) => Current(g, g.resp[t], t)

CallInv2(g) ==
  /\ Opened(g) /\ Untouched(g) /\ Planned(g) /\ Exhausted(g)
  /\ FreshHeld(g) /\ Promised(g) /\ Served(g) /\ Bounded(g.fetched)

PromiseInv ==
  /\ clock > Epoch
  /\ Bounded(intervals)
  /\ \A p \in Procs : CallInv2(get[p])

LEMMA BoundedSets ==
  /\ Bounded({})
  /\ \A iv \in Interval : Bounded({iv})
  /\ \A A, B \in SUBSET Interval : Bounded(A) /\ Bounded(B) => Bounded(A \cup B)
<1>1. Bounded({})
  BY DEF Bounded
<1>2. ASSUME NEW iv \in Interval PROVE Bounded({iv})
  <2>1. iv.From \in Int /\ iv.To \in Int /\ iv.FetchedAt \in Int
    BY DEF Interval
  <2>2. PICK low \in Int : low <= iv.From /\ low <= iv.FetchedAt
    BY <2>1
  <2>3. PICK high \in Int : iv.To <= high /\ iv.FetchedAt <= high
    BY <2>1
  <2> QED
    BY <2>2, <2>3 DEF Bounded
<1>3. ASSUME NEW A \in SUBSET Interval, NEW B \in SUBSET Interval, Bounded(A), Bounded(B)
      PROVE  Bounded(A \cup B)
  <2>1. PICK la \in Int, ha \in Int :
          \A iv \in A : la <= iv.From /\ iv.To <= ha /\ la <= iv.FetchedAt /\ iv.FetchedAt <= ha
    BY <1>3 DEF Bounded
  <2>2. PICK lb \in Int, hb \in Int :
          \A iv \in B : lb <= iv.From /\ iv.To <= hb /\ lb <= iv.FetchedAt /\ iv.FetchedAt <= hb
    BY <1>3 DEF Bounded
  <2>3. PICK low \in Int : low <= la /\ low <= lb
    OBVIOUS
  <2>4. PICK high \in Int : ha <= high /\ hb <= high
    OBVIOUS
  <2>5. \A iv \in A \cup B : iv.From \in Int /\ iv.To \in Int /\ iv.FetchedAt \in Int
    BY DEF Interval
  <2>6. \A iv \in A \cup B :
          low <= iv.From /\ iv.To <= high /\ low <= iv.FetchedAt /\ iv.FetchedAt <= high
    BY <2>1, <2>2, <2>3, <2>4, <2>5
  <2> QED
    BY <2>6 DEF Bounded
<1> QED
  BY <1>1, <1>2, <1>3

\* A step of one process preserves it when it does for its own locals.
LEMMA PromiseStep ==
  ASSUME IndInv, PromiseInv, NEW p \in Procs, NEW g \in Locals, Becomes(p, g),
         clock' = clock, Bounded(intervals)', CallInv2(g)',
         \A q \in Procs \ {p} : get[q].pc \in Inside => UNCHANGED <<bars, intervals>>
  PROVE  PromiseInv'
<1>1. get'[p] = g /\ \A q \in Procs \ {p} : get'[q] = get[q]
  BY Becoming DEF IndInv
<1>2. ASSUME NEW q \in Procs \ {p} PROVE CallInv2(get[q])'
  <2>1. CallInv2(get[q]) /\ get'[q] = get[q]
    BY <1>1 DEF PromiseInv
  <2>2. CASE get[q].pc \in Inside
    BY <2>1, <2>2
    DEF CallInv2, Opened, Untouched, Planned, Exhausted, FreshHeld, Promised, Served, Held,
        Written, Current, Due
  <2>3. CASE get[q].pc \notin Inside
    BY <2>1, <2>3
    DEF CallInv2, Opened, Untouched, Planned, Exhausted, FreshHeld, Promised, Served,
        Inside, Filling
  <2> QED
    BY <2>2, <2>3
<1> QED
  BY <1>1, <1>2 DEF PromiseInv

\* In particular when it touches its own locals only.
LEMMA PromiseLocalStep ==
  ASSUME IndInv, PromiseInv, NEW p \in Procs, NEW g \in Locals, Becomes(p, g), CallInv2(g),
         UNCHANGED <<clock, bars, intervals>>
  PROVE  PromiseInv'
<1>1. Bounded(intervals)'
  BY DEF PromiseInv, Bounded
<1>2. CallInv2(g)'
  BY DEF CallInv2, Opened, Untouched, Planned, Exhausted, FreshHeld, Promised, Served, Held,
         Written, Current, Due, Bounded
<1> QED
  BY <1>1, <1>2, PromiseStep

LEMMA CallPromise == ASSUME IndInv, PromiseInv, NEW p \in Procs, Call(p) PROVE PromiseInv'
<1>1. get[p] \in Locals /\ clock \in Nat /\ CallInv2(get[p]) /\ get[p].pc = "idle"
  BY DEF IndInv, TypeOK, PromiseInv, Call
<1>2. PICK l \in Lookbacks :
        Becomes(p, [get[p] EXCEPT !.pc = "called", !.start = Start(l, clock), !.end = clock])
  BY DEF Call
<1>3. Start(l, clock) \in Int /\ Start(l, clock) < clock
  BY <1>1, TimesAssumption, RangesAssumption DEF Start, PromiseInv
<1>4. PICK g \in Locals :
        g = [get[p] EXCEPT !.pc = "called", !.start = Start(l, clock), !.end = clock]
  <2>1. get[p] \in Locals /\ clock \in Int /\ Start(l, clock) \in Int
    BY <1>1, <1>3
  <2> QED
    BY <2>1 DEF Locals, Pcs
<1>5. /\ g.pc = "called" /\ g.start = Start(l, clock) /\ g.end = clock
      /\ g.freshBars = get[p].freshBars /\ g.fetchErr = get[p].fetchErr
      /\ g.ok = get[p].ok /\ g.fetched = get[p].fetched
  BY <1>1, <1>4 DEF Locals
<1>6. CallInv2(g)
  BY <1>1, <1>3, <1>5
  DEF CallInv2, Opened, Untouched, Planned, Exhausted, FreshHeld, Promised, Served, Filling
<1> QED
  BY <1>2, <1>4, <1>6, PromiseLocalStep DEF Call

LEMMA EnterPromise ==
  ASSUME IndInv, PromiseInv, NEW p \in Procs, Enter(p) \/ Lock(p) PROVE PromiseInv'
<1>1. /\ get[p] \in Locals /\ clock \in Nat /\ CallInv2(get[p])
      /\ get[p].pc \in {"called", "waiting"}
      /\ UNCHANGED <<clock, bars, intervals>>
  BY DEF IndInv, TypeOK, PromiseInv, Enter, Lock
<1>2. PICK g \in Locals : /\ g \in {[get[p] EXCEPT !.pc = "waiting", !.now = clock],
                                   [get[p] EXCEPT !.pc = "locked"]}
                          /\ Becomes(p, g)
  <2>1. /\ [get[p] EXCEPT !.pc = "waiting", !.now = clock] \in Locals
        /\ [get[p] EXCEPT !.pc = "locked"] \in Locals
    BY <1>1 DEF Locals, Pcs
  <2>2. \/ Becomes(p, [get[p] EXCEPT !.pc = "waiting", !.now = clock])
        \/ Becomes(p, [get[p] EXCEPT !.pc = "locked"])
    BY DEF Enter, Lock
  <2> QED
    BY <2>1, <2>2
<1>3. /\ g.pc \in {"waiting", "locked"} /\ g.start = get[p].start /\ g.end = get[p].end
      /\ g.freshBars = get[p].freshBars /\ g.fetchErr = get[p].fetchErr
      /\ g.ok = get[p].ok /\ g.fetched = get[p].fetched
  BY <1>1, <1>2 DEF Locals
<1>4. CallInv2(g)
  BY <1>1, <1>3
  DEF CallInv2, Opened, Untouched, Planned, Exhausted, FreshHeld, Promised, Served, Filling
<1> QED
  BY <1>1, <1>2, <1>4, PromiseLocalStep

\* Every bar that is due is there or is planned to be fetched: the tick that starts
\* with it, or the last of the window, is adequately covered or is not.
LEMMA PlanPromises ==
  ASSUME IndInv, PromiseInv, NEW p \in Procs, get[p].pc = "locked",
         NEW t \in BarTimes, Due(get[p], t)
  PROVE  \/ Current(get[p], bars[t], t)
         \/ \E r \in Plan(intervals, get[p].start, get[p].end, get[p].now, Ttl, LiveHorizon) :
              Within(t, r)
<1>1. PICK start \in Int, end \in Int, now \in Nat :
        start = get[p].start /\ end = get[p].end /\ now = get[p].now
  BY DEF IndInv, TypeOK, Locals
<1>2. start < end /\ now <= clock /\ clock \in Nat
  BY <1>1 DEF IndInv, PromiseInv, CallInv2, Opened, LocalInv, Stamped, Inside, TypeOK
<1>3. t \in Nat /\ start <= t /\ t <= end /\ t <= now - Ttl /\ Ttl \in Nat /\ LiveHorizon \in Nat
  BY <1>1, TimesAssumption, RangesAssumption DEF Due
<1>4. PICK u \in start .. (end - 1) : u <= t /\ t <= u + 1
  <2>1. CASE t < end
    BY <1>2, <1>3, <2>1
  <2>2. CASE t = end
    <3>1. t - 1 \in start .. (end - 1)
      BY <1>2, <1>3, <2>2
    <3> QED
      BY <3>1, <1>3
  <2> QED
    BY <1>3, <2>1, <2>2
<1>5. CASE NoFetchNeeded(intervals, u, now, Ttl, LiveHorizon)
  <2>1. PICK iv \in intervals : Covers(iv, u, now, Ttl, LiveHorizon)
    BY <1>5 DEF NoFetchNeeded
  <2>2. iv \in Interval /\ iv.From \in Int /\ iv.To \in Int /\ iv.FetchedAt \in Int
    BY DEF IndInv, TypeOK, Interval
  <2>3. Within(t, iv)
    BY <1>3, <1>4, <2>1, <2>2 DEF Covers, Ticks, Within
  <2>4. bars[t] # NoBar /\ bars[t] \in Int
    BY <2>3 DEF IndInv, CoverageBacked, TypeOK, BarSets, NoBar
  <2>5. ASSUME t > clock - LiveHorizon PROVE bars[t] >= now - Ttl
    <3>1. ~(u < now - LiveHorizon)
      BY <1>2, <1>3, <1>4, <2>5
    <3>2. iv.FetchedAt >= now - Ttl
      BY <2>1, <3>1 DEF Covers
    <3>3. bars[t] >= iv.FetchedAt
      BY <2>3, <2>5 DEF IndInv, CoverageHonest
    <3> QED
      BY <1>3, <2>2, <2>4, <3>2, <3>3
  <2> QED
    BY <1>1, <2>4, <2>5 DEF Current
<1>6. CASE ~NoFetchNeeded(intervals, u, now, Ttl, LiveHorizon)
  <2>1. u <= now - Ttl
    BY <1>3, <1>4
  <2>2. PICK r \in Plan(intervals, start, end, now, Ttl, LiveHorizon) : u \in Ticks(r)
    BY <1>3, <1>6, <2>1, PlanCompletes
  <2>3. r.From \in Int /\ r.To \in Int
    BY <1>3, PlanWithin DEF Range
  <2>4. Within(t, r)
    BY <1>3, <1>4, <2>2, <2>3 DEF Ticks, Within
  <2> QED
    BY <1>1, <2>2, <2>4
<1> QED
  BY <1>5, <1>6

LEMMA ReadIntervalsPromise ==
  ASSUME IndInv, PromiseInv, NEW p \in Procs, ReadIntervals(p) \/ ReadIntervalsFails(p)
  PROVE  PromiseInv'
<1>1. /\ get[p] \in Locals /\ CallInv2(get[p]) /\ LocalInv(p, get[p]) /\ get[p].pc = "locked"
      /\ bars \in BarSets /\ UNCHANGED <<clock, bars, intervals>>
  BY DEF IndInv, TypeOK, PromiseInv, ReadIntervals, ReadIntervalsFails
<1>2. CASE ReadIntervals(p)
  <2>1. PICK plan : plan = Plan(intervals, get[p].start, get[p].end, get[p].now, Ttl, LiveHorizon)
    OBVIOUS
  <2>2. plan \subseteq Range
    <3>1. get[p].start \in Int /\ get[p].end \in Int /\ get[p].now \in Int
      BY <1>1 DEF Locals
    <3> QED
      BY <2>1, <3>1, PlanWithin, RangesAssumption
  <2> DEFINE read == [get[p] EXCEPT !.stored = intervals, !.toFetch = plan]
  <2>3. /\ read \in Locals /\ read.toFetch = plan
        /\ read.start = get[p].start /\ read.end = get[p].end /\ read.now = get[p].now
        /\ read.freshBars = NoBars /\ ~read.fetchErr /\ ~read.ok /\ ~read.persistFailed
        /\ read.fetched = get[p].fetched
    <3>1. intervals \in SUBSET Interval
      BY DEF IndInv, TypeOK
    <3>2. read \in Locals
      BY <1>1, <2>2, <3>1 DEF Locals
    <3> QED
      BY <1>1, <3>2 DEF Locals, CallInv2, Untouched, LocalInv, Unfetched
  <2>4. Becomes(p, FetchNext(read, "serve"))
    BY <1>2, <2>1 DEF ReadIntervals
  <2> HIDE DEF read
  <2>5. PICK g \in Locals :
          /\ Becomes(p, g)
          /\ g.pc = IF plan = {} THEN "serve" ELSE "fetch"
          /\ g.toFetch = plan
          /\ g.start = get[p].start /\ g.end = get[p].end /\ g.now = get[p].now
          /\ g.freshBars = NoBars /\ ~g.fetchErr /\ ~g.ok /\ ~g.persistFailed
          /\ g.fetched = get[p].fetched
    <3>1. PICK g : g = FetchNext(read, "serve")
      OBVIOUS
    <3>2. "serve" \in Pcs \ {"fetch"} /\ clock \in Nat
      BY DEF Pcs, IndInv, TypeOK
    <3>3. /\ g \in Locals /\ g.pc = IF plan = {} THEN "serve" ELSE "fetch"
          /\ g.toFetch = plan
          /\ g.start = read.start /\ g.end = read.end /\ g.now = read.now
          /\ g.freshBars = read.freshBars /\ g.fetchErr = read.fetchErr /\ g.ok = read.ok
          /\ g.persistFailed = read.persistFailed /\ g.fetched = read.fetched
      BY <2>3, <3>1, <3>2, FetchNextIs
    <3> QED
      BY <2>3, <2>4, <3>1, <3>3
  <2>6. \A t \in BarTimes : Held(g)[t] = bars[t]
    BY <1>1, <2>5, BarOperators DEF Held, Written, NoBars
  <2>7. Promised(g)
    <3> SUFFICES ASSUME NEW t \in BarTimes, Due(g, t)
                 PROVE  Current(g, Held(g)[t], t) \/ \E r \in g.toFetch : Within(t, r)
      BY DEF Promised
    <3>1. Due(get[p], t)
      BY <2>5 DEF Due
    <3>2. \/ Current(get[p], bars[t], t)
          \/ \E r \in plan : Within(t, r)
      BY <1>1, <2>1, <3>1, PlanPromises
    <3> QED
      BY <2>5, <2>6, <3>2 DEF Current
  <2>8. Opened(g) /\ Untouched(g) /\ Planned(g) /\ Exhausted(g) /\ Served(g)
    BY <1>1, <2>1, <2>5 DEF CallInv2, Opened, Untouched, Planned, Exhausted, Served
  <2>9. FreshHeld(g)
    BY <2>5 DEF FreshHeld, NoBars
  <2>10. Bounded(g.fetched)
    BY <1>1, <2>5 DEF CallInv2
  <2> QED
    BY <1>1, <2>5, <2>7, <2>8, <2>9, <2>10, PromiseLocalStep DEF CallInv2
<1>3. CASE ReadIntervalsFails(p)
  <2>1. PICK g \in Locals :
          g = [get[p] EXCEPT !.pc = "done", !.readFailed = TRUE, !.recorded = TRUE]
    BY <1>1 DEF Locals, Pcs
  <2>2. /\ g.pc = "done" /\ g.start = get[p].start /\ g.end = get[p].end /\ g.readFailed
        /\ g.fetched = get[p].fetched
    BY <1>1, <2>1 DEF Locals
  <2>3. CallInv2(g)
    BY <1>1, <2>2
    DEF CallInv2, Opened, Untouched, Planned, Exhausted, FreshHeld, Promised, Served, Filling
  <2> QED
    BY <1>1, <1>3, <2>1, <2>3, PromiseLocalStep DEF ReadIntervalsFails
<1> QED
  BY <1>2, <1>3

LEMMA FetchPromise == ASSUME IndInv, PromiseInv, NEW p \in Procs, Fetch(p) PROVE PromiseInv'
<1>1. /\ get[p] \in Locals /\ CallInv2(get[p]) /\ LocalInv(p, get[p]) /\ get[p].pc = "fetch"
      /\ bars \in BarSets /\ clock \in Nat /\ UNCHANGED <<clock, bars, intervals>>
  BY DEF IndInv, TypeOK, PromiseInv, Fetch
<1>2. PICK r \in get[p].toFetch, credit \in Interval, new \in BarSets, g \in Locals :
        /\ \A t \in BarTimes : new[t] # NoBar => get[p].since <= new[t] /\ new[t] <= clock
        /\ \A t \in BarTimes : Within(t, r) /\ t <= get[p].since => new[t] # NoBar
        /\ Becomes(p, g)
        /\ g.pc = "putBars" /\ g.batch = new
        /\ g.toFetch = get[p].toFetch \ {r} /\ g.fetched = get[p].fetched \cup {credit}
        /\ g.freshBars = MergeBars(get[p].freshBars, new)
        /\ g.start = get[p].start /\ g.end = get[p].end /\ g.now = get[p].now
        /\ g.persistFailed = get[p].persistFailed /\ g.fetchErr = get[p].fetchErr
        /\ g.ok = get[p].ok
  BY FetchStep
<1>3. /\ get[p].now \in Nat /\ get[p].since \in Nat
      /\ get[p].now <= get[p].since /\ get[p].since <= clock
      /\ \A t \in BarTimes : t \in Nat /\ bars[t] \in Int /\ new[t] \in Int
  BY <1>1, <1>2, TimesAssumption DEF Locals, BarSets, NoBar, LocalInv, Begun
<1>4. PICK fresh \in BarSets : fresh = MergeBars(get[p].freshBars, new)
  BY <1>1, <1>2, BarOperators DEF Locals
<1>5. g.freshBars = fresh
  BY <1>2, <1>4
<1>6. get[p].freshBars \in BarSets
  BY <1>1 DEF Locals
<1>7. PICK written \in BarSets : written = MergeBars(bars, new)
  BY <1>1, BarOperators
<1>8. Written(g) = written /\ Written(get[p]) = bars
  BY <1>1, <1>2, <1>7 DEF Written
<1>9. \A t \in BarTimes :
         /\ written[t] = IF new[t] # NoBar THEN new[t] ELSE bars[t]
         /\ fresh[t] = IF new[t] # NoBar THEN new[t] ELSE get[p].freshBars[t]
  BY <1>1, <1>4, <1>6, <1>7, BarOperators
<1>10. \A t \in BarTimes :
         /\ Held(g)[t] = IF fresh[t] # NoBar THEN fresh[t] ELSE written[t]
         /\ Held(get[p])[t] = IF get[p].freshBars[t] # NoBar THEN get[p].freshBars[t] ELSE bars[t]
  BY <1>1, <1>5, <1>6, <1>8, BarOperators DEF Held
<1>11. \A t \in BarTimes : Held(g)[t] = IF new[t] # NoBar THEN new[t] ELSE Held(get[p])[t]
  BY <1>9, <1>10
<1>12. Promised(g)
  <2> SUFFICES ASSUME NEW t \in BarTimes, Due(g, t), ~g.fetchErr
               PROVE  Current(g, Held(g)[t], t) \/ \E s \in g.toFetch : Within(t, s)
    BY DEF Promised
  <2>1. Due(get[p], t) /\ t \in Nat /\ t <= get[p].now - Ttl
    BY <1>2, TimesAssumption DEF Due
  <2>2. CASE new[t] # NoBar
    <3>1. new[t] >= g.now - Ttl
      BY <1>2, <1>3, <2>2, RangesAssumption
    <3> QED
      BY <1>11, <2>2, <3>1 DEF Current
  <2>3. CASE new[t] = NoBar
    <3>1. t <= get[p].since
      BY <1>3, <2>1, RangesAssumption
    <3>2. ~Within(t, r)
      BY <1>2, <2>3, <3>1
    <3>3. Current(get[p], Held(get[p])[t], t) \/ \E s \in get[p].toFetch : Within(t, s)
      BY <1>1, <1>2, <2>1 DEF CallInv2, Promised, Filling
    <3>4. Held(g)[t] = Held(get[p])[t]
      BY <1>11, <2>3
    <3> QED
      BY <1>2, <3>2, <3>3, <3>4 DEF Current
  <2> QED
    BY <2>2, <2>3
<1>13. Opened(g) /\ Untouched(g) /\ Planned(g) /\ Exhausted(g) /\ Served(g)
  BY <1>1, <1>2 DEF CallInv2, Opened, Untouched, Planned, Exhausted, Served, Filling
<1>14. FreshHeld(g)
  <2>1. \A t \in BarTimes : new[t] # NoBar => fresh[t] # NoBar
    BY <1>9
  <2>2. ASSUME ~g.persistFailed, NEW t \in BarTimes, fresh[t] # NoBar
        PROVE  written[t] >= fresh[t]
    <3>1. get[p].freshBars[t] # NoBar => bars[t] >= get[p].freshBars[t]
      BY <1>1, <1>2, <1>8, <2>2 DEF CallInv2, FreshHeld, Filling
    <3> QED
      BY <1>3, <1>9, <2>2, <3>1
  <2> QED
    BY <1>2, <1>5, <1>8, <2>1, <2>2 DEF FreshHeld
<1>15. Bounded(g.fetched)
  <2>1. Bounded(get[p].fetched) /\ get[p].fetched \in SUBSET Interval
    BY <1>1 DEF CallInv2, Locals
  <2>2. Bounded({credit}) /\ {credit} \in SUBSET Interval
    BY BoundedSets
  <2> QED
    BY <1>2, <2>1, <2>2, BoundedSets
<1> QED
  BY <1>1, <1>2, <1>12, <1>13, <1>14, <1>15, PromiseLocalStep DEF CallInv2

LEMMA FetchFailsPromise ==
  ASSUME IndInv, PromiseInv, NEW p \in Procs, FetchFails(p) PROVE PromiseInv'
<1>1. /\ get[p] \in Locals /\ CallInv2(get[p]) /\ get[p].pc = "fetch"
      /\ UNCHANGED <<clock, bars, intervals>>
  BY DEF IndInv, TypeOK, PromiseInv, FetchFails
<1>2. PICK g \in Locals :
        g = [get[p] EXCEPT !.pc = "putIntervals", !.toFetch = {}, !.since = 0,
                           !.fetchErr = TRUE]
  BY <1>1 DEF Locals, Pcs
<1>3. /\ g.pc = "putIntervals" /\ g.start = get[p].start /\ g.end = get[p].end
      /\ g.toFetch = {} /\ g.fetchErr /\ g.ok = get[p].ok /\ g.fetched = get[p].fetched
      /\ g.freshBars = get[p].freshBars /\ g.persistFailed = get[p].persistFailed
  BY <1>1, <1>2 DEF Locals
<1>4. FreshHeld(g)
  BY <1>1, <1>3 DEF CallInv2, FreshHeld, Written, Filling
<1>5. CallInv2(g)
  BY <1>1, <1>3, <1>4 DEF CallInv2, Opened, Untouched, Planned, Exhausted, Promised, Served
<1>6. Becomes(p, g)
  BY <1>2 DEF FetchFails
<1> QED
  BY <1>1, <1>5, <1>6, PromiseLocalStep

LEMMA PutBarsPromise ==
  ASSUME IndInv, PromiseInv, NEW p \in Procs, PutBars(p) \/ PutBarsFails(p)
  PROVE  PromiseInv'
<1>1. /\ get[p] \in Locals /\ CallInv2(get[p]) /\ get[p].pc = "putBars"
      /\ bars \in BarSets /\ get[p].batch \in BarSets /\ get[p].freshBars \in BarSets
      /\ UNCHANGED <<clock, intervals>>
  BY DEF IndInv, TypeOK, PromiseInv, PutBars, PutBarsFails, Locals
<1>2. PICK failed \in BOOLEAN :
        /\ bars' = IF failed THEN bars ELSE MergeBars(bars, get[p].batch)
        /\ Becomes(p, FetchNext([get[p] EXCEPT !.batch = NoBars, !.persistFailed = @ \/ failed],
                                "putIntervals"))
  <2>1. CASE PutBars(p)
    <3>1. [get[p] EXCEPT !.batch = NoBars]
            = [get[p] EXCEPT !.batch = NoBars, !.persistFailed = @ \/ FALSE]
      BY <1>1 DEF Locals
    <3> QED
      BY <2>1, <3>1 DEF PutBars
  <2>2. CASE PutBarsFails(p)
    <3>1. [get[p] EXCEPT !.batch = NoBars, !.persistFailed = TRUE]
            = [get[p] EXCEPT !.batch = NoBars, !.persistFailed = @ \/ TRUE]
      BY <1>1 DEF Locals
    <3> QED
      BY <2>2, <3>1 DEF PutBarsFails
  <2> QED
    BY <2>1, <2>2
<1>3. PICK put \in Locals :
        put = [get[p] EXCEPT !.batch = NoBars, !.persistFailed = @ \/ failed]
  BY <1>1, IdleTyped DEF Locals
<1>4. PICK g \in Locals :
        /\ g = FetchNext(put, "putIntervals")
        /\ g.pc \in {"fetch", "putIntervals"}
        /\ g.pc = "putIntervals" => g.toFetch = {}
        /\ g.start = get[p].start /\ g.end = get[p].end /\ g.now = get[p].now
        /\ g.toFetch = get[p].toFetch /\ g.fetched = get[p].fetched
        /\ g.freshBars = get[p].freshBars /\ g.fetchErr = get[p].fetchErr /\ g.ok = get[p].ok
        /\ g.persistFailed = (get[p].persistFailed \/ failed)
  <2>1. /\ put.start = get[p].start /\ put.end = get[p].end /\ put.now = get[p].now
        /\ put.toFetch = get[p].toFetch /\ put.fetched = get[p].fetched
        /\ put.freshBars = get[p].freshBars /\ put.fetchErr = get[p].fetchErr
        /\ put.ok = get[p].ok
        /\ put.persistFailed = (get[p].persistFailed \/ failed)
    BY <1>1, <1>3 DEF Locals
  <2>2. "putIntervals" \in Pcs \ {"fetch"} /\ clock \in Nat
    BY DEF Pcs, IndInv, TypeOK
  <2>3. PICK g : g = FetchNext(put, "putIntervals")
    OBVIOUS
  <2>4. /\ g \in Locals /\ g.pc \in {"fetch", "putIntervals"}
        /\ g.pc = "putIntervals" => g.toFetch = {}
        /\ g.start = put.start /\ g.end = put.end /\ g.now = put.now
        /\ g.toFetch = put.toFetch /\ g.fetched = put.fetched
        /\ g.freshBars = put.freshBars /\ g.fetchErr = put.fetchErr /\ g.ok = put.ok
        /\ g.persistFailed = put.persistFailed
    BY <2>2, <2>3, FetchNextIs
  <2> QED
    BY <2>1, <2>3, <2>4
<1>5. Becomes(p, g)
  BY <1>2, <1>3, <1>4
<1>6. \A t \in BarTimes :
        /\ Written(get[p])[t] = IF get[p].batch[t] # NoBar THEN get[p].batch[t] ELSE bars[t]
        /\ bars'[t] = IF get[p].batch[t] # NoBar /\ ~failed THEN get[p].batch[t] ELSE bars[t]
  BY <1>1, <1>2, BarOperators DEF Written
<1>7. bars' \in BarSets /\ Written(get[p]) \in BarSets /\ Written(g)' = bars'
  <2>1. MergeBars(bars, get[p].batch) \in BarSets
    BY <1>1, BarOperators
  <2> QED
    BY <1>1, <1>2, <1>4, <2>1 DEF Written
<1>8. \A t \in BarTimes : get[p].batch[t] # NoBar => get[p].freshBars[t] # NoBar
  BY <1>1 DEF CallInv2, FreshHeld
<1>9. \A t \in BarTimes : Held(g)'[t] = Held(get[p])[t]
  <2>1. \A t \in BarTimes :
          Held(g)'[t] = IF get[p].freshBars[t] # NoBar THEN get[p].freshBars[t] ELSE bars'[t]
    <3>1. Held(g)' = MergeBars(bars', get[p].freshBars)
      BY <1>4, <1>7 DEF Held
    <3> QED
      BY <1>1, <1>7, <3>1, BarOperators
  <2>2. \A t \in BarTimes :
          Held(get[p])[t] = IF get[p].freshBars[t] # NoBar THEN get[p].freshBars[t]
                                                          ELSE Written(get[p])[t]
    BY <1>1, <1>7, BarOperators DEF Held
  <2> QED
    BY <1>6, <1>8, <2>1, <2>2
<1>10. Promised(g)'
  <2> SUFFICES ASSUME NEW t \in BarTimes, Due(g, t), ~g.fetchErr
               PROVE  Current(g, Held(get[p])[t], t) \/ \E r \in g.toFetch : Within(t, r)
    BY <1>1, <1>9 DEF Promised, Current, Due
  <2>1. Due(get[p], t)
    BY <1>4 DEF Due
  <2>2. Current(get[p], Held(get[p])[t], t) \/ \E r \in get[p].toFetch : Within(t, r)
    BY <1>1, <1>4, <2>1 DEF CallInv2, Promised, Filling
  <2> QED
    BY <1>4, <2>2 DEF Current
<1>11. FreshHeld(g)'
  <2>1. ASSUME ~g.persistFailed, NEW t \in BarTimes, get[p].freshBars[t] # NoBar
        PROVE  bars'[t] >= get[p].freshBars[t]
    <3>1. Written(get[p])[t] >= get[p].freshBars[t]
      BY <1>1, <1>4, <2>1 DEF CallInv2, FreshHeld, Filling
    <3> QED
      BY <1>4, <1>6, <2>1, <3>1
  <2> QED
    BY <1>4, <1>7, <2>1 DEF FreshHeld
<1>12. Opened(g)' /\ Untouched(g)' /\ Planned(g)' /\ Exhausted(g)' /\ Served(g)'
  BY <1>1, <1>4 DEF CallInv2, Opened, Untouched, Planned, Exhausted, Served, Filling
<1>13. Bounded(g.fetched)' /\ Bounded(intervals)'
  BY <1>1, <1>4 DEF CallInv2, PromiseInv, Bounded
<1>14. \A q \in Procs \ {p} : get[q].pc \notin Inside
  BY <1>1 DEF IndInv, LocalInv, KeyHeld, Inside
<1> QED
  BY <1>1, <1>5, <1>10, <1>11, <1>12, <1>13, <1>14, PromiseStep DEF CallInv2

LEMMA PersistPromise ==
  ASSUME IndInv, PromiseInv, NEW p \in Procs,
         PutIntervals(p) \/ PutIntervalsFails(p) \/ SkipIntervals(p)
  PROVE  PromiseInv'
<1>1. /\ get[p] \in Locals /\ CallInv2(get[p]) /\ get[p].pc = "putIntervals"
      /\ get[p].persistFailed \in BOOLEAN /\ get[p].fetchErr \in BOOLEAN
      /\ UNCHANGED <<clock, bars>>
  BY DEF IndInv, TypeOK, PromiseInv, PutIntervals, PutIntervalsFails, SkipIntervals, Locals
<1>2. PICK failed \in BOOLEAN :
        /\ get[p].persistFailed => failed
        /\ Becomes(p, [get[p] EXCEPT !.pc = AfterPersist(get[p], failed),
                                     !.persistFailed = failed])
  <2>1. CASE PutIntervals(p)
    <3>1. [get[p] EXCEPT !.pc = AfterPersist(get[p], FALSE)]
            = [get[p] EXCEPT !.pc = AfterPersist(get[p], FALSE), !.persistFailed = FALSE]
      BY <1>1, <2>1 DEF Locals, PutIntervals, MayPersist
    <3> QED
      BY <2>1, <3>1 DEF PutIntervals, MayPersist
  <2>2. CASE PutIntervalsFails(p)
    BY <2>2 DEF PutIntervalsFails
  <2>3. CASE SkipIntervals(p)
    <3>1. [get[p] EXCEPT !.pc = AfterPersist(get[p], get[p].persistFailed)]
            = [get[p] EXCEPT !.pc = AfterPersist(get[p], get[p].persistFailed),
                             !.persistFailed = get[p].persistFailed]
      BY <1>1 DEF Locals
    <3> QED
      BY <1>1, <2>3, <3>1 DEF SkipIntervals
  <2> QED
    BY <2>1, <2>2, <2>3
<1>3. PICK g \in Locals : g = [get[p] EXCEPT !.pc = AfterPersist(get[p], failed),
                                             !.persistFailed = failed]
  BY <1>1 DEF Locals, Pcs, AfterPersist
<1>4. /\ g.pc \in {"done", "degrade", "serve"}
      /\ g.pc \in {"serve", "degrade"} => ~g.fetchErr
      /\ g.pc = "serve" => ~g.persistFailed /\ ~get[p].persistFailed
      /\ g.start = get[p].start /\ g.end = get[p].end /\ g.now = get[p].now
      /\ g.toFetch = get[p].toFetch /\ g.fetched = get[p].fetched
      /\ g.freshBars = get[p].freshBars /\ g.fetchErr = get[p].fetchErr /\ g.ok = get[p].ok
  BY <1>1, <1>2, <1>3 DEF Locals, AfterPersist
<1>5. Becomes(p, g)
  BY <1>2, <1>3
<1>6. g.toFetch = {} /\ ~g.ok
  BY <1>1, <1>4 DEF CallInv2, Exhausted, Untouched
<1>7. Written(g)' = Written(get[p]) /\ Held(g)' = Held(get[p])
  BY <1>1, <1>4 DEF Written, Held
<1>8. Promised(g)'
  <2> SUFFICES ASSUME NEW t \in BarTimes, Due(g, t), ~g.fetchErr
               PROVE  Current(g, Held(get[p])[t], t)
    BY <1>1, <1>7 DEF Promised, Current, Due
  <2>1. Due(get[p], t)
    BY <1>4 DEF Due
  <2>2. Current(get[p], Held(get[p])[t], t) \/ \E r \in get[p].toFetch : Within(t, r)
    BY <1>1, <1>4, <2>1 DEF CallInv2, Promised, Filling
  <2> QED
    BY <1>4, <1>6, <2>2 DEF Current
<1>9. FreshHeld(g)'
  BY <1>1, <1>4, <1>7 DEF CallInv2, FreshHeld, Filling
<1>10. Opened(g)' /\ Untouched(g)' /\ Planned(g)' /\ Exhausted(g)' /\ Served(g)'
  BY <1>1, <1>4, <1>6 DEF CallInv2, Opened, Untouched, Planned, Exhausted, Served, Filling
<1>11. Bounded(intervals)'
  <2>1. CASE PutIntervals(p)
    <3>1. PICK in \in SUBSET Interval, h \in Int :
            in = intervals \cup get[p].fetched /\ h = get[p].now - LiveHorizon
      <4>1. intervals \cup get[p].fetched \in SUBSET Interval
        BY <1>1 DEF Locals, IndInv, TypeOK
      <4>2. get[p].now - LiveHorizon \in Int
        BY <1>1, RangesAssumption DEF Locals
      <4> QED
        BY <4>1, <4>2
    <3>2. get[p].stored = intervals
      BY <1>1 DEF IndInv, LocalInv, Filled, Filling
    <3>3. intervals' = NormalizeCoverage(in, h)
      BY <2>1, <3>1, <3>2 DEF PutIntervals
    <3>4. Bounded(in)
      <4>1. /\ intervals \in SUBSET Interval /\ get[p].fetched \in SUBSET Interval
            /\ Bounded(intervals) /\ Bounded(get[p].fetched)
        BY <1>1 DEF IndInv, TypeOK, Locals, PromiseInv, CallInv2
      <4> QED
        BY <3>1, <4>1, BoundedSets
    <3>5. Bounded(NormalizeCoverage(in, h))
      BY <3>4, NormalizeBounded
    <3> QED
      BY <3>3, <3>5 DEF Bounded
  <2>2. CASE intervals' = intervals
    BY <2>2 DEF PromiseInv, Bounded
  <2> QED
    BY <2>1, <2>2 DEF PutIntervalsFails, SkipIntervals
<1>12. Bounded(g.fetched)'
  BY <1>1, <1>4 DEF CallInv2, Bounded
<1>13. \A q \in Procs \ {p} : get[q].pc \notin Inside
  BY <1>1 DEF IndInv, LocalInv, KeyHeld, Inside
<1> QED
  BY <1>1, <1>5, <1>8, <1>9, <1>10, <1>11, <1>12, <1>13, PromiseStep DEF CallInv2

\* An answer whose due bars are as promised.
LEMMA AnswerStep ==
  ASSUME IndInv, PromiseInv, NEW p \in Procs, NEW b \in BarSets, Answer(p, b),
         get[p].pc \in {"serve", "degrade"}, UNCHANGED <<clock, bars, intervals>>,
         \A t \in BarTimes : Due(get[p], t) => Current(get[p], b[t], t)
  PROVE  PromiseInv'
<1>1. get[p] \in Locals /\ CallInv2(get[p]) /\ get[p].start \in Int /\ get[p].end \in Int
  BY DEF IndInv, TypeOK, PromiseInv, Locals
<1>2. PICK resp \in BarSets : resp = Clip(b, get[p].start, get[p].end)
  BY <1>1, BarOperators
<1>3. \A t \in BarTimes : get[p].start <= t /\ t <= get[p].end => resp[t] = b[t]
  BY <1>2 DEF Clip, BarSets
<1>4. PICK g \in Locals : g = [get[p] EXCEPT !.pc = "done", !.ok = TRUE, !.resp = resp]
  BY <1>1 DEF Locals, Pcs
<1>5. /\ g.pc = "done" /\ g.start = get[p].start /\ g.end = get[p].end /\ g.now = get[p].now
      /\ g.resp = resp /\ g.fetched = get[p].fetched
  BY <1>1, <1>4 DEF Locals
<1>6. Served(g)
  BY <1>3, <1>5 DEF Served, Due, Current
<1>7. CallInv2(g)
  BY <1>1, <1>5, <1>6
  DEF CallInv2, Opened, Untouched, Planned, Exhausted, FreshHeld, Promised, Filling
<1>8. Becomes(p, g)
  BY <1>2, <1>4 DEF Answer
<1> QED
  BY <1>7, <1>8, PromiseLocalStep

LEMMA AnswerPromise ==
  ASSUME IndInv, PromiseInv, NEW p \in Procs, Serve(p) \/ Degrade(p)
  PROVE  PromiseInv'
<1>1. /\ get[p] \in Locals /\ CallInv2(get[p]) /\ get[p].pc \in {"serve", "degrade"}
      /\ bars \in BarSets /\ get[p].freshBars \in BarSets /\ get[p].now \in Nat
      /\ clock \in Nat
      /\ UNCHANGED <<clock, bars, intervals>>
  BY DEF IndInv, TypeOK, PromiseInv, Serve, Degrade, Locals
<1>2. PICK held \in BarSets : held = MergeBars(bars, get[p].freshBars)
  BY <1>1, BarOperators
<1>3. Held(get[p]) = held /\ Written(get[p]) = bars
  BY <1>1, <1>2 DEF Held, Written
<1>4. \A t \in BarTimes :
        held[t] = IF get[p].freshBars[t] # NoBar THEN get[p].freshBars[t] ELSE bars[t]
  BY <1>1, <1>2, BarOperators
<1>5. \A t \in BarTimes : Due(get[p], t) => Current(get[p], held[t], t)
  BY <1>1, <1>3 DEF CallInv2, Promised, Exhausted
<1>6. CASE Degrade(p)
  BY <1>1, <1>2, <1>5, <1>6, AnswerStep DEF Degrade
<1>7. CASE Serve(p)
  <2>1. ASSUME NEW t \in BarTimes, Due(get[p], t)
        PROVE  Current(get[p], bars[t], t)
    <3>1. CASE get[p].freshBars[t] = NoBar
      BY <1>4, <1>5, <2>1, <3>1
    <3>2. CASE get[p].freshBars[t] # NoBar
      <4>1. bars[t] >= get[p].freshBars[t]
        BY <1>1, <1>3, <1>7, <3>2 DEF CallInv2, FreshHeld, Exhausted, Serve
      <4>2. get[p].freshBars[t] \in Nat /\ bars[t] \in Int
        BY <1>1, <3>2 DEF BarSets, NoBar
      <4>3. Current(get[p], get[p].freshBars[t], t)
        BY <1>4, <1>5, <2>1, <3>2
      <4> QED
        BY <1>1, <4>1, <4>2, <4>3, RangesAssumption DEF Current, NoBar
    <3> QED
      BY <3>1, <3>2
  <2> QED
    BY <1>1, <1>7, <2>1, AnswerStep DEF Serve
<1> QED
  BY <1>6, <1>7

\* What a failed read leaves of the answer promises nothing.
LEMMA AnswerFailsPromise ==
  ASSUME IndInv, PromiseInv, NEW p \in Procs, ServeFails(p) \/ DegradeFails(p)
  PROVE  PromiseInv'
<1>1. /\ get[p] \in Locals /\ CallInv2(get[p]) /\ get[p].pc \in {"serve", "degrade"}
      /\ get[p].start \in Int /\ get[p].end \in Int /\ get[p].freshBars \in BarSets
      /\ UNCHANGED <<clock, bars, intervals>>
  BY DEF IndInv, TypeOK, PromiseInv, ServeFails, DegradeFails, Locals
<1>2. PICK resp \in BarSets :
        \/ Becomes(p, [get[p] EXCEPT !.pc = "done", !.readFailed = TRUE, !.resp = resp])
        \/ Becomes(p, [get[p] EXCEPT !.pc = "done", !.ok = TRUE, !.readFailed = TRUE,
                                     !.recorded = TRUE, !.resp = resp])
  <2>1. PartialReads(get[p]) \subseteq BarSets
    BY <1>1, PartialTyped DEF IndInv, TypeOK
  <2>2. CASE ServeFails(p)
    <3>1. PICK read \in BarSets :
            Becomes(p, [get[p] EXCEPT !.pc = "done", !.readFailed = TRUE, !.resp = read])
      BY <2>2, <2>1 DEF ServeFails
    <3> QED
      BY <3>1
  <2>3. CASE DegradeFails(p)
    <3>1. PICK read \in BarSets :
            Becomes(p, [get[p] EXCEPT !.pc = "done", !.ok = TRUE, !.readFailed = TRUE,
                         !.recorded = TRUE,
                         !.resp = Clip(MergeBars(read, get[p].freshBars),
                                       get[p].start, get[p].end)])
      BY <2>3, <2>1 DEF DegradeFails
    <3> QED
      BY <1>1, <3>1, BarOperators
  <2> QED
    BY <2>2, <2>3
<1>3. PICK g \in Locals :
        /\ g \in {[get[p] EXCEPT !.pc = "done", !.readFailed = TRUE, !.resp = resp],
                  [get[p] EXCEPT !.pc = "done", !.ok = TRUE, !.readFailed = TRUE,
                                 !.recorded = TRUE, !.resp = resp]}
        /\ Becomes(p, g)
  <2>1. /\ [get[p] EXCEPT !.pc = "done", !.readFailed = TRUE, !.resp = resp] \in Locals
        /\ [get[p] EXCEPT !.pc = "done", !.ok = TRUE, !.readFailed = TRUE,
                          !.recorded = TRUE, !.resp = resp] \in Locals
    BY <1>1 DEF Locals, Pcs
  <2> QED
    BY <1>2, <2>1
<1>4. /\ g.pc = "done" /\ g.readFailed /\ g.start = get[p].start /\ g.end = get[p].end
      /\ g.fetched = get[p].fetched
  BY <1>1, <1>3 DEF Locals
<1>5. CallInv2(g)
  BY <1>1, <1>4
  DEF CallInv2, Opened, Untouched, Planned, Exhausted, FreshHeld, Promised, Served, Filling
<1> QED
  BY <1>1, <1>3, <1>5, PromiseLocalStep

LEMMA IdlePromise == CallInv2(Idle) /\ CallInv2(Idle)'
BY BoundedSets
   DEF CallInv2, Opened, Untouched, Planned, Exhausted, FreshHeld, Promised, Served, Filling, Idle

LEMMA ReturnPromise ==
  ASSUME IndInv, PromiseInv, NEW p \in Procs, Return(p) PROVE PromiseInv'
<1>1. Becomes(p, Idle) /\ Idle \in Locals /\ UNCHANGED <<clock, bars, intervals>>
  BY IdleTyped DEF Return
<1> QED
  BY <1>1, IdlePromise, PromiseLocalStep

LEMMA TickPromise == ASSUME IndInv, PromiseInv, Tick PROVE PromiseInv'
<1>1. clock \in Nat /\ clock' = clock + 1 /\ UNCHANGED <<bars, intervals, get>>
  BY DEF IndInv, TypeOK, Tick
<1>2. clock' > Epoch /\ Bounded(intervals)'
  BY <1>1, TimesAssumption DEF PromiseInv, Bounded
<1>3. ASSUME NEW p \in Procs PROVE CallInv2(get[p])'
  <2>1. PICK g \in Locals : g = get[p]
    BY DEF IndInv, TypeOK
  <2>2. CallInv2(g) /\ get'[p] = g
    BY <1>1, <2>1 DEF PromiseInv
  <2>3. \A t \in BarTimes : \A b : Current(g, b, t) => Current(g, b, t)'
    BY <1>1, TimesAssumption, RangesAssumption DEF Current
  <2>4. Written(g)' = Written(g) /\ Held(g)' = Held(g)
    BY <1>1 DEF Written, Held
  <2>5. Promised(g)'
    BY <1>1, <2>2, <2>3, <2>4 DEF CallInv2, Promised, Due
  <2>6. Served(g)'
    BY <1>1, <2>2, <2>3 DEF CallInv2, Served, Due
  <2>7. Opened(g)' /\ Untouched(g)' /\ Planned(g)' /\ Exhausted(g)' /\ Bounded(g.fetched)'
    BY <1>1, <2>2 DEF CallInv2, Opened, Untouched, Planned, Exhausted, Bounded
  <2>8. FreshHeld(g)'
    BY <1>1, <2>2, <2>4 DEF CallInv2, FreshHeld
  <2>9. CallInv2(g)'
    BY <2>5, <2>6, <2>7, <2>8 DEF CallInv2
  <2> QED
    BY <2>2, <2>9
<1> QED
  BY <1>2, <1>3 DEF PromiseInv

LEMMA CrashPromise == ASSUME IndInv, PromiseInv, Crash PROVE PromiseInv'
<1>1. /\ get' = [p \in Procs |-> Idle] /\ clock' = clock
      /\ intervals' = intervals \/ intervals' = {}
  BY DEF Crash
<1>2. Bounded(intervals)'
  BY <1>1, BoundedSets DEF PromiseInv, Bounded
<1>3. \A p \in Procs : CallInv2(get[p])'
  BY <1>1, IdlePromise
<1> QED
  BY <1>1, <1>2, <1>3 DEF PromiseInv

LEMMA InitPromise == Init => PromiseInv
BY IdlePromise, BoundedSets, TimesAssumption DEF Init, PromiseInv

LEMMA NextPromise == IndInv /\ PromiseInv /\ [Next]_vars => PromiseInv'
<1> SUFFICES ASSUME IndInv, PromiseInv, [Next]_vars PROVE PromiseInv'
  OBVIOUS
<1>1. CASE UNCHANGED vars
  BY <1>1
  DEF vars, PromiseInv, CallInv2, Opened, Untouched, Planned, Exhausted, FreshHeld, Promised,
      Served, Held, Written, Current, Due, Bounded
<1>2. ASSUME NEW p \in Procs, Call(p) \/ Enter(p) \/ Lock(p) PROVE PromiseInv'
  BY <1>2, CallPromise, EnterPromise
<1>3. ASSUME NEW p \in Procs, Work(p) PROVE PromiseInv'
  BY <1>3, ReadIntervalsPromise, FetchPromise, FetchFailsPromise, PutBarsPromise,
     PersistPromise, AnswerPromise, AnswerFailsPromise, ReturnPromise DEF Work
<1> QED
  BY <1>1, <1>2, <1>3, TickPromise, CrashPromise DEF Next

THEOREM PromiseHolds == Spec => [](IndInv /\ PromiseInv)
<1>1. Init => IndInv /\ PromiseInv
  BY InitInv, InitPromise
<1>2. IndInv /\ PromiseInv /\ [Next]_vars => (IndInv /\ PromiseInv)'
  BY NextInv, NextPromise
<1> QED
  BY <1>1, <1>2, PTL DEF Spec

LEMMA PromiseServed == PromiseInv => ServedWithinPromise
BY DEF PromiseInv, CallInv2, Served, Due, Current, ServedWithinPromise

\* A successful Get returns every bar of its window that was a ttl old when it was
\* called, the mutable ones no staler than the ttl, under any interleaving, failure
\* and crash (store.go:95-169).
THEOREM KeepsPromise == Spec => []ServedWithinPromise
BY PromiseHolds, PromiseServed, PTL

\* A tick is fetched only if it is not adequately covered at that moment, or bridged
\* between two that are not (store.go:64-65).
THEOREM NeverFetchedTwice == Spec => NoDoubleFetch
<1> DEFINE Needed ==
      \A p \in Procs : get[p].pc = "fetch" =>
        \A r \in Fetched(p) :
          LET g == get[p]
              covered(t) == \E iv \in intervals : Covers(iv, t, g.now, Ttl, LiveHorizon)
              need == {t \in Ticks(r) : ~covered(t)}
          IN  \A t \in Ticks(r) \ need :
                \E a, b \in need : a < t /\ t < b /\ b - a - 1 <= SliverThreshold
<1>1. ASSUME IndInv, PromiseInv, [Next]_vars PROVE Needed
  <2> SUFFICES ASSUME NEW p \in Procs, get[p].pc = "fetch", NEW c \in Fetched(p)
               PROVE  LET g == get[p]
                          covered(t) == \E iv \in intervals :
                                          Covers(iv, t, g.now, Ttl, LiveHorizon)
                          need == {t \in Ticks(c) : ~covered(t)}
                      IN  \A t \in Ticks(c) \ need :
                            \E a, b \in need : a < t /\ t < b /\ b - a - 1 <= SliverThreshold
    OBVIOUS
  <2>1. get[p] \in Locals /\ CallInv2(get[p])
    BY <1>1 DEF IndInv, TypeOK, PromiseInv
  <2>2. Fetch(p)
    <3> SUFFICES ASSUME ~Fetch(p) PROVE FALSE
      OBVIOUS
    <3>1. c \in get'[p].fetched /\ c \notin get[p].fetched
      BY DEF Fetched
    <3>2. get \in [Procs -> Locals]
      BY <1>1 DEF IndInv, TypeOK
    <3>3. CASE FetchFails(p)
      <4>1. PICK g \in Locals : g = [get[p] EXCEPT !.pc = "putIntervals", !.toFetch = {},
                                                  !.since = 0, !.fetchErr = TRUE]
        BY <2>1 DEF Locals, Pcs
      <4>2. g.fetched = get[p].fetched
        BY <2>1, <4>1 DEF Locals
      <4>3. get'[p] = g
        BY <3>2, <3>3, <4>1 DEF FetchFails, Becomes
      <4> QED
        BY <3>1, <4>2, <4>3
    <3>4. CASE Crash
      BY <3>1, <3>4 DEF Crash, Idle
    <3>5. CASE Tick \/ UNCHANGED vars
      BY <3>1, <3>5 DEF Tick, vars
    <3>6. ASSUME NEW q \in Procs \ {p}, Call(q) \/ Enter(q) \/ Lock(q) \/ Work(q)
          PROVE  FALSE
      <4>1. PICK g : Becomes(q, g)
        BY <3>6
        DEF Call, Enter, Lock, Work, ReadIntervals, ReadIntervalsFails, Fetch, FetchFails,
            PutBars, PutBarsFails, PutIntervals, PutIntervalsFails, SkipIntervals, Serve,
            ServeFails, Degrade, DegradeFails, Answer, Return
      <4>2. get'[p] = get[p]
        BY <3>2, <4>1 DEF Becomes
      <4> QED
        BY <3>1, <4>2
    <3>7. ~(Call(p) \/ Enter(p) \/ Lock(p) \/ Work(p))
      BY <3>3
      DEF Call, Enter, Lock, Work, ReadIntervals, ReadIntervalsFails, PutBars, PutBarsFails,
          PutIntervals, PutIntervalsFails, SkipIntervals, Serve, ServeFails, Degrade,
          DegradeFails, Return
    <3> QED
      BY <1>1, <3>4, <3>5, <3>6, <3>7 DEF Next
  <2>3. PICK r \in get[p].toFetch : c.From = r.From /\ c.To = r.To
    <3>1. PICK r \in get[p].toFetch, credit \in Interval, g \in Locals :
            /\ credit.From = r.From /\ credit.To = r.To
            /\ Becomes(p, g) /\ g.fetched = get[p].fetched \cup {credit}
      BY <1>1, <2>2, FetchStep
    <3>2. get'[p].fetched = get[p].fetched \cup {credit}
      BY <1>1, <3>1, Becoming DEF IndInv
    <3> QED
      BY <3>1, <3>2 DEF Fetched
  <2>4. /\ get[p].start \in Int /\ get[p].end \in Int /\ get[p].now \in Int
        /\ Ttl \in Int /\ LiveHorizon \in Int
    BY <2>1, RangesAssumption DEF Locals
  <2>5. r \in Plan(intervals, get[p].start, get[p].end, get[p].now, Ttl, LiveHorizon)
    BY <2>1, <2>3 DEF CallInv2, Planned, Filling
  <2>6. Ticks(c) = Ticks(r)
    BY <2>3 DEF Ticks
  <2> QED
    BY <2>4, <2>5, <2>6, PlanNeeds DEF NoFetchNeeded
<1>2. IndInv /\ PromiseInv /\ [Next]_vars => [Needed]_vars
  BY <1>1
<1> QED
  BY <1>2, PromiseHolds, PTL DEF Spec, NoDoubleFetch

\* No write of coverage loses what another credited.
THEOREM NothingForgotten == Spec => CoverageNeverLost
<1> DEFINE Kept == Persistent \/ intervals' # {} =>
                    \A iv \in intervals : \A t \in Ticks(iv) : Over(intervals', t) # {}
<1>1. ASSUME IndInv, PromiseInv, [Next]_vars PROVE Kept
  <2>1. CASE intervals' = intervals
    BY <2>1 DEF Over
  <2>2. ASSUME NEW p \in Procs, PutIntervals(p) PROVE Kept
    <3>1. get[p] \in Locals /\ CallInv2(get[p]) /\ LocalInv(p, get[p]) /\ get[p].pc = "putIntervals"
      BY <1>1, <2>2 DEF IndInv, TypeOK, PromiseInv, PutIntervals
    <3>2. /\ intervals \in SUBSET Interval /\ get[p].fetched \in SUBSET Interval
          /\ Bounded(intervals) /\ Bounded(get[p].fetched)
      BY <1>1, <3>1 DEF IndInv, TypeOK, Locals, PromiseInv, CallInv2
    <3>3. PICK in \in SUBSET Interval, h \in Int :
            in = intervals \cup get[p].fetched /\ h = get[p].now - LiveHorizon
      <4>1. get[p].now - LiveHorizon \in Int
        BY <3>1, RangesAssumption DEF Locals
      <4> QED
        BY <3>2, <4>1
    <3>4. get[p].stored = intervals
      BY <3>1 DEF LocalInv, Filled, Filling
    <3>5. intervals' = NormalizeCoverage(in, h)
      BY <2>2, <3>3, <3>4 DEF PutIntervals
    <3>6. Bounded(in)
      BY <3>2, <3>3, BoundedSets
    <3>7. ASSUME NEW iv \in intervals, NEW t \in Ticks(iv) PROVE Over(intervals', t) # {}
      <4>1. t \in Int
        BY <3>2 DEF Ticks, Interval
      <4>2. Over(in, t) # {}
        BY <3>3 DEF Over
      <4>3. Over(NormalizeCoverage(in, h), t) # {}
        BY <3>6, <4>1, <4>2, NormalizeKeepsTicks
      <4> QED
        BY <3>5, <4>3
    <3> QED
      BY <3>7
  <2>3. CASE Crash
    <3>1. intervals' = IF Persistent THEN intervals ELSE {}
      BY <2>3 DEF Crash
    <3>2. CASE Persistent
      BY <2>1, <3>1, <3>2
    <3>3. CASE ~Persistent
      BY <3>1, <3>3
    <3> QED
      BY <3>2, <3>3
  <2>4. ASSUME NEW p \in Procs, Call(p) \/ Enter(p) \/ Lock(p) \/ Work(p), ~PutIntervals(p)
        PROVE  intervals' = intervals
    BY <2>4
    DEF Call, Enter, Lock, Work, ReadIntervals, ReadIntervalsFails, Fetch, FetchFails,
        PutBars, PutBarsFails, PutIntervalsFails, SkipIntervals, Serve, ServeFails,
        Degrade, DegradeFails, Return
  <2> QED
    BY <1>1, <2>1, <2>2, <2>3, <2>4 DEF Next, Tick, vars
<1>2. IndInv /\ PromiseInv /\ [Next]_vars => [Kept]_vars
  BY <1>1
<1> QED
  BY <1>2, PromiseHolds, PTL DEF Spec, CoverageNeverLost

-----------------------------------------------------------------------------
(* A machine that may lose power: what it leaves is backed and honest, because
   what it leaves once was the repository's, and time only makes less of it
   mutable *)

\* The invariant's part about the repository, of what would be left of it.
DurableInv ==
  /\ durable.bars \in BarSets /\ durable.intervals \in SUBSET Interval
  /\ Bounded(durable.intervals)
  /\ \A t \in BarTimes : durable.bars[t] <= clock
  /\ \A iv \in durable.intervals : \A t \in BarTimes :
       /\ Within(t, iv) => durable.bars[t] # NoBar
       /\ Within(t, iv) /\ t > clock - LiveHorizon => durable.bars[t] >= iv.FetchedAt

DInv == IndInv /\ PromiseInv /\ DurableInv

LEMMA ContentsInv == ASSUME IndInv, PromiseInv, durable = Contents PROVE DurableInv
<1>1. durable.bars = bars /\ durable.intervals = intervals
  BY DEF Contents
<1> QED
  BY <1>1 DEF IndInv, PromiseInv, DurableInv, TypeOK, Past, CoverageBacked, CoverageHonest, Bounded

\* Time passes or stands still.
LEMMA ClockForward ==
  ASSUME IndInv, [Next]_vars
  PROVE  clock \in Nat /\ clock' \in {clock, clock + 1}
BY DEF IndInv, TypeOK, vars, Next, Tick, Crash, Call, Enter, Lock, Work, ReadIntervals,
       ReadIntervalsFails, Fetch, FetchFails, PutBars, PutBarsFails, PutIntervals,
       PutIntervalsFails, SkipIntervals, Serve, ServeFails, Degrade, DegradeFails, Return

LEMMA DurableKept ==
  ASSUME IndInv, DurableInv, [Next]_vars, durable' = durable
  PROVE  DurableInv'
<1>1. clock \in Nat /\ clock' \in {clock, clock + 1}
  BY ClockForward
<1>2. \A t \in BarTimes : t \in Int /\ durable.bars[t] \in Int
  BY TimesAssumption DEF DurableInv, BarSets, NoBar
<1>3. \A iv \in durable.intervals : iv.FetchedAt \in Int
  BY DEF DurableInv, Interval
<1> QED
  BY <1>1, <1>2, <1>3, RangesAssumption DEF DurableInv, Bounded

LEMMA PowerFailureInv ==
  ASSUME IndInv, PromiseInv, DurableInv, PowerFailure
  PROVE  IndInv' /\ PromiseInv' /\ DurableInv'
<1>1. /\ get' = [p \in Procs |-> Idle] /\ holder' = NoProc /\ clock' = clock
      /\ bars' = durable.bars /\ intervals' = durable.intervals /\ durable' = durable
  BY DEF PowerFailure
<1>2. TypeOK'
  BY <1>1, IdleTyped DEF IndInv, DurableInv, TypeOK
<1>3. Past' /\ CoverageBacked' /\ CoverageHonest'
  BY <1>1 DEF IndInv, DurableInv, Past, CoverageBacked, CoverageHonest
<1>4. \A p \in Procs : LocalInv(p, Idle)'
  BY <1>1 DEF IndInv, Past, LocalInv, KeyHeld, Stamped, Unfetched, Begun, BatchNewer, Filled,
              Inside, Filling, Idle
<1>5. IndInv'
  BY <1>1, <1>2, <1>3, <1>4 DEF IndInv
<1>6. clock' > Epoch
  BY <1>1 DEF PromiseInv
<1>7. Bounded(intervals)'
  BY <1>1 DEF DurableInv, Bounded
<1>8. \A p \in Procs : CallInv2(get[p])'
  BY <1>1, IdlePromise
<1>9. PromiseInv'
  BY <1>6, <1>7, <1>8 DEF PromiseInv
<1>10. DurableInv'
  BY <1>1 DEF DurableInv, Bounded
<1> QED
  BY <1>5, <1>9, <1>10

LEMMA DInitInv == DInit => DInv
BY InitInv, InitPromise, ContentsInv DEF DInit, DInv

LEMMA DNextInv == DInv /\ [DNext]_dvars => DInv'
<1> SUFFICES ASSUME IndInv, PromiseInv, DurableInv, [DNext]_dvars
             PROVE  IndInv' /\ PromiseInv' /\ DurableInv'
  BY DEF DInv
<1>1. CASE [Next]_vars /\ durable' = durable
  BY <1>1, NextInv, NextPromise, DurableKept
<1>2. CASE Sync
  <2>1. UNCHANGED vars /\ durable' = Contents
    BY <1>2 DEF Sync
  <2>2. IndInv' /\ PromiseInv'
    BY <2>1, NextInv, NextPromise
  <2>3. Contents' = Contents
    BY <2>1 DEF vars, Contents
  <2>4. durable' = Contents'
    BY <2>1, <2>3
  <2>5. DurableInv'
    BY <2>2, <2>4
    DEF IndInv, PromiseInv, DurableInv, Contents, TypeOK, Past, CoverageBacked, CoverageHonest,
        Bounded
  <2> QED
    BY <2>2, <2>5
<1>3. CASE PowerFailure
  BY <1>3, PowerFailureInv
<1> QED
  BY <1>1, <1>2, <1>3 DEF DNext, dvars

THEOREM DInvariantHolds == DSpec => []DInv
BY DInitInv, DNextInv, PTL DEF DSpec

\* Coverage never claims a bar that is not stored, wherever a power failure throws
\* the repository back to (sqlitestore.go:33-37, store.go:140-154).
THEOREM BackedAfterPowerFailure == DSpec => []CoverageBacked
<1>1. DInv => CoverageBacked
  BY DEF DInv, IndInv
<1> QED
  BY <1>1, DInvariantHolds, PTL

\* Nor a live bar fresher than it is (coverage.go:68-77).
THEOREM HonestAfterPowerFailure == DSpec => []CoverageHonest
<1>1. DInv => CoverageHonest
  BY DEF DInv, IndInv
<1> QED
  BY <1>1, DInvariantHolds, PTL

\* A successful Get keeps its promise, also when it starts from a repository that has
\* lost its last commits (sqlitestore.go:33-37, store.go:95-169).
THEOREM KeepsPromiseAfterPowerFailure == DSpec => []ServedWithinPromise
<1>1. DInv => ServedWithinPromise
  BY PromiseServed DEF DInv
<1> QED
  BY <1>1, DInvariantHolds, PTL

=============================================================================
