------------------------------ MODULE Coverage ------------------------------
(***************************************************************************)
(* The interval algebra of internal/store/coverage.go: which part of a     *)
(* requested window must be fetched (Plan) and how the set of fetched      *)
(* intervals of one (symbol, timeframe) is kept minimal without losing the *)
(* freshness of any part of it (NormalizeCoverage).                        *)
(*                                                                         *)
(* An instant is an integer, the code's int64 nanoseconds.  Two successive *)
(* instants t and t+1 delimit the tick t.  No boundary the code computes   *)
(* lies inside a tick, so a range is the set of its ticks and a slice of   *)
(* disjoint, sorted ranges is the set of those ranges.  The loops of the   *)
(* code, over sorted slices, are in PlanLoop and NormalizeLoop.            *)
(***************************************************************************)
EXTENDS Integers

CONSTANT SliverThreshold    \* gaps this close are fetched as one range

ASSUME SliverAssumption == SliverThreshold \in Nat

\* A fetched range with the instant its fetch was stamped with, and a range
\* that must be fetched.  Neither is ever empty once it is planned or stored.
Interval == {iv \in [From : Int, To : Int, FetchedAt : Int] : iv.From < iv.To}
Range    == {r \in [From : Int, To : Int] : r.From < r.To}

MinTime(a, b) == IF a < b THEN a ELSE b
MaxTime(a, b) == IF a > b THEN a ELSE b

\* The ticks of an interval or a range.
Ticks(r) == r.From .. (r.To - 1)

\* The maximal runs of successive ticks in X, as ranges.
Runs(X) ==
  {r \in [From : X, To : {t + 1 : t \in X}] :
     /\ r.From < r.To
     /\ Ticks(r) \subseteq X
     /\ r.From - 1 \notin X
     /\ r.To \notin X}

-----------------------------------------------------------------------------
(* Planning a fetch *)

\* A fetched tick needs no fetch when it is history (before now - liveHorizon)
\* or when its fetch is at most ttl old.
Covers(iv, t, now, ttl, liveHorizon) ==
  /\ t \in Ticks(iv)
  /\ \/ t < now - liveHorizon
     \/ iv.FetchedAt >= now - ttl

\* The window [start, end] minus the covered ticks.
Subtract(start, end, covered) == Runs((start .. (end - 1)) \ covered)

\* The gap that reaches the end of the window is dropped when something
\* precedes it and it starts within the ttl.
ForgiveTrailingGap(gaps, start, end, freshAfter) ==
  gaps \ {g \in gaps : g.To = end /\ g.From > start /\ g.From > freshAfter}

\* Gaps at most threshold apart become one range.
MergeSlivers(gaps, threshold) ==
  LET bridged(g) == UNION {g.To .. (h.From - 1) :
                             h \in {x \in gaps : x.From - g.To <= threshold}}
  IN  Runs(UNION {Ticks(g) \cup bridged(g) : g \in gaps})

\* Mistaken variants of Plan: the ttl applied to history too, and the live zone
\* treated like history.
PlanFreshEverywhere(intervals, start, end, now, ttl, liveHorizon) ==
  LET covered == {t \in start .. (end - 1) :
                    \E iv \in intervals : Covers(iv, t, now, ttl, now - start)}
  IN  MergeSlivers(
        ForgiveTrailingGap(Subtract(start, end, covered), start, end, now - ttl),
        SliverThreshold)

PlanNeverStale(intervals, start, end, now, ttl, liveHorizon) ==
  LET covered == {t \in start .. (end - 1) :
                    \E iv \in intervals : Covers(iv, t, now, ttl, 0)}
  IN  MergeSlivers(
        ForgiveTrailingGap(Subtract(start, end, covered), start, end, now - ttl),
        SliverThreshold)

\* The ranges of [start, end] that must be fetched: never covered, or live and
\* stale.
Plan(intervals, start, end, now, ttl, liveHorizon) ==
  LET covered == {t \in start .. (end - 1) :
                    \E iv \in intervals : Covers(iv, t, now, ttl, liveHorizon)}
      gaps    == Subtract(start, end, covered)
  IN  MergeSlivers(ForgiveTrailingGap(gaps, start, end, now - ttl), SliverThreshold)

-----------------------------------------------------------------------------
(* Normalizing the stored set *)

\* The intervals of a set that hold tick t, the ends of its nonempty
\* intervals, and whether f is the newest stamp over t.
Over(in, t)      == {iv \in in : t \in Ticks(iv)}
Bounds(in)       == UNION {{iv.From, iv.To} : iv \in {i \in in : i.From < i.To}}
Newest(in, t, f) == /\ \E iv \in Over(in, t) : iv.FetchedAt = f
                    /\ \A iv \in Over(in, t) : iv.FetchedAt <= f

\* The elementary segment of tick t, between two successive bounds, ends at or
\* before historyBefore: it has aged into immutable history.
Aged(in, t, historyBefore) == \E b \in Bounds(in) : t < b /\ b <= historyBefore

\* s can be one segment of the result: it is covered throughout; its stamp is
\* the newest of every live tick of it and the newest of its history taken as a
\* whole; and its history, if any, starts where the coverage starts.
Mergeable(in, s, historyBefore) ==
  /\ s.From < s.To
  /\ \A t \in Ticks(s) :
       /\ Over(in, t) # {}
       /\ \A iv \in Over(in, t) : iv.FetchedAt <= s.FetchedAt
       /\ Aged(in, t, historyBefore) \/ Newest(in, t, s.FetchedAt)
  /\ Aged(in, s.From, historyBefore) =>
       /\ Over(in, s.From - 1) = {}
       /\ \E t \in Ticks(s) :
            Aged(in, t, historyBefore) /\ Newest(in, t, s.FetchedAt)

\* A mistaken variant: overlapping or touching intervals merge under the newest
\* stamp of all, as coalesce does.
NormalizeAsCoalesce(in, historyBefore) ==
  {[From |-> r.From, To |-> r.To,
    FetchedAt |-> CHOOSE f \in {iv.FetchedAt : iv \in in} :
                    \A iv \in in : Ticks(iv) \subseteq Ticks(r) => iv.FetchedAt <= f] :
     r \in Runs(UNION {Ticks(iv) : iv \in in})}

\* The minimal set of disjoint intervals that covers what in covers and carries
\* the newest stamp of every live part.
NormalizeCoverage(in, historyBefore) ==
  LET segments == {s \in [From : Bounds(in), To : Bounds(in),
                          FetchedAt : {iv.FetchedAt : iv \in in}] :
                     Mergeable(in, s, historyBefore)}
  IN  {s \in segments : \A r \in segments : Ticks(s) \subseteq Ticks(r) => r = s}

-----------------------------------------------------------------------------
(* Bars in memory *)

\* Bars by start time: the instant bars[t] was obtained from upstream, or NoBar.
NoBar == -1

\* The union of two bar sets, b winning where both hold a bar.
MergeBars(a, b) == [t \in DOMAIN a |-> IF b[t] # NoBar THEN b[t] ELSE a[t]]

\* The bars of [start, end], both ends included.
Clip(bars, start, end) ==
  [t \in DOMAIN bars |-> IF start <= t /\ t <= end THEN bars[t] ELSE NoBar]

=============================================================================
