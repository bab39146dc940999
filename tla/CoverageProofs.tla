--------------------------- MODULE CoverageProofs ---------------------------
(***************************************************************************)
(* Lemmas about the interval algebra of Coverage: a plan stays inside its  *)
(* window, asks for every tick that needs it and for no others but those   *)
(* it bridges; and normalizing a set of intervals covers the ticks of the  *)
(* set, no others, and stamps no live tick newer than it was fetched.      *)
(***************************************************************************)
EXTENDS Coverage, WellFoundedInduction, TLAPS

-----------------------------------------------------------------------------
(* The ends of bounded sets of instants *)

\* The smaller of two naturals comes first, and none comes before them all.
LEMMA LessWellFounded == IsWellFoundedOn({ss \in Nat \X Nat : ss[1] < ss[2]}, Nat)
BY NatLessThanWellFounded DEF OpToRel

LEMMA LeastNatural ==
  ASSUME NEW S \in SUBSET Nat, S # {}
  PROVE  \E n \in S : \A m \in S : n <= m
<1> DEFINE R == {ss \in Nat \X Nat : ss[1] < ss[2]}
<1>1. IsWellFoundedOn(R, Nat)
  BY LessWellFounded
<1>2. \A m, n \in Nat : m < n => <<m, n>> \in R
  OBVIOUS
<1> HIDE DEF R
<1>3. \E n \in S : \A m \in S : ~(<<m, n>> \in R)
  BY <1>1, WFMin
<1>4. PICK n \in S : \A m \in S : ~(<<m, n>> \in R)
  BY <1>3
<1>5. \A m \in S : ~(m < n)
  BY <1>2, <1>4
<1>6. \A m \in S : n <= m
  BY <1>5
<1> QED
  BY <1>6

\* A set of integers that is bounded below has a least element, and one that is
\* bounded above a greatest: the ends of a run of ticks.
LEMMA Least ==
  ASSUME NEW S \in SUBSET Int, S # {}, NEW low \in Int, \A m \in S : low <= m
  PROVE  \E n \in S : \A m \in S : n <= m
<1> DEFINE T == {n \in Nat : low + n \in S}
<1>1. PICK s \in S : TRUE
  OBVIOUS
<1>2. s - low \in T
  OBVIOUS
<1>3. PICK n \in T : \A m \in T : n <= m
  BY <1>2, LeastNatural
<1>4. ASSUME NEW m \in S PROVE low + n <= m
  <2>1. m - low \in T
    OBVIOUS
  <2> QED
    BY <1>3, <2>1
<1> QED
  BY <1>3, <1>4

LEMMA Greatest ==
  ASSUME NEW S \in SUBSET Int, S # {}, NEW high \in Int, \A m \in S : m <= high
  PROVE  \E n \in S : \A m \in S : m <= n
<1> DEFINE T == {n \in Nat : high - n \in S}
<1>1. PICK s \in S : TRUE
  OBVIOUS
<1>2. high - s \in T
  OBVIOUS
<1>3. PICK n \in T : \A m \in T : n <= m
  BY <1>2, LeastNatural
<1>4. ASSUME NEW m \in S PROVE m <= high - n
  <2>1. high - m \in T
    OBVIOUS
  <2> QED
    BY <1>3, <2>1
<1> QED
  BY <1>3, <1>4

-----------------------------------------------------------------------------
(* A plan stays in its window *)

\* A run of X starts and ends within the bounds of X.
LEMMA RunsWithin ==
  ASSUME NEW lo \in Int, NEW hi \in Int, NEW X \in SUBSET (lo .. (hi - 1))
  PROVE  \A r \in Runs(X) : r \in Range /\ lo <= r.From /\ r.To <= hi
<1> SUFFICES ASSUME NEW r \in Runs(X)
             PROVE  r \in Range /\ lo <= r.From /\ r.To <= hi
  OBVIOUS
<1>1. r \in [From : X, To : {t + 1 : t \in X}] /\ r.From < r.To
  BY DEF Runs
<1>2. r.From \in X /\ r.To \in {t + 1 : t \in X} /\ r = [From |-> r.From, To |-> r.To]
  BY <1>1
<1>3. PICK t \in X : r.To = t + 1
  BY <1>2
<1>4. /\ r.From \in Int /\ lo <= r.From
      /\ r.To \in Int /\ r.To <= hi
  BY <1>2, <1>3
<1>5. r \in [From : Int, To : Int]
  BY <1>2, <1>4
<1> QED
  BY <1>1, <1>4, <1>5 DEF Range

\* The ranges of a plan are nonempty parts of the window.
LEMMA PlanWithin ==
  ASSUME NEW intervals, NEW start \in Int, NEW end \in Int, NEW now \in Int,
         NEW ttl \in Int, NEW liveHorizon \in Int
  PROVE  \A r \in Plan(intervals, start, end, now, ttl, liveHorizon) :
           r \in Range /\ start <= r.From /\ r.To <= end
<1> DEFINE covered == {t \in start .. (end - 1) :
                         \E iv \in intervals : Covers(iv, t, now, ttl, liveHorizon)}
           gaps == ForgiveTrailingGap(Subtract(start, end, covered), start, end, now - ttl)
           bridged(g) == UNION {g.To .. (h.From - 1) :
                                  h \in {x \in gaps : x.From - g.To <= SliverThreshold}}
           merged == UNION {Ticks(g) \cup bridged(g) : g \in gaps}
<1>1. \A g \in gaps : g \in Range /\ start <= g.From /\ g.To <= end
  <2>1. ((start .. (end - 1)) \ covered) \subseteq start .. (end - 1)
    OBVIOUS
  <2>2. \A g \in Subtract(start, end, covered) : g \in Range /\ start <= g.From /\ g.To <= end
    BY <2>1, RunsWithin DEF Subtract
  <2> QED
    BY <2>2 DEF ForgiveTrailingGap
<1> HIDE DEF gaps
<1>2. merged \in SUBSET (start .. (end - 1))
  <2>1. \A g \in gaps : Ticks(g) \subseteq start .. (end - 1)
    BY <1>1 DEF Ticks, Range
  <2>2. \A g, h \in gaps : g.To .. (h.From - 1) \subseteq start .. (end - 1)
    BY <1>1 DEF Range
  <2>3. \A g \in gaps : bridged(g) \subseteq start .. (end - 1)
    BY <2>2
  <2> QED
    BY <2>1, <2>3
<1>3. Plan(intervals, start, end, now, ttl, liveHorizon) = Runs(merged)
  BY DEF Plan, MergeSlivers, gaps
<1> QED
  BY <1>2, <1>3, RunsWithin

-----------------------------------------------------------------------------

\* A normalized interval is a mergeable segment between two bounds.
LEMMA NormalizeSegments ==
  ASSUME NEW in \in SUBSET Interval, NEW h \in Int
  PROVE  \A s \in NormalizeCoverage(in, h) :
           /\ s \in Interval
           /\ Mergeable(in, s, h)
<1> SUFFICES ASSUME NEW s \in NormalizeCoverage(in, h)
             PROVE  s \in Interval /\ Mergeable(in, s, h)
  OBVIOUS
<1>1. s \in [From : Bounds(in), To : Bounds(in), FetchedAt : {iv.FetchedAt : iv \in in}]
  BY DEF NormalizeCoverage
<1>2. Mergeable(in, s, h)
  BY DEF NormalizeCoverage
<1>3. Bounds(in) \subseteq Int /\ {iv.FetchedAt : iv \in in} \subseteq Int
  BY DEF Bounds, Interval
<1>4. s.From < s.To
  BY <1>2 DEF Mergeable
<1>5. s \in [From : Int, To : Int, FetchedAt : Int]
  BY <1>1, <1>3
<1> QED
  BY <1>2, <1>4, <1>5 DEF Interval

\* Normalizing covers no instant, ends included, that no given interval covers.
LEMMA NormalizeCoversNoMore ==
  ASSUME NEW in \in SUBSET Interval, NEW h \in Int,
         NEW s \in NormalizeCoverage(in, h),
         NEW t \in Int, s.From <= t, t <= s.To
  PROVE  \E iv \in in : iv.From <= t /\ t <= iv.To
<1>1. s \in Interval /\ Mergeable(in, s, h)
  BY NormalizeSegments
<1>2. PICK u \in Ticks(s) : u <= t /\ t <= u + 1
  <2>1. CASE t < s.To
    BY <1>1, <2>1 DEF Ticks, Interval
  <2>2. CASE t = s.To
    <3>1. t - 1 \in Ticks(s)
      BY <1>1, <2>2 DEF Ticks, Interval
    <3> QED
      BY <3>1
  <2> QED
    BY <1>1, <2>1, <2>2 DEF Interval
<1>3. PICK iv \in in : u \in Ticks(iv)
  BY <1>1, <1>2 DEF Mergeable, Over
<1>4. iv \in Interval /\ u \in Int
  BY <1>1, <1>2 DEF Ticks, Interval
<1> QED
  BY <1>2, <1>3, <1>4 DEF Ticks, Interval

\* An instant after the boundary of history keeps a stamp it was fetched with.
LEMMA NormalizeKeepsStamps ==
  ASSUME NEW in \in SUBSET Interval, NEW h \in Int,
         NEW s \in NormalizeCoverage(in, h),
         NEW t \in Int, s.From <= t, t <= s.To, h < t
  PROVE  \E iv \in in : iv.From <= t /\ t <= iv.To /\ iv.FetchedAt = s.FetchedAt
<1>1. s \in Interval /\ Mergeable(in, s, h)
  BY NormalizeSegments
<1>2. PICK u \in Ticks(s) : u <= t /\ t <= u + 1 /\ h <= u
  <2>1. CASE t < s.To
    BY <1>1, <2>1 DEF Ticks, Interval
  <2>2. CASE t = s.To
    <3>1. t - 1 \in Ticks(s)
      BY <1>1, <2>2 DEF Ticks, Interval
    <3> QED
      BY <3>1
  <2> QED
    BY <1>1, <2>1, <2>2 DEF Interval
<1>3. u \in Int
  BY <1>1, <1>2 DEF Ticks, Interval
<1>4. ~Aged(in, u, h)
  BY <1>2, <1>3 DEF Aged, Bounds, Interval
<1>5. PICK iv \in in : u \in Ticks(iv) /\ iv.FetchedAt = s.FetchedAt
  BY <1>1, <1>2, <1>4 DEF Mergeable, Newest, Over
<1> QED
  BY <1>2, <1>3, <1>5 DEF Ticks, Interval

-----------------------------------------------------------------------------
(* A plan leaves nothing out that it may not, and adds nothing but slivers *)

\* Every tick of a bounded set is in a run of it.
LEMMA RunOf ==
  ASSUME NEW lo \in Int, NEW hi \in Int, NEW X \in SUBSET (lo .. (hi - 1)), NEW x \in X
  PROVE  \E r \in Runs(X) : x \in Ticks(r)
<1>1. x \in Int /\ lo <= x /\ x <= hi - 1
  OBVIOUS
<1>2. PICK from \in Int : /\ from <= x /\ from .. x \subseteq X /\ from - 1 \notin X
  <2> DEFINE S == {f \in lo .. x : f .. x \subseteq X}
  <2>1. x \in S
    BY <1>1
  <2>2. S \in SUBSET Int /\ \A f \in S : lo <= f
    OBVIOUS
  <2>3. PICK f \in S : \A m \in S : f <= m
    BY <2>1, <2>2, Least
  <2>4. ASSUME f - 1 \in X PROVE FALSE
    <3>1. f - 1 \in lo .. x /\ (f - 1) .. x \subseteq X
      BY <1>1, <2>3, <2>4
    <3>2. f - 1 \in S
      BY <3>1
    <3> QED
      BY <2>3, <3>2
  <2> QED
    BY <1>1, <2>3, <2>4
<1>3. PICK u \in Int : /\ x <= u /\ x .. u \subseteq X /\ u + 1 \notin X
  <2> DEFINE S == {f \in x .. (hi - 1) : x .. f \subseteq X}
  <2>1. x \in S
    BY <1>1
  <2>2. PICK high \in Int : S \in SUBSET Int /\ \A f \in S : f <= high
    <3>1. S \in SUBSET Int /\ hi - 1 \in Int /\ \A f \in S : f <= hi - 1
      OBVIOUS
    <3> QED
      BY <3>1
  <2>3. PICK f \in S : \A m \in S : m <= f
    <3> HIDE DEF S
    <3> QED
      BY <2>1, <2>2, Greatest
  <2>4. ASSUME f + 1 \in X PROVE FALSE
    <3>1. f + 1 \in x .. (hi - 1) /\ x .. (f + 1) \subseteq X
      BY <1>1, <2>3, <2>4
    <3>2. f + 1 \in S
      BY <3>1
    <3> QED
      BY <2>3, <3>2
  <2> QED
    BY <1>1, <2>3, <2>4
<1>4. PICK r : r = [From |-> from, To |-> u + 1]
  OBVIOUS
<1>5. r.From = from /\ r.To = u + 1
  BY <1>4
<1>6. from \in X /\ u \in X
  BY <1>1, <1>2, <1>3
<1>7. r \in [From : X, To : {t + 1 : t \in X}]
  BY <1>4, <1>6
<1>8. Ticks(r) = from .. u
  BY <1>2, <1>3, <1>5 DEF Ticks
<1>9. from .. u \subseteq X
  BY <1>1, <1>2, <1>3
<1>10. r \in Runs(X)
  BY <1>1, <1>2, <1>3, <1>5, <1>7, <1>8, <1>9 DEF Runs
<1> QED
  BY <1>1, <1>2, <1>3, <1>8, <1>10

\* Ticks of a set that have only ticks of the set between them are in the same run.
LEMMA RunHolds ==
  ASSUME NEW lo \in Int, NEW hi \in Int, NEW X \in SUBSET (lo .. (hi - 1)),
         NEW r \in Runs(X), NEW x \in Ticks(r), NEW a \in Int, NEW b \in Int,
         a <= x, x <= b, a .. b \subseteq X
  PROVE  a \in Ticks(r) /\ b \in Ticks(r)
<1>1. r \in Range
  BY RunsWithin
<1>2. r.From \in Int /\ r.To \in Int /\ r.From - 1 \notin X /\ r.To \notin X
  BY <1>1 DEF Range, Runs
<1>3. x \in Int /\ r.From <= x /\ x <= r.To - 1
  BY <1>2 DEF Ticks
<1>4. r.From <= a
  <2> SUFFICES ASSUME a <= r.From - 1 PROVE FALSE
    BY <1>2
  <2>1. r.From - 1 \in a .. b
    BY <1>2, <1>3
  <2> QED
    BY <1>2, <2>1
<1>5. b <= r.To - 1
  <2> SUFFICES ASSUME r.To <= b PROVE FALSE
    BY <1>2
  <2>1. r.To \in a .. b
    BY <1>2, <1>3
  <2> QED
    BY <1>2, <2>1
<1> QED
  BY <1>2, <1>3, <1>4, <1>5 DEF Ticks

\* Where a Plan's ticks come from: the gaps that are not forgiven, and slivers
\* between two of them.  A gap is forgiven when it reaches the end of the window,
\* is younger than the ttl and follows a tick that needs no fetch.
NoFetchNeeded(intervals, t, now, ttl, liveHorizon) ==
  \E iv \in intervals : Covers(iv, t, now, ttl, liveHorizon)

LEMMA PlanRuns ==
  ASSUME NEW intervals, NEW start \in Int, NEW end \in Int, NEW now \in Int,
         NEW ttl \in Int, NEW liveHorizon \in Int
  PROVE  \E X \in SUBSET (start .. (end - 1)) :
           /\ Plan(intervals, start, end, now, ttl, liveHorizon) = Runs(X)
           /\ \A t \in (start .. (end - 1)) \ X :
                \/ NoFetchNeeded(intervals, t, now, ttl, liveHorizon)
                \/ \E from \in (start + 1) .. t :
                     /\ from > now - ttl
                     /\ NoFetchNeeded(intervals, from - 1, now, ttl, liveHorizon)
                     /\ \A u \in from .. (end - 1) :
                          ~NoFetchNeeded(intervals, u, now, ttl, liveHorizon)
           /\ end - 1 \in X =>
                \E from \in X : /\ from = start \/ from <= now - ttl
                                /\ from .. (end - 1) \subseteq X
           /\ \A t \in X : NoFetchNeeded(intervals, t, now, ttl, liveHorizon) =>
                \E a, b \in X : /\ a < t /\ t < b /\ b - a - 1 <= SliverThreshold
                               /\ a .. b \subseteq X
                               /\ ~NoFetchNeeded(intervals, a, now, ttl, liveHorizon)
                               /\ ~NoFetchNeeded(intervals, b, now, ttl, liveHorizon)
<1> DEFINE adequate(t) == NoFetchNeeded(intervals, t, now, ttl, liveHorizon)
           covered == {t \in start .. (end - 1) :
                         \E iv \in intervals : Covers(iv, t, now, ttl, liveHorizon)}
           lacking == (start .. (end - 1)) \ covered
           gaps == ForgiveTrailingGap(Runs(lacking), start, end, now - ttl)
           bridged(g) == UNION {g.To .. (h.From - 1) :
                                  h \in {x \in gaps : x.From - g.To <= SliverThreshold}}
           X == UNION {Ticks(g) \cup bridged(g) : g \in gaps}
<1>1. \A t \in start .. (end - 1) : t \in lacking <=> ~adequate(t)
  BY DEF NoFetchNeeded
<1>2. lacking \in SUBSET (start .. (end - 1))
  OBVIOUS
<1>3. Plan(intervals, start, end, now, ttl, liveHorizon) = Runs(X)
  BY DEF Plan, MergeSlivers, Subtract
<1> HIDE DEF lacking, covered
<1>4. \A g \in Runs(lacking) : g \in Range /\ start <= g.From /\ g.To <= end
  BY <1>2, RunsWithin
<1>5. \A g \in Runs(lacking) : Ticks(g) \subseteq lacking
  BY DEF Runs
<1>6. gaps \subseteq Runs(lacking)
  BY DEF ForgiveTrailingGap
<1>7. \A g \in Runs(lacking) :
        g \notin gaps <=> g.To = end /\ g.From > start /\ g.From > now - ttl
  BY DEF ForgiveTrailingGap
<1> HIDE DEF gaps
<1>8. \A g \in gaps : /\ g.From \in Int /\ g.To \in Int /\ g.From < g.To
                      /\ start <= g.From /\ g.To <= end
                      /\ g.From .. (g.To - 1) \subseteq lacking
  BY <1>4, <1>5, <1>6 DEF Range, Ticks
<1>9. \A t : t \in X <=> \E g \in gaps :
        \/ t \in g.From .. (g.To - 1)
        \/ \E h \in gaps : h.From - g.To <= SliverThreshold /\ t \in g.To .. (h.From - 1)
  BY DEF Ticks
<1> HIDE DEF X
<1>10. X \in SUBSET (start .. (end - 1))
  <2> SUFFICES ASSUME NEW t \in X PROVE t \in start .. (end - 1)
    OBVIOUS
  <2>1. PICK g \in gaps :
        \/ t \in g.From .. (g.To - 1)
        \/ \E h \in gaps : h.From - g.To <= SliverThreshold /\ t \in g.To .. (h.From - 1)
    BY <1>9
  <2> QED
    BY <2>1, <1>8
<1>11. ASSUME NEW t \in (start .. (end - 1)) \ X, ~adequate(t)
       PROVE  \E from \in (start + 1) .. t :
                /\ from > now - ttl /\ adequate(from - 1)
                /\ \A u \in from .. (end - 1) : ~adequate(u)
  <2>1. PICK g \in Runs(lacking) : t \in Ticks(g)
    BY <1>1, <1>2, <1>11, RunOf
  <2>2. g.From \in Int /\ g.To \in Int /\ g.From <= t
    BY <2>1, <1>4 DEF Ticks, Range
  <2>3. g \notin gaps
    BY <2>1, <1>9, <1>11 DEF Ticks
  <2>4. g.To = end /\ g.From > start /\ g.From > now - ttl
    BY <2>3, <1>7
  <2>5. g.From - 1 \notin lacking /\ g.From .. (end - 1) \subseteq lacking
    BY <2>4, <1>5 DEF Runs, Ticks
  <2>6. adequate(g.From - 1)
    <3>1. g.From - 1 \in start .. (end - 1)
      BY <2>2, <2>4
    <3> QED
      BY <3>1, <2>5, <1>1
  <2>7. \A u \in g.From .. (end - 1) : ~adequate(u)
    BY <2>5, <1>1, <1>2
  <2>8. g.From \in (start + 1) .. t
    BY <2>2, <2>4
  <2> QED
    BY <2>4, <2>6, <2>7, <2>8
<1>12. ASSUME NEW t \in X, adequate(t)
       PROVE  \E a, b \in X : /\ a < t /\ t < b /\ b - a - 1 <= SliverThreshold
                             /\ a .. b \subseteq X
                             /\ ~adequate(a) /\ ~adequate(b)
  <2>1. t \notin lacking /\ t \in start .. (end - 1)
    BY <1>1, <1>10, <1>12
  <2>2. PICK g \in gaps :
        \/ t \in g.From .. (g.To - 1)
        \/ \E h \in gaps : h.From - g.To <= SliverThreshold /\ t \in g.To .. (h.From - 1)
    BY <1>9
  <2>3. PICK h \in gaps : h.From - g.To <= SliverThreshold /\ t \in g.To .. (h.From - 1)
    BY <2>1, <2>2, <1>8
  <2>4. PICK a \in Int, b \in Int : a = g.To - 1 /\ b = h.From
    BY <1>8
  <2>5. a \in g.From .. (g.To - 1) /\ b \in h.From .. (h.To - 1)
    BY <2>4, <1>8
  <2>6. a \in X /\ b \in X
    BY <2>5, <1>9
  <2>7. a \in lacking /\ b \in lacking
    BY <2>5, <1>8
  <2>8. ~adequate(a) /\ ~adequate(b)
    BY <2>7, <1>1, <1>2
  <2>9. a .. b \subseteq X
    <3> SUFFICES ASSUME NEW u \in a .. b PROVE u \in X
      OBVIOUS
    <3>1. u = a \/ u = b \/ u \in g.To .. (h.From - 1)
      BY <2>4, <1>8
    <3> QED
      BY <3>1, <2>3, <2>6, <1>9
  <2>10. a < t /\ t < b /\ b - a - 1 <= SliverThreshold
    BY <2>3, <2>4, <1>8, SliverAssumption
  <2> QED
    BY <2>6, <2>8, <2>9, <2>10
<1>13. ASSUME end - 1 \in X
       PROVE  \E from \in X : /\ from = start \/ from <= now - ttl
                              /\ from .. (end - 1) \subseteq X
  <2>1. PICK g \in gaps :
        \/ end - 1 \in g.From .. (g.To - 1)
        \/ \E h \in gaps : h.From - g.To <= SliverThreshold /\ end - 1 \in g.To .. (h.From - 1)
    BY <1>9, <1>13
  <2>2. g.To = end
    BY <2>1, <1>8
  <2>3. g.From = start \/ g.From <= now - ttl
    BY <2>2, <1>6, <1>7, <1>8
  <2>4. g.From .. (end - 1) \subseteq X
    BY <2>2, <1>9
  <2>5. g.From \in X
    BY <2>2, <2>4, <1>8
  <2> QED
    BY <2>3, <2>4, <2>5
<1> QED
  BY <1>3, <1>10, <1>11, <1>12, <1>13

\* A plan leaves out a tick only if it is adequately covered or belongs to a tail
\* within the ttl that follows one that is.
LEMMA PlanOmits ==
  ASSUME NEW intervals, NEW start \in Int, NEW end \in Int, NEW now \in Int,
         NEW ttl \in Int, NEW liveHorizon \in Int,
         NEW t \in start .. (end - 1),
         ~NoFetchNeeded(intervals, t, now, ttl, liveHorizon),
         \A r \in Plan(intervals, start, end, now, ttl, liveHorizon) : t \notin Ticks(r)
  PROVE  \E from \in (start + 1) .. t :
           /\ from > now - ttl
           /\ NoFetchNeeded(intervals, from - 1, now, ttl, liveHorizon)
           /\ \A u \in from .. (end - 1) :
                ~NoFetchNeeded(intervals, u, now, ttl, liveHorizon)
<1>1. PICK X \in SUBSET (start .. (end - 1)) :
        /\ Plan(intervals, start, end, now, ttl, liveHorizon) = Runs(X)
        /\ \A v \in (start .. (end - 1)) \ X :
             \/ NoFetchNeeded(intervals, v, now, ttl, liveHorizon)
             \/ \E from \in (start + 1) .. v :
                  /\ from > now - ttl
                  /\ NoFetchNeeded(intervals, from - 1, now, ttl, liveHorizon)
                  /\ \A u \in from .. (end - 1) :
                       ~NoFetchNeeded(intervals, u, now, ttl, liveHorizon)
  BY PlanRuns
<1>2. ASSUME t \in X PROVE FALSE
  <2>1. PICK r \in Runs(X) : t \in Ticks(r)
    BY <1>2, RunOf
  <2> QED
    BY <1>1, <2>1
<1> QED
  BY <1>1, <1>2

\* A plan leaves out a tick only if it is adequately covered or within the ttl.
LEMMA PlanCompletes ==
  ASSUME NEW intervals, NEW start \in Int, NEW end \in Int, NEW now \in Int,
         NEW ttl \in Int, NEW liveHorizon \in Int,
         NEW t \in start .. (end - 1), t <= now - ttl,
         ~NoFetchNeeded(intervals, t, now, ttl, liveHorizon)
  PROVE  \E r \in Plan(intervals, start, end, now, ttl, liveHorizon) : t \in Ticks(r)
<1> SUFFICES ASSUME \A r \in Plan(intervals, start, end, now, ttl, liveHorizon) : t \notin Ticks(r)
             PROVE  FALSE
  OBVIOUS
<1>1. PICK from \in (start + 1) .. t : from > now - ttl
  BY PlanOmits
<1> QED
  BY <1>1

\* A range that reaches the end of the window starts with the window or is as old
\* as the ttl.
LEMMA PlanForgives ==
  ASSUME NEW intervals, NEW start \in Int, NEW end \in Int, NEW now \in Int,
         NEW ttl \in Int, NEW liveHorizon \in Int,
         NEW r \in Plan(intervals, start, end, now, ttl, liveHorizon), r.To = end
  PROVE  r.From = start \/ r.From <= now - ttl
<1>1. PICK X \in SUBSET (start .. (end - 1)) :
        /\ Plan(intervals, start, end, now, ttl, liveHorizon) = Runs(X)
        /\ end - 1 \in X =>
             \E from \in X : /\ from = start \/ from <= now - ttl
                             /\ from .. (end - 1) \subseteq X
  BY PlanRuns
<1>2. r \in Range /\ start <= r.From /\ r.From \in Int
  BY PlanWithin DEF Range
<1>3. PICK last \in Int : last = end - 1
  OBVIOUS
<1>4. last \in Ticks(r) /\ r \in Runs(X) /\ Ticks(r) \subseteq X
  BY <1>1, <1>2, <1>3 DEF Ticks, Range, Runs
<1>5. PICK from \in X : /\ from = start \/ from <= now - ttl
                        /\ from .. last \subseteq X
  BY <1>1, <1>3, <1>4
<1>6. from \in Ticks(r)
  <2>1. from \in Int /\ from <= last /\ last <= last
    BY <1>3
  <2> QED
    BY <1>4, <1>5, <2>1, RunHolds
<1>7. r.From <= from
  BY <1>2, <1>6 DEF Ticks, Range
<1> QED
  BY <1>2, <1>5, <1>7

\* A plan asks for an adequately covered tick only in a sliver between two that are
\* not.
LEMMA PlanNeeds ==
  ASSUME NEW intervals, NEW start \in Int, NEW end \in Int, NEW now \in Int,
         NEW ttl \in Int, NEW liveHorizon \in Int,
         NEW r \in Plan(intervals, start, end, now, ttl, liveHorizon),
         NEW t \in Ticks(r), NoFetchNeeded(intervals, t, now, ttl, liveHorizon)
  PROVE  \E a, b \in Ticks(r) : /\ a < t /\ t < b /\ b - a - 1 <= SliverThreshold
                               /\ ~NoFetchNeeded(intervals, a, now, ttl, liveHorizon)
                               /\ ~NoFetchNeeded(intervals, b, now, ttl, liveHorizon)
<1>1. PICK X \in SUBSET (start .. (end - 1)) :
        /\ Plan(intervals, start, end, now, ttl, liveHorizon) = Runs(X)
        /\ \A u \in X : NoFetchNeeded(intervals, u, now, ttl, liveHorizon) =>
             \E a, b \in X : /\ a < u /\ u < b /\ b - a - 1 <= SliverThreshold
                            /\ a .. b \subseteq X
                            /\ ~NoFetchNeeded(intervals, a, now, ttl, liveHorizon)
                            /\ ~NoFetchNeeded(intervals, b, now, ttl, liveHorizon)
  BY PlanRuns
<1>2. r \in Runs(X) /\ t \in X
  BY <1>1 DEF Runs
<1>3. PICK a \in X, b \in X : /\ a < t /\ t < b /\ b - a - 1 <= SliverThreshold
                             /\ a .. b \subseteq X
                             /\ ~NoFetchNeeded(intervals, a, now, ttl, liveHorizon)
                             /\ ~NoFetchNeeded(intervals, b, now, ttl, liveHorizon)
  BY <1>1, <1>2
<1>4. a \in Int /\ b \in Int /\ t \in Int /\ a <= t /\ t <= b
  BY <1>1, <1>2, <1>3
<1>5. a \in Ticks(r) /\ b \in Ticks(r)
  BY <1>1, <1>2, <1>3, <1>4, RunHolds
<1> QED
  BY <1>3, <1>5

-----------------------------------------------------------------------------
(* Normalizing loses no tick *)

Bounded(in) ==
  \E low, high \in Int :
    \A iv \in in : low <= iv.From /\ iv.To <= high /\ low <= iv.FetchedAt /\ iv.FetchedAt <= high

LEMMA BoundsOf ==
  ASSUME NEW in \in SUBSET Interval
  PROVE  /\ Bounds(in) \subseteq Int
         /\ \A b : b \in Bounds(in) <=> \E iv \in in : b = iv.From \/ b = iv.To
BY DEF Bounds, Interval

\* A tick and the one before it lie in the same intervals unless a bound is between
\* them.
LEMMA OverBetween ==
  ASSUME NEW in \in SUBSET Interval, NEW t \in Int, NEW u \in Int, t <= u,
         \A b \in Bounds(in) : ~(t < b /\ b <= u)
  PROVE  Over(in, t) = Over(in, u)
<1>1. \A iv \in in : /\ iv.From \in Int /\ iv.To \in Int
                    /\ ~(t < iv.From /\ iv.From <= u) /\ ~(t < iv.To /\ iv.To <= u)
  BY BoundsOf DEF Interval
<1>2. \A iv \in in : t \in Ticks(iv) <=> u \in Ticks(iv)
  BY <1>1 DEF Ticks
<1> QED
  BY <1>2 DEF Over

\* The greatest bound at or before a covered tick, and the least after it.
LEMMA Elementary ==
  ASSUME NEW in \in SUBSET Interval, NEW t \in Int, Over(in, t) # {}, Bounded(in)
  PROVE  \E from, to \in Bounds(in) :
           /\ from <= t /\ t < to
           /\ \A b \in Bounds(in) : b <= t => b <= from
           /\ \A b \in Bounds(in) : t < b => to <= b
           /\ \A u \in from .. (to - 1) : Over(in, u) = Over(in, t)
<1>1. PICK iv \in in : t \in Ticks(iv)
  BY DEF Over
<1>2. /\ iv.From \in Bounds(in) /\ iv.To \in Bounds(in)
      /\ iv.From \in Int /\ iv.To \in Int /\ iv.From <= t /\ t < iv.To
  BY <1>1, BoundsOf DEF Ticks, Interval
<1>3. PICK from \in Bounds(in) : from <= t /\ \A b \in Bounds(in) : b <= t => b <= from
  <2> DEFINE S == {b \in Bounds(in) : b <= t}
  <2>1. S \in SUBSET Int /\ S # {} /\ \A b \in S : b <= t
    BY <1>2, BoundsOf
  <2>2. PICK from \in S : \A b \in S : b <= from
    <3> HIDE DEF S
    <3> QED
      BY <2>1, Greatest
  <2> QED
    BY <2>2
<1>4. PICK to \in Bounds(in) : t < to /\ \A b \in Bounds(in) : t < b => to <= b
  <2> DEFINE S == {b \in Bounds(in) : t < b}
  <2>1. S \in SUBSET Int /\ S # {} /\ \A b \in S : t <= b
    BY <1>2, BoundsOf
  <2>2. PICK to \in S : \A b \in S : to <= b
    <3> HIDE DEF S
    <3> QED
      BY <2>1, Least
  <2> QED
    BY <2>2
<1>5. from \in Int /\ to \in Int
  BY BoundsOf
<1>6. ASSUME NEW u \in from .. (to - 1)
      PROVE  Over(in, u) = Over(in, t)
  <2>1. \A b \in Bounds(in) : b \in Int /\ (b <= from \/ to <= b)
    BY <1>3, <1>4, BoundsOf
  <2>2. u \in Int
    BY <1>5
  <2>3. CASE u <= t
    BY <1>4, <1>5, <2>1, <2>2, <2>3, OverBetween
  <2>4. CASE t <= u
    BY <1>3, <1>5, <2>1, <2>2, <2>4, OverBetween
  <2> QED
    BY <2>2, <2>3, <2>4
<1> QED
  BY <1>3, <1>4, <1>6

\* The start of the coverage that reaches a covered tick without a hole.
LEMMA CoverageStart ==
  ASSUME NEW in \in SUBSET Interval, NEW t \in Int, Over(in, t) # {}, Bounded(in)
  PROVE  \E from \in Bounds(in) :
           /\ from <= t
           /\ \A u \in from .. t : Over(in, u) # {}
           /\ Over(in, from - 1) = {}
<1>1. PICK low \in Int : \A iv \in in : low <= iv.From
  BY DEF Bounded
<1>2. \A u \in Int : Over(in, u) # {} => low <= u
  BY <1>1 DEF Over, Ticks, Interval
<1> DEFINE S == {f \in Int : f <= t /\ \A u \in f .. t : Over(in, u) # {}}
<1>3. t \in S
  OBVIOUS
<1>4. S \in SUBSET Int /\ \A f \in S : low <= f
  BY <1>2
<1>5. PICK from \in S : \A f \in S : from <= f
  <2> HIDE DEF S
  <2> QED
    BY <1>3, <1>4, Least
<1>6. from \in Int /\ from <= t /\ \A u \in from .. t : Over(in, u) # {}
  BY <1>5
<1>7. Over(in, from - 1) = {}
  <2> SUFFICES ASSUME Over(in, from - 1) # {} PROVE FALSE
    OBVIOUS
  <2>1. \A u \in (from - 1) .. t : u = from - 1 \/ u \in from .. t
    BY <1>6
  <2>2. from - 1 \in Int /\ from - 1 <= t
    BY <1>6
  <2>3. from - 1 \in S
    BY <1>6, <2>1, <2>2
  <2>4. from <= from - 1
    <3> HIDE DEF S
    <3> QED
      BY <1>5, <2>3
  <2> QED
    BY <1>6, <2>4
<1>8. from \in Bounds(in)
  <2>1. PICK iv \in in : from \in Ticks(iv)
    BY <1>6 DEF Over
  <2>2. from - 1 \notin Ticks(iv)
    BY <1>7 DEF Over
  <2>3. iv.From = from
    BY <1>6, <2>1, <2>2 DEF Ticks, Interval
  <2> QED
    BY <2>3, BoundsOf
<1> QED
  BY <1>6, <1>7, <1>8

Segments(in) == [From : Bounds(in), To : Bounds(in), FetchedAt : {iv.FetchedAt : iv \in in}]

LEMMA MergeableLive ==
  ASSUME NEW in \in SUBSET Interval, NEW h \in Int, Bounded(in),
         NEW t \in Int, Over(in, t) # {}, ~Aged(in, t, h)
  PROVE  \E s \in Segments(in) : Mergeable(in, s, h) /\ t \in Ticks(s)
<1>1. PICK from \in Bounds(in), to \in Bounds(in) :
        /\ from <= t /\ t < to
        /\ \A b \in Bounds(in) : b <= t => b <= from
        /\ \A u \in from .. (to - 1) : Over(in, u) = Over(in, t)
  BY Elementary
<1>2. from \in Int /\ to \in Int
  BY BoundsOf
<1>3. PICK f : /\ f \in {iv.FetchedAt : iv \in in}
               /\ \E iv \in Over(in, t) : iv.FetchedAt = f
               /\ \A iv \in Over(in, t) : iv.FetchedAt <= f
  <2> DEFINE S == {iv.FetchedAt : iv \in Over(in, t)}
  <2>1. PICK high \in Int : \A iv \in in : iv.FetchedAt <= high
    BY DEF Bounded
  <2>2. S \in SUBSET Int /\ S # {} /\ \A x \in S : x <= high
    BY <2>1 DEF Over, Interval
  <2>3. PICK f \in S : \A x \in S : x <= f
    <3> HIDE DEF S
    <3> QED
      BY <2>2, Greatest
  <2> QED
    BY <2>3 DEF Over
<1>4. PICK s : s = [From |-> from, To |-> to, FetchedAt |-> f]
  OBVIOUS
<1>5. s.From = from /\ s.To = to /\ s.FetchedAt = f
  BY <1>4
<1>6. s \in Segments(in)
  BY <1>3, <1>4 DEF Segments
<1>7. Ticks(s) = from .. (to - 1)
  BY <1>5 DEF Ticks
<1>8. ~Aged(in, from, h)
  <2> SUFFICES ASSUME NEW b \in Bounds(in), from < b, b <= h PROVE FALSE
    BY DEF Aged
  <2>1. b \in Int
    BY BoundsOf
  <2>2. b <= t
    BY <2>1 DEF Aged
  <2> QED
    BY <1>1, <1>2, <2>1, <2>2
<1>9. \A u \in Ticks(s) : Over(in, u) = Over(in, t)
  BY <1>1, <1>7
<1>10. \A u \in Ticks(s) :
         /\ Over(in, u) # {}
         /\ \A iv \in Over(in, u) : iv.FetchedAt <= s.FetchedAt
         /\ Newest(in, u, s.FetchedAt)
  BY <1>3, <1>5, <1>9 DEF Newest
<1>11. s.From < s.To
  BY <1>1, <1>2, <1>5
<1>12. Mergeable(in, s, h)
  BY <1>5, <1>8, <1>10, <1>11 DEF Mergeable
<1> QED
  BY <1>1, <1>2, <1>6, <1>7, <1>12

LEMMA MergeableAged ==
  ASSUME NEW in \in SUBSET Interval, NEW h \in Int, Bounded(in),
         NEW t \in Int, Over(in, t) # {}, Aged(in, t, h)
  PROVE  \E s \in Segments(in) : Mergeable(in, s, h) /\ t \in Ticks(s)
<1>1. PICK to \in Bounds(in) :
        /\ t < to
        /\ \A b \in Bounds(in) : t < b => to <= b
        /\ \A u \in t .. (to - 1) : Over(in, u) = Over(in, t)
  <2>1. PICK low \in Bounds(in), to \in Bounds(in) :
          /\ low <= t /\ t < to
          /\ \A b \in Bounds(in) : t < b => to <= b
          /\ \A u \in low .. (to - 1) : Over(in, u) = Over(in, t)
    BY Elementary
  <2>2. low \in Int /\ to \in Int
    BY BoundsOf
  <2> QED
    BY <2>1, <2>2
<1>2. PICK from \in Bounds(in) :
        /\ from <= t
        /\ \A u \in from .. t : Over(in, u) # {}
        /\ Over(in, from - 1) = {}
  BY CoverageStart
<1>3. from \in Int /\ to \in Int
  BY BoundsOf
<1>4. to <= h
  <2>1. PICK b \in Bounds(in) : t < b /\ b <= h
    BY DEF Aged
  <2>2. b \in Int /\ to <= b
    BY <1>1, <2>1, BoundsOf
  <2> QED
    BY <1>3, <2>1, <2>2
<1>5. \A u \in from .. (to - 1) : Over(in, u) # {} /\ Aged(in, u, h)
  <2> SUFFICES ASSUME NEW u \in from .. (to - 1) PROVE Over(in, u) # {} /\ Aged(in, u, h)
    OBVIOUS
  <2>1. u \in from .. t \/ u \in t .. (to - 1)
    BY <1>1, <1>2, <1>3
  <2>2. Over(in, u) # {}
    BY <1>1, <1>2, <2>1
  <2>3. u < to
    BY <1>3
  <2> QED
    BY <1>4, <2>2, <2>3 DEF Aged
<1> DEFINE S == {iv.FetchedAt : iv \in {i \in in : \E u \in from .. (to - 1) : u \in Ticks(i)}}
<1>6. PICK f \in S : \A x \in S : x <= f
  <2>1. PICK high \in Int : \A iv \in in : iv.FetchedAt <= high
    BY DEF Bounded
  <2>2. S \in SUBSET Int /\ \A x \in S : x <= high
    BY <2>1 DEF Interval
  <2>3. S # {}
    <3>1. t \in from .. (to - 1)
      BY <1>1, <1>2, <1>3
    <3>2. PICK iv \in in : t \in Ticks(iv)
      BY DEF Over
    <3> QED
      BY <3>1, <3>2
  <2> QED
    <3> HIDE DEF S
    <3> QED
      BY <2>2, <2>3, Greatest
<1>7. PICK v \in in, w \in from .. (to - 1) : w \in Ticks(v) /\ v.FetchedAt = f
  BY <1>6
<1>8. \A u \in from .. (to - 1) : \A iv \in Over(in, u) : iv.FetchedAt <= f
  BY <1>6 DEF Over
<1>9. Newest(in, w, f)
  BY <1>7, <1>8 DEF Newest, Over
<1> HIDE DEF S
<1>10. PICK s : s = [From |-> from, To |-> to, FetchedAt |-> f]
  OBVIOUS
<1>11. s.From = from /\ s.To = to /\ s.FetchedAt = f
  BY <1>10
<1>12. s \in Segments(in)
  BY <1>7, <1>10 DEF Segments
<1>13. Ticks(s) = from .. (to - 1)
  BY <1>11 DEF Ticks
<1>14. s.From < s.To
  BY <1>1, <1>2, <1>3, <1>11
<1>15. \A u \in Ticks(s) :
         /\ Over(in, u) # {}
         /\ \A iv \in Over(in, u) : iv.FetchedAt <= s.FetchedAt
         /\ Aged(in, u, h)
  BY <1>5, <1>8, <1>11, <1>13
<1>16. \E u \in Ticks(s) : Aged(in, u, h) /\ Newest(in, u, s.FetchedAt)
  BY <1>5, <1>7, <1>9, <1>11, <1>13
<1>17. Mergeable(in, s, h)
  BY <1>2, <1>11, <1>14, <1>15, <1>16 DEF Mergeable
<1> QED
  BY <1>1, <1>2, <1>3, <1>12, <1>13, <1>17

\* The ticks of a segment determine its stamp.
LEMMA StampDetermined ==
  ASSUME NEW in \in SUBSET Interval, NEW h \in Int,
         NEW s \in Interval, NEW r \in Interval, Mergeable(in, s, h), Mergeable(in, r, h),
         s.From = r.From, s.To = r.To
  PROVE  s.FetchedAt <= r.FetchedAt
<1>1. Ticks(s) = Ticks(r) /\ s.From \in Ticks(s)
  BY DEF Ticks, Interval
<1>2. PICK t \in Ticks(s) : Newest(in, t, s.FetchedAt)
  <2>1. CASE Aged(in, s.From, h)
    BY <2>1 DEF Mergeable
  <2>2. CASE ~Aged(in, s.From, h)
    BY <1>1, <2>2 DEF Mergeable
  <2> QED
    BY <2>1, <2>2
<1>3. PICK iv \in Over(in, t) : iv.FetchedAt = s.FetchedAt
  BY <1>2 DEF Newest
<1> QED
  BY <1>1, <1>2, <1>3 DEF Mergeable

\* Normalizing loses no tick.
LEMMA NormalizeKeepsTicks ==
  ASSUME NEW in \in SUBSET Interval, NEW h \in Int, Bounded(in),
         NEW t \in Int, Over(in, t) # {}
  PROVE  Over(NormalizeCoverage(in, h), t) # {}
<1> DEFINE segments == {s \in Segments(in) : Mergeable(in, s, h)}
           S == {s.To - s.From : s \in {x \in segments : t \in Ticks(x)}}
<1>1. NormalizeCoverage(in, h)
        = {s \in segments : \A r \in segments : Ticks(s) \subseteq Ticks(r) => r = s}
  BY DEF NormalizeCoverage, Segments
<1>2. \A s \in segments : /\ s \in Interval /\ s.From \in Int /\ s.To \in Int /\ s.From < s.To
                         /\ s.From \in Bounds(in) /\ s.To \in Bounds(in)
                         /\ s = [From |-> s.From, To |-> s.To, FetchedAt |-> s.FetchedAt]
  <2> SUFFICES ASSUME NEW s \in Segments(in), Mergeable(in, s, h)
               PROVE  /\ s \in Interval /\ s.From \in Int /\ s.To \in Int /\ s.From < s.To
                      /\ s.From \in Bounds(in) /\ s.To \in Bounds(in)
                      /\ s = [From |-> s.From, To |-> s.To, FetchedAt |-> s.FetchedAt]
    OBVIOUS
  <2>1. Bounds(in) \subseteq Int /\ {iv.FetchedAt : iv \in in} \subseteq Int
    BY BoundsOf DEF Interval
  <2>2. s.From < s.To
    BY DEF Mergeable
  <2>3. s \in [From : Int, To : Int, FetchedAt : Int]
    BY <2>1 DEF Segments
  <2> QED
    BY <2>1, <2>2, <2>3 DEF Segments, Interval
<1>3. PICK low \in Int, high \in Int : \A iv \in in : low <= iv.From /\ iv.To <= high
  BY DEF Bounded
<1>4. \A b \in Bounds(in) : b \in Int /\ low <= b /\ b <= high
  BY <1>3, BoundsOf DEF Interval
<1>5. PICK span \in Int : \A s \in segments : s.To - s.From <= span
  <2>1. \A s \in segments : s.To - s.From <= high - low
    BY <1>2, <1>4
  <2>2. high - low \in Int
    OBVIOUS
  <2> HIDE DEF segments
  <2> QED
    BY <2>1, <2>2
<1>6. \E s \in segments : t \in Ticks(s)
  BY MergeableLive, MergeableAged
<1> HIDE DEF segments
<1>7. S \in SUBSET Int /\ S # {} /\ \A x \in S : x <= span
  BY <1>2, <1>5, <1>6
<1>8. PICK m \in S : \A x \in S : x <= m
  <2> HIDE DEF S
  <2> QED
    BY <1>7, Greatest
<1>9. PICK s \in segments : t \in Ticks(s) /\ s.To - s.From = m
  BY <1>8
<1>10. ASSUME NEW r \in segments, Ticks(s) \subseteq Ticks(r)
       PROVE  r = s
  <2>1. s.From \in Ticks(s) /\ s.To - 1 \in Ticks(s)
    BY <1>2 DEF Ticks
  <2>2. r.From <= s.From /\ s.To <= r.To
    BY <1>2, <1>10, <2>1 DEF Ticks
  <2>3. r.To - r.From <= s.To - s.From
    BY <1>8, <1>9, <1>10
  <2>4. r.From = s.From /\ r.To = s.To
    BY <1>2, <2>2, <2>3
  <2>5. r.FetchedAt <= s.FetchedAt /\ s.FetchedAt <= r.FetchedAt
    BY <1>2, <2>4, StampDetermined DEF segments
  <2>6. r.FetchedAt = s.FetchedAt
    BY <1>2, <2>5 DEF Interval
  <2> QED
    BY <1>2, <2>4, <2>6
<1> QED
  BY <1>1, <1>9, <1>10 DEF Over

\* A normalized set is bounded as what it was made of is.
LEMMA NormalizeBounded ==
  ASSUME NEW in \in SUBSET Interval, NEW h \in Int, Bounded(in)
  PROVE  Bounded(NormalizeCoverage(in, h))
<1>1. PICK low \in Int, high \in Int :
        \A iv \in in : /\ low <= iv.From /\ iv.To <= high
                      /\ low <= iv.FetchedAt /\ iv.FetchedAt <= high
  BY DEF Bounded
<1>2. \A iv \in in : low <= iv.To /\ iv.From <= high
  BY <1>1 DEF Interval
<1>3. \A b \in Bounds(in) : low <= b /\ b <= high
  BY <1>1, <1>2, BoundsOf
<1>4. \A s \in NormalizeCoverage(in, h) :
        /\ s.From \in Bounds(in) /\ s.To \in Bounds(in)
        /\ s.FetchedAt \in {iv.FetchedAt : iv \in in}
  BY DEF NormalizeCoverage
<1>5. \A s \in NormalizeCoverage(in, h) :
        /\ low <= s.From /\ s.To <= high /\ low <= s.FetchedAt /\ s.FetchedAt <= high
  BY <1>1, <1>3, <1>4
<1> QED
  BY <1>5 DEF Bounded

-----------------------------------------------------------------------------
(* Normalizing keeps no two intervals that could be one *)

\* Two segments under one stamp that overlap or touch are one.
LEMMA MergeableJoin ==
  ASSUME NEW in \in SUBSET Interval, NEW h \in Int,
         NEW a \in Segments(in), NEW b \in Segments(in),
         Mergeable(in, a, h), Mergeable(in, b, h), a.FetchedAt = b.FetchedAt,
         a.From <= b.From, b.From <= a.To
  PROVE  \E s \in Segments(in) : /\ Mergeable(in, s, h)
                                /\ Ticks(a) \cup Ticks(b) \subseteq Ticks(s)
<1>1. /\ a.From \in Bounds(in) /\ a.To \in Bounds(in)
      /\ b.From \in Bounds(in) /\ b.To \in Bounds(in)
      /\ a.FetchedAt \in {iv.FetchedAt : iv \in in}
  BY DEF Segments
<1>2. /\ a.From \in Int /\ a.To \in Int /\ a.From < a.To
      /\ b.From \in Int /\ b.To \in Int /\ b.From < b.To
  BY <1>1, BoundsOf DEF Mergeable
<1>3. PICK to \in Bounds(in) : /\ to = a.To \/ to = b.To
                              /\ a.To <= to /\ b.To <= to
  BY <1>1, <1>2
<1>4. PICK s : s = [From |-> a.From, To |-> to, FetchedAt |-> a.FetchedAt]
  OBVIOUS
<1>5. s \in Segments(in) /\ s.From = a.From /\ s.To = to /\ s.FetchedAt = a.FetchedAt
  BY <1>1, <1>4 DEF Segments
<1>6. Ticks(s) = Ticks(a) \cup Ticks(b)
  BY <1>2, <1>3, <1>5 DEF Ticks
<1>7. s.From < s.To
  BY <1>2, <1>3, <1>5
<1>8. \A t \in Ticks(s) :
        /\ Over(in, t) # {}
        /\ \A iv \in Over(in, t) : iv.FetchedAt <= s.FetchedAt
        /\ Aged(in, t, h) \/ Newest(in, t, s.FetchedAt)
  BY <1>5, <1>6 DEF Mergeable
<1>9. Aged(in, s.From, h) =>
        /\ Over(in, s.From - 1) = {}
        /\ \E t \in Ticks(s) : Aged(in, t, h) /\ Newest(in, t, s.FetchedAt)
  BY <1>5, <1>6 DEF Mergeable
<1>10. Mergeable(in, s, h)
  BY <1>7, <1>8, <1>9 DEF Mergeable
<1> QED
  BY <1>5, <1>6, <1>10

\* So normalizing leaves no two of them apart.
LEMMA NormalizeJoins ==
  ASSUME NEW in \in SUBSET Interval, NEW h \in Int,
         NEW a \in NormalizeCoverage(in, h), NEW b \in NormalizeCoverage(in, h),
         a.FetchedAt = b.FetchedAt, a.From <= b.From, b.From <= a.To
  PROVE  a = b
<1>1. \A s \in NormalizeCoverage(in, h) :
        /\ s \in Segments(in) /\ Mergeable(in, s, h)
        /\ \A r \in Segments(in) :
             Mergeable(in, r, h) /\ Ticks(s) \subseteq Ticks(r) => r = s
  BY DEF NormalizeCoverage, Segments
<1>2. PICK s \in Segments(in) : /\ Mergeable(in, s, h)
                               /\ Ticks(a) \cup Ticks(b) \subseteq Ticks(s)
  BY <1>1, MergeableJoin
<1> QED
  BY <1>1, <1>2

\* A normalized interval that starts in history starts where coverage starts.
LEMMA NormalizeHistory ==
  ASSUME NEW in \in SUBSET Interval, NEW h \in Int,
         NEW a \in NormalizeCoverage(in, h), NEW b \in NormalizeCoverage(in, h),
         Aged(in, b.From, h)
  PROVE  ~(a.From < b.From /\ b.From <= a.To)
<1> SUFFICES ASSUME a.From < b.From, b.From <= a.To PROVE FALSE
  OBVIOUS
<1>1. /\ a \in Interval /\ Mergeable(in, a, h)
      /\ b \in Interval /\ Mergeable(in, b, h)
  BY NormalizeSegments
<1>2. b.From - 1 \in Ticks(a)
  BY <1>1 DEF Ticks, Interval
<1> QED
  BY <1>1, <1>2 DEF Mergeable

\* A normalized set is disjoint.
LEMMA NormalizeDisjoint ==
  ASSUME NEW in \in SUBSET Interval, NEW h \in Int,
         NEW a \in NormalizeCoverage(in, h), NEW b \in NormalizeCoverage(in, h),
         NEW t \in Ticks(a) \cap Ticks(b)
  PROVE  a = b
<1>1. /\ a \in Interval /\ Mergeable(in, a, h)
      /\ b \in Interval /\ Mergeable(in, b, h)
  BY NormalizeSegments
<1>2. /\ a.From \in Int /\ a.To \in Int /\ b.From \in Int /\ b.To \in Int /\ t \in Int
      /\ a.From <= t /\ t < a.To /\ b.From <= t /\ t < b.To
      /\ a.FetchedAt \in Int /\ b.FetchedAt \in Int
  BY <1>1 DEF Ticks, Interval
<1>3. CASE ~Aged(in, t, h)
  <2>1. Newest(in, t, a.FetchedAt) /\ Newest(in, t, b.FetchedAt)
    BY <1>1, <1>3 DEF Mergeable
  <2>2. a.FetchedAt <= b.FetchedAt /\ b.FetchedAt <= a.FetchedAt
    BY <2>1 DEF Newest
  <2>3. a.FetchedAt = b.FetchedAt
    BY <1>2, <2>2
  <2>4. CASE a.From <= b.From
    BY <1>2, <2>3, <2>4, NormalizeJoins
  <2>5. CASE b.From <= a.From
    BY <1>2, <2>3, <2>5, NormalizeJoins
  <2> QED
    BY <1>2, <2>4, <2>5
<1>4. CASE Aged(in, t, h)
  <2>1. Aged(in, a.From, h) /\ Aged(in, b.From, h)
    BY <1>2, <1>4, BoundsOf DEF Aged
  <2>2. a.From = b.From
    BY <1>2, <2>1, NormalizeHistory
  <2>3. Ticks(a) \subseteq Ticks(b) \/ Ticks(b) \subseteq Ticks(a)
    BY <1>2, <2>2 DEF Ticks
  <2> QED
    BY <1>1, <2>3 DEF NormalizeCoverage
<1> QED
  BY <1>3, <1>4

\* A live tick keeps the newest stamp over it.
LEMMA NormalizeFresh ==
  ASSUME NEW in \in SUBSET Interval, NEW h \in Int,
         NEW s \in NormalizeCoverage(in, h), NEW t \in Ticks(s), h <= t
  PROVE  Newest(in, t, s.FetchedAt)
<1>1. s \in Interval /\ Mergeable(in, s, h)
  BY NormalizeSegments
<1>2. t \in Int
  BY <1>1 DEF Ticks, Interval
<1>3. ~Aged(in, t, h)
  BY <1>2, BoundsOf DEF Aged
<1> QED
  BY <1>1, <1>3 DEF Mergeable

=============================================================================
