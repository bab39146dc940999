-------------------------- MODULE MCNormalizeProofs --------------------------
(***************************************************************************)
(* Proofs about NormalizeLoop and MCNormalize: the sweep yields the set    *)
(* that Coverage defines, for any intervals and any boundary of history;   *)
(* and for any number of fetches of any intervals, what compaction after   *)
(* every fetch must keep, and what it must not.                            *)
(***************************************************************************)
EXTENDS MCNormalize, CoverageProofs

-----------------------------------------------------------------------------
(* The segments of a sweep *)

\* Tick t lies in a segment of s; the segments of s are in order, each could be one
\* of the result, and two that touch could not be one.
InSome(s, t)       == \E i \in 1 .. Len(s) : s[i].From <= t /\ t < s[i].To
Ordered(s)         == \A i, j \in 1 .. Len(s) : i < j => s[i].To <= s[j].From
AllMergeable(I, h, s) ==
  \A i \in 1 .. Len(s) : s[i] \in Segments(I) /\ Mergeable(I, s[i], h)
Parted(I, h, s) ==
  \A i, j \in 1 .. Len(s) :
    s[i].To = s[j].From => ~Aged(I, s[j].From, h) /\ ~Newest(I, s[j].From, s[i].FetchedAt)

\* What a segment is made of.
LEMMA SegmentTyped ==
  ASSUME NEW I \in SUBSET Interval, NEW h \in Int, NEW s \in Segments(I), Mergeable(I, s, h)
  PROVE  /\ s \in Interval
         /\ s.From \in Int /\ s.To \in Int /\ s.FetchedAt \in Int /\ s.From < s.To
         /\ s = [From |-> s.From, To |-> s.To, FetchedAt |-> s.FetchedAt]
<1>1. s \in [From : Bounds(I), To : Bounds(I), FetchedAt : {iv.FetchedAt : iv \in I}]
  BY DEF Segments
<1>2. Bounds(I) \subseteq Int /\ {iv.FetchedAt : iv \in I} \subseteq Int
  BY BoundsOf DEF Interval
<1>3. s.From < s.To
  BY DEF Mergeable
<1>4. s \in [From : Int, To : Int, FetchedAt : Int]
  BY <1>1, <1>2
<1> QED
  BY <1>3, <1>4 DEF Interval

\* Between two bounds that follow one another every tick has the same intervals and
\* the same age.
LEMMA SegmentOver ==
  ASSUME NEW I \in SUBSET Interval, NEW h \in Int,
         NEW lo \in Bounds(I), NEW hi \in Bounds(I), lo < hi,
         \A b \in Bounds(I) : b <= lo \/ hi <= b,
         NEW t \in Int, lo <= t, t < hi
  PROVE  /\ Over(I, t) = {i \in I : i.From <= lo /\ hi <= i.To}
         /\ Aged(I, t, h) <=> hi <= h
<1>1. lo \in Int /\ hi \in Int /\ \A b \in Bounds(I) : b \in Int
  BY BoundsOf
<1>2. ASSUME NEW i \in I PROVE t \in Ticks(i) <=> i.From <= lo /\ hi <= i.To
  <2>1. i.From \in Bounds(I) /\ i.To \in Bounds(I) /\ i.From \in Int /\ i.To \in Int
    BY BoundsOf DEF Interval
  <2>2. (i.From <= lo \/ hi <= i.From) /\ (i.To <= lo \/ hi <= i.To)
    BY <2>1
  <2> QED
    BY <1>1, <2>1, <2>2 DEF Ticks
<1>3. Over(I, t) = {i \in I : i.From <= lo /\ hi <= i.To}
  BY <1>2 DEF Over
<1>4. ASSUME NEW b \in Bounds(I), t < b, b <= h PROVE hi <= h
  <2>1. b \in Int /\ (b <= lo \/ hi <= b)
    BY <1>1
  <2> QED
    BY <1>1, <1>4, <2>1
<1>5. Aged(I, t, h) <=> hi <= h
  BY <1>4 DEF Aged
<1> QED
  BY <1>3, <1>5

\* Of two stamps that are the newest, neither is newer.
LEMMA OneNewest ==
  ASSUME NEW I \in SUBSET Interval, NEW t, NEW f, NEW g, Newest(I, t, f), Newest(I, t, g)
  PROVE  f = g
<1>1. PICK a \in Over(I, t), b \in Over(I, t) : a.FetchedAt = f /\ b.FetchedAt = g
  BY DEF Newest
<1>2. f \in Int /\ g \in Int
  BY <1>1 DEF Over, Interval
<1>3. f <= g /\ g <= f
  BY <1>1 DEF Newest
<1> QED
  BY <1>2, <1>3

\* The next segment could be one of the result.
LEMMA SegmentMergeable ==
  ASSUME NEW I \in SUBSET Interval, NEW h \in Int,
         NEW lo \in Bounds(I), NEW hi \in Bounds(I), lo < hi,
         \A b \in Bounds(I) : b <= lo \/ hi <= b,
         NEW fa, Newest(I, lo, fa), hi <= h => Over(I, lo - 1) = {},
         NEW r, r = Segment(lo, hi, fa)
  PROVE  /\ r \in Segments(I) /\ Mergeable(I, r, h)
         /\ r.From = lo /\ r.To = hi /\ r.FetchedAt = fa
<1>1. r.From = lo /\ r.To = hi /\ r.FetchedAt = fa /\ lo \in Int /\ hi \in Int
  BY BoundsOf DEF Segment
<1>2. fa \in {iv.FetchedAt : iv \in I}
  BY DEF Newest, Over
<1>3. r \in Segments(I)
  BY <1>2 DEF Segment, Segments
<1>4. ASSUME NEW t \in Ticks(r)
      PROVE  Over(I, t) = Over(I, lo) /\ t \in Int /\ (Aged(I, t, h) <=> hi <= h)
  <2>1. t \in Int /\ lo <= t /\ t < hi
    BY <1>1 DEF Ticks
  <2>2. lo \in Int /\ lo <= lo
    BY <1>1
  <2>3. Over(I, t) = {i \in I : i.From <= lo /\ hi <= i.To} /\ (Aged(I, t, h) <=> hi <= h)
    BY <2>1, SegmentOver
  <2>4. Over(I, lo) = {i \in I : i.From <= lo /\ hi <= i.To}
    BY <2>2, SegmentOver
  <2> QED
    BY <2>1, <2>3, <2>4
<1>5. lo \in Ticks(r)
  BY <1>1 DEF Ticks
<1>6. ASSUME NEW t \in Ticks(r) PROVE Newest(I, t, fa)
  BY <1>4 DEF Newest
<1>7. ASSUME NEW t \in Ticks(r)
      PROVE  /\ Over(I, t) # {} /\ \A iv \in Over(I, t) : iv.FetchedAt <= r.FetchedAt
             /\ Newest(I, t, r.FetchedAt)
  BY <1>1, <1>6 DEF Newest
<1>8. ASSUME Aged(I, r.From, h)
      PROVE  /\ Over(I, r.From - 1) = {}
             /\ \E t \in Ticks(r) : Aged(I, t, h) /\ Newest(I, t, r.FetchedAt)
  BY <1>1, <1>4, <1>5, <1>7, <1>8
<1> QED
  BY <1>1, <1>3, <1>7, <1>8 DEF Mergeable

\* Joined to a segment it touches, it still could.
LEMMA JoinedMergeable ==
  ASSUME NEW I \in SUBSET Interval, NEW h \in Int,
         NEW lo \in Bounds(I), NEW hi \in Bounds(I), lo < hi,
         \A b \in Bounds(I) : b <= lo \/ hi <= b,
         NEW fa, Newest(I, lo, fa),
         NEW s \in Segments(I), Mergeable(I, s, h), s.To = lo,
         hi <= h \/ s.FetchedAt = fa,
         NEW r, r = Joined(s, hi, fa)
  PROVE  /\ r \in Segments(I) /\ Mergeable(I, r, h)
         /\ r.From = s.From /\ r.To = hi
<1>1. /\ lo \in Int /\ hi \in Int
      /\ s.From \in Int /\ s.To \in Int /\ s.FetchedAt \in Int /\ s.From < s.To
  BY BoundsOf, SegmentTyped
<1>2. fa \in {iv.FetchedAt : iv \in I} /\ fa \in Int
  BY DEF Newest, Over, Interval
<1>3. /\ r.From = s.From /\ r.To = hi
      /\ r.FetchedAt = s.FetchedAt \/ r.FetchedAt = fa
      /\ s.FetchedAt <= r.FetchedAt /\ fa <= r.FetchedAt /\ r.FetchedAt \in Int
  BY <1>1, <1>2 DEF Joined, MaxTime
<1>4. r \in Segments(I)
  <2>1. /\ s.From \in Bounds(I)
        /\ MaxTime(s.FetchedAt, fa) \in {iv.FetchedAt : iv \in I}
    BY <1>2 DEF Segments, MaxTime
  <2> QED
    BY <2>1 DEF Joined, Segments
<1>5. ASSUME NEW t \in Ticks(r), t \notin Ticks(s)
      PROVE  /\ Newest(I, t, fa) /\ Over(I, t) # {}
             /\ Aged(I, t, h) <=> hi <= h
  <2>1. t \in Int /\ lo <= t /\ t < hi
    BY <1>1, <1>3, <1>5 DEF Ticks
  <2>2. lo \in Int /\ lo <= lo
    BY <1>1
  <2>3. Over(I, t) = {i \in I : i.From <= lo /\ hi <= i.To} /\ (Aged(I, t, h) <=> hi <= h)
    BY <2>1, SegmentOver
  <2>4. Over(I, lo) = {i \in I : i.From <= lo /\ hi <= i.To}
    BY <2>2, SegmentOver
  <2> QED
    BY <2>3, <2>4 DEF Newest
<1>6. ASSUME NEW t \in Ticks(r)
      PROVE  Over(I, t) # {} /\ \A iv \in Over(I, t) : iv.FetchedAt <= r.FetchedAt
  <2>1. \A iv \in Over(I, t) : iv.FetchedAt \in Int
    BY DEF Over, Interval
  <2>2. CASE t \in Ticks(s)
    <3>1. Over(I, t) # {} /\ \A iv \in Over(I, t) : iv.FetchedAt <= s.FetchedAt
      BY <2>2 DEF Mergeable
    <3> QED
      BY <1>1, <1>3, <2>1, <3>1
  <2>3. CASE t \notin Ticks(s)
    <3>1. Over(I, t) # {} /\ \A iv \in Over(I, t) : iv.FetchedAt <= fa
      BY <1>5, <2>3 DEF Newest
    <3> QED
      BY <1>2, <1>3, <2>1, <3>1
  <2> QED
    BY <2>2, <2>3
\* A tick that is live has the stamp of both.
<1>7. ASSUME NEW t \in Ticks(r), ~Aged(I, t, h) PROVE Newest(I, t, r.FetchedAt)
  <2>1. ASSUME hi <= h PROVE FALSE
    <3>1. t \in Int /\ t < hi
      BY <1>1, <1>3 DEF Ticks
    <3> QED
      BY <1>7, <2>1, <3>1 DEF Aged
  <2>2. s.FetchedAt = fa /\ r.FetchedAt = fa
    BY <1>3, <2>1
  <2>3. t \in Ticks(s) => Newest(I, t, s.FetchedAt)
    BY <1>7 DEF Mergeable
  <2> QED
    BY <1>5, <2>2, <2>3
<1>8. ASSUME Aged(I, r.From, h)
      PROVE  /\ Over(I, r.From - 1) = {}
             /\ \E t \in Ticks(r) : Aged(I, t, h) /\ Newest(I, t, r.FetchedAt)
  <2>1. /\ Over(I, s.From - 1) = {}
        /\ \E t \in Ticks(s) : Aged(I, t, h) /\ Newest(I, t, s.FetchedAt)
    BY <1>3, <1>8 DEF Mergeable
  <2>2. \A t \in Ticks(s) : t \in Ticks(r)
    BY <1>1, <1>3 DEF Ticks
  <2>3. CASE r.FetchedAt = s.FetchedAt
    BY <1>3, <2>1, <2>2, <2>3
  <2>4. CASE r.FetchedAt = fa /\ hi <= h
    <3>1. lo \in Ticks(r) /\ lo \notin Ticks(s)
      BY <1>1, <1>3 DEF Ticks
    <3>2. Aged(I, lo, h) /\ Newest(I, lo, fa)
      BY <1>5, <2>4, <3>1
    <3> QED
      BY <1>3, <2>1, <2>4, <3>1, <3>2
  <2> QED
    BY <1>3, <2>3, <2>4
<1>9. r.From < r.To
  BY <1>1, <1>3
<1> QED
  BY <1>3, <1>4, <1>6, <1>7, <1>8, <1>9 DEF Mergeable

\* Ticks grow old in order.
LEMMA AgedBefore ==
  ASSUME NEW I \in SUBSET Interval, NEW h \in Int, NEW t \in Int, NEW u \in Int, t <= u,
         Aged(I, u, h)
  PROVE  Aged(I, t, h)
<1>1. PICK b \in Bounds(I) : u < b /\ b <= h
  BY DEF Aged
<1>2. b \in Int
  BY BoundsOf
<1> QED
  BY <1>1, <1>2 DEF Aged

\* A mergeable interval that starts where another does, holds all its history, and
\* has history itself, carries the same stamp or a newer one.
LEMMA HistoryStamp ==
  ASSUME NEW I \in SUBSET Interval, NEW h \in Int,
         NEW r, Mergeable(I, r, h), NEW s, Mergeable(I, s, h), Aged(I, r.From, h),
         \A t \in Ticks(r) : Aged(I, t, h) => t \in Ticks(s)
  PROVE  r.FetchedAt <= s.FetchedAt
<1>1. PICK t \in Ticks(r) : Aged(I, t, h) /\ Newest(I, t, r.FetchedAt)
  BY DEF Mergeable
<1>2. t \in Ticks(s)
  BY <1>1
<1>3. PICK iv \in Over(I, t) : iv.FetchedAt = r.FetchedAt
  BY <1>1 DEF Newest
<1> QED
  BY <1>2, <1>3 DEF Mergeable

\* Whatever could be one segment of the result lies in a segment of a complete sweep.
LEMMA Reaches ==
  ASSUME NEW I \in SUBSET Interval, NEW h \in Int,
         NEW s \in Seq(Interval), Ordered(s), AllMergeable(I, h, s), Parted(I, h, s),
         \A t \in Int : Over(I, t) # {} <=> InSome(s, t),
         NEW r \in Interval, Mergeable(I, r, h)
  PROVE  \E i \in 1 .. Len(s) : s[i].From <= r.From /\ r.To <= s[i].To
<1>1. /\ r.From \in Int /\ r.To \in Int /\ r.FetchedAt \in Int /\ r.From < r.To
      /\ \A t \in Int : t \in Ticks(r) <=> r.From <= t /\ t < r.To
  BY DEF Interval, Ticks
<1>2. \A i \in 1 .. Len(s) : /\ s[i].From \in Int /\ s[i].To \in Int /\ s[i].From < s[i].To
                             /\ s[i].FetchedAt \in Int /\ Mergeable(I, s[i], h)
  BY SegmentTyped DEF AllMergeable
<1>3. ASSUME NEW t \in Ticks(r)
      PROVE  t \in Int /\ \E i \in 1 .. Len(s) : s[i].From <= t /\ t < s[i].To
  <2>1. t \in Int /\ Over(I, t) # {}
    BY <1>1 DEF Mergeable, Ticks
  <2> QED
    BY <2>1 DEF InSome
<1>4. PICK i \in 1 .. Len(s) : s[i].From <= r.From /\ r.From < s[i].To
  BY <1>1, <1>3
<1>5. ASSUME s[i].To < r.To PROVE FALSE
  <2>1. PICK q : q = s[i]
    OBVIOUS
  <2>2. /\ q.From \in Int /\ q.To \in Int /\ q.FetchedAt \in Int /\ Mergeable(I, q, h)
        /\ \A t \in Int : t \in Ticks(q) <=> q.From <= t /\ t < q.To
    BY <1>2, <2>1 DEF Ticks
  <2>3. PICK b \in Int : /\ b = q.To /\ q.From <= r.From /\ r.From < b /\ b < r.To
    BY <1>4, <1>5, <2>1, <2>2
  <2>4. PICK j \in 1 .. Len(s) : s[j].From <= b /\ b < s[j].To
    <3>1. b \in Ticks(r)
      BY <1>1, <2>3
    <3> QED
      BY <1>3, <3>1
  <2>5. s[j].From = b
    <3>1. s[i].To = b /\ s[i].From < b
      BY <1>2, <2>1, <2>3
    <3>2. CASE j < i
      BY <1>2, <2>4, <3>1, <3>2 DEF Ordered
    <3>3. CASE i < j
      BY <1>2, <2>4, <3>1, <3>3 DEF Ordered
    <3>4. i # j
      BY <2>4, <3>1
    <3> QED
      BY <3>2, <3>3, <3>4
  <2>6. ~Aged(I, b, h) /\ ~Newest(I, b, q.FetchedAt)
    BY <2>1, <2>3, <2>5 DEF Parted
  <2>7. Newest(I, b, r.FetchedAt)
    BY <1>1, <2>3, <2>6 DEF Mergeable
  <2>8. b - 1 \in Ticks(r) /\ b - 1 \in Ticks(q) /\ b - 1 \in Int
    BY <1>1, <2>2, <2>3
  <2>9. CASE ~Aged(I, b - 1, h)
    <3>1. Newest(I, b - 1, r.FetchedAt) /\ Newest(I, b - 1, q.FetchedAt)
      BY <2>2, <2>8, <2>9 DEF Mergeable
    <3>2. r.FetchedAt = q.FetchedAt
      BY <3>1, OneNewest
    <3> QED
      BY <2>6, <2>7, <3>2
  <2>10. CASE Aged(I, b - 1, h)
    <3>1. r.From <= b - 1 /\ q.From <= b - 1
      BY <1>1, <2>2, <2>3
    <3>2. Aged(I, r.From, h) /\ Aged(I, q.From, h)
      BY <1>1, <2>2, <2>8, <2>10, <3>1, AgedBefore
    <3>3. Over(I, r.From - 1) = {}
      BY <3>2 DEF Mergeable
    <3>4. r.From = q.From
      <4>1. ASSUME q.From < r.From PROVE FALSE
        <5>1. r.From - 1 \in Ticks(q)
          BY <1>1, <2>2, <2>3, <4>1, SMTT(30)
        <5> QED
          BY <2>2, <3>3, <5>1 DEF Mergeable
      <4> QED
        BY <1>1, <2>2, <2>3, <4>1
    <3>5. \A t \in Int : Aged(I, t, h) => t < b
      <4>1. ASSUME NEW t \in Int, Aged(I, t, h), b <= t PROVE FALSE
        BY <2>6, <4>1, AgedBefore
      <4> QED
        BY <4>1
    <3>6. \A t \in Ticks(r) : Aged(I, t, h) => t \in Ticks(q)
      BY <1>1, <1>3, <2>2, <2>3, <3>4, <3>5
    <3>7. \A t \in Ticks(q) : Aged(I, t, h) => t \in Ticks(r)
      <4>1. \A t \in Ticks(q) : t \in Int
        BY <2>2 DEF Ticks
      <4> QED
        BY <1>1, <2>2, <2>3, <3>4, <4>1
    <3>8. r.FetchedAt <= q.FetchedAt
      BY <2>2, <3>2, <3>6, HistoryStamp
    <3>9. q.FetchedAt <= r.FetchedAt
      BY <2>2, <3>2, <3>7, HistoryStamp
    <3>10. r.FetchedAt = q.FetchedAt
      BY <1>1, <2>2, <3>8, <3>9
    <3> QED
      BY <2>6, <2>7, <3>10
  <2> QED
    BY <2>9, <2>10
<1> QED
  BY <1>1, <1>2, <1>4, <1>5

\* The stamp of a segment follows from its ticks.
LEMMA SameStamp ==
  ASSUME NEW I \in SUBSET Interval, NEW h \in Int, NEW r \in Segments(I), NEW s \in Segments(I),
         Mergeable(I, r, h), Mergeable(I, s, h), r.From = s.From, r.To = s.To
  PROVE  r = s
<1>1. /\ r.FetchedAt \in Int /\ s.FetchedAt \in Int /\ r.From \in Int /\ r.From < r.To
      /\ r = [From |-> r.From, To |-> r.To, FetchedAt |-> r.FetchedAt]
      /\ s = [From |-> s.From, To |-> s.To, FetchedAt |-> s.FetchedAt]
  BY SegmentTyped
<1>2. Ticks(r) = Ticks(s)
  BY DEF Ticks
<1>3. r.FetchedAt = s.FetchedAt
  <2>1. CASE Aged(I, r.From, h)
    <3>1. r.FetchedAt <= s.FetchedAt
      BY <1>2, <2>1, HistoryStamp
    <3>2. s.FetchedAt <= r.FetchedAt
      BY <1>2, <2>1, HistoryStamp
    <3> QED
      BY <1>1, <3>1, <3>2
  <2>2. CASE ~Aged(I, r.From, h)
    <3>1. r.From \in Ticks(r)
      BY <1>1, SegmentTyped DEF Ticks
    <3>2. Newest(I, r.From, r.FetchedAt) /\ Newest(I, r.From, s.FetchedAt)
      BY <1>2, <2>2, <3>1 DEF Mergeable
    <3> QED
      BY <3>2, OneNewest
  <2> QED
    BY <2>1, <2>2
<1> QED
  BY <1>1, <1>3

\* A complete sweep yields the normalized set.
LEMMA SweptIsNormalized ==
  ASSUME NEW I \in SUBSET Interval, NEW h \in Int,
         NEW s \in Seq(Interval), Ordered(s), AllMergeable(I, h, s), Parted(I, h, s),
         \A t \in Int : Over(I, t) # {} <=> InSome(s, t)
  PROVE  {s[i] : i \in 1 .. Len(s)} = NormalizeCoverage(I, h)
<1>1. \A i \in 1 .. Len(s) : /\ s[i].From \in Int /\ s[i].To \in Int /\ s[i].From < s[i].To
                             /\ s[i] \in Segments(I) /\ Mergeable(I, s[i], h)
  BY SegmentTyped DEF AllMergeable
<1>2. \A r : r \in NormalizeCoverage(I, h) <=>
               /\ r \in Segments(I) /\ Mergeable(I, r, h)
               /\ \A q \in Segments(I) :
                    Mergeable(I, q, h) /\ Ticks(r) \subseteq Ticks(q) => q = r
  BY DEF NormalizeCoverage, Segments
<1>3. ASSUME NEW i \in 1 .. Len(s), NEW q \in Segments(I),
             Mergeable(I, q, h), Ticks(s[i]) \subseteq Ticks(q)
      PROVE  q = s[i]
  <2>1. q \in Interval /\ q.From \in Int /\ q.To \in Int /\ q.From < q.To
    BY <1>3, SegmentTyped
  <2>2. PICK j \in 1 .. Len(s) : s[j].From <= q.From /\ q.To <= s[j].To
    BY <1>3, <2>1, Reaches
  <2>3. s[i].From \in Ticks(s[i]) /\ s[i].To - 1 \in Ticks(s[i])
    BY <1>1 DEF Ticks
  <2>4. s[i].From \in Ticks(q) /\ s[i].To - 1 \in Ticks(q)
    BY <1>3, <2>3
  <2>5. q.From <= s[i].From /\ s[i].To <= q.To
    BY <1>1, <2>1, <2>4 DEF Ticks
  <2>6. j = i
    <3>1. s[j].From <= s[i].From /\ s[i].To <= s[j].To
      BY <1>1, <2>1, <2>2, <2>5
    <3>2. CASE i < j
      BY <1>1, <3>1, <3>2 DEF Ordered
    <3>3. CASE j < i
      BY <1>1, <3>1, <3>3 DEF Ordered
    <3> QED
      BY <3>2, <3>3
  <2>7. q.From = s[i].From /\ q.To = s[i].To
    BY <1>1, <2>1, <2>2, <2>5, <2>6
  <2> QED
    BY <1>1, <1>3, <2>7, SameStamp
<1>4. ASSUME NEW i \in 1 .. Len(s) PROVE s[i] \in NormalizeCoverage(I, h)
  BY <1>1, <1>2, <1>3
<1>5. ASSUME NEW r \in NormalizeCoverage(I, h) PROVE \E i \in 1 .. Len(s) : r = s[i]
  <2>1. r \in Segments(I) /\ Mergeable(I, r, h)
    BY <1>2
  <2>2. r \in Interval /\ r.From \in Int /\ r.To \in Int
    BY <2>1, SegmentTyped
  <2>3. PICK i \in 1 .. Len(s) : s[i].From <= r.From /\ r.To <= s[i].To
    BY <2>1, <2>2, Reaches
  <2>4. Ticks(r) \subseteq Ticks(s[i])
    BY <1>1, <2>2, <2>3 DEF Ticks
  <2> QED
    BY <1>1, <1>2, <2>4
<1> QED
  BY <1>4, <1>5

\* o is the first m segments of s and then r, which is none of theirs.
Places(o, s, m, r) ==
  o \in Seq(Interval) /\ Len(o) = m + 1 /\ o[m + 1] = r /\ \A i \in 1 .. m : o[i] = s[i]
Follows(I, h, s, m, r) ==
  \A i \in 1 .. m :
    /\ s[i].To <= r.From
    /\ s[i].To = r.From => ~Aged(I, r.From, h) /\ ~Newest(I, r.From, s[i].FetchedAt)

\* Then o has what s has of a sweep, with the ticks of r.
LEMMA Placed ==
  ASSUME NEW I \in SUBSET Interval, NEW h \in Int,
         NEW s \in Seq(Interval), Ordered(s), AllMergeable(I, h, s), Parted(I, h, s),
         NEW m \in Nat, m <= Len(s),
         NEW r \in Segments(I), Mergeable(I, r, h), Follows(I, h, s, m, r),
         NEW o, Places(o, s, m, r)
  PROVE  /\ Ordered(o) /\ AllMergeable(I, h, o) /\ Parted(I, h, o)
         /\ \A i \in 1 .. Len(o) : o[i].To <= r.To
         /\ \A t : InSome(o, t) <=> \/ \E i \in 1 .. m : s[i].From <= t /\ t < s[i].To
                                    \/ r.From <= t /\ t < r.To
<1>1. /\ \A i : i \in 1 .. Len(o) <=> i \in 1 .. m \/ i = m + 1
      /\ o[m + 1] = r /\ \A i \in 1 .. m : o[i] = s[i]
  BY DEF Places
<1>2. \A i \in 1 .. m : i \in 1 .. Len(s) /\ i # m + 1 /\ ~(m + 1 < i)
  OBVIOUS
<1>3. r.From \in Int /\ r.To \in Int /\ r.From < r.To
  BY SegmentTyped
<1>4. \A i \in 1 .. Len(s) : s[i].From \in Int /\ s[i].To \in Int /\ s[i].From < s[i].To
  BY SegmentTyped DEF AllMergeable
<1>5. ASSUME NEW i \in 1 .. Len(o), NEW j \in 1 .. Len(o), i < j PROVE o[i].To <= o[j].From
  <2>1. i \in 1 .. m
    BY <1>1, <1>5
  <2>2. CASE j \in 1 .. m
    BY <1>1, <1>2, <1>5, <2>1, <2>2 DEF Ordered
  <2>3. CASE j = m + 1
    BY <1>1, <2>1, <2>3 DEF Follows
  <2> QED
    BY <1>1, <2>2, <2>3
<1>6. AllMergeable(I, h, o)
  BY <1>1, <1>2 DEF AllMergeable
<1>7. \A i \in 1 .. Len(o) : o[i].To <= r.To
  <2> TAKE i \in 1 .. Len(o)
  <2>1. CASE i \in 1 .. m
    <3>1. o[i] = s[i] /\ s[i].To <= r.From /\ s[i].To \in Int
      BY <1>1, <1>2, <1>4, <2>1 DEF Follows
    <3> QED
      BY <1>3, <3>1
  <2>2. CASE i = m + 1
    BY <1>1, <1>3, <2>2
  <2> QED
    BY <1>1, <2>1, <2>2
<1>8. ASSUME NEW i \in 1 .. Len(o), NEW j \in 1 .. Len(o), o[i].To = o[j].From
      PROVE  ~Aged(I, o[j].From, h) /\ ~Newest(I, o[j].From, o[i].FetchedAt)
  <2>1. i # m + 1
    <3>1. o[j].From < o[j].To /\ o[j].From \in Int /\ o[j].To \in Int
      <4>1. CASE j \in 1 .. m
        BY <1>1, <1>2, <1>4, <4>1
      <4>2. CASE j = m + 1
        BY <1>1, <1>3, <4>2
      <4> QED
        BY <1>1, <4>1, <4>2
    <3>2. o[j].To <= r.To
      BY <1>7
    <3>3. i = m + 1 => o[i].To = r.To
      BY <1>1
    <3> QED
      BY <1>3, <1>8, <3>1, <3>2, <3>3
  <2>2. i \in 1 .. m
    BY <1>1, <2>1
  <2>3. CASE j \in 1 .. m
    BY <1>1, <1>2, <1>8, <2>2, <2>3 DEF Parted
  <2>4. CASE j = m + 1
    BY <1>1, <1>8, <2>2, <2>4 DEF Follows
  <2> QED
    BY <1>1, <2>3, <2>4
<1>9. \A t : InSome(o, t) <=> \/ \E i \in 1 .. m : s[i].From <= t /\ t < s[i].To
                              \/ r.From <= t /\ t < r.To
  BY <1>1 DEF InSome
<1> QED
  BY <1>5, <1>6, <1>7, <1>8, <1>9 DEF Ordered, Parted

\* One step of the sweep.
LEMMA SweepStep ==
  ASSUME NEW I \in SUBSET Interval, historyBefore \in Int,
         NEW s \in Seq(Interval), Ordered(s), AllMergeable(I, historyBefore, s),
         Parted(I, historyBefore, s),
         NEW lo \in Bounds(I), NEW hi \in Bounds(I), lo < hi,
         \A b \in Bounds(I) : b <= lo \/ hi <= b,
         \A i \in 1 .. Len(s) : s[i].To <= lo,
         \A t \in Int : t < lo => (Over(I, t) # {} <=> InSome(s, t)),
         NEW fa, Newest(I, lo, fa),
         NEW o, o = WithSegment(s, lo, hi, fa)
  PROVE  /\ o \in Seq(Interval) /\ Ordered(o) /\ AllMergeable(I, historyBefore, o)
         /\ Parted(I, historyBefore, o)
         /\ \A i \in 1 .. Len(o) : o[i].To <= hi
         /\ \A t \in Int : t < hi => (Over(I, t) # {} <=> InSome(o, t))
<1>7. PICK h \in Int : h = historyBefore
  OBVIOUS
<1>8. AllMergeable(I, h, s) /\ Parted(I, h, s)
  BY <1>7
<1>1. PICK n \in Nat : n = Len(s) /\ DOMAIN s = 1 .. n /\ (s = <<>> <=> n = 0)
  OBVIOUS
<1>2. lo \in Int /\ hi \in Int
  BY BoundsOf
<1>3. \A i \in 1 .. n : /\ s[i] \in Segments(I) /\ Mergeable(I, s[i], h)
                        /\ s[i].From \in Int /\ s[i].To \in Int /\ s[i].From < s[i].To
  BY <1>1, <1>8, SegmentTyped DEF AllMergeable
\* What lies between lo and hi is covered, for it is at lo.
<1>4. ASSUME NEW t \in Int, lo <= t, t < hi PROVE Over(I, t) # {}
  <2>1. Over(I, t) = {i \in I : i.From <= lo /\ hi <= i.To}
    BY <1>4, SegmentOver
  <2>2. Over(I, lo) = {i \in I : i.From <= lo /\ hi <= i.To}
    BY <1>2, SegmentOver
  <2> QED
    BY <2>1, <2>2 DEF Newest
<1>5. CASE s # <<>> /\ Joins(s[Len(s)], lo, hi, fa)
  <2>1. n > 0 /\ n \in 1 .. n
    BY <1>1, <1>5
  <2>2. PICK last \in Segments(I) :
          /\ last = s[n] /\ Mergeable(I, last, h) /\ last.To = lo
          /\ hi <= h \/ last.FetchedAt = fa
    BY <1>1, <1>3, <1>5, <1>7, <2>1 DEF Joins
  <2>3. PICK r : r = Joined(last, hi, fa)
    OBVIOUS
  <2>4. r \in Segments(I) /\ Mergeable(I, r, h) /\ r.From = last.From /\ r.To = hi
    BY <2>2, <2>3, JoinedMergeable
  <2>5. r \in Interval
    BY <2>4, SegmentTyped
  <2>6. o = [s EXCEPT ![n] = r]
    BY <1>1, <1>5, <2>2, <2>3 DEF WithSegment
  <2>7. PICK m \in Nat : m + 1 = n
    BY <2>1
  <2>8. /\ o \in Seq(Interval) /\ Len(o) = m + 1
        /\ \A i \in 1 .. m : o[i] = s[i]
        /\ o[m + 1] = r
    <3>1. s \in [1 .. n -> Interval]
      BY <1>1
    <3>2. o \in [1 .. n -> Interval] /\ o[n] = r /\ \A i \in 1 .. m : o[i] = s[i]
      BY <2>1, <2>5, <2>6, <2>7, <3>1
    <3>3. o \in Seq(Interval) /\ Len(o) = n
      BY <3>2
    <3> QED
      BY <2>7, <3>2, <3>3
  <2>9. \A i \in 1 .. m : i \in 1 .. Len(s) /\ n \in 1 .. Len(s) /\ i < n
    BY <1>1, <2>1, <2>7
  <2>10. \A i \in 1 .. m : s[i].To <= r.From
    BY <2>2, <2>4, <2>9 DEF Ordered
  <2>11. \A i \in 1 .. m : s[i].To = r.From =>
                             ~Aged(I, r.From, h) /\ ~Newest(I, r.From, s[i].FetchedAt)
    BY <1>8, <2>2, <2>4, <2>9 DEF Parted
  <2>12. m <= Len(s) /\ Places(o, s, m, r) /\ Follows(I, h, s, m, r)
    BY <1>1, <2>7, <2>8, <2>10, <2>11 DEF Places, Follows
  <2>14. /\ Ordered(o) /\ AllMergeable(I, h, o) /\ Parted(I, h, o)
         /\ \A i \in 1 .. Len(o) : o[i].To <= r.To
         /\ \A t : InSome(o, t) <=> \/ \E i \in 1 .. m : s[i].From <= t /\ t < s[i].To
                                    \/ r.From <= t /\ t < r.To
    BY <1>8, <2>4, <2>12, Placed
  <2>15. \A i : i \in 1 .. n <=> i \in 1 .. m \/ i = n
    BY <2>7
  <2>16. ASSUME NEW t \in Int PROVE InSome(o, t) <=> InSome(s, t) \/ (lo <= t /\ t < hi)
    <3>1. InSome(s, t) <=> \/ \E i \in 1 .. m : s[i].From <= t /\ t < s[i].To
                           \/ last.From <= t /\ t < lo
      BY <1>1, <2>2, <2>15 DEF InSome
    <3>2. last.From < lo /\ last.From \in Int
      BY <1>3, <2>1, <2>2
    <3>3. r.From <= t /\ t < r.To <=> \/ last.From <= t /\ t < lo
                                      \/ lo <= t /\ t < hi
      BY <1>2, <2>4, <3>2
    <3> QED
      BY <2>14, <3>1, <3>3
  <2>17. ASSUME NEW t \in Int, t < hi PROVE Over(I, t) # {} <=> InSome(o, t)
    BY <1>2, <1>4, <2>16, <2>17
  <2> QED
    BY <1>7, <2>4, <2>8, <2>14, <2>17
<1>6. CASE ~(s # <<>> /\ Joins(s[Len(s)], lo, hi, fa))
  <2>1. PICK r : r = Segment(lo, hi, fa)
    OBVIOUS
  <2>2. ASSUME NEW i \in 1 .. n, s[i].To = lo PROVE i = n
    <3>1. CASE i < n
      <4>1. n \in 1 .. Len(s) /\ i \in 1 .. Len(s)
        BY <1>1, <3>1
      <4>2. s[i].To <= s[n].From /\ s[n].To <= lo
        BY <3>1, <4>1 DEF Ordered
      <4> QED
        BY <1>1, <1>2, <1>3, <2>2, <4>1, <4>2
    <3> QED
      BY <1>1, <3>1
  <2>3. ASSUME NEW i \in 1 .. n, s[i].To = lo
        PROVE  ~(hi <= h) /\ s[i].FetchedAt # fa
    <3>1. i = n /\ s # <<>>
      BY <1>1, <2>2, <2>3
    <3>2. ~Joins(s[n], lo, hi, fa) /\ s[n].To = lo
      BY <1>1, <1>6, <2>3, <3>1
    <3> QED
      BY <1>2, <1>7, <3>1, <3>2 DEF Joins
  <2>4. ASSUME hi <= h PROVE Over(I, lo - 1) = {}
    <3>1. ASSUME NEW i \in 1 .. n, s[i].From <= lo - 1, lo - 1 < s[i].To PROVE FALSE
      <4>1. s[i].To = lo
        BY <1>1, <1>2, <1>3, <3>1
      <4> QED
        BY <2>3, <2>4, <4>1
    <3>2. ~InSome(s, lo - 1) /\ lo - 1 \in Int /\ lo - 1 < lo
      BY <1>1, <1>2, <3>1 DEF InSome
    <3> QED
      BY <3>2
  <2>5. /\ r \in Segments(I) /\ Mergeable(I, r, h)
        /\ r.From = lo /\ r.To = hi /\ r.FetchedAt = fa
    BY <2>1, <2>4, SegmentMergeable
  <2>6. r \in Interval
    BY <2>5, SegmentTyped
  <2>7. o = Append(s, r)
    BY <1>6, <2>1 DEF WithSegment
  <2>8. /\ o \in Seq(Interval) /\ Len(o) = n + 1
        /\ \A i \in 1 .. n : o[i] = s[i]
        /\ o[n + 1] = r
    BY <1>1, <2>6, <2>7
  <2>9. \A i \in 1 .. n : s[i].To <= r.From
    BY <1>1, <2>5
  <2>10. ASSUME NEW i \in 1 .. n, s[i].To = r.From
         PROVE  ~Aged(I, r.From, h) /\ ~Newest(I, r.From, s[i].FetchedAt)
    <3>1. ~(hi <= h) /\ s[i].FetchedAt # fa
      BY <2>3, <2>5, <2>10
    <3>2. Aged(I, lo, h) <=> hi <= h
      BY <1>2, SegmentOver
    <3>3. ~Newest(I, lo, s[i].FetchedAt)
      BY <3>1, OneNewest
    <3> QED
      BY <2>5, <3>1, <3>2, <3>3
  <2>11. n <= Len(s) /\ Places(o, s, n, r) /\ Follows(I, h, s, n, r)
    BY <1>1, <2>8, <2>9, <2>10 DEF Places, Follows
  <2>13. /\ Ordered(o) /\ AllMergeable(I, h, o) /\ Parted(I, h, o)
         /\ \A i \in 1 .. Len(o) : o[i].To <= r.To
         /\ \A t : InSome(o, t) <=> \/ \E i \in 1 .. n : s[i].From <= t /\ t < s[i].To
                                    \/ r.From <= t /\ t < r.To
    BY <1>8, <2>5, <2>11, Placed
  <2>14. ASSUME NEW t \in Int PROVE InSome(o, t) <=> InSome(s, t) \/ (lo <= t /\ t < hi)
    BY <1>1, <2>5, <2>13 DEF InSome
  <2>15. ASSUME NEW t \in Int, lo <= t PROVE ~InSome(s, t)
    BY <1>1, <1>2, <1>3, <2>15 DEF InSome
  <2>16. ASSUME NEW t \in Int, t < hi PROVE Over(I, t) # {} <=> InSome(o, t)
    BY <1>2, <1>4, <2>14, <2>16
  <2> QED
    BY <1>7, <2>5, <2>8, <2>13, <2>16
<1> QED
  BY <1>5, <1>6


-----------------------------------------------------------------------------
(* What a sweep knows of its segments *)

\* So far the segments are those of a complete sweep of the ticks before todo.
Sweeping ==
  pc = "sweep" =>
    /\ todo \subseteq Bounds(in)
    /\ \A b \in Bounds(in) \ todo : \A c \in todo : b < c
    /\ todo = {} => Bounds(in) = {}
    /\ Ordered(out) /\ AllMergeable(in, historyBefore, out) /\ Parted(in, historyBefore, out)
    /\ \A i \in 1 .. Len(out) : \A c \in todo : out[i].To <= c
    /\ \A t \in Int : (\A c \in todo : t < c) => (Over(in, t) # {} <=> InSome(out, t))

\* The sweep is given any intervals, is where Sweeping says, and ends as it should.
SweepInv ==
  /\ in \in SUBSET Interval
  /\ historyBefore \in Int
  /\ out \in Seq(Interval)
  /\ Sweeping
  /\ NormalizeAgrees

LEMMA SweepInitial == SweepInit => SweepInv
<1> SUFFICES ASSUME SweepInit PROVE SweepInv
  OBVIOUS
<1>1. in = {} /\ historyBefore = 0 /\ pc = "done" /\ out = <<>>
  BY DEF SweepInit
<1>2. NormalizeCoverage({}, 0) = {}
  BY DEF NormalizeCoverage, Bounds
<1>3. out \in Seq(Interval) /\ DOMAIN out = {} /\ Seqs!ToSet(out) = {}
  BY <1>1 DEF Seqs!ToSet
<1>4. NormalizeAgrees
  BY <1>1, <1>2, <1>3 DEF NormalizeAgrees
<1> QED
  BY <1>1, <1>3, <1>4 DEF SweepInv, Sweeping

\* A sweep starts with any intervals and any boundary.
LEMMA Calls ==
  ASSUME NEW S \in SUBSET Interval, NEW h \in Int, Call(S, h)
  PROVE  SweepInv'
<1>1. in' = S /\ historyBefore' = h /\ pc' = "sweep" /\ todo' = Bounds(S) /\ out' = <<>>
  BY DEF Call
<1>2. out' \in Seq(Interval) /\ Len(out') = 0
  BY <1>1
<1>3. \A i : i \notin 1 .. Len(out')
  BY <1>2
<1>4. Ordered(out') /\ AllMergeable(S, h, out') /\ Parted(S, h, out')
  BY <1>3 DEF Ordered, AllMergeable, Parted
\* No tick before the first bound is covered.
<1>5. ASSUME NEW t \in Int, \A c \in Bounds(S) : t < c
      PROVE  Over(S, t) # {} <=> InSome(out', t)
  <2>1. ASSUME NEW iv \in S, t \in Ticks(iv) PROVE FALSE
    <3>1. iv.From \in Bounds(S) /\ iv.From \in Int /\ iv.To \in Int
      BY BoundsOf DEF Interval
    <3> QED
      BY <1>5, <2>1, <3>1 DEF Ticks
  <2> QED
    BY <1>3, <2>1 DEF Over, InSome
<1>6. Sweeping'
  BY <1>1, <1>3, <1>4, <1>5 DEF Sweeping
<1> QED
  BY <1>1, <1>2, <1>6 DEF SweepInv, NormalizeAgrees

LEMMA Sweeps == SweepInv /\ SweepNext => SweepInv'
<1> SUFFICES ASSUME SweepInv, SweepNext PROVE SweepInv'
  OBVIOUS
<1>1. /\ pc = "sweep" /\ pc' = "sweep" /\ in' = in /\ historyBefore' = historyBefore
      /\ in \in SUBSET Interval /\ historyBefore \in Int /\ out \in Seq(Interval)
  BY DEF SweepInv, SweepNext
<1>2. /\ todo \subseteq Bounds(in)
      /\ \A b \in Bounds(in) \ todo : \A c \in todo : b < c
      /\ Ordered(out) /\ AllMergeable(in, historyBefore, out)
      /\ Parted(in, historyBefore, out)
      /\ \A i \in 1 .. Len(out) : \A c \in todo : out[i].To <= c
      /\ \A t \in Int : (\A c \in todo : t < c) => (Over(in, t) # {} <=> InSome(out, t))
  BY <1>1 DEF SweepInv, Sweeping
<1>3. PICK lo \in todo, hi \in todo :
        /\ lo < hi
        /\ \A b \in todo : b = lo \/ hi <= b
        /\ todo' = todo \ {lo}
        /\ \/ Stamps(lo, hi) = {} /\ out' = out
           \/ \E fa \in Stamps(lo, hi) :
                /\ \A f \in Stamps(lo, hi) : f <= fa
                /\ out' = WithSegment(out, lo, hi, fa)
  BY DEF SweepNext
<1>4. PICK I \in SUBSET Interval, o \in {out'} : I = in /\ o = out'
  BY <1>1
<1>5. lo \in Bounds(I) /\ hi \in Bounds(I) /\ lo \in Int /\ hi \in Int
  BY <1>2, <1>4, BoundsOf
<1>6. \A b \in Bounds(I) : b <= lo \/ hi <= b
  <2> TAKE b \in Bounds(I)
  <2>1. b \in Int
    BY BoundsOf
  <2>2. b \in todo => b = lo \/ hi <= b
    BY <1>3
  <2>3. b \notin todo => b < lo
    BY <1>2, <1>4
  <2> QED
    BY <1>5, <2>1, <2>2, <2>3
<1>7. /\ Ordered(out) /\ AllMergeable(I, historyBefore, out)
      /\ Parted(I, historyBefore, out)
      /\ \A i \in 1 .. Len(out) : out[i].To <= lo
  BY <1>2, <1>4
<1>8. \A t \in Int : t < lo => (Over(I, t) # {} <=> InSome(out, t))
  <2> TAKE t \in Int
  <2>1. ASSUME t < lo, NEW c \in todo PROVE t < c
    <3>1. c \in Int /\ (c = lo \/ hi <= c)
      BY <1>2, <1>3, <1>4, BoundsOf
    <3> QED
      BY <1>3, <1>5, <2>1, <3>1
  <2> QED
    BY <1>2, <1>4, <2>1
<1>9. Over(I, lo) = {i \in I : i.From <= lo /\ hi <= i.To}
  BY <1>1, <1>3, <1>5, <1>6, SegmentOver
<1>10. Stamps(lo, hi) = {iv.FetchedAt : iv \in Over(I, lo)}
  BY <1>4, <1>9 DEF Stamps
<1>11. /\ o \in Seq(Interval) /\ Ordered(o) /\ AllMergeable(I, historyBefore, o)
       /\ Parted(I, historyBefore, o)
       /\ \A i \in 1 .. Len(o) : o[i].To <= hi
       /\ \A t \in Int : t < hi => (Over(I, t) # {} <=> InSome(o, t))
  <2>1. CASE Stamps(lo, hi) = {} /\ out' = out
    <3>1. ASSUME NEW t \in Int, lo <= t, t < hi PROVE Over(I, t) = {} /\ ~InSome(out, t)
      <4>1. Over(I, t) = {i \in I : i.From <= lo /\ hi <= i.To}
        BY <1>1, <1>3, <1>5, <1>6, <3>1, SegmentOver
      <4>2. Over(I, lo) = {}
        BY <1>10, <2>1
      <4>3. \A i \in 1 .. Len(out) : out[i].To \in Int /\ out[i].To <= lo
        BY <1>1, <1>7, SegmentTyped DEF AllMergeable
      <4> QED
        BY <1>5, <1>9, <3>1, <4>1, <4>2, <4>3 DEF InSome
    <3>2. \A t \in Int : t < hi => (Over(I, t) # {} <=> InSome(out, t))
      BY <1>5, <1>8, <3>1
    <3>3. \A i \in 1 .. Len(out) : out[i].To <= hi
      <4> TAKE i \in 1 .. Len(out)
      <4>1. out[i].To \in Int /\ out[i].To <= lo
        BY <1>1, <1>7, SegmentTyped DEF AllMergeable
      <4> QED
        BY <1>3, <1>5, <4>1
    <3> QED
      BY <1>1, <1>4, <1>7, <2>1, <3>2, <3>3
  <2>2. CASE \E fa \in Stamps(lo, hi) :
               /\ \A f \in Stamps(lo, hi) : f <= fa
               /\ out' = WithSegment(out, lo, hi, fa)
    <3>1. PICK fa \in Stamps(lo, hi) :
            /\ \A f \in Stamps(lo, hi) : f <= fa
            /\ o = WithSegment(out, lo, hi, fa)
      BY <1>4, <2>2
    <3>2. Newest(I, lo, fa)
      BY <1>10, <3>1 DEF Newest
    <3>3. PICK s \in Seq(Interval) : s = out
      BY <1>1
    <3>4. /\ Ordered(s) /\ AllMergeable(I, historyBefore, s) /\ Parted(I, historyBefore, s)
          /\ \A i \in 1 .. Len(s) : s[i].To <= lo
          /\ \A t \in Int : t < lo => (Over(I, t) # {} <=> InSome(s, t))
          /\ o = WithSegment(s, lo, hi, fa)
      BY <1>7, <1>8, <3>1, <3>3
    <3> QED
      BY <1>1, <1>3, <1>5, <1>6, <3>2, <3>4, SweepStep
  <2> QED
    BY <1>3, <2>1, <2>2
<1>12. hi \in todo' /\ \A c \in todo' : c \in todo /\ hi <= c /\ c \in Int
  <2>1. hi # lo
    BY <1>3, <1>5
  <2> QED
    BY <1>2, <1>3, <1>4, <2>1, BoundsOf
<1>13. Sweeping'
  <2>1. todo' \subseteq Bounds(in') /\ todo' # {}
    BY <1>1, <1>2, <1>3, <1>12
  <2>2. \A b \in Bounds(in') \ todo' : \A c \in todo' : b < c
    <3> SUFFICES ASSUME NEW b \in Bounds(in') \ todo', NEW c \in todo' PROVE b < c
      OBVIOUS
    <3>1. CASE b = lo
      BY <1>3, <1>5, <1>12, <3>1
    <3>2. CASE b # lo
      <4>1. b \in Bounds(in) \ todo
        BY <1>1, <1>3, <3>2
      <4> QED
        BY <1>2, <1>12, <4>1
    <3> QED
      BY <3>1, <3>2
  <2>3. \A i \in 1 .. Len(o) : \A c \in todo' : o[i].To <= c
    <3> SUFFICES ASSUME NEW i \in 1 .. Len(o), NEW c \in todo' PROVE o[i].To <= c
      OBVIOUS
    <3>1. o[i].To \in Int
      BY <1>11, SegmentTyped, <1>1 DEF AllMergeable
    <3> QED
      BY <1>5, <1>11, <1>12, <3>1
  <2>4. \A t \in Int : (\A c \in todo' : t < c) => (Over(I, t) # {} <=> InSome(o, t))
    BY <1>11, <1>12
  <2> QED
    BY <1>1, <1>4, <1>11, <2>1, <2>2, <2>3, <2>4 DEF Sweeping
<1> QED
  BY <1>1, <1>4, <1>11, <1>13 DEF SweepInv, NormalizeAgrees

LEMMA SweepCompletes == SweepInv /\ SweepEnds => SweepInv'
<1> SUFFICES ASSUME SweepInv, SweepEnds PROVE SweepInv'
  OBVIOUS
<1>1. /\ pc = "sweep" /\ pc' = "done" /\ in' = in /\ historyBefore' = historyBefore
      /\ out' = out /\ \A a, b \in todo : a = b
      /\ in \in SUBSET Interval /\ historyBefore \in Int /\ out \in Seq(Interval)
  BY DEF SweepInv, SweepEnds
<1>2. /\ todo \subseteq Bounds(in)
      /\ \A b \in Bounds(in) \ todo : \A c \in todo : b < c
      /\ Ordered(out) /\ AllMergeable(in, historyBefore, out)
      /\ Parted(in, historyBefore, out)
      /\ \A i \in 1 .. Len(out) : \A c \in todo : out[i].To <= c
      /\ \A t \in Int : (\A c \in todo : t < c) => (Over(in, t) # {} <=> InSome(out, t))
  BY <1>1 DEF SweepInv, Sweeping
<1>3. PICK I \in SUBSET Interval, h \in Int, s \in Seq(Interval) :
        I = in /\ h = historyBefore /\ s = out
  BY <1>1
<1>4. Ordered(s) /\ AllMergeable(I, h, s) /\ Parted(I, h, s)
  BY <1>2, <1>3
\* Nor is a tick from the last bound on covered.
<1>5. ASSUME NEW t \in Int PROVE Over(I, t) # {} <=> InSome(s, t)
  <2>1. CASE \A c \in todo : t < c
    BY <1>2, <1>3, <2>1
  <2>2. ASSUME NEW c \in todo, ~(t < c) PROVE Over(I, t) = {} /\ ~InSome(s, t)
    <3>1. c \in Int
      BY <1>2, <1>3, BoundsOf
    <3>2. ASSUME NEW iv \in I, t \in Ticks(iv) PROVE FALSE
      <4>1. iv.To \in Bounds(I) /\ iv.To \in Int /\ iv.From \in Int
        BY BoundsOf DEF Interval
      <4>2. t < iv.To
        BY <3>2, <4>1 DEF Ticks
      <4>3. iv.To = c \/ iv.To < c
        BY <1>1, <1>2, <1>3, <4>1
      <4> QED
        BY <2>2, <3>1, <4>1, <4>2, <4>3
    <3>3. \A i \in 1 .. Len(s) : s[i].To \in Int /\ s[i].To <= c
      BY <1>2, <1>3, <1>4, SegmentTyped DEF AllMergeable
    <3> QED
      BY <2>2, <3>1, <3>2, <3>3 DEF Over, InSome
  <2> QED
    BY <2>1, <2>2
<1>6. {s[i] : i \in 1 .. Len(s)} = NormalizeCoverage(I, h)
  BY <1>4, <1>5, SweptIsNormalized
<1>7. Seqs!ToSet(s) = {s[i] : i \in 1 .. Len(s)} /\ DOMAIN s = 1 .. Len(s)
  BY DEF Seqs!ToSet
<1>8. NormalizeAgrees'
  BY <1>1, <1>3, <1>4, <1>6, <1>7 DEF NormalizeAgrees, Ordered
<1> QED
  BY <1>1, <1>8 DEF SweepInv, Sweeping

\* Sweeps one after the other, of any intervals and with any boundaries.
AnySweeps ==
  /\ SweepInit
  /\ [][ \/ \E I \in SUBSET Interval, h \in Int : Call(I, h)
         \/ SweepNext \/ SweepEnds ]_sweepVars

\* The sweep yields the set that Coverage defines, in order and without overlap, of
\* any intervals, overlapping or not, and for any boundary of history
\* (coverage.go:78-124).
THEOREM AnySweepNormalizes == AnySweeps => []NormalizeAgrees
<1>1. SweepInv /\ (\E I \in SUBSET Interval, h \in Int : Call(I, h)) => SweepInv'
  BY Calls
<1>2. SweepInv /\ UNCHANGED sweepVars => SweepInv'
  BY DEF SweepInv, sweepVars, Sweeping, NormalizeAgrees
<1>3. SweepInv => NormalizeAgrees
  BY DEF SweepInv
<1> QED
  BY <1>1, <1>2, <1>3, SweepInitial, Sweeps, SweepCompletes, PTL DEF AnySweeps

-----------------------------------------------------------------------------
(* What the fetches leave in the repository *)

\* The sweep is at work on, or has finished with, intervals that cover the ticks
\* ever fetched and know the newest stamp of the live ones.
FreshInv ==
  /\ SweepInv
  /\ Bounded(in) /\ historyBefore \in Nat
  /\ frontier \in Nat /\ historyBefore <= frontier
  /\ newest \in [0 .. (LastInstant - 1) -> Nat]
  /\ \A t \in 0 .. (LastInstant - 1) :
       /\ newest[t] = 0 <=> Over(in, t) = {}
       /\ t >= frontier /\ newest[t] # 0 => Newest(in, t, newest[t])

\* Once the sweep is done the repository knows the same.
LEMMA StoredKnows ==
  ASSUME FreshInv, pc = "done"
  PROVE  /\ Stored = NormalizeCoverage(in, historyBefore)
         /\ Stored \in SUBSET Interval /\ Bounded(Stored)
         /\ \A t \in 0 .. (LastInstant - 1) :
              /\ newest[t] = 0 <=> Over(Stored, t) = {}
              /\ t >= frontier => \A iv \in Over(Stored, t) : iv.FetchedAt = newest[t]
<1>1. PICK I \in SUBSET Interval, h \in Nat : I = in /\ h = historyBefore
  BY DEF FreshInv, SweepInv
<1>2. PICK S : S = Stored
  OBVIOUS
<1>3. S = NormalizeCoverage(I, h)
  BY <1>1, <1>2 DEF FreshInv, SweepInv, NormalizeAgrees, Stored
<1>4. Bounded(I) /\ h \in Int /\ frontier \in Int /\ h <= frontier
  BY <1>1 DEF FreshInv
<1>5. \A s \in S : s \in Interval /\ Mergeable(I, s, h)
  BY <1>3, <1>4, NormalizeSegments
<1>6. Bounded(S)
  BY <1>3, <1>4, NormalizeBounded
<1>7. ASSUME NEW t \in 0 .. (LastInstant - 1)
      PROVE  /\ newest[t] = 0 <=> Over(S, t) = {}
             /\ t >= frontier => \A iv \in Over(S, t) : iv.FetchedAt = newest[t]
  <2>1. /\ newest[t] = 0 <=> Over(I, t) = {}
        /\ t >= frontier /\ newest[t] # 0 => Newest(I, t, newest[t])
        /\ newest[t] \in Nat /\ t \in Int
    BY <1>1 DEF FreshInv
  <2>2. Over(I, t) # {} => Over(S, t) # {}
    BY <1>3, <1>4, <2>1, NormalizeKeepsTicks
  <2>3. ASSUME NEW iv \in Over(S, t) PROVE Over(I, t) # {}
    BY <1>5, <2>3 DEF Over, Mergeable
  <2>4. ASSUME t >= frontier, NEW iv \in Over(S, t) PROVE iv.FetchedAt = newest[t]
    <3>1. iv \in S /\ t \in Ticks(iv)
      BY DEF Over
    <3>2. Newest(I, t, iv.FetchedAt)
      <4>1. t >= h
        BY <1>4, <2>1, <2>4
      <4> QED
        BY <1>3, <1>4, <2>1, <3>1, <4>1, NormalizeFresh
    <3>3. Newest(I, t, newest[t])
      BY <2>1, <2>3, <2>4
    <3>4. \A i \in I : i.FetchedAt \in Int
      BY DEF Interval
    <3> QED
      BY <2>1, <3>2, <3>3, <3>4 DEF Newest, Over
  <2> QED
    BY <2>1, <2>2, <2>3, <2>4
<1> QED
  BY <1>1, <1>2, <1>3, <1>5, <1>6, <1>7

LEMMA InitFresh == Init => FreshInv
<1> SUFFICES ASSUME Init PROVE FreshInv
  OBVIOUS
<1>1. SweepInit /\ newest = [t \in 0 .. (LastInstant - 1) |-> 0]
  BY DEF Init
<1>2. in = {} /\ historyBefore = 0 /\ frontier = 0
  BY <1>1 DEF Init, SweepInit
<1>3. Bounded(in) /\ \A t : Over(in, t) = {}
  BY <1>2 DEF Bounded, Over
<1> QED
  BY <1>1, <1>2, <1>3, SweepInitial DEF FreshInv

\* A fetch adds its interval to those over its ticks, and to no others.
LEMMA OverAdded ==
  ASSUME NEW S, NEW iv, NEW t
  PROVE  Over(S \cup {iv}, t) = Over(S, t) \cup (IF t \in Ticks(iv) THEN {iv} ELSE {})
BY DEF Over

\* And leaves the intervals within bounds.
LEMMA BoundedAdded ==
  ASSUME NEW S \in SUBSET Interval, Bounded(S), NEW iv \in Interval
  PROVE  Bounded(S \cup {iv})
<1>1. PICK low \in Int, high \in Int :
        \A i \in S : /\ low <= i.From /\ i.To <= high
                     /\ low <= i.FetchedAt /\ i.FetchedAt <= high
  BY DEF Bounded
<1>2. iv.From \in Int /\ iv.To \in Int /\ iv.FetchedAt \in Int
  BY DEF Interval
<1>3. PICK low2 \in Int : low2 <= low /\ low2 <= iv.From /\ low2 <= iv.FetchedAt
  BY <1>2
<1>4. PICK high2 \in Int : high2 >= high /\ high2 >= iv.To /\ high2 >= iv.FetchedAt
  BY <1>2
<1>5. \A i \in S : i.From \in Int /\ i.To \in Int /\ i.FetchedAt \in Int
  BY DEF Interval
<1>6. \A i \in S \cup {iv} : /\ low2 <= i.From /\ i.To <= high2
                             /\ low2 <= i.FetchedAt /\ i.FetchedAt <= high2
  BY <1>1, <1>2, <1>3, <1>4, <1>5
<1> QED
  BY <1>6 DEF Bounded

\* What is live for this Get and those before it has lost no stamp to them.
LEMMA PersistFresh == FreshInv /\ Persist => FreshInv'
<1> SUFFICES ASSUME FreshInv, Persist PROVE FreshInv'
  OBVIOUS
<1>1. PICK iv \in Intervals, h \in Instants :
        /\ Call(Stored \cup {iv}, h)
        /\ frontier' = MaxTime(frontier, h)
        /\ newest' = [t \in DOMAIN newest |->
                        IF t \in Ticks(iv) /\ iv.FetchedAt > newest[t]
                        THEN iv.FetchedAt ELSE newest[t]]
  BY DEF Persist
<1>2. pc = "done" /\ in' = Stored \cup {iv} /\ historyBefore' = h
  BY <1>1 DEF Call
<1>3. iv \in Interval /\ iv.FetchedAt \in Nat /\ iv.FetchedAt > 0
  BY BoundsAssumption DEF Intervals, Instants, Interval
<1>4. /\ Stored \in SUBSET Interval /\ Bounded(Stored)
      /\ \A t \in 0 .. (LastInstant - 1) :
           /\ newest[t] = 0 <=> Over(Stored, t) = {}
           /\ t >= frontier => \A i \in Over(Stored, t) : i.FetchedAt = newest[t]
  BY <1>2, StoredKnows
<1>5. /\ frontier \in Nat /\ newest \in [0 .. (LastInstant - 1) -> Nat]
  BY DEF FreshInv
<1>6. /\ h \in Nat /\ h \in Int
      /\ frontier' \in Nat /\ h <= frontier' /\ frontier <= frontier'
  BY <1>1, <1>5, BoundsAssumption DEF Instants, MaxTime
<1>7. Stored \cup {iv} \in SUBSET Interval
  BY <1>3, <1>4
<1>8. SweepInv'
  BY <1>1, <1>6, <1>7, Calls
<1>9. Bounded(in')
  <2>1. Bounded(Stored \cup {iv})
    BY <1>3, <1>4, BoundedAdded
  <2> QED
    BY <1>2, <2>1 DEF Bounded
<1>10. newest' \in [0 .. (LastInstant - 1) -> Nat]
  BY <1>1, <1>3, <1>5
<1>11. ASSUME NEW t \in 0 .. (LastInstant - 1)
       PROVE  /\ newest'[t] = 0 <=> Over(in', t) = {}
              /\ t >= frontier' /\ newest'[t] # 0 => Newest(in', t, newest'[t])
  <2>1. newest'[t] = IF t \in Ticks(iv) /\ iv.FetchedAt > newest[t]
                     THEN iv.FetchedAt ELSE newest[t]
    BY <1>1, <1>5
  <2>2. Over(in', t) = Over(Stored, t) \cup (IF t \in Ticks(iv) THEN {iv} ELSE {})
    BY <1>2, OverAdded
  <2>3. /\ newest[t] \in Nat /\ t \in Int
        /\ newest[t] = 0 <=> Over(Stored, t) = {}
        /\ t >= frontier => \A i \in Over(Stored, t) : i.FetchedAt = newest[t]
    BY <1>4, <1>5
  <2>4. newest'[t] = 0 <=> Over(in', t) = {}
    BY <1>3, <2>1, <2>2, <2>3
  <2>5. ASSUME t >= frontier', newest'[t] # 0 PROVE Newest(in', t, newest'[t])
    <3>1. \A i \in Over(Stored, t) : i.FetchedAt = newest[t]
      BY <1>5, <1>6, <2>3, <2>5
    <3>2. CASE t \in Ticks(iv) /\ iv.FetchedAt > newest[t]
      <4>1. iv \in Over(in', t) /\ newest'[t] = iv.FetchedAt
        BY <2>1, <2>2, <3>2
      <4>2. \A i \in Over(in', t) : i.FetchedAt <= iv.FetchedAt
        BY <1>3, <2>2, <2>3, <3>1, <3>2
      <4> QED
        BY <4>1, <4>2 DEF Newest
    <3>3. CASE ~(t \in Ticks(iv) /\ iv.FetchedAt > newest[t])
      <4>1. newest'[t] = newest[t] /\ newest[t] # 0
        BY <2>1, <2>5, <3>3
      <4>2. PICK j \in Over(Stored, t) : TRUE
        BY <2>3, <4>1
      <4>3. j \in Over(in', t) /\ j.FetchedAt = newest[t]
        BY <2>2, <3>1, <4>2
      <4>4. \A i \in Over(in', t) : i.FetchedAt <= newest[t]
        BY <1>3, <2>2, <2>3, <3>1, <3>3
      <4> QED
        BY <4>1, <4>3, <4>4 DEF Newest
    <3> QED
      BY <3>2, <3>3
  <2> QED
    BY <2>4, <2>5
<1> QED
  BY <1>2, <1>6, <1>8, <1>9, <1>10, <1>11 DEF FreshInv

\* The sweep between two fetches changes nothing that was fetched.
LEMMA SweepFresh ==
  FreshInv /\ (SweepNext \/ SweepEnds) /\ UNCHANGED <<newest, frontier, fetches>> => FreshInv'
<1> SUFFICES ASSUME FreshInv, SweepNext \/ SweepEnds,
                    UNCHANGED <<newest, frontier>>
             PROVE  FreshInv'
  OBVIOUS
<1>1. in' = in /\ historyBefore' = historyBefore
  BY DEF SweepNext, SweepEnds
<1>2. SweepInv'
  BY Sweeps, SweepCompletes DEF FreshInv
<1>3. Bounded(in)' /\ \A t : Over(in, t)' = Over(in, t) /\ \A f : Newest(in, t, f)' = Newest(in, t, f)
  BY <1>1 DEF FreshInv, Bounded, Newest, Over
<1> QED
  BY <1>1, <1>2, <1>3 DEF FreshInv

\* What is stored and the newest stamps agree after any sequence of fetches, and at
\* every step of the sweeps between them.
THEOREM FreshInvHolds == Spec => []FreshInv
<1>1. FreshInv /\ UNCHANGED vars => FreshInv'
  BY DEF FreshInv, vars, Bounded, SweepInv, Sweeping, NormalizeAgrees
<1> QED
  BY <1>1, InitFresh, PersistFresh, SweepFresh, PTL DEF Spec, Next

\* Nor does the sweep yield anything else of what the fetches leave for the next, and
\* what Plan reads is in order and without overlap (coverage.go:78-124, 130).
THEOREM SweepComputesNormalize == Spec => []NormalizeAgrees
<1>1. FreshInv => NormalizeAgrees
  BY DEF FreshInv, SweepInv
<1> QED
  BY <1>1, FreshInvHolds, PTL

\* Compacting after every fetch, in whatever order the clocks of the Gets were read,
\* forgets no tick, stores none twice, and gives no tick that was live for all of
\* them a stamp other than its newest (coverage.go:68-77).
THEOREM CompactionKeepsFreshness == Spec => []FreshnessKept
<1>1. FreshInv => FreshnessKept
  <2> SUFFICES ASSUME FreshInv, pc = "done" PROVE FreshnessKept
    BY DEF FreshnessKept
  <2>1. DOMAIN newest = 0 .. (LastInstant - 1)
    BY DEF FreshInv
  <2>2. PICK I \in SUBSET Interval, h \in Int : I = in /\ h = historyBefore
    BY DEF FreshInv, SweepInv
  <2>3. PICK S : S = Stored
    OBVIOUS
  <2>4. S = NormalizeCoverage(I, h)
    BY <2>2, <2>3, StoredKnows
  <2>5. ASSUME NEW t, NEW a \in Over(S, t), NEW b \in Over(S, t) PROVE a = b
    <3>1. a \in NormalizeCoverage(I, h) /\ b \in NormalizeCoverage(I, h)
          /\ t \in Ticks(a) \cap Ticks(b)
      BY <2>4 DEF Over
    <3> QED
      BY <3>1, NormalizeDisjoint
  <2> QED
    BY <2>1, <2>3, <2>5, StoredKnows DEF FreshnessKept
<1> QED
  BY <1>1, FreshInvHolds, PTL

\* Two stored intervals that touch could not have been one: their stamps differ and
\* the later reaches into the live zone (coverage.go:75-77).
THEOREM CompactionIsComplete == Spec => []HistoryCompacts
<1>1. FreshInv => HistoryCompacts
  <2> SUFFICES ASSUME FreshInv, pc = "done",
                      NEW a \in Stored, NEW b \in Stored, a.To = b.From
               PROVE  b.To > historyBefore /\ a.FetchedAt # b.FetchedAt
    BY DEF HistoryCompacts
  <2>1. PICK I \in SUBSET Interval, h \in Int : I = in /\ h = historyBefore
    BY DEF FreshInv, SweepInv
  <2>2. a \in NormalizeCoverage(I, h) /\ b \in NormalizeCoverage(I, h)
    BY <2>1, StoredKnows
  <2>3. a \in Interval /\ b \in Interval /\ b.To \in Bounds(I)
    BY <2>2, NormalizeSegments DEF NormalizeCoverage
  <2>4. a.From < b.From /\ b.From <= a.To /\ b.From < b.To
    BY <2>3 DEF Interval
  <2>5. a.FetchedAt # b.FetchedAt
    <3> SUFFICES ASSUME a.FetchedAt = b.FetchedAt PROVE FALSE
      OBVIOUS
    <3>1. a.From <= b.From
      BY <2>3, <2>4 DEF Interval
    <3>2. a = b
      BY <2>2, <2>4, <3>1, NormalizeJoins
    <3> QED
      BY <2>3, <2>4, <3>2 DEF Interval
  <2>6. ~Aged(I, b.From, h)
    BY <2>2, <2>4, NormalizeHistory
  <2>7. b.To > h
    BY <2>3, <2>4, <2>6 DEF Aged, Interval
  <2> QED
    BY <2>1, <2>5, <2>7
<1> QED
  BY <1>1, FreshInvHolds, PTL

=============================================================================
