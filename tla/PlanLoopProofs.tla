--------------------------- MODULE PlanLoopProofs ---------------------------
(***************************************************************************)
(* Proofs about PlanLoop: the loops of Plan compute the set that Coverage  *)
(* defines, for any slice of intervals in any order, overlapping or not,   *)
(* and any window, ages and sliver threshold.  What Plan must fetch, and   *)
(* must not, follows from the lemmas about that set.                       *)
(***************************************************************************)
EXTENDS PlanLoop, CoverageProofs

\* Tick t lies in one of the first n ranges of s; the ranges of s are sorted and
\* more than d apart.
Holds(s, n, t) == \E i \in 1 .. n : s[i].From <= t /\ t < s[i].To
Apart(s, d)    == \A i, j \in 1 .. Len(s) : i < j => s[i].To + d < s[j].From

\* One range more, and the same ranges under another name.
LEMMA HoldsNext ==
  ASSUME NEW s, NEW n \in Nat, NEW t
  PROVE  Holds(s, n + 1, t) <=> \/ Holds(s, n, t)
                                \/ (s[n + 1].From <= t /\ t < s[n + 1].To)
<1>1. \A i : i \in 1 .. (n + 1) <=> i \in 1 .. n \/ i = n + 1
  OBVIOUS
<1> QED
  BY <1>1 DEF Holds

LEMMA HoldsSame ==
  ASSUME NEW s, NEW o, NEW n \in Nat, \A i \in 1 .. n : o[i] = s[i], NEW t
  PROVE  Holds(o, n, t) <=> Holds(s, n, t)
BY DEF Holds

\* The elements of a sequence of ranges.
LEMMA RangesOf ==
  ASSUME NEW s \in Seq(Range)
  PROVE  /\ Len(s) \in Nat
         /\ s = <<>> <=> Len(s) = 0
         /\ \A i \in 1 .. Len(s) : /\ s[i].From \in Int /\ s[i].To \in Int
                                   /\ s[i].From < s[i].To
<1>1. /\ Len(s) \in Nat
      /\ s = <<>> <=> Len(s) = 0
      /\ \A i \in 1 .. Len(s) : s[i] \in Range
  OBVIOUS
<1> QED
  BY <1>1 DEF Range

\* A range is appended.
LEMMA Appended ==
  ASSUME NEW s \in Seq(Range), NEW r \in Range, NEW o, o = Append(s, r),
         NEW d \in Nat, Apart(s, d), s # <<>> => s[Len(s)].To + d < r.From
  PROVE  /\ o \in Seq(Range) /\ Len(o) = Len(s) + 1 /\ Apart(o, d)
         /\ o[Len(o)] = r
         /\ \A t : Holds(o, Len(o), t) <=> Holds(s, Len(s), t) \/ (r.From <= t /\ t < r.To)
<1>1. /\ o \in Seq(Range) /\ Len(o) = Len(s) + 1 /\ Len(s) \in Nat
      /\ \A i \in 1 .. Len(s) : o[i] = s[i]
      /\ o[Len(s) + 1] = r
  OBVIOUS
<1>2. r.From \in Int
  BY DEF Range
<1>3. ASSUME NEW i \in 1 .. Len(s) PROVE s[i].To + d < r.From
  <2>1. CASE i = Len(s)
    BY <1>1, <2>1
  <2>2. CASE i < Len(s)
    <3>1. s[i].To + d < s[Len(s)].From /\ s[Len(s)].To + d < r.From
      BY <1>1, <2>2, RangesOf DEF Apart
    <3>2. /\ s[i].To \in Int /\ s[Len(s)].From \in Int /\ s[Len(s)].To \in Int
          /\ s[Len(s)].From < s[Len(s)].To
      BY <1>1, <2>2, RangesOf
    <3> QED
      BY <1>2, <3>1, <3>2
  <2> QED
    BY <1>1, <2>1, <2>2
<1>4. Apart(o, d)
  <2> SUFFICES ASSUME NEW i \in 1 .. Len(o), NEW j \in 1 .. Len(o), i < j
               PROVE  o[i].To + d < o[j].From
    BY DEF Apart
  <2>1. CASE j = Len(o)
    BY <1>1, <1>3, <2>1
  <2>2. CASE j # Len(o)
    BY <1>1, <2>2 DEF Apart
  <2> QED
    BY <2>1, <2>2
<1>5. ASSUME NEW t
      PROVE  Holds(o, Len(o), t) <=> Holds(s, Len(s), t) \/ (r.From <= t /\ t < r.To)
  <2>1. Holds(o, Len(s), t) <=> Holds(s, Len(s), t)
    BY <1>1, HoldsSame
  <2>2. Holds(o, Len(s) + 1, t) <=> Holds(o, Len(s), t) \/ (r.From <= t /\ t < r.To)
    BY <1>1, HoldsNext
  <2> QED
    BY <1>1, <2>1, <2>2
<1> QED
  BY <1>1, <1>4, <1>5

\* The last range is extended.
LEMMA Extended ==
  ASSUME NEW s \in Seq(Range), s # <<>>, NEW to \in Int, s[Len(s)].To <= to,
         NEW o, o = Extend(s, to),
         NEW d \in Nat, Apart(s, d)
  PROVE  /\ o \in Seq(Range) /\ Len(o) = Len(s) /\ Apart(o, d)
         /\ o[Len(o)].From = s[Len(s)].From /\ o[Len(o)].To = to
         /\ \A t \in Int : Holds(o, Len(o), t) <=>
                             Holds(s, Len(s), t) \/ (s[Len(s)].To <= t /\ t < to)
<1>1. Len(s) \in Nat /\ Len(s) > 0 /\ s \in [1 .. Len(s) -> Range]
  OBVIOUS
<1>2. s[Len(s)] \in Range
  BY <1>1
<1>3. /\ s[Len(s)].From \in Int /\ s[Len(s)].To \in Int /\ s[Len(s)].From < s[Len(s)].To
  BY <1>2 DEF Range
<1> DEFINE r == [s[Len(s)] EXCEPT !.To = to]
<1>4. r = [From |-> s[Len(s)].From, To |-> to]
  <2>1. s[Len(s)] \in [From : Int, To : Int]
    BY <1>2 DEF Range
  <2> QED
    BY <2>1
<1>5. r \in Range /\ r.From = s[Len(s)].From /\ r.To = to
  BY <1>3, <1>4 DEF Range
<1>6. o = [s EXCEPT ![Len(s)] = r]
  BY DEF Extend
<1> HIDE DEF r
<1>7. o[Len(s)] = r /\ \A i \in 1 .. (Len(s) - 1) : o[i] = s[i]
  <2>1. PICK n \in Nat : n = Len(s) /\ n > 0
    BY <1>1
  <2>2. n \in 1 .. n /\ \A i \in 1 .. (n - 1) : i \in 1 .. n /\ i # n
    BY <2>1
  <2>3. s \in [1 .. n -> Range] /\ o = [s EXCEPT ![n] = r]
    BY <1>1, <1>6, <2>1
  <2> QED
    BY <2>1, <2>2, <2>3
<1>8. o \in Seq(Range) /\ Len(o) = Len(s)
  <2>1. o \in [1 .. Len(s) -> Range]
    BY <1>1, <1>5, <1>6
  <2> QED
    BY <1>1, <2>1
<1>9. Apart(o, d)
  <2> SUFFICES ASSUME NEW i \in 1 .. Len(o), NEW j \in 1 .. Len(o), i < j
               PROVE  o[i].To + d < o[j].From
    BY DEF Apart
  <2>1. o[i] = s[i] /\ o[j].From = s[j].From
    BY <1>1, <1>5, <1>7, <1>8
  <2> QED
    BY <1>8, <2>1 DEF Apart
<1>10. ASSUME NEW t \in Int
       PROVE  Holds(o, Len(o), t) <=> Holds(s, Len(s), t) \/ (s[Len(s)].To <= t /\ t < to)
  <2>1. PICK n \in Nat : Len(s) = n + 1
    <3>1. Len(s) - 1 \in Nat /\ Len(s) = (Len(s) - 1) + 1
      BY <1>1
    <3> QED
      BY <3>1
  <2>2. \A i \in 1 .. n : o[i] = s[i]
    BY <1>7, <2>1
  <2>3. Holds(o, n, t) <=> Holds(s, n, t)
    BY <2>2, HoldsSame
  <2>4. /\ Holds(s, n + 1, t) <=> Holds(s, n, t) \/ (s[n + 1].From <= t /\ t < s[n + 1].To)
        /\ Holds(o, n + 1, t) <=> Holds(o, n, t) \/ (o[n + 1].From <= t /\ t < o[n + 1].To)
    BY HoldsNext
  <2> QED
    BY <1>3, <1>5, <1>7, <1>8, <2>1, <2>3, <2>4
<1> QED
  BY <1>5, <1>7, <1>8, <1>9, <1>10

\* A sorted sequence of ranges that do not touch is that of the runs of its ticks.
LEMMA ApartRuns ==
  ASSUME NEW s \in Seq(Range), Apart(s, 0), NEW X \in SUBSET Int,
         \A t \in Int : t \in X <=> Holds(s, Len(s), t)
  PROVE  Runs(X) = Seqs!ToSet(s)
<1>1. /\ Len(s) \in Nat
      /\ \A i \in 1 .. Len(s) : /\ s[i].From \in Int /\ s[i].To \in Int
                                /\ s[i].From < s[i].To
  <2>1. \A i \in 1 .. Len(s) : s[i] \in Range
    OBVIOUS
  <2> QED
    BY <2>1 DEF Range
<1>2. \A i \in 1 .. Len(s), t \in Int : s[i].From <= t /\ t < s[i].To => t \in X
  BY DEF Holds
<1>3. ASSUME NEW i \in 1 .. Len(s) PROVE s[i].From - 1 \notin X /\ s[i].To \notin X
  <2>1. \A j \in 1 .. Len(s) : /\ i < j => s[i].To < s[j].From
                               /\ j < i => s[j].To < s[i].From
    BY <1>1 DEF Apart
  <2>2. PICK from, to \in Int : from = s[i].From /\ to = s[i].To /\ from < to
    BY <1>1
  <2>3. ASSUME NEW j \in 1 .. Len(s), NEW t \in {from - 1, to}
        PROVE  ~(s[j].From <= t /\ t < s[j].To)
    <3>1. s[j].From \in Int /\ s[j].To \in Int /\ s[j].From < s[j].To
      BY <1>1
    <3>2. \/ j = i
          \/ s[j].To < from
          \/ to < s[j].From
      BY <1>1, <2>1, <2>2
    <3>3. CASE j = i
      BY <2>2, <3>3
    <3>4. CASE s[j].To < from
      BY <2>2, <3>1, <3>4
    <3>5. CASE to < s[j].From
      BY <2>2, <3>1, <3>5
    <3> QED
      BY <3>2, <3>3, <3>4, <3>5
  <2>4. ~Holds(s, Len(s), from - 1) /\ ~Holds(s, Len(s), to)
    BY <2>3 DEF Holds
  <2> QED
    BY <2>2, <2>4
<1>4. ASSUME NEW i \in 1 .. Len(s) PROVE s[i] \in Runs(X)
  <2>1. s[i].From \in X /\ s[i].To - 1 \in X
    BY <1>1, <1>2
  <2>2. s[i].To \in {t + 1 : t \in X}
    <3>1. s[i].To = (s[i].To - 1) + 1
      BY <1>1
    <3> QED
      BY <2>1, <3>1
  <2>3. s[i] \in [From : X, To : {t + 1 : t \in X}]
    <3>1. s[i] \in [From : Int, To : Int]
      BY <1>1 DEF Range
    <3> QED
      BY <2>1, <2>2, <3>1
  <2>4. Ticks(s[i]) \subseteq X
    BY <1>1, <1>2 DEF Ticks
  <2> QED
    BY <1>1, <1>3, <2>3, <2>4 DEF Runs
<1>5. ASSUME NEW r \in Runs(X) PROVE \E i \in 1 .. Len(s) : r = s[i]
  <2>1. /\ r \in [From : X, To : {t + 1 : t \in X}] /\ r.From < r.To
        /\ Ticks(r) \subseteq X /\ r.From - 1 \notin X /\ r.To \notin X
    BY DEF Runs
  <2>2. /\ r.From \in X /\ r.From \in Int /\ r.To \in Int
        /\ r = [From |-> r.From, To |-> r.To]
    <3>1. r.From \in X /\ r.To \in {t + 1 : t \in X} /\ r = [From |-> r.From, To |-> r.To]
      BY <2>1
    <3> QED
      BY <3>1
  <2>3. PICK i \in 1 .. Len(s) : s[i].From <= r.From /\ r.From < s[i].To
    BY <2>2 DEF Holds
  <2>4. r.From = s[i].From
    <3>1. s[i].From <= r.From - 1 => r.From - 1 \in X
      BY <1>1, <1>2, <2>2, <2>3
    <3> QED
      BY <1>1, <2>1, <2>2, <2>3, <3>1
  <2>5. ~(r.To < s[i].To)
    <3>1. r.To < s[i].To => r.To \in X
      BY <1>1, <1>2, <2>1, <2>2, <2>3
    <3> QED
      BY <2>1, <3>1
  <2>6. ~(s[i].To < r.To)
    <3>1. s[i].To < r.To => s[i].To \in Ticks(r)
      BY <1>1, <2>1, <2>2, <2>3 DEF Ticks
    <3> QED
      BY <1>3, <2>1, <3>1
  <2>7. s[i] = [From |-> s[i].From, To |-> s[i].To]
    BY <1>1 DEF Range
  <2>8. r.To = s[i].To
    BY <1>1, <2>2, <2>5, <2>6
  <2> QED
    BY <2>2, <2>4, <2>7, <2>8
<1>6. Seqs!ToSet(s) = {s[i] : i \in 1 .. Len(s)}
  BY <1>1 DEF Seqs!ToSet
<1> QED
  BY <1>4, <1>5, <1>6

-----------------------------------------------------------------------------

\* One iteration of coalesce.
LEMMA CoalesceStep ==
  ASSUME NEW s \in Seq(Range), NEW r \in Range, Apart(s, 0),
         s # <<>> => s[Len(s)].From <= r.From,
         NEW o, o = IF s # <<>> /\ r.From <= s[Len(s)].To
                    THEN Extend(s, MaxTime(s[Len(s)].To, r.To))
                    ELSE Append(s, r)
  PROVE  /\ o \in Seq(Range) /\ o # <<>> /\ Apart(o, 0)
         /\ o[Len(o)].From <= r.From
         /\ \A t \in Int : Holds(o, Len(o), t) <=>
                             Holds(s, Len(s), t) \/ (r.From <= t /\ t < r.To)
<1>1. /\ r.From \in Int /\ r.To \in Int /\ r.From < r.To
  BY DEF Range
<1>2. CASE s # <<>> /\ r.From <= s[Len(s)].To
  <2>1. /\ s[Len(s)].From \in Int /\ s[Len(s)].To \in Int /\ s[Len(s)].From <= r.From
        /\ Len(s) \in 1 .. Len(s)
    BY <1>2, RangesOf
  <2>2. PICK to \in Int : to = MaxTime(s[Len(s)].To, r.To)
    BY <1>1, <2>1 DEF MaxTime
  <2>3. s[Len(s)].To <= to /\ r.To <= to /\ (to = s[Len(s)].To \/ to = r.To)
    BY <1>1, <2>1, <2>2 DEF MaxTime
  <2>4. o = Extend(s, to)
    BY <1>2, <2>2
  <2>5. /\ o \in Seq(Range) /\ Len(o) = Len(s) /\ Apart(o, 0)
        /\ o[Len(o)].From = s[Len(s)].From
        /\ \A t \in Int : Holds(o, Len(o), t) <=>
                            Holds(s, Len(s), t) \/ (s[Len(s)].To <= t /\ t < to)
    BY <1>2, <2>3, <2>4, Extended
  <2>6. \A t \in Int : s[Len(s)].From <= t /\ t < s[Len(s)].To => Holds(s, Len(s), t)
    BY <2>1 DEF Holds
  <2>7. o # <<>> /\ o[Len(o)].From <= r.From
    BY <1>2, <2>1, <2>5, RangesOf
  <2>8. ASSUME NEW t \in Int
        PROVE  Holds(o, Len(o), t) <=> Holds(s, Len(s), t) \/ (r.From <= t /\ t < r.To)
    <3>1. s[Len(s)].To <= t /\ t < to => s[Len(s)].To = to \/ (r.From <= t /\ t < r.To)
      BY <1>1, <1>2, <2>1, <2>3
    <3>2. r.From <= t /\ t < r.To =>
            \/ s[Len(s)].From <= t /\ t < s[Len(s)].To
            \/ s[Len(s)].To <= t /\ t < to
      BY <1>1, <1>2, <2>1, <2>3
    <3>3. ~(to <= t /\ t < to)
      OBVIOUS
    <3> QED
      BY <2>5, <2>6, <3>1, <3>2, <3>3
  <2> QED
    BY <2>5, <2>7, <2>8
<1>3. CASE ~(s # <<>> /\ r.From <= s[Len(s)].To)
  <2>1. s # <<>> => s[Len(s)].To \in Int /\ s[Len(s)].To + 0 < r.From
    BY <1>1, <1>3, RangesOf
  <2>2. o = Append(s, r)
    BY <1>3
  <2>3. /\ o \in Seq(Range) /\ Len(o) = Len(s) + 1 /\ Apart(o, 0)
        /\ o[Len(o)] = r
        /\ \A t : Holds(o, Len(o), t) <=> Holds(s, Len(s), t) \/ (r.From <= t /\ t < r.To)
    BY <2>1, <2>2, Appended
  <2>4. o # <<>> /\ o[Len(o)].From <= r.From
    BY <1>1, <2>3, RangesOf
  <2> QED
    BY <2>3, <2>4
<1> QED
  BY <1>2, <1>3

\* One iteration of subtract.
LEMMA SubtractStep ==
  ASSUME NEW s \in Seq(Range), Apart(s, 0), NEW c \in Int, \A i \in 1 .. Len(s) : s[i].To < c,
         NEW to \in Int,
         NEW o, o = WithGap(s, c, to)
  PROVE  /\ o \in Seq(Range) /\ Apart(o, 0)
         /\ \A i \in 1 .. Len(o) : o[i].To < c \/ (o[i].To = to /\ c < to)
         /\ \A t \in Int : Holds(o, Len(o), t) <=> Holds(s, Len(s), t) \/ (c <= t /\ t < to)
<1>1. CASE c < to
  <2>1. PICK r \in Range : r = [From |-> c, To |-> to]
    BY <1>1 DEF Range
  <2>2. r.From = c /\ r.To = to /\ o = Append(s, r)
    BY <1>1, <2>1 DEF WithGap
  <2>3. s # <<>> => s[Len(s)].To + 0 < r.From
    BY <2>2, RangesOf
  <2>4. /\ o \in Seq(Range) /\ Len(o) = Len(s) + 1 /\ Apart(o, 0)
        /\ o[Len(o)] = r
        /\ \A t : Holds(o, Len(o), t) <=> Holds(s, Len(s), t) \/ (r.From <= t /\ t < r.To)
    BY <2>2, <2>3, Appended
  <2>5. \A i \in 1 .. Len(s) : o[i] = s[i]
    BY <2>2
  <2>6. ASSUME NEW i \in 1 .. Len(o) PROVE o[i].To < c \/ (o[i].To = to /\ c < to)
    BY <1>1, <2>2, <2>4, <2>5, RangesOf
  <2> QED
    BY <2>2, <2>4, <2>6
<1>2. CASE ~(c < to)
  <2>1. \A t \in Int : ~(c <= t /\ t < to)
    BY <1>2
  <2>2. o = s
    BY <1>2 DEF WithGap
  <2> QED
    BY <1>2, <2>1, <2>2
<1> QED
  BY <1>1, <1>2

\* Only the last gap can reach the end.
LEMMA LastForgiven ==
  ASSUME NEW g \in Seq(Range), Apart(g, 0), NEW start \in Int, NEW end \in Int,
         NEW freshAfter \in Int, \A i \in 1 .. Len(g) : g[i].To <= end,
         NEW o, o = ForgiveLast(g, start, end, freshAfter)
  PROVE  /\ o \in Seq(Range) /\ Apart(o, 0)
         /\ Seqs!ToSet(o) = ForgiveTrailingGap(Seqs!ToSet(g), start, end, freshAfter)
<1>1. Len(g) \in Nat /\ Seqs!ToSet(g) = {g[i] : i \in 1 .. Len(g)}
  BY DEF Seqs!ToSet
<1>2. ASSUME NEW i \in 1 .. Len(g), i # Len(g) PROVE g[i].To < end
  <2>1. i < Len(g) /\ Len(g) \in 1 .. Len(g)
    BY <1>1, <1>2
  <2>2. g[i].To + 0 < g[Len(g)].From
    BY <2>1 DEF Apart
  <2> QED
    BY <2>1, <2>2, RangesOf
<1>3. CASE /\ g # <<>>
           /\ g[Len(g)].To = end /\ g[Len(g)].From > start /\ g[Len(g)].From > freshAfter
  <2>1. o = SubSeq(g, 1, Len(g) - 1) /\ Len(g) > 0
    BY <1>1, <1>3, RangesOf DEF ForgiveLast
  <2>2. /\ o \in Seq(Range) /\ Len(o) = Len(g) - 1
        /\ \A i \in 1 .. (Len(g) - 1) : o[i] = g[i]
    <3>1. PICK m \in Nat : m = Len(g) - 1
      BY <1>1, <2>1, SMTT(30)
    <3>2. o = SubSeq(g, 1, m) /\ \A i \in 1 .. m : g[i] \in Range
      BY <1>1, <2>1, <3>1
    <3>3. o \in Seq(Range) /\ Len(o) = m
      BY <3>2
    <3>4. \A i \in 1 .. m : o[i] = g[i]
      BY <3>2
    <3> QED
      BY <3>1, <3>3, <3>4
  <2>3. Apart(o, 0)
    BY <1>1, <2>2, SMTT(30) DEF Apart
  <2>4. Seqs!ToSet(o) = {g[i] : i \in 1 .. (Len(g) - 1)}
    BY <1>1, <2>1, <2>2 DEF Seqs!ToSet
  <2>5. \A i \in 1 .. Len(g) : i = Len(g) \/ i \in 1 .. (Len(g) - 1)
    BY <1>1
  <2>6. \A i \in 1 .. (Len(g) - 1) : i \in 1 .. Len(g) /\ g[i].To # end
    <3> TAKE i \in 1 .. (Len(g) - 1)
    <3>1. i \in 1 .. Len(g) /\ i # Len(g)
      BY <1>1
    <3>2. g[i].To < end /\ g[i].To \in Int
      BY <1>2, <3>1, RangesOf
    <3> QED
      BY <3>1, <3>2
  <2>7. Seqs!ToSet(o) = ForgiveTrailingGap(Seqs!ToSet(g), start, end, freshAfter)
    <3> DEFINE dropped(r) == r.To = end /\ r.From > start /\ r.From > freshAfter
    <3>1. dropped(g[Len(g)]) /\ \A i \in 1 .. (Len(g) - 1) : ~dropped(g[i])
      BY <1>3, <2>6
    <3>2. ForgiveTrailingGap(Seqs!ToSet(g), start, end, freshAfter)
            = {r \in Seqs!ToSet(g) : ~dropped(r)}
      BY DEF ForgiveTrailingGap
    <3> HIDE DEF dropped
    <3>3. ASSUME NEW i \in 1 .. (Len(g) - 1)
          PROVE  g[i] \in {r \in Seqs!ToSet(g) : ~dropped(r)}
      BY <1>1, <2>6, <3>1
    <3>4. ASSUME NEW r \in Seqs!ToSet(g), ~dropped(r)
          PROVE  \E i \in 1 .. (Len(g) - 1) : r = g[i]
      BY <1>1, <2>5, <3>1, <3>4
    <3> QED
      BY <2>4, <3>2, <3>3, <3>4
  <2> QED
    BY <2>2, <2>3, <2>7
<1>4. CASE ~(/\ g # <<>>
             /\ g[Len(g)].To = end /\ g[Len(g)].From > start /\ g[Len(g)].From > freshAfter)
  <2>1. o = g
    BY <1>4 DEF ForgiveLast
  <2>2. ASSUME NEW i \in 1 .. Len(g)
        PROVE  ~(g[i].To = end /\ g[i].From > start /\ g[i].From > freshAfter)
    <3>1. CASE i = Len(g)
      <4>1. g # <<>>
        BY <3>1
      <4> QED
        BY <1>4, <3>1, <4>1
    <3>2. CASE i # Len(g)
      BY <1>2, <3>2, RangesOf
    <3> QED
      BY <3>1, <3>2
  <2> QED
    BY <1>1, <2>1, <2>2 DEF ForgiveTrailingGap
<1> QED
  BY <1>3, <1>4

\* Tick t lies in one of the first n ranges of g, or between two of them that are
\* at most d apart.
Bridged(g, n, d, t) ==
  \/ Holds(g, n, t)
  \/ \E i, j \in 1 .. n : g[j].From - g[i].To <= d /\ g[i].To <= t /\ t < g[j].From

LEMMA BridgedRanges ==
  ASSUME NEW g \in Seq(Range), Apart(g, 0), NEW n \in 1 .. Len(g)
  PROVE  /\ n \in Nat /\ n - 1 \in Nat
         /\ \A i : i \in 1 .. n <=> i \in 1 .. (n - 1) \/ i = n
         /\ \A i \in 1 .. n : g[i].From \in Int /\ g[i].To \in Int /\ g[i].From < g[i].To
         /\ \A i, j \in 1 .. n : i < j => g[i].To < g[j].From
         /\ \A i, j \in 1 .. n : g[i].To < g[j].From => i < j
         /\ \A t : Holds(g, n, t) <=> Holds(g, n - 1, t) \/ (g[n].From <= t /\ t < g[n].To)
<1>1. n \in Nat /\ n - 1 \in Nat /\ n = (n - 1) + 1 /\ \A i \in 1 .. n : i \in 1 .. Len(g)
  BY RangesOf
<1>2. \A i : i \in 1 .. n <=> i \in 1 .. (n - 1) \/ i = n
  OBVIOUS
<1>3. \A i \in 1 .. n : g[i].From \in Int /\ g[i].To \in Int /\ g[i].From < g[i].To
  BY <1>1, RangesOf
<1>4. ASSUME NEW i \in 1 .. n, NEW j \in 1 .. n, i < j PROVE g[i].To < g[j].From
  <2>1. g[i].To + 0 < g[j].From
    BY <1>1, <1>4 DEF Apart
  <2> QED
    BY <1>3, <2>1
<1>5. ASSUME NEW i \in 1 .. n, NEW j \in 1 .. n, g[i].To < g[j].From PROVE i < j
  <2>1. /\ g[i].From \in Int /\ g[i].To \in Int /\ g[i].From < g[i].To
        /\ g[j].From \in Int /\ g[j].To \in Int /\ g[j].From < g[j].To
    BY <1>3
  <2>2. i # j
    BY <1>5, <2>1
  <2>3. j < i => g[j].To < g[i].From
    BY <1>4
  <2>4. ~(j < i)
    BY <1>5, <2>1, <2>3
  <2> QED
    BY <1>1, <2>2, <2>4
<1>6. \A t : Holds(g, n, t) <=> Holds(g, n - 1, t) \/ (g[n].From <= t /\ t < g[n].To)
  BY <1>1, HoldsNext
<1> QED
  BY <1>1, <1>2, <1>3, <1>4, <1>5, <1>6

\* The next range is at most d from the last, and the space between is bridged.
LEMMA BridgedNear ==
  ASSUME NEW g \in Seq(Range), Apart(g, 0), NEW n \in 1 .. Len(g), NEW d \in Nat,
         n # 1, g[n].From - g[n - 1].To <= d, NEW t \in Int
  PROVE  Bridged(g, n, d, t) <=> Bridged(g, n - 1, d, t) \/ (g[n - 1].To <= t /\ t < g[n].To)
<1>1. n - 1 \in 1 .. n /\ n - 1 \in 1 .. (n - 1) /\ n - 1 < n /\ n \in 1 .. n
  OBVIOUS
<1>2. PICK a, b, c, e \in Int :
        /\ a = g[n - 1].From /\ b = g[n - 1].To /\ c = g[n].From /\ e = g[n].To
        /\ a < b /\ b < c /\ c < e /\ c - b <= d
  <2>1. /\ g[n - 1].From \in Int /\ g[n - 1].To \in Int /\ g[n - 1].From < g[n - 1].To
        /\ g[n].From \in Int /\ g[n].To \in Int /\ g[n].From < g[n].To
        /\ g[n - 1].To < g[n].From
    BY <1>1, BridgedRanges
  <2> QED
    BY <2>1
<1>3. Bridged(g, n - 1, d, t) => Bridged(g, n, d, t)
  BY BridgedRanges DEF Bridged
<1>4. b <= t /\ t < e => Bridged(g, n, d, t)
  <2>1. b <= t /\ t < c => Bridged(g, n, d, t)
    BY <1>1, <1>2 DEF Bridged
  <2>2. c <= t /\ t < e => Bridged(g, n, d, t)
    BY <1>2, BridgedRanges DEF Bridged
  <2> QED
    BY <1>2, <2>1, <2>2
<1>5. Holds(g, n, t) => Bridged(g, n - 1, d, t) \/ (b <= t /\ t < e)
  BY <1>2, BridgedRanges DEF Bridged
<1>6. ASSUME NEW i \in 1 .. n, NEW j \in 1 .. n,
             g[j].From - g[i].To <= d, g[i].To <= t, t < g[j].From
      PROVE  Bridged(g, n - 1, d, t) \/ (b <= t /\ t < e)
  <2>1. PICK to \in Int : to = g[i].To /\ to <= t
    BY <1>6, BridgedRanges
  <2>2. i < j
    <3>1. g[j].From \in Int
      BY BridgedRanges
    <3>2. g[i].To < g[j].From
      BY <1>6, <2>1, <3>1
    <3> QED
      BY <3>2, BridgedRanges
  <2>3. i \in 1 .. (n - 1)
    BY <2>2
  <2>4. CASE j # n
    BY <1>6, <2>3, <2>4, BridgedRanges DEF Bridged
  <2>5. CASE j = n /\ b <= t
    BY <1>2, <1>6, <2>5
  <2>6. CASE j = n /\ a <= t /\ t < b
    BY <1>1, <1>2, <2>6 DEF Bridged, Holds
  <2>7. CASE j = n /\ t < a
    <3>1. c - to <= d
      <4>1. g[j].From = c
        BY <1>2, <2>7
      <4> QED
        BY <1>6, <2>1, <4>1
    <3>2. a - to <= d
      <4>1. a < c
        BY <1>2
      <4> QED
        BY <3>1, <4>1
    <3> QED
      BY <1>1, <1>2, <2>1, <2>3, <2>7, <3>2 DEF Bridged
  <2> QED
    BY <1>2, <2>4, <2>5, <2>6, <2>7
<1> QED
  BY <1>2, <1>3, <1>4, <1>5, <1>6 DEF Bridged

\* The next range is more than d from the last, and so from all before it.
LEMMA BridgedFar ==
  ASSUME NEW g \in Seq(Range), Apart(g, 0), NEW n \in 1 .. Len(g), NEW d \in Nat,
         n # 1 => g[n - 1].To + d < g[n].From, NEW t \in Int
  PROVE  Bridged(g, n, d, t) <=> Bridged(g, n - 1, d, t) \/ (g[n].From <= t /\ t < g[n].To)
<1>1. ASSUME NEW i \in 1 .. n, NEW j \in 1 .. n,
             g[j].From - g[i].To <= d, g[i].To <= t, t < g[j].From
      PROVE  i \in 1 .. (n - 1) /\ j \in 1 .. (n - 1)
  <2>1. PICK to, from \in Int : /\ to = g[i].To /\ from = g[j].From
                               /\ to < from /\ from - to <= d
    <3>1. g[i].To \in Int /\ g[j].From \in Int
      BY BridgedRanges
    <3> QED
      BY <1>1, <3>1
  <2>2. i < j
    BY <2>1, BridgedRanges
  <2>3. i \in 1 .. (n - 1) /\ n # 1 /\ n - 1 \in 1 .. n
    BY <2>2
  <2>4. PICK b, c \in Int : b = g[n - 1].To /\ c = g[n].From /\ b + d < c
    <3>1. n \in 1 .. n
      OBVIOUS
    <3>2. g[n - 1].To \in Int /\ g[n].From \in Int
      BY <2>3, <3>1, BridgedRanges
    <3> QED
      BY <2>3, <3>2
  <2>5. to <= b
    <3>1. CASE i = n - 1
      BY <2>1, <2>4, <3>1
    <3>2. CASE i # n - 1
      <4>1. i < n - 1
        BY <2>3, <3>2
      <4>2. g[i].To < g[n - 1].From
        BY <2>3, <4>1, BridgedRanges
      <4>3. g[n - 1].From \in Int /\ g[n - 1].From < g[n - 1].To
        BY <2>3, BridgedRanges
      <4> QED
        BY <2>1, <2>4, <4>2, <4>3, SMTT(30)
    <3> QED
      BY <3>1, <3>2
  <2>6. j # n
    BY <2>1, <2>4, <2>5, SMTT(30)
  <2> QED
    BY <2>3, <2>6, BridgedRanges
<1>2. Bridged(g, n - 1, d, t) => Bridged(g, n, d, t)
  BY BridgedRanges DEF Bridged
<1>3. g[n].From <= t /\ t < g[n].To => Bridged(g, n, d, t)
  BY BridgedRanges DEF Bridged
<1>4. Holds(g, n, t) => Bridged(g, n - 1, d, t) \/ (g[n].From <= t /\ t < g[n].To)
  BY BridgedRanges DEF Bridged
<1> QED
  BY <1>1, <1>2, <1>3, <1>4 DEF Bridged

\* One iteration of mergeSlivers.
LEMMA MergeStep ==
  ASSUME NEW g \in Seq(Range), Apart(g, 0), NEW n \in 1 .. Len(g), NEW d \in Nat,
         NEW s \in Seq(Range), Apart(s, d), s = <<>> <=> n = 1,
         s # <<>> => s[Len(s)].To = g[n - 1].To,
         \A t \in Int : Holds(s, Len(s), t) <=> Bridged(g, n - 1, d, t),
         NEW o, o = WithMerged(s, g[n], d)
  PROVE  /\ o \in Seq(Range) /\ o # <<>> /\ Apart(o, d) /\ o[Len(o)].To = g[n].To
         /\ \A t \in Int : Holds(o, Len(o), t) <=> Bridged(g, n, d, t)
<1>1. n \in 1 .. n /\ (n # 1 => n - 1 \in 1 .. n /\ n - 1 < n)
  OBVIOUS
<1>2. /\ g[n].From \in Int /\ g[n].To \in Int /\ g[n].From < g[n].To
      /\ n # 1 => g[n - 1].To \in Int /\ g[n - 1].To < g[n].From
  BY <1>1, BridgedRanges
<1>3. CASE s # <<>> /\ g[n].From - s[Len(s)].To <= d
  <2>1. n # 1 /\ s[Len(s)].To = g[n - 1].To /\ g[n].From - g[n - 1].To <= d
    BY <1>3
  <2>2. o = Extend(s, g[n].To)
    BY <1>3 DEF WithMerged
  <2>3. s[Len(s)].To <= g[n].To
    BY <1>2, <2>1
  <2>4. PICK to \in Int : to = g[n].To
    BY <1>2
  <2>9. o = Extend(s, to) /\ s[Len(s)].To <= to
    BY <2>2, <2>3, <2>4
  <2>5. /\ o \in Seq(Range) /\ Len(o) = Len(s) /\ Apart(o, d)
        /\ o[Len(o)].To = to
        /\ \A t \in Int : Holds(o, Len(o), t) <=>
                            Holds(s, Len(s), t) \/ (s[Len(s)].To <= t /\ t < to)
    BY <1>3, <2>9, Extended
  <2>6. \A t \in Int : Bridged(g, n, d, t) <=>
                         Bridged(g, n - 1, d, t) \/ (g[n - 1].To <= t /\ t < g[n].To)
    BY <2>1, BridgedNear
  <2>7. \A t \in Int : Holds(o, Len(o), t) <=> Bridged(g, n, d, t)
    BY <2>1, <2>4, <2>5, <2>6
  <2>8. o # <<>>
    BY <1>3, <2>5, RangesOf
  <2> QED
    BY <2>4, <2>5, <2>7, <2>8
<1>4. CASE ~(s # <<>> /\ g[n].From - s[Len(s)].To <= d)
  <2>1. o = Append(s, g[n]) /\ g[n] \in Range
    BY <1>4 DEF WithMerged
  <2>2. n # 1 => g[n - 1].To + d < g[n].From
    <3>1. n # 1 => ~(g[n].From - g[n - 1].To <= d)
      BY <1>4
    <3> QED
      BY <1>2, <3>1
  <2>3. s # <<>> => s[Len(s)].To + d < g[n].From
    BY <2>2
  <2>4. /\ o \in Seq(Range) /\ Len(o) = Len(s) + 1 /\ Apart(o, d)
        /\ o[Len(o)] = g[n]
        /\ \A t : Holds(o, Len(o), t) <=>
                    Holds(s, Len(s), t) \/ (g[n].From <= t /\ t < g[n].To)
    BY <2>1, <2>3, Appended
  <2>5. \A t \in Int : Bridged(g, n, d, t) <=>
                         Bridged(g, n - 1, d, t) \/ (g[n].From <= t /\ t < g[n].To)
    BY <2>2, BridgedFar
  <2>6. \A t \in Int : Holds(o, Len(o), t) <=> Bridged(g, n, d, t)
    BY <2>4, <2>5
  <2>7. o # <<>>
    <3>1. Len(s) \in Nat
      BY RangesOf
    <3>2. Len(o) # 0
      BY <2>4, <3>1
    <3> QED
      BY <2>4, <3>2, RangesOf
  <2> QED
    BY <2>4, <2>6, <2>7
<1> QED
  BY <1>3, <1>4

-----------------------------------------------------------------------------
(* What each loop knows of its slices *)

\* What the stored intervals cover of the window, and the gaps that are left.
Covered ==
  {t \in request.start .. (request.end - 1) :
     NoFetchNeeded(Seqs!ToSet(in), t, request.now, Ttl, LiveHorizon)}
Gaps == ForgiveTrailingGap(Subtract(request.start, request.end, Covered),
                           request.start, request.end, request.now - Ttl)

\* The arguments stay what they were, and the slices are of ranges; only the first
\* loop goes through the intervals.
Typed ==
  /\ in \in Seq(Interval)
  /\ request \in [start : Int, end : Int, now : Int]
  /\ pc \in {"clip", "coalesce", "subtract", "merge", "done"}
  /\ k \in Nat \ {0}
  /\ out \in Seq(Range)
  /\ cur \in Int

\* The pieces so far are what the intervals so far cover of the window.
Clipping ==
  pc = "clip" =>
    /\ todo = in /\ k <= Len(in) + 1
    /\ request.start < request.end /\ cur = request.start
    /\ \A t \in Int :
         Holds(out, Len(out), t) <=>
           /\ t \in request.start .. (request.end - 1)
           /\ \E i \in 1 .. (k - 1) : Covers(in[i], t, request.now, Ttl, LiveHorizon)

\* The pieces are sorted; the ranges so far hold what the pieces so far held.
Coalescing ==
  pc = "coalesce" =>
    /\ todo \in Seq(Range) /\ k <= Len(todo) + 1
    /\ request.start < request.end /\ cur = request.start
    /\ \A i, j \in 1 .. Len(todo) : i < j => todo[i].From <= todo[j].From
    /\ \A t \in Int : Holds(todo, Len(todo), t) <=> t \in Covered
    /\ Apart(out, 0)
    /\ out # <<>> => \A j \in k .. Len(todo) : out[Len(out)].From <= todo[j].From
    /\ \A t \in Int : Holds(out, Len(out), t) <=> Holds(todo, k - 1, t)

\* The gaps so far are what is not covered before cur.
Subtracting ==
  pc = "subtract" =>
    /\ todo \in Seq(Range) /\ k <= Len(todo) + 1 /\ Apart(todo, 0)
    /\ \A t \in Int : Holds(todo, Len(todo), t) <=> t \in Covered
    /\ request.start <= cur /\ cur <= request.end
    /\ \A i \in 1 .. (k - 1) : todo[i].To <= cur
    /\ Apart(out, 0)
    /\ \A i \in 1 .. Len(out) : out[i].To < cur
    /\ \A t \in Int :
         Holds(out, Len(out), t) <=> request.start <= t /\ t < cur /\ t \notin Covered

\* The ranges so far are the gaps so far and what bridges them.
Merging ==
  pc = "merge" =>
    /\ todo \in Seq(Range) /\ k <= Len(todo) + 1 /\ Apart(todo, 0)
    /\ Seqs!ToSet(todo) = Gaps
    /\ Apart(out, SliverThreshold)
    /\ out = <<>> <=> k = 1
    /\ out # <<>> => out[Len(out)].To = todo[k - 1].To
    /\ \A t \in Int :
         Holds(out, Len(out), t) <=> Bridged(todo, k - 1, SliverThreshold, t)

LoopInv == Typed /\ Clipping /\ Coalescing /\ Subtracting /\ Merging /\ PlanAgrees

-----------------------------------------------------------------------------

\* An empty slice.
LEMMA NothingHolds == <<>> \in Seq(Range) /\ \A t : ~Holds(<<>>, Len(<<>>), t)
<1>1. <<>> \in Seq(Range) /\ Len(<<>>) = 0
  OBVIOUS
<1> QED
  BY <1>1 DEF Holds

\* A piece is a range unless it is empty.
LEMMA PieceHolds ==
  ASSUME NEW a \in Int, NEW b \in Int,
         NEW p, p = Piece(a, b)
  PROVE  /\ p \in Seq(Range)
         /\ \A t \in Int : Holds(p, Len(p), t) <=> a <= t /\ t < b
<1>1. CASE a < b
  <2>1. PICK r \in Range : r = [From |-> a, To |-> b]
    BY <1>1 DEF Range
  <2>2. r.From = a /\ r.To = b /\ p = <<r>>
    BY <1>1, <2>1 DEF Piece
  <2>3. p \in Seq(Range) /\ Len(p) = 1 /\ p[1] = r
    BY <2>2
  <2> QED
    BY <1>1, <2>2, <2>3 DEF Holds
<1>2. CASE ~(a < b)
  <2>1. p = <<>>
    BY <1>2 DEF Piece
  <2>2. \A t \in Int : ~(a <= t /\ t < b)
    BY <1>2
  <2> QED
    BY <2>1, <2>2, NothingHolds
<1> QED
  BY <1>1, <1>2

\* Two slices one after the other.
LEMMA HoldsEither ==
  ASSUME NEW p \in Seq(Range), NEW q \in Seq(Range), NEW o, o = p \o q
  PROVE  /\ o \in Seq(Range)
         /\ \A t : Holds(o, Len(o), t) <=> Holds(p, Len(p), t) \/ Holds(q, Len(q), t)
<1>1. PICK m, n \in Nat : m = Len(p) /\ n = Len(q)
  BY RangesOf
<1>2. /\ o \in Seq(Range) /\ Len(o) = m + n
      /\ \A i \in 1 .. m : i \in 1 .. (m + n) /\ o[i] = p[i]
  BY <1>1
<1>3. ASSUME NEW i \in 1 .. n PROVE m + i \in 1 .. (m + n) /\ o[m + i] = q[i]
  BY <1>1
<1>4. ASSUME NEW i \in 1 .. (m + n), i \notin 1 .. m
      PROVE  i - m \in 1 .. n /\ o[i] = q[i - m]
  BY <1>1, <1>4
<1>5. ASSUME NEW t PROVE Holds(o, Len(o), t) <=> Holds(p, Len(p), t) \/ Holds(q, Len(q), t)
  <2>1. Holds(p, Len(p), t) => Holds(o, Len(o), t)
    BY <1>1, <1>2 DEF Holds
  <2>2. Holds(q, Len(q), t) => Holds(o, Len(o), t)
    BY <1>1, <1>2, <1>3 DEF Holds
  <2>3. Holds(o, Len(o), t) => Holds(p, Len(p), t) \/ Holds(q, Len(q), t)
    BY <1>1, <1>2, <1>4 DEF Holds
  <2> QED
    BY <2>1, <2>2, <2>3
<1> QED
  BY <1>2, <1>5

\* The pieces of an interval are what it covers of the window.
LEMMA PiecesHold ==
  ASSUME request \in [start : Int, end : Int, now : Int], NEW iv \in Interval,
         NEW p, p = PiecesOf(iv)
  PROVE  /\ p \in Seq(Range)
         /\ \A t \in Int : Holds(p, Len(p), t) <=>
                             /\ t \in request.start .. (request.end - 1)
                             /\ Covers(iv, t, request.now, Ttl, LiveHorizon)
<1>1. /\ iv.From \in Int /\ iv.To \in Int /\ iv.FetchedAt \in Int
      /\ request.start \in Int /\ request.end \in Int /\ request.now \in Int
      /\ Ttl \in Int /\ LiveHorizon \in Int
  BY AgesAssumption DEF Interval
<1>2. PICK f, e, live, hEnd, lStart \in Int :
        /\ f = MaxTime(iv.From, request.start) /\ e = MinTime(iv.To, request.end)
        /\ live = request.now - LiveHorizon
        /\ hEnd = MinTime(e, live) /\ lStart = MaxTime(f, live)
  BY <1>1 DEF MinTime, MaxTime
<1>3. PICK fresh \in BOOLEAN : fresh <=> iv.FetchedAt >= request.now - Ttl
  OBVIOUS
<1>4. \A t \in Int :
        /\ f <= t <=> iv.From <= t /\ request.start <= t
        /\ t < e <=> t < iv.To /\ t < request.end
        /\ t < hEnd <=> t < e /\ t < live
        /\ lStart <= t <=> f <= t /\ live <= t
  BY <1>1, <1>2 DEF MinTime, MaxTime
<1>5. \A t \in Int :
        /\ t \in request.start .. (request.end - 1)
             <=> request.start <= t /\ t < request.end
        /\ Covers(iv, t, request.now, Ttl, LiveHorizon)
             <=> /\ iv.From <= t /\ t < iv.To
                 /\ t < live \/ fresh
  BY <1>1, <1>2, <1>3 DEF Covers, Ticks
<1>6. CASE f >= e
  <2>1. p = <<>>
    BY <1>2, <1>6 DEF PiecesOf
  <2>2. \A t \in Int : ~(f <= t /\ t < e)
    BY <1>6
  <2> QED
    BY <1>4, <1>5, <2>1, <2>2, NothingHolds
<1>7. CASE ~(f >= e)
  <2>1. PICK a, b : /\ a = Piece(f, hEnd)
                    /\ b = IF fresh THEN Piece(lStart, e) ELSE <<>>
    OBVIOUS
  <2>2. p = a \o b
    BY <1>2, <1>3, <1>7, <2>1 DEF PiecesOf
  <2>3. /\ a \in Seq(Range)
        /\ \A t \in Int : Holds(a, Len(a), t) <=> f <= t /\ t < hEnd
    <3>1. a = Piece(f, hEnd)
      BY <2>1
    <3> QED
      BY <3>1, PieceHolds
  <2>4. /\ b \in Seq(Range)
        /\ \A t \in Int : Holds(b, Len(b), t) <=> fresh /\ lStart <= t /\ t < e
    <3>1. CASE fresh
      <4>1. b = Piece(lStart, e)
        BY <2>1, <3>1
      <4>2. /\ b \in Seq(Range)
            /\ \A t \in Int : Holds(b, Len(b), t) <=> lStart <= t /\ t < e
        BY <4>1, PieceHolds
      <4> QED
        BY <3>1, <4>2
    <3>2. CASE ~fresh
      <4>1. b = <<>>
        BY <2>1, <3>2
      <4> QED
        BY <3>2, <4>1, NothingHolds
    <3> QED
      BY <3>1, <3>2
  <2>5. /\ p \in Seq(Range)
        /\ \A t : Holds(p, Len(p), t) <=> Holds(a, Len(a), t) \/ Holds(b, Len(b), t)
    BY <2>2, <2>3, <2>4, HoldsEither
  <2> QED
    BY <1>2, <1>4, <1>5, <2>3, <2>4, <2>5, SMTT(30)
<1> QED
  BY <1>1, <1>2, <1>6, <1>7

-----------------------------------------------------------------------------

\* No step changes what is covered.
LEMMA SameArguments ==
  ASSUME in' = in, request' = request
  PROVE  Covered' = Covered /\ Gaps' = Gaps
BY DEF Covered, Gaps

LEMMA Started == Init => LoopInv
<1> SUFFICES ASSUME Init PROVE LoopInv
  OBVIOUS
<1>1. /\ in \in Seq(Interval) /\ request \in [start : Int, end : Int, now : Int]
      /\ request.start \in Int /\ request.end \in Int /\ request.now \in Int
  BY InputsAssumption DEF Init
<1>2. out = <<>> /\ k = 1 /\ todo = in /\ cur = request.start
  BY DEF Init
<1>3. pc = (IF request.start < request.end THEN "clip" ELSE "done")
  BY DEF Init
<1>4. Typed
  BY <1>1, <1>2, <1>3, NothingHolds DEF Typed
<1>5. Clipping
  <2>1. k <= Len(in) + 1
    BY <1>1, <1>2
  <2>2. \A t : ~Holds(out, Len(out), t)
    BY <1>2, NothingHolds
  <2>3. \A i : i \notin 1 .. (k - 1)
    BY <1>2
  <2> QED
    BY <1>2, <1>3, <2>1, <2>2, <2>3 DEF Clipping
<1>6. Coalescing /\ Subtracting /\ Merging
  BY <1>3 DEF Coalescing, Subtracting, Merging
<1>7. PlanAgrees
  <2> SUFFICES ASSUME pc = "done" PROVE PlanAgrees
    BY DEF PlanAgrees
  <2>1. ~(request.start < request.end)
    BY <1>3
  <2> DEFINE P == Plan(Seqs!ToSet(in), request.start, request.end, request.now, Ttl, LiveHorizon)
  <2>2. \A r \in P : r \in Range /\ request.start <= r.From /\ r.To <= request.end
    BY <1>1, AgesAssumption, PlanWithin
  <2>3. P = {}
    BY <1>1, <2>1, <2>2 DEF Range
  <2>4. DOMAIN out = {} /\ Seqs!ToSet(out) = {}
    BY <1>2 DEF Seqs!ToSet
  <2> QED
    BY <2>3, <2>4 DEF PlanAgrees
<1> QED
  BY <1>4, <1>5, <1>6, <1>7 DEF LoopInv

LEMMA Clips == LoopInv /\ ClipNext => LoopInv'
<1> SUFFICES ASSUME LoopInv, ClipNext PROVE LoopInv'
  OBVIOUS
<1>1. /\ pc = "clip" /\ pc' = "clip" /\ k <= Len(todo) /\ k' = k + 1
      /\ in' = in /\ request' = request /\ todo' = todo /\ cur' = cur
      /\ out' = out \o PiecesOf(todo[k])
  BY DEF ClipNext, Iterates
<1>2. /\ in \in Seq(Interval) /\ request \in [start : Int, end : Int, now : Int]
      /\ k \in Nat \ {0} /\ out \in Seq(Range) /\ cur \in Int
  BY DEF LoopInv, Typed
<1>3. /\ todo = in /\ request.start < request.end /\ cur = request.start
      /\ \A t \in Int :
           Holds(out, Len(out), t) <=>
             /\ t \in request.start .. (request.end - 1)
             /\ \E i \in 1 .. (k - 1) : Covers(in[i], t, request.now, Ttl, LiveHorizon)
  BY <1>1 DEF LoopInv, Clipping
<1>4. in[k] \in Interval /\ Len(in) \in Nat
  BY <1>1, <1>2, <1>3
<1>5. PICK p : p = PiecesOf(in[k])
  OBVIOUS
<1>6. /\ p \in Seq(Range)
      /\ \A t \in Int : Holds(p, Len(p), t) <=>
                          /\ t \in request.start .. (request.end - 1)
                          /\ Covers(in[k], t, request.now, Ttl, LiveHorizon)
  BY <1>2, <1>4, <1>5, PiecesHold
<1>7. PICK o : o = out'
  OBVIOUS
<1>8. o = out \o p
  BY <1>1, <1>3, <1>5, <1>7
<1>9. /\ o \in Seq(Range)
      /\ \A t : Holds(o, Len(o), t) <=> Holds(out, Len(out), t) \/ Holds(p, Len(p), t)
  BY <1>2, <1>6, <1>8, HoldsEither
<1>10. \A i : i \in 1 .. (k' - 1) <=> i \in 1 .. (k - 1) \/ i = k
  BY <1>1, <1>2
<1>11. Typed'
  BY <1>1, <1>2, <1>7, <1>9 DEF Typed
<1>12. Clipping'
  <2>1. k' <= Len(in) + 1
    BY <1>1, <1>2, <1>3, <1>4
  <2>2. \A t \in Int :
          Holds(o, Len(o), t) <=>
            /\ t \in request.start .. (request.end - 1)
            /\ \E i \in 1 .. (k' - 1) : Covers(in[i], t, request.now, Ttl, LiveHorizon)
    BY <1>3, <1>6, <1>9, <1>10
  <2> QED
    BY <1>1, <1>3, <1>7, <2>1, <2>2 DEF Clipping
<1>13. Coalescing' /\ Subtracting' /\ Merging' /\ PlanAgrees'
  BY <1>1 DEF Coalescing, Subtracting, Merging, PlanAgrees
<1> QED
  BY <1>11, <1>12, <1>13 DEF LoopInv

\* Sorting moves the pieces and keeps them.
LEMMA SortedHolds ==
  ASSUME NEW s \in Seq(Range), NEW p \in Funs!Bijection(DOMAIN s, DOMAIN s),
         NEW o, o = Reordered(s, p)
  PROVE  /\ o \in Seq(Range) /\ Len(o) = Len(s)
         /\ \A t : Holds(o, Len(o), t) <=> Holds(s, Len(s), t)
<1>1. PICK n \in Nat : n = Len(s) /\ DOMAIN s = 1 .. n /\ s \in [1 .. n -> Range]
  OBVIOUS
<1>2. p \in [1 .. n -> 1 .. n] /\ \A i \in 1 .. n : \E j \in 1 .. n : p[j] = i
  BY <1>1 DEF Funs!Bijection, Funs!Surjection
<1>3. o \in [1 .. n -> Range]
  BY <1>1, <1>2 DEF Reordered
<1>4. o \in Seq(Range) /\ Len(o) = n
  BY <1>1, <1>3
<1>5. \A j \in 1 .. n : p[j] \in 1 .. n /\ o[j] = s[p[j]]
  BY <1>1, <1>2 DEF Reordered
<1>6. ASSUME NEW t PROVE Holds(o, n, t) <=> Holds(s, n, t)
  <2>1. ASSUME NEW j \in 1 .. n, o[j].From <= t, t < o[j].To PROVE Holds(s, n, t)
    BY <1>5, <2>1 DEF Holds
  <2>2. ASSUME NEW i \in 1 .. n, s[i].From <= t, t < s[i].To PROVE Holds(o, n, t)
    <3>1. PICK j \in 1 .. n : p[j] = i
      BY <1>2
    <3>2. o[j].From <= t /\ t < o[j].To
      BY <1>5, <2>2, <3>1
    <3> QED
      BY <3>2 DEF Holds
  <2> QED
    BY <2>1, <2>2 DEF Holds
<1> QED
  BY <1>1, <1>4, <1>6

LEMMA Sorts == LoopInv /\ SortPieces => LoopInv'
<1> SUFFICES ASSUME LoopInv, SortPieces PROVE LoopInv'
  OBVIOUS
<1>1. /\ pc = "clip" /\ pc' = "coalesce" /\ k > Len(todo) /\ k' = 1
      /\ in' = in /\ request' = request /\ cur' = cur /\ out' = <<>>
  BY DEF SortPieces, Ends
<1>2. /\ in \in Seq(Interval) /\ request \in [start : Int, end : Int, now : Int]
      /\ k \in Nat \ {0} /\ out \in Seq(Range) /\ cur \in Int
  BY DEF LoopInv, Typed
<1>3. /\ todo = in /\ request.start < request.end /\ cur = request.start
      /\ k <= Len(in) + 1
      /\ \A t \in Int :
           Holds(out, Len(out), t) <=>
             /\ t \in request.start .. (request.end - 1)
             /\ \E i \in 1 .. (k - 1) : Covers(in[i], t, request.now, Ttl, LiveHorizon)
  BY <1>1 DEF LoopInv, Clipping
<1>4. k - 1 = Len(in) /\ DOMAIN in = 1 .. Len(in) /\ DOMAIN out = 1 .. Len(out)
  BY <1>1, <1>2, <1>3
<1>5. PICK s : s = todo'
  OBVIOUS
<1>6. PICK p \in Funs!Bijection(DOMAIN out, DOMAIN out) : s = Reordered(out, p)
  BY <1>5 DEF SortPieces
<1>7. /\ s \in Seq(Range) /\ Len(s) = Len(out)
      /\ \A t : Holds(s, Len(s), t) <=> Holds(out, Len(out), t)
  BY <1>2, <1>6, SortedHolds
<1>8. \A i, j \in 1 .. Len(s) : i < j => s[i].From <= s[j].From
  <2>1. \A i, j \in DOMAIN out : i < j => todo'[i].From <= todo'[j].From
    BY DEF SortPieces
  <2> QED
    BY <1>4, <1>5, <1>7, <2>1
<1>9. \A t \in Int : Holds(s, Len(s), t) <=> t \in Covered
  BY <1>3, <1>4, <1>7 DEF Covered, NoFetchNeeded, Seqs!ToSet
<1>10. Typed'
  <2>1. k' \in Nat \ {0} /\ out' \in Seq(Range)
    BY <1>1, NothingHolds
  <2> QED
    BY <1>1, <1>2, <2>1 DEF Typed
<1>11. Coalescing'
  <2>1. k' <= Len(s) + 1
    BY <1>1, <1>7, RangesOf
  <2>2. Apart(<<>>, 0)
    BY DEF Apart
  <2>3. \A t \in Int : ~Holds(<<>>, Len(<<>>), t) /\ ~Holds(s, k' - 1, t)
    BY <1>1, NothingHolds DEF Holds
  <2>4. Covered' = Covered
    BY <1>1, SameArguments
  <2> QED
    BY <1>1, <1>3, <1>5, <1>7, <1>8, <1>9, <2>1, <2>2, <2>3, <2>4 DEF Coalescing
<1>12. Clipping' /\ Subtracting' /\ Merging' /\ PlanAgrees'
  BY <1>1 DEF Clipping, Subtracting, Merging, PlanAgrees
<1> QED
  BY <1>10, <1>11, <1>12 DEF LoopInv

LEMMA Coalesces == LoopInv /\ CoalesceNext => LoopInv'
<1> SUFFICES ASSUME LoopInv, CoalesceNext PROVE LoopInv'
  OBVIOUS
<1>1. /\ pc = "coalesce" /\ pc' = "coalesce" /\ k <= Len(todo) /\ k' = k + 1
      /\ in' = in /\ request' = request /\ todo' = todo /\ cur' = cur
  BY DEF CoalesceNext, Iterates
<1>2. /\ in \in Seq(Interval) /\ request \in [start : Int, end : Int, now : Int]
      /\ k \in Nat \ {0} /\ out \in Seq(Range) /\ cur \in Int
  BY DEF LoopInv, Typed
<1>3. /\ todo \in Seq(Range) /\ request.start < request.end /\ cur = request.start
      /\ \A i, j \in 1 .. Len(todo) : i < j => todo[i].From <= todo[j].From
      /\ \A t \in Int : Holds(todo, Len(todo), t) <=> t \in Covered
      /\ Apart(out, 0)
      /\ out # <<>> => \A j \in k .. Len(todo) : out[Len(out)].From <= todo[j].From
      /\ \A t \in Int : Holds(out, Len(out), t) <=> Holds(todo, k - 1, t)
  BY <1>1 DEF LoopInv, Coalescing
<1>4. Len(todo) \in Nat /\ k \in k .. Len(todo) /\ k \in 1 .. Len(todo) /\ todo[k] \in Range
  BY <1>1, <1>2, <1>3
<1>5. PICK r \in Range : r = todo[k]
  BY <1>4
<1>6. PICK o : /\ o = out'
               /\ o = IF out # <<>> /\ r.From <= out[Len(out)].To
                      THEN Extend(out, MaxTime(out[Len(out)].To, r.To))
                      ELSE Append(out, r)
  BY <1>5 DEF CoalesceNext
<1>7. out # <<>> => out[Len(out)].From <= r.From
  BY <1>3, <1>4, <1>5
<1>8. /\ o \in Seq(Range) /\ o # <<>> /\ Apart(o, 0)
      /\ o[Len(o)].From <= r.From
      /\ \A t \in Int : Holds(o, Len(o), t) <=>
                          Holds(out, Len(out), t) \/ (r.From <= t /\ t < r.To)
  BY <1>2, <1>3, <1>6, <1>7, CoalesceStep
<1>9. \A t \in Int : Holds(o, Len(o), t) <=> Holds(todo, k' - 1, t)
  <2>1. k - 1 \in Nat /\ (k - 1) + 1 = k /\ k' - 1 = k
    BY <1>1, <1>2
  <2>2. \A t : Holds(todo, k, t) <=> Holds(todo, k - 1, t) \/ (r.From <= t /\ t < r.To)
    BY <1>5, <2>1, HoldsNext
  <2> QED
    BY <1>3, <1>8, <2>1, <2>2
<1>10. \A j \in k' .. Len(todo) : o[Len(o)].From <= todo[j].From
  <2> TAKE j \in k' .. Len(todo)
  <2>1. j \in 1 .. Len(todo) /\ k < j
    BY <1>1, <1>2, <1>4
  <2>2. r.From <= todo[j].From
    BY <1>3, <1>4, <1>5, <2>1
  <2>3. o[Len(o)].From \in Int
    <3>1. Len(o) \in 1 .. Len(o)
      BY <1>8
    <3> QED
      BY <1>8, <3>1, RangesOf
  <2>4. r.From \in Int
    BY <1>5 DEF Range
  <2>5. todo[j].From \in Int
    BY <1>3, <2>1, RangesOf
  <2> QED
    BY <1>8, <2>2, <2>3, <2>4, <2>5
<1>11. Typed'
  BY <1>1, <1>2, <1>6, <1>8 DEF Typed
<1>12. Coalescing'
  <2>1. k' <= Len(todo) + 1
    BY <1>1, <1>2, <1>4
  <2>2. Covered' = Covered
    BY <1>1, SameArguments
  <2> QED
    BY <1>1, <1>3, <1>6, <1>8, <1>9, <1>10, <2>1, <2>2 DEF Coalescing
<1>13. Clipping' /\ Subtracting' /\ Merging' /\ PlanAgrees'
  BY <1>1 DEF Clipping, Subtracting, Merging, PlanAgrees
<1> QED
  BY <1>11, <1>12, <1>13 DEF LoopInv

LEMMA StartsSubtracting == LoopInv /\ CoalesceEnds => LoopInv'
<1> SUFFICES ASSUME LoopInv, CoalesceEnds PROVE LoopInv'
  OBVIOUS
<1>1. /\ pc = "coalesce" /\ pc' = "subtract" /\ k > Len(todo) /\ k' = 1
      /\ in' = in /\ request' = request /\ todo' = out /\ cur' = cur /\ out' = <<>>
  BY DEF CoalesceEnds, Ends
<1>2. /\ in \in Seq(Interval) /\ request \in [start : Int, end : Int, now : Int]
      /\ k \in Nat \ {0} /\ out \in Seq(Range) /\ cur \in Int
  BY DEF LoopInv, Typed
<1>3. /\ todo \in Seq(Range) /\ request.start < request.end /\ cur = request.start
      /\ k <= Len(todo) + 1
      /\ \A t \in Int : Holds(todo, Len(todo), t) <=> t \in Covered
      /\ Apart(out, 0)
      /\ \A t \in Int : Holds(out, Len(out), t) <=> Holds(todo, k - 1, t)
  BY <1>1 DEF LoopInv, Coalescing
<1>4. k - 1 = Len(todo) /\ Len(out) \in Nat
  BY <1>1, <1>2, <1>3
<1>5. Typed'
  <2>1. k' \in Nat \ {0} /\ out' \in Seq(Range)
    BY <1>1, NothingHolds
  <2> QED
    BY <1>1, <1>2, <2>1 DEF Typed
<1>6. Subtracting'
  <2>1. k' <= Len(out) + 1
    BY <1>1, <1>4
  <2>2. /\ Apart(<<>>, 0)
        /\ \A i \in 1 .. Len(<<>>) : FALSE
        /\ \A i \in 1 .. (k' - 1) : FALSE
    BY <1>1 DEF Apart
  <2>3. \A t \in Int : Holds(out, Len(out), t) <=> t \in Covered
    BY <1>3, <1>4
  <2>4. \A t \in Int : ~Holds(<<>>, Len(<<>>), t) /\ ~(request.start <= t /\ t < cur)
    BY <1>2, <1>3, NothingHolds
  <2>5. request.start <= cur /\ cur <= request.end
    BY <1>2, <1>3
  <2>6. Covered' = Covered
    BY <1>1, SameArguments
  <2> QED
    BY <1>1, <1>2, <1>3, <2>1, <2>2, <2>3, <2>4, <2>5, <2>6 DEF Subtracting
<1>7. Clipping' /\ Coalescing' /\ Merging' /\ PlanAgrees'
  BY <1>1 DEF Clipping, Coalescing, Merging, PlanAgrees
<1> QED
  BY <1>5, <1>6, <1>7 DEF LoopInv

\* The covered ranges lie in the window.
LEMMA CoveredInWindow ==
  ASSUME NEW s \in Seq(Range), NEW i \in 1 .. Len(s),
         request \in [start : Int, end : Int, now : Int],
         \A t \in Int : Holds(s, Len(s), t) <=> t \in Covered
  PROVE  request.start <= s[i].From /\ s[i].To <= request.end
<1>1. /\ s[i].From \in Int /\ s[i].To \in Int /\ s[i].From < s[i].To
      /\ request.start \in Int /\ request.end \in Int
  BY RangesOf
<1>2. Holds(s, Len(s), s[i].From)
  BY <1>1 DEF Holds
<1>3. Holds(s, Len(s), s[i].To - 1)
  <2>1. s[i].From <= s[i].To - 1 /\ s[i].To - 1 < s[i].To
    BY <1>1
  <2> QED
    BY <2>1 DEF Holds
<1>4. s[i].From \in Covered /\ s[i].To - 1 \in Covered
  BY <1>1, <1>2, <1>3
<1> QED
  BY <1>1, <1>4 DEF Covered

LEMMA Subtracts == LoopInv /\ SubtractNext => LoopInv'
<1> SUFFICES ASSUME LoopInv, SubtractNext PROVE LoopInv'
  OBVIOUS
<1>1. /\ pc = "subtract" /\ pc' = "subtract" /\ k <= Len(todo) /\ k' = k + 1
      /\ in' = in /\ request' = request /\ todo' = todo
      /\ cur' = MaxTime(cur, todo[k].To)
  BY DEF SubtractNext, Iterates
<1>2. /\ in \in Seq(Interval) /\ request \in [start : Int, end : Int, now : Int]
      /\ k \in Nat \ {0} /\ out \in Seq(Range) /\ cur \in Int
      /\ request.start \in Int /\ request.end \in Int
  BY DEF LoopInv, Typed
<1>3. /\ todo \in Seq(Range) /\ Apart(todo, 0)
      /\ \A t \in Int : Holds(todo, Len(todo), t) <=> t \in Covered
      /\ request.start <= cur /\ cur <= request.end
      /\ \A i \in 1 .. (k - 1) : todo[i].To <= cur
      /\ Apart(out, 0)
      /\ \A i \in 1 .. Len(out) : out[i].To < cur
      /\ \A t \in Int :
           Holds(out, Len(out), t) <=> request.start <= t /\ t < cur /\ t \notin Covered
  BY <1>1 DEF LoopInv, Subtracting
<1>4. Len(todo) \in Nat /\ k \in 1 .. Len(todo)
  BY <1>1, <1>2, <1>3
<1>5. PICK from, to \in Int : from = todo[k].From /\ to = todo[k].To /\ from < to
  BY <1>3, <1>4, RangesOf
<1>6. request.start <= from /\ to <= request.end
  BY <1>2, <1>3, <1>4, <1>5, CoveredInWindow
<1>7. PICK o : o = out' /\ o = WithGap(out, cur, from)
  BY <1>5 DEF SubtractNext
<1>8. /\ o \in Seq(Range) /\ Apart(o, 0)
      /\ \A i \in 1 .. Len(o) : o[i].To < cur \/ (o[i].To = from /\ cur < from)
      /\ \A t \in Int : Holds(o, Len(o), t) <=> Holds(out, Len(out), t) \/ (cur <= t /\ t < from)
  BY <1>2, <1>3, <1>7, SubtractStep
<1>9. PICK c \in Int : /\ c = cur' /\ cur <= c /\ to <= c /\ (c = cur \/ c = to)
                       /\ c <= request.end
  BY <1>1, <1>2, <1>3, <1>5, <1>6 DEF MaxTime
<1>10. \A i \in 1 .. Len(o) : o[i].To < c
  <2> TAKE i \in 1 .. Len(o)
  <2>1. o[i].To \in Int
    BY <1>8, RangesOf
  <2> QED
    BY <1>2, <1>5, <1>8, <1>9, <2>1, SMTT(30)
<1>11. \A i \in 1 .. (k' - 1) : todo[i].To <= c
  <2> TAKE i \in 1 .. (k' - 1)
  <2>1. i = k \/ i \in 1 .. (k - 1)
    BY <1>1, <1>2
  <2>2. i \in 1 .. Len(todo)
    BY <1>4, <2>1
  <2>3. todo[i].To \in Int
    BY <1>3, <2>2, RangesOf
  <2> QED
    BY <1>2, <1>3, <1>5, <1>9, <2>1, <2>3
\* What lies between cur and the next range is not covered, and the range is.
<1>12. ASSUME NEW t \in Int, cur <= t, t < c
       PROVE  t < from <=> t \notin Covered
  <2>1. CASE t < from
    <3>1. ASSUME NEW i \in 1 .. Len(todo), todo[i].From <= t, t < todo[i].To PROVE FALSE
      <4>1. todo[i].From \in Int /\ todo[i].To \in Int
        BY <1>3, RangesOf
      <4>2. ~(i \in 1 .. (k - 1))
        BY <1>2, <1>3, <1>12, <3>1, <4>1
      <4>3. i # k
        BY <1>5, <2>1, <3>1
      <4>4. k < i
        BY <1>2, <1>4, <4>2, <4>3
      <4>5. todo[k].To + 0 < todo[i].From
        BY <1>3, <1>4, <4>4 DEF Apart
      <4> QED
        BY <1>5, <2>1, <3>1, <4>1, <4>5
    <3>2. ~Holds(todo, Len(todo), t)
      BY <3>1 DEF Holds
    <3> QED
      BY <1>3, <2>1, <3>2
  <2>2. CASE ~(t < from)
    <3>1. c = to
      BY <1>2, <1>9, <1>12
    <3>2. Holds(todo, Len(todo), t)
      BY <1>4, <1>5, <1>12, <2>2, <3>1 DEF Holds
    <3> QED
      BY <1>3, <2>2, <3>2
  <2> QED
    BY <2>1, <2>2
<1>13. ASSUME NEW t \in Int
       PROVE  Holds(o, Len(o), t) <=> request.start <= t /\ t < c /\ t \notin Covered
  <2>1. CASE t < cur
    BY <1>2, <1>3, <1>8, <1>9, <2>1
  <2>2. CASE cur <= t /\ t < c
    BY <1>2, <1>3, <1>8, <1>12, <2>2, SMTT(30)
  <2>3. CASE c <= t
    <3>1. ~(t < cur) /\ ~(t < c)
      BY <1>2, <1>9, <2>3
    <3>2. ~(t < from)
      BY <1>5, <1>9, <2>3
    <3> QED
      BY <1>3, <1>8, <3>1, <3>2
  <2> QED
    BY <1>2, <2>1, <2>2, <2>3
<1>14. Typed'
  BY <1>1, <1>2, <1>7, <1>8, <1>9 DEF Typed
<1>15. Subtracting'
  <2>1. k' <= Len(todo) + 1 /\ request.start <= c
    BY <1>1, <1>2, <1>3, <1>4, <1>9
  <2>2. Covered' = Covered
    BY <1>1, SameArguments
  <2> QED
    BY <1>1, <1>3, <1>7, <1>8, <1>9, <1>10, <1>11, <1>13, <2>1, <2>2 DEF Subtracting
<1>16. Clipping' /\ Coalescing' /\ Merging' /\ PlanAgrees'
  BY <1>1 DEF Clipping, Coalescing, Merging, PlanAgrees
<1> QED
  BY <1>14, <1>15, <1>16 DEF LoopInv

LEMMA StartsMerging == LoopInv /\ SubtractEnds => LoopInv'
<1> SUFFICES ASSUME LoopInv, SubtractEnds PROVE LoopInv'
  OBVIOUS
<1>1. /\ pc = "subtract" /\ pc' = "merge" /\ k > Len(todo) /\ k' = 1
      /\ in' = in /\ request' = request /\ cur' = cur /\ out' = <<>>
  BY DEF SubtractEnds, Ends
<1>2. /\ in \in Seq(Interval) /\ request \in [start : Int, end : Int, now : Int]
      /\ k \in Nat \ {0} /\ out \in Seq(Range) /\ cur \in Int
      /\ request.start \in Int /\ request.end \in Int /\ request.now \in Int
      /\ Ttl \in Int /\ request.now - Ttl \in Int
  BY AgesAssumption DEF LoopInv, Typed
<1>3. /\ todo \in Seq(Range) /\ k <= Len(todo) + 1
      /\ \A t \in Int : Holds(todo, Len(todo), t) <=> t \in Covered
      /\ request.start <= cur /\ cur <= request.end
      /\ Apart(out, 0)
      /\ \A i \in 1 .. Len(out) : out[i].To < cur
      /\ \A t \in Int :
           Holds(out, Len(out), t) <=> request.start <= t /\ t < cur /\ t \notin Covered
      /\ \A i \in 1 .. (k - 1) : todo[i].To <= cur
  BY <1>1 DEF LoopInv, Subtracting
<1>4. k - 1 = Len(todo) /\ Len(todo) \in Nat
  BY <1>1, <1>2, <1>3
<1>5. PICK start, end, fresh, c \in Int :
        /\ start = request.start /\ end = request.end /\ fresh = request.now - Ttl
        /\ c = cur /\ c <= end
  BY <1>2, <1>3
<1>6. \A i \in 1 .. Len(out) : out[i].To < c
  BY <1>3, <1>5
<1>7. PICK g : g = WithGap(out, c, end)
  OBVIOUS
<1>8. PICK s : s = todo' /\ s = ForgiveLast(g, start, end, fresh)
  BY <1>5, <1>7 DEF SubtractEnds
<1>9. out \in Seq(Range) /\ Apart(out, 0)
  BY <1>2, <1>3
<1>10. /\ g \in Seq(Range) /\ Apart(g, 0)
       /\ \A i \in 1 .. Len(g) : g[i].To < c \/ (g[i].To = end /\ c < end)
       /\ \A t \in Int : Holds(g, Len(g), t) <=> Holds(out, Len(out), t) \/ (c <= t /\ t < end)
  BY <1>6, <1>7, <1>9, SubtractStep
<1>11. \A i \in 1 .. Len(g) : g[i].To <= end
  <2> TAKE i \in 1 .. Len(g)
  <2>1. g[i].To \in Int
    BY <1>10, RangesOf
  <2>2. g[i].To < c \/ g[i].To = end
    BY <1>10
  <2> QED
    BY <1>5, <2>1, <2>2
\* Nothing is covered from cur on.
<1>12. ASSUME NEW t \in Covered PROVE t \in Int /\ t < cur
  <2>1. t \in Int
    BY <1>2 DEF Covered
  <2>2. PICK i \in 1 .. Len(todo) : todo[i].From <= t /\ t < todo[i].To
    BY <1>3, <2>1 DEF Holds
  <2>3. todo[i].To <= cur /\ todo[i].To \in Int
    BY <1>3, <1>4, RangesOf
  <2> QED
    BY <1>2, <2>1, <2>2, <2>3
<1>13. PICK X \in SUBSET (request.start .. (request.end - 1)) :
        X = (request.start .. (request.end - 1)) \ Covered
  OBVIOUS
<1>14. ASSUME NEW t \in Int PROVE t \in X <=> Holds(g, Len(g), t)
  <2>1. t \in X <=> request.start <= t /\ t < request.end /\ t \notin Covered
    BY <1>2, <1>13
  <2>2. cur <= t => t \notin Covered
    BY <1>2, <1>12
  <2>3. Holds(g, Len(g), t) <=>
          \/ request.start <= t /\ t < cur /\ t \notin Covered
          \/ cur <= t /\ t < request.end
    BY <1>3, <1>5, <1>10
  <2>4. request.start <= cur /\ cur <= request.end
    BY <1>3
  <2>5. CASE t < cur
    BY <1>2, <2>1, <2>3, <2>4, <2>5
  <2>6. CASE cur <= t
    BY <1>2, <2>1, <2>2, <2>3, <2>4, <2>6
  <2> QED
    BY <1>2, <2>5, <2>6
<1>15. Seqs!ToSet(g) = Subtract(request.start, request.end, Covered)
  <2>1. X \in SUBSET Int
    BY <1>2
  <2>2. Runs(X) = Seqs!ToSet(g)
    BY <1>10, <1>14, <2>1, ApartRuns
  <2> QED
    BY <1>13, <2>2 DEF Subtract
<1>16. /\ s \in Seq(Range) /\ Apart(s, 0)
       /\ Seqs!ToSet(s) = ForgiveTrailingGap(Seqs!ToSet(g), start, end, fresh)
  BY <1>8, <1>10, <1>11, LastForgiven
<1>17. Typed'
  <2>1. k' \in Nat \ {0} /\ out' \in Seq(Range)
    BY <1>1, NothingHolds
  <2> QED
    BY <1>1, <1>2, <2>1 DEF Typed
<1>18. Merging'
  <2>1. k' <= Len(s) + 1
    BY <1>1, <1>16, RangesOf
  <2>2. Apart(<<>>, SliverThreshold)
    BY DEF Apart
  <2>3. \A t : ~Holds(<<>>, Len(<<>>), t) /\ ~Bridged(s, k' - 1, SliverThreshold, t)
    BY <1>1, NothingHolds DEF Holds, Bridged
  <2>4. Gaps' = Gaps
    BY <1>1, SameArguments
  <2>5. Seqs!ToSet(s) = Gaps
    BY <1>5, <1>15, <1>16 DEF Gaps
  <2> QED
    BY <1>1, <1>8, <1>16, <2>1, <2>2, <2>3, <2>4, <2>5 DEF Merging
<1>19. Clipping' /\ Coalescing' /\ Subtracting' /\ PlanAgrees'
  BY <1>1 DEF Clipping, Coalescing, Subtracting, PlanAgrees
<1> QED
  BY <1>17, <1>18, <1>19 DEF LoopInv

LEMMA Merges == LoopInv /\ MergeNext => LoopInv'
<1> SUFFICES ASSUME LoopInv, MergeNext PROVE LoopInv'
  OBVIOUS
<1>1. /\ pc = "merge" /\ pc' = "merge" /\ k <= Len(todo) /\ k' = k + 1
      /\ in' = in /\ request' = request /\ todo' = todo /\ cur' = cur
  BY DEF MergeNext, Iterates
<1>2. /\ in \in Seq(Interval) /\ request \in [start : Int, end : Int, now : Int]
      /\ k \in Nat \ {0} /\ out \in Seq(Range) /\ cur \in Int
  BY DEF LoopInv, Typed
<1>3. /\ todo \in Seq(Range) /\ Apart(todo, 0)
      /\ Seqs!ToSet(todo) = Gaps
      /\ Apart(out, SliverThreshold)
      /\ out = <<>> <=> k = 1
      /\ out # <<>> => out[Len(out)].To = todo[k - 1].To
      /\ \A t \in Int :
           Holds(out, Len(out), t) <=> Bridged(todo, k - 1, SliverThreshold, t)
  BY <1>1 DEF LoopInv, Merging
<1>4. k \in 1 .. Len(todo) /\ Len(todo) \in Nat
  BY <1>1, <1>2, <1>3
<1>5. PICK d \in Nat : d = SliverThreshold
  BY SliverAssumption
<1>6. PICK n \in 1 .. Len(todo) : n = k
  BY <1>4
<1>7. /\ todo \in Seq(Range) /\ Apart(todo, 0) /\ out \in Seq(Range)
      /\ Apart(out, d)
      /\ out = <<>> <=> n = 1
      /\ out # <<>> => out[Len(out)].To = todo[n - 1].To
      /\ \A t \in Int : Holds(out, Len(out), t) <=> Bridged(todo, n - 1, d, t)
  <2>1. out = <<>> <=> n = 1
    BY <1>3, <1>6
  <2>2. out # <<>> => out[Len(out)].To = todo[n - 1].To
    BY <1>3, <1>6
  <2>3. \A t \in Int : Holds(out, Len(out), t) <=> Bridged(todo, n - 1, d, t)
    BY <1>3, <1>5, <1>6
  <2>4. Apart(out, d)
    BY <1>3, <1>5
  <2> QED
    BY <1>2, <1>3, <2>1, <2>2, <2>3, <2>4
<1>8. PICK o : o = out' /\ o = WithMerged(out, todo[n], d)
  BY <1>5, <1>6 DEF MergeNext
<1>9. /\ o \in Seq(Range) /\ o # <<>> /\ Apart(o, d)
      /\ o[Len(o)].To = todo[n].To
      /\ \A t \in Int : Holds(o, Len(o), t) <=> Bridged(todo, n, d, t)
  BY <1>7, <1>8, MergeStep
<1>10. /\ o \in Seq(Range) /\ o # <<>> /\ Apart(o, SliverThreshold)
       /\ o[Len(o)].To = todo[k].To
       /\ \A t \in Int : Holds(o, Len(o), t) <=> Bridged(todo, k, SliverThreshold, t)
  BY <1>5, <1>6, <1>9
<1>11. Typed'
  BY <1>1, <1>2, <1>8, <1>10 DEF Typed
<1>12. Merging'
  <2>1. k' <= Len(todo) + 1 /\ k' - 1 = k /\ k' # 1
    BY <1>1, <1>2, <1>4
  <2>2. Gaps' = Gaps
    BY <1>1, SameArguments
  <2> QED
    BY <1>1, <1>3, <1>8, <1>10, <2>1, <2>2 DEF Merging
<1>13. Clipping' /\ Coalescing' /\ Subtracting' /\ PlanAgrees'
  BY <1>1 DEF Clipping, Coalescing, Subtracting, PlanAgrees
<1> QED
  BY <1>11, <1>12, <1>13 DEF LoopInv

\* The ranges that are left are the runs of the gaps and what bridges them.
LEMMA MergedIsPlan ==
  ASSUME NEW g \in Seq(Range), NEW s \in Seq(Range), Apart(s, SliverThreshold),
         \A t \in Int : Holds(s, Len(s), t) <=> Bridged(g, Len(g), SliverThreshold, t)
  PROVE  Seqs!ToSet(s) = MergeSlivers(Seqs!ToSet(g), SliverThreshold)
<1> DEFINE G == Seqs!ToSet(g)
           bridged(a) == UNION {a.To .. (b.From - 1) :
                                  b \in {x \in G : x.From - a.To <= SliverThreshold}}
           X == UNION {Ticks(a) \cup bridged(a) : a \in G}
<1>1. G = {g[i] : i \in 1 .. Len(g)}
  BY RangesOf DEF Seqs!ToSet
<1>2. \A i \in 1 .. Len(g) : g[i].From \in Int /\ g[i].To \in Int
  BY RangesOf
<1>3. \A t : t \in X <=>
        \/ \E a \in G : t \in Ticks(a)
        \/ \E a, b \in G : b.From - a.To <= SliverThreshold /\ t \in a.To .. (b.From - 1)
  OBVIOUS
<1>4. \A i, j \in 1 .. Len(g), t \in Int :
        t \in g[i].To .. (g[j].From - 1) <=> g[i].To <= t /\ t < g[j].From
  BY <1>2
<1>5. \A i \in 1 .. Len(g), t \in Int : t \in Ticks(g[i]) <=> g[i].From <= t /\ t < g[i].To
  BY <1>2 DEF Ticks
<1>6. X \in SUBSET Int
  BY <1>1, <1>2 DEF Ticks
<1> HIDE DEF X
<1>7. \A t \in Int : t \in X <=> Holds(s, Len(s), t)
  <2> TAKE t \in Int
  <2>1. (\E a \in G : t \in Ticks(a)) <=> Holds(g, Len(g), t)
    BY <1>1, <1>5 DEF Holds
  <2>2. (\E a, b \in G : b.From - a.To <= SliverThreshold /\ t \in a.To .. (b.From - 1))
          <=> \E i, j \in 1 .. Len(g) :
                g[j].From - g[i].To <= SliverThreshold /\ g[i].To <= t /\ t < g[j].From
    BY <1>1, <1>4
  <2> QED
    BY <1>3, <2>1, <2>2 DEF Bridged
<1>8. Apart(s, 0)
  <2> SUFFICES ASSUME NEW i \in 1 .. Len(s), NEW j \in 1 .. Len(s), i < j
               PROVE  s[i].To + 0 < s[j].From
    BY DEF Apart
  <2>1. s[i].To + SliverThreshold < s[j].From /\ s[i].To \in Int /\ s[j].From \in Int
    BY RangesOf DEF Apart
  <2> QED
    BY <2>1, SliverAssumption
<1>9. Runs(X) = Seqs!ToSet(s)
  BY <1>6, <1>7, <1>8, ApartRuns
<1> QED
  BY <1>9 DEF MergeSlivers, X

LEMMA EndsAsPlan == LoopInv /\ MergeEnds => LoopInv'
<1> SUFFICES ASSUME LoopInv, MergeEnds PROVE LoopInv'
  OBVIOUS
<1>1. /\ pc = "merge" /\ pc' = "done" /\ k > Len(todo) /\ k' = 1
      /\ in' = in /\ request' = request /\ cur' = cur /\ out' = out /\ todo' = todo
  BY DEF MergeEnds, Ends
<1>2. /\ in \in Seq(Interval) /\ request \in [start : Int, end : Int, now : Int]
      /\ k \in Nat \ {0} /\ out \in Seq(Range) /\ cur \in Int
  BY DEF LoopInv, Typed
<1>3. /\ todo \in Seq(Range) /\ k <= Len(todo) + 1
      /\ Seqs!ToSet(todo) = Gaps
      /\ Apart(out, SliverThreshold)
      /\ \A t \in Int :
           Holds(out, Len(out), t) <=> Bridged(todo, k - 1, SliverThreshold, t)
  BY <1>1 DEF LoopInv, Merging
<1>4. k - 1 = Len(todo)
  BY <1>1, <1>2, <1>3
<1>5. Seqs!ToSet(out) = MergeSlivers(Gaps, SliverThreshold)
  BY <1>2, <1>3, <1>4, MergedIsPlan
<1>6. Plan(Seqs!ToSet(in), request.start, request.end, request.now, Ttl, LiveHorizon)
        = MergeSlivers(Gaps, SliverThreshold)
  BY DEF Plan, Gaps, Covered, NoFetchNeeded
<1>7. \A i, j \in DOMAIN out : i < j => out[i].To < out[j].From
  <2> SUFFICES ASSUME NEW i \in DOMAIN out, NEW j \in DOMAIN out, i < j
               PROVE  out[i].To < out[j].From
    OBVIOUS
  <2>1. i \in 1 .. Len(out) /\ j \in 1 .. Len(out)
    BY <1>2
  <2>2. /\ out[i].To + SliverThreshold < out[j].From
        /\ out[i].To \in Int /\ out[j].From \in Int
    BY <1>2, <1>3, <2>1, RangesOf DEF Apart
  <2> QED
    BY <2>2, SliverAssumption
<1>8. PlanAgrees'
  BY <1>1, <1>5, <1>6, <1>7 DEF PlanAgrees
<1>9. Typed'
  BY <1>1, <1>2 DEF Typed
<1>10. Clipping' /\ Coalescing' /\ Subtracting' /\ Merging'
  BY <1>1 DEF Clipping, Coalescing, Subtracting, Merging
<1> QED
  BY <1>8, <1>9, <1>10 DEF LoopInv

\* So the loops know it throughout.
LEMMA LoopInvHolds == Spec => []LoopInv
<1>1. LoopInv /\ [Next]_vars => LoopInv'
  <2> SUFFICES ASSUME LoopInv, [Next]_vars PROVE LoopInv'
    OBVIOUS
  <2>1. CASE Next
    BY <2>1, Clips, Sorts, Coalesces, StartsSubtracting, Subtracts, StartsMerging, Merges,
       EndsAsPlan DEF Next
  <2>2. CASE UNCHANGED vars
    <3>1. Covered' = Covered /\ Gaps' = Gaps
      BY <2>2, SameArguments DEF vars
    <3> QED
      BY <2>2, <3>1
      DEF vars, LoopInv, Typed, Clipping, Coalescing, Subtracting, Merging, PlanAgrees
  <2> QED
    BY <2>1, <2>2
<1> QED
  BY Started, <1>1, PTL DEF Spec

\* The loops of Plan compute the set Plan, from any stored intervals, in any order
\* and however they overlap (coverage.go:45-66, 126-224).
THEOREM LoopsComputePlan == Spec => []PlanAgrees
<1>1. LoopInv => PlanAgrees
  BY DEF LoopInv
<1> QED
  BY <1>1, LoopInvHolds, PTL

-----------------------------------------------------------------------------
(* What a plan must not miss, what it must not waste, and that it can be empty *)

\* The arguments, and what is planned at the end.
LEMMA PlansThat ==
  ASSUME LoopInv, pc = "done"
  PROVE  /\ Seqs!ToSet(in) \in SUBSET Interval
         /\ request.start \in Int /\ request.end \in Int /\ request.now \in Int
         /\ Ttl \in Int /\ LiveHorizon \in Int
         /\ Seqs!ToSet(out) = Plan(Seqs!ToSet(in), request.start, request.end, request.now,
                                   Ttl, LiveHorizon)
<1>1. in \in Seq(Interval) /\ request \in [start : Int, end : Int, now : Int]
  BY DEF LoopInv, Typed
<1>2. Seqs!ToSet(in) \in SUBSET Interval
  BY <1>1 DEF Seqs!ToSet
<1>3. Seqs!ToSet(out) = Plan(Seqs!ToSet(in), request.start, request.end, request.now,
                             Ttl, LiveHorizon)
  BY DEF LoopInv, PlanAgrees
<1> QED
  BY <1>1, <1>2, <1>3, AgesAssumption

\* What the plan skips is what the design calls adequately covered.
LEMMA AdequateIsCovered ==
  ASSUME LoopInv, pc = "done", NEW t \in Int
  PROVE  Adequate(t) <=> NoFetchNeeded(Seqs!ToSet(in), t, request.now, Ttl, LiveHorizon)
<1>1. request.now \in Int /\ Ttl \in Int
  BY PlansThat
<1>2. ASSUME NEW iv \in Seqs!ToSet(in)
      PROVE  /\ t \in Ticks(iv) <=> iv.From <= t /\ t < iv.To
             /\ iv.FetchedAt >= request.now - Ttl <=> request.now - iv.FetchedAt <= Ttl
  <2>1. iv.From \in Int /\ iv.To \in Int /\ iv.FetchedAt \in Int
    BY PlansThat DEF Interval
  <2> QED
    BY <1>1, <2>1 DEF Ticks
<1> QED
  BY <1>2 DEF Adequate, NoFetchNeeded, Covers

\* What the plan leaves out need not be fetched.
LEMMA MissesNothing == LoopInv => PlanMissesNothing
<1> SUFFICES ASSUME LoopInv, pc = "done",
                    NEW t \in (request.start .. (request.end - 1)) \ Planned, ~Adequate(t)
             PROVE  /\ t > request.now - Ttl
                    /\ \E u \in request.start .. (t - 1) : Adequate(u)
                    /\ \A u \in t .. (request.end - 1) : ~Adequate(u)
  BY DEF PlanMissesNothing
<1>1. PICK I \in SUBSET Interval, start, end, now, ttl, horizon \in Int :
        /\ I = Seqs!ToSet(in) /\ ttl = Ttl /\ horizon = LiveHorizon
        /\ start = request.start /\ end = request.end /\ now = request.now
        /\ Seqs!ToSet(out) = Plan(I, start, end, now, ttl, horizon)
  BY PlansThat
<1> DEFINE covered(u) == NoFetchNeeded(I, u, now, ttl, horizon)
<1>2. t \in Int /\ t \in start .. (end - 1)
  BY <1>1
<1>3. \A f \in Plan(I, start, end, now, ttl, horizon) : t \notin Ticks(f)
  BY <1>1 DEF Planned
<1>4. ASSUME NEW u \in Int PROVE Adequate(u) <=> covered(u)
  BY <1>1, AdequateIsCovered
<1>5. PICK from \in (start + 1) .. t :
        /\ from > now - ttl
        /\ covered(from - 1)
        /\ \A u \in from .. (end - 1) : ~covered(u)
  <2>1. ~NoFetchNeeded(I, t, now, ttl, horizon)
    BY <1>2, <1>4
  <2> QED
    BY <1>2, <1>3, <2>1, PlanOmits
<1>6. from \in Int /\ from - 1 \in start .. (t - 1)
  BY <1>1, <1>2
<1>7. Adequate(from - 1)
  BY <1>4, <1>5, <1>6
<1>8. \A u \in t .. (end - 1) : u \in Int /\ u \in from .. (end - 1)
  BY <1>1, <1>2, <1>6
<1>9. \A u \in t .. (end - 1) : ~Adequate(u)
  BY <1>4, <1>5, <1>8
<1>10. t > now - ttl
  BY <1>1, <1>2, <1>5, <1>6
<1> QED
  BY <1>1, <1>6, <1>7, <1>9, <1>10

\* A Get fetches all it needs, whatever is stored: what the plan leaves out is
\* adequately covered or a tail within the ttl (coverage.go:126-186).
THEOREM PlanNeverMisses == Spec => []PlanMissesNothing
BY MissesNothing, LoopInvHolds, PTL

\* What the plan has in it must be, or bridges what must be.
LEMMA WastesNothing == LoopInv => PlanWastesNothing
<1> SUFFICES ASSUME LoopInv, pc = "done", NEW t \in Planned, Adequate(t)
             PROVE  \E a, b \in Planned : /\ a < t /\ t < b /\ b - a - 1 <= SliverThreshold
                                          /\ ~Adequate(a) /\ ~Adequate(b)
  BY DEF PlanWastesNothing
<1>1. PICK I \in SUBSET Interval, start, end, now, ttl, horizon \in Int :
        /\ I = Seqs!ToSet(in) /\ ttl = Ttl /\ horizon = LiveHorizon
        /\ start = request.start /\ end = request.end /\ now = request.now
        /\ Seqs!ToSet(out) = Plan(I, start, end, now, ttl, horizon)
  BY PlansThat
<1> DEFINE covered(u) == NoFetchNeeded(I, u, now, ttl, horizon)
<1>2. PICK f \in Plan(I, start, end, now, ttl, horizon) : t \in Ticks(f)
  BY <1>1 DEF Planned
<1>3. f \in Range
  BY <1>1, PlanWithin
<1>4. \A u \in Ticks(f) : u \in Int /\ u \in Planned
  BY <1>1, <1>2, <1>3 DEF Ticks, Range, Planned
<1>5. ASSUME NEW u \in Int PROVE Adequate(u) <=> covered(u)
  BY <1>1, AdequateIsCovered
<1>6. covered(t)
  BY <1>2, <1>4, <1>5
<1>7. PICK a \in Ticks(f), b \in Ticks(f) :
        /\ a < t /\ t < b /\ b - a - 1 <= SliverThreshold
        /\ ~covered(a) /\ ~covered(b)
  BY <1>1, <1>2, <1>6, PlanNeeds
<1>8. ~Adequate(a) /\ ~Adequate(b)
  BY <1>4, <1>5, <1>7
<1> QED
  BY <1>4, <1>7, <1>8

\* A Get fetches no more than it must, whatever is stored: nothing but ticks that
\* are needed and slivers between two of them (coverage.go:126-160, 209-224).
THEOREM PlanNeverWastes == Spec => []PlanWastesNothing
BY WastesNothing, LoopInvHolds, PTL

\* A range at the end of the window is not a forgiven one.
LEMMA ForgivesDrift == LoopInv => PlanForgivesDrift
<1> SUFFICES ASSUME LoopInv, pc = "done", NEW i \in DOMAIN out, out[i].To = request.end
             PROVE  out[i].From = request.start \/ out[i].From <= request.now - Ttl
  BY DEF PlanForgivesDrift
<1>1. PICK I \in SUBSET Interval, start, end, now, ttl, horizon \in Int :
        /\ I = Seqs!ToSet(in) /\ ttl = Ttl /\ horizon = LiveHorizon
        /\ start = request.start /\ end = request.end /\ now = request.now
        /\ Seqs!ToSet(out) = Plan(I, start, end, now, ttl, horizon)
  BY PlansThat
<1>2. PICK f \in Plan(I, start, end, now, ttl, horizon) : f = out[i]
  <2>1. out[i] \in Seqs!ToSet(out)
    BY DEF Seqs!ToSet
  <2> QED
    BY <1>1, <2>1
<1>3. f.From = start \/ f.From <= now - ttl
  BY <1>1, <1>2, PlanForgives
<1> QED
  BY <1>1, <1>2, <1>3

\* The ttl is reachable, whatever is stored: a range that reaches the end of the
\* window starts with the window or is as old as the ttl (coverage.go:163-171).
THEOREM PlanCanBeEmpty == Spec => []PlanForgivesDrift
BY ForgivesDrift, LoopInvHolds, PTL

=============================================================================
