---------------------------- MODULE NormalizeLoop ----------------------------
(***************************************************************************)
(* normalizeCoverage of internal/store/coverage.go as the code computes    *)
(* it: a sweep over the bounds of the intervals, an action for each        *)
(* segment between two that follow one another.  Coverage says which set   *)
(* of intervals it yields.                                                 *)
(***************************************************************************)
EXTENDS Coverage, Sequences

VARIABLES
  in, historyBefore,   \* the arguments of the last call
  pc,                  \* "sweep" during a call, "done" otherwise
  todo,                \* the bounds the sweep has not left behind
  out                  \* the segments so far; the result once it is done

sweepVars == <<in, historyBefore, pc, todo, out>>

Seqs == INSTANCE SequencesExt

SweepInit ==
  in = {} /\ historyBefore = 0 /\ pc = "done" /\ todo = {} /\ out = <<>>

\* normalizeCoverage(intervals, h) is called.
Call(intervals, h) ==
  /\ pc = "done" /\ pc' = "sweep"
  /\ in' = intervals /\ historyBefore' = h
  /\ todo' = Bounds(intervals)
  /\ out' = <<>>

-----------------------------------------------------------------------------

\* The stamps of the intervals that cover [lo, hi].
Stamps(lo, hi) == {iv.FetchedAt : iv \in {i \in in : i.From <= lo /\ hi <= i.To}}

\* The segment [lo, hi] under stamp fa extends the last one when they touch and
\* both are history or carry the same stamp.
Joins(last, lo, hi, fa) ==
  /\ last.To = lo
  /\ \/ last.To <= historyBefore /\ hi <= historyBefore
     \/ last.FetchedAt = fa

Joined(last, hi, fa) ==
  [From |-> last.From, To |-> hi, FetchedAt |-> MaxTime(last.FetchedAt, fa)]

Segment(lo, hi, fa) == [From |-> lo, To |-> hi, FetchedAt |-> fa]

\* Mistaken variants of WithSegment: segments join whenever they touch, only
\* under one stamp, and without the newer of their stamps.
WithSegmentJoined(s, lo, hi, fa) ==
  IF s # <<>> /\ s[Len(s)].To = lo
  THEN [s EXCEPT ![Len(s)] = Joined(s[Len(s)], hi, fa)]
  ELSE Append(s, Segment(lo, hi, fa))

WithSegmentOfOneStamp(s, lo, hi, fa) ==
  IF s # <<>> /\ s[Len(s)].To = lo /\ s[Len(s)].FetchedAt = fa
  THEN [s EXCEPT ![Len(s)] = Joined(s[Len(s)], hi, fa)]
  ELSE Append(s, Segment(lo, hi, fa))

WithSegmentOldStamp(s, lo, hi, fa) ==
  IF s # <<>> /\ Joins(s[Len(s)], lo, hi, fa)
  THEN [s EXCEPT ![Len(s)].To = hi]
  ELSE Append(s, Segment(lo, hi, fa))

\* s with the segment [lo, hi] under stamp fa.
WithSegment(s, lo, hi, fa) ==
  IF s # <<>> /\ Joins(s[Len(s)], lo, hi, fa)
  THEN [s EXCEPT ![Len(s)] = Joined(s[Len(s)], hi, fa)]
  ELSE Append(s, Segment(lo, hi, fa))

\* The next two bounds delimit a gap or a segment under the newest stamp over it.
SweepNext ==
  /\ pc = "sweep"
  /\ \E lo, hi \in todo :
       /\ lo < hi
       /\ \A b \in todo : b = lo \/ hi <= b
       /\ todo' = todo \ {lo}
       /\ \/ Stamps(lo, hi) = {} /\ out' = out
          \/ \E fa \in Stamps(lo, hi) :
               /\ \A f \in Stamps(lo, hi) : f <= fa
               /\ out' = WithSegment(out, lo, hi, fa)
  /\ UNCHANGED <<in, historyBefore, pc>>

SweepEnds ==
  /\ pc = "sweep" /\ \A a, b \in todo : a = b
  /\ pc' = "done"
  /\ UNCHANGED <<in, historyBefore, todo, out>>

-----------------------------------------------------------------------------

\* The sweep yields the set that NormalizeCoverage defines, in order and without
\* overlap, whatever it is given (coverage.go:78-124).
NormalizeAgrees ==
  pc = "done" =>
    /\ Seqs!ToSet(out) = NormalizeCoverage(in, historyBefore)
    /\ \A i, j \in DOMAIN out : i < j => out[i].To <= out[j].From

=============================================================================
