------------------------------ MODULE PlanLoop ------------------------------
(***************************************************************************)
(* Plan of internal/store/coverage.go as the code computes it: a pass over *)
(* the stored intervals and one over each of the slices that follow, an    *)
(* action for each iteration.  Coverage says which set of ranges it is.    *)
(***************************************************************************)
EXTENDS Coverage, Sequences

CONSTANTS
  Inputs,              \* the slices of intervals Plan is given
  Requests,            \* the windows it plans for, and the instants they are stamped
  Ttl, LiveHorizon     \* the ages of the timeframe

ASSUME InputsAssumption ==
  /\ Inputs \subseteq Seq(Interval)
  /\ Requests \subseteq [start : Int, end : Int, now : Int]
ASSUME AgesAssumption == Ttl \in Nat /\ LiveHorizon \in Nat

VARIABLES
  in, request,   \* the arguments
  pc,            \* the loop in progress
  todo, k,       \* the slice it goes through, and the index it is at
  out,           \* the slice it builds
  cur            \* subtract's first instant not yet accounted for

vars == <<in, request, pc, todo, k, out, cur>>

Seqs == INSTANCE SequencesExt
Funs == INSTANCE Functions

\* The last range of s ends at to instead.
Extend(s, to) == [s EXCEPT ![Len(s)].To = to]

Init ==
  /\ in \in Inputs
  /\ request \in Requests
  /\ pc = IF request.start < request.end THEN "clip" ELSE "done"
  /\ todo = in
  /\ k = 1
  /\ out = <<>>
  /\ cur = request.start

-----------------------------------------------------------------------------

\* An iteration of a loop, and what comes after the last.
Iterates(loop) ==
  /\ pc = loop /\ k <= Len(todo)
  /\ k' = k + 1
  /\ UNCHANGED <<in, request, pc, todo>>

Ends(loop, next) ==
  /\ pc = loop /\ k > Len(todo)
  /\ pc' = next /\ k' = 1
  /\ UNCHANGED <<in, request, cur>>

Piece(from, to) == IF from < to THEN <<[From |-> from, To |-> to]>> ELSE <<>>

\* Mistaken variants of PiecesOf: the live part counts however old its fetch is,
\* and the historical part only when its fetch is fresh.
PiecesEverFetched(iv) ==
  Piece(MaxTime(iv.From, request.start), MinTime(iv.To, request.end))

PiecesFresh(iv) == IF iv.FetchedAt >= request.now - Ttl THEN PiecesEverFetched(iv) ELSE <<>>

\* The covered pieces of one stored interval: its historical part, and its live
\* part when the fetch is fresh.
PiecesOf(iv) ==
  LET f         == MaxTime(iv.From, request.start)
      t         == MinTime(iv.To, request.end)
      liveStart == request.now - LiveHorizon
      live      == IF iv.FetchedAt >= request.now - Ttl
                   THEN Piece(MaxTime(f, liveStart), t) ELSE <<>>
  IN  IF f >= t THEN <<>> ELSE Piece(f, MinTime(t, liveStart)) \o live

ClipNext ==
  /\ Iterates("clip")
  /\ out' = out \o PiecesOf(todo[k])
  /\ UNCHANGED cur

\* sort.Slice leaves pieces with the same start in any order.
Reordered(s, p) == [i \in DOMAIN s |-> s[p[i]]]

SortPieces ==
  /\ Ends("clip", "coalesce")
  /\ \E p \in Funs!Bijection(DOMAIN out, DOMAIN out) : todo' = Reordered(out, p)
  /\ \A i, j \in DOMAIN out : i < j => todo'[i].From <= todo'[j].From
  /\ out' = <<>>

\* Each piece extends the last one out or starts another.
CoalesceNext ==
  /\ Iterates("coalesce")
  /\ out' = IF out # <<>> /\ todo[k].From <= out[Len(out)].To
            THEN Extend(out, MaxTime(out[Len(out)].To, todo[k].To))
            ELSE Append(out, todo[k])
  /\ UNCHANGED cur

CoalesceEnds == Ends("coalesce", "subtract") /\ todo' = out /\ out' = <<>>

\* The ranges of s, and what there is between from and to.
WithGap(s, from, to) == IF from < to THEN Append(s, [From |-> from, To |-> to]) ELSE s

SubtractNext ==
  /\ Iterates("subtract")
  /\ out' = WithGap(out, cur, todo[k].From)
  /\ cur' = MaxTime(cur, todo[k].To)

\* A mistaken variant of forgiveTrailingGap: no gap is let go.
ForgiveNothing(gaps, start, end, freshAfter) == gaps

\* A last gap that reaches the end of the window is let go when something
\* precedes it and it is younger than the ttl.
ForgiveLast(gaps, start, end, freshAfter) ==
  IF /\ gaps # <<>>
     /\ gaps[Len(gaps)].To = end
     /\ gaps[Len(gaps)].From > start
     /\ gaps[Len(gaps)].From > freshAfter
  THEN SubSeq(gaps, 1, Len(gaps) - 1)
  ELSE gaps

\* What is left of the window is the last gap.
SubtractEnds ==
  /\ Ends("subtract", "merge")
  /\ todo' = ForgiveLast(WithGap(out, cur, request.end),
                         request.start, request.end, request.now - Ttl)
  /\ out' = <<>>

\* A mistaken variant: a sliver as long as the threshold does not merge.
WithMergedBelow(s, r, sliver) ==
  IF s # <<>> /\ r.From - s[Len(s)].To < sliver THEN Extend(s, r.To) ELSE Append(s, r)

\* Each gap extends the last range out, when no more than a sliver lies between
\* them, or starts another.
WithMerged(s, r, sliver) ==
  IF s # <<>> /\ r.From - s[Len(s)].To <= sliver THEN Extend(s, r.To) ELSE Append(s, r)

MergeNext ==
  /\ Iterates("merge")
  /\ out' = WithMerged(out, todo[k], SliverThreshold)
  /\ UNCHANGED cur

MergeEnds == Ends("merge", "done") /\ UNCHANGED <<todo, out>>

Next == \/ ClipNext \/ SortPieces \/ CoalesceNext \/ CoalesceEnds
        \/ SubtractNext \/ SubtractEnds \/ MergeNext \/ MergeEnds

Spec == Init /\ [][Next]_vars

-----------------------------------------------------------------------------

\* A window tick that is adequately covered in the sense of the design: fetched
\* at all if it is history, fetched within the ttl if it is live.
Adequate(t) ==
  \E iv \in Seqs!ToSet(in) :
    /\ iv.From <= t /\ t < iv.To
    /\ t < request.now - LiveHorizon \/ request.now - iv.FetchedAt <= Ttl

Planned == UNION {Ticks(r) : r \in Seqs!ToSet(out)}

\* Whatever order the stored intervals come in, and however they overlap, the
\* loops yield the ranges of Plan, sorted (coverage.go Plan, coalesce, subtract,
\* forgiveTrailingGap, mergeSlivers).
PlanAgrees ==
  pc = "done" =>
    /\ Seqs!ToSet(out) = Plan(Seqs!ToSet(in), request.start, request.end, request.now,
                              Ttl, LiveHorizon)
    /\ \A i, j \in DOMAIN out : i < j => out[i].To < out[j].From

\* A Get fetches all it needs: a window tick left out of the plan is adequately
\* covered or belongs to a tail younger than the ttl, after something fetched.
PlanMissesNothing ==
  pc = "done" =>
    \A t \in (request.start .. (request.end - 1)) \ Planned :
      \/ Adequate(t)
      \/ /\ t > request.now - Ttl
         /\ \E u \in request.start .. (t - 1) : Adequate(u)
         /\ \A u \in t .. (request.end - 1) : ~Adequate(u)

\* A Get fetches no more than it must: a planned tick is needed, or lies in a
\* covered sliver no longer than the threshold between two gaps (as
\* coverage.go:209 has it; coverage.go:22 says shorter).
PlanWastesNothing ==
  pc = "done" =>
    \A t \in Planned :
      \/ ~Adequate(t)
      \/ \E a, b \in Planned : /\ a < t /\ t < b /\ b - a - 1 <= SliverThreshold
                               /\ ~Adequate(a) /\ ~Adequate(b)

\* The ttl is reachable: a range that reaches the end of the window is fetched
\* only when nothing precedes it or it is at least ttl wide, so a request a
\* moment after a full fetch fetches nothing (coverage.go:163-171).
PlanForgivesDrift ==
  pc = "done" =>
    \A i \in DOMAIN out :
      out[i].To = request.end =>
        out[i].From = request.start \/ out[i].From <= request.now - Ttl

=============================================================================
