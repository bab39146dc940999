------------------------------- MODULE MCPlan -------------------------------
(***************************************************************************)
(* The inputs of PlanLoop that TLC enumerates: up to MaxIntervals disjoint *)
(* intervals over the instants 0..LastInstant, in any order, and every     *)
(* request stamped near the end of that span.  An interval is stamped no   *)
(* earlier than it ends, as callers never ask beyond the instant they call *)
(* at; it may be stamped later than the request, whose instant is read     *)
(* before it waits for the key.                                            *)
(***************************************************************************)
EXTENDS PlanLoop

CONSTANTS LastInstant, MaxIntervals

ASSUME BoundsAssumption == LastInstant \in Nat /\ MaxIntervals \in Nat

Instants  == 0 .. LastInstant
Intervals == {iv \in [From : Instants, To : Instants, FetchedAt : Instants] :
                iv.From < iv.To /\ iv.To <= iv.FetchedAt}

\* The sequences without overlap, by length.
Disjoint[n \in 0 .. MaxIntervals] ==
  IF n = 0 THEN {<<>>}
  ELSE {Append(s, iv) : s \in Disjoint[n - 1], iv \in Intervals} \cap
       {s \in Seq(Intervals) :
          \A i, j \in DOMAIN s : i # j => Ticks(s[i]) \cap Ticks(s[j]) = {}}

SomeInputs   == UNION {Disjoint[n] : n \in 0 .. MaxIntervals}
SomeRequests ==
  {r \in [start : Instants, end : Instants, now : {LastInstant - 1, LastInstant}] :
     r.start <= r.end /\ r.end <= r.now}

=============================================================================
