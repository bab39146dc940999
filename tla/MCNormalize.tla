---------------------------- MODULE MCNormalize ----------------------------
(***************************************************************************)
(* Persists fetch after fetch into the coverage of one key, as store.Get   *)
(* does (store.go:148-154), for any fetched intervals and any boundary of  *)
(* history: a Get reads the clock before it waits for the key              *)
(* (store.go:98-100), so one that waited long persists under an older      *)
(* boundary than the Get before it.  Kept beside it is what a cache        *)
(* without any compaction would know, the newest stamp of each tick, and   *)
(* how far compaction ever reached.                                        *)
(***************************************************************************)
EXTENDS NormalizeLoop

CONSTANTS LastInstant, MaxFetches

ASSUME BoundsAssumption == LastInstant \in Nat /\ MaxFetches \in Nat

VARIABLES
  newest,          \* the newest stamp of each tick ever fetched, or 0
  frontier,        \* the newest boundary of history persisted under so far
  fetches          \* the number of fetches so far, at most MaxFetches

vars == <<in, historyBefore, pc, todo, out, newest, frontier, fetches>>

Instants  == 0 .. LastInstant
Intervals == {iv \in [From : Instants, To : Instants, FetchedAt : Instants] :
                iv.From < iv.To /\ iv.To <= iv.FetchedAt}

\* What the repository holds once a call is done.
Stored == Seqs!ToSet(out)

Init == /\ SweepInit /\ frontier = 0 /\ fetches = 0
        /\ newest = [t \in 0 .. (LastInstant - 1) |-> 0]

Persist ==
  /\ fetches < MaxFetches
  /\ fetches' = fetches + 1
  /\ \E iv \in Intervals, h \in Instants :
       /\ Call(Stored \cup {iv}, h)
       /\ frontier' = MaxTime(frontier, h)
       /\ newest' = [t \in DOMAIN newest |->
                       IF t \in Ticks(iv) /\ iv.FetchedAt > newest[t]
                       THEN iv.FetchedAt ELSE newest[t]]

Next ==
  \/ Persist
  \/ (SweepNext \/ SweepEnds) /\ UNCHANGED <<newest, frontier, fetches>>

Spec == Init /\ [][Next]_vars

-----------------------------------------------------------------------------

\* Compaction after every fetch loses nothing Plan depends on: a tick is covered
\* by one interval when it was ever fetched and by none otherwise, and a tick
\* that was live for every Get so far, those that waited with an old clock too,
\* carries the newest stamp it was ever fetched with, never a neighbour's
\* (coverage.go:68-77).
FreshnessKept ==
  pc = "done" =>
    \A t \in DOMAIN newest :
      /\ newest[t] = 0 <=> Over(Stored, t) = {}
      /\ \A a, b \in Over(Stored, t) : a = b
      /\ t >= frontier => \A iv \in Over(Stored, t) : iv.FetchedAt = newest[t]

\* However many fetches went in, the stored set stays about as small as the live
\* zone is wide: two intervals that touch carry different stamps and reach into
\* the live zone (coverage.go:75-77).
HistoryCompacts ==
  pc = "done" =>
    \A a, b \in Stored :
      a.To = b.From => b.To > historyBefore /\ a.FetchedAt # b.FetchedAt

=============================================================================
