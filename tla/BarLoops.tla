------------------------------ MODULE BarLoops ------------------------------
(***************************************************************************)
(* Bars in slices: the memory backend, internal/store/memory.go, whose     *)
(* calls are critical sections of one mutex and never fail, and mergeBars  *)
(* and clip of internal/store/coverage.go.  Everywhere else a set of bars  *)
(* is a function of their start times.                                     *)
(***************************************************************************)
EXTENDS Integers, Sequences

Funs == INSTANCE Functions

ByT(a, b)    == a.T < b.T
Ascending(s) == \A i, j \in DOMAIN s : i < j => ByT(s[i], s[j])

\* idx: a bar replaces the one with its start, or is appended.
PutBar(merged, b) ==
  IF \E i \in DOMAIN merged : merged[i].T = b.T
  THEN [merged EXCEPT ![CHOOSE i \in DOMAIN merged : merged[i].T = b.T] = b]
  ELSE Append(merged, b)

\* A mistaken variant: the slice is not sorted again.
NotResorted(s) == {s}

\* What sort.Slice may leave of s.
Reordered(s, p) == [i \in DOMAIN s |-> s[p[i]]]
Resorted(s) ==
  {t \in {Reordered(s, p) : p \in Funs!Bijection(DOMAIN s, DOMAIN s)} :
     \A i, j \in DOMAIN t : i < j => ~ByT(t[j], t[i])}

\* The indices of the bars that a read of window w returns: those before the window
\* are skipped, and the first one after it ends the loop.
MemBars(stored, w) ==
  {i \in DOMAIN stored :
     /\ stored[i].T >= w.Start
     /\ \A j \in 1 .. i : stored[j].T < w.Start \/ stored[j].T <= w.End}

\* add: each start once, with the last bar of s under it.
Added(s) ==
  LET f[i \in 0 .. Len(s)] == IF i = 0 THEN <<>> ELSE PutBar(f[i - 1], s[i])
  IN  f[Len(s)]

\* A mistaken variant: a wins.
MergeBarsKeepsOld(a, b) == Resorted(Added(b \o a))

MergeBarsLoop(a, b) == Resorted(Added(a \o b))

\* The indices of the bars that clip keeps.
ClipLoop(bars, w) ==
  {i \in DOMAIN bars : ~(bars[i].T < w.Start \/ bars[i].T > w.End)}

=============================================================================
