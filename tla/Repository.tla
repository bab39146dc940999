----------------------------- MODULE Repository -----------------------------
(***************************************************************************)
(* What a Repository promises (internal/store/repository.go and the        *)
(* conformance suite storetest/contract.go): each call takes effect at one *)
(* instant between its start and its return, or fails and has no effect at *)
(* all; a read that fails may still hand over a part of what it would have *)
(* returned at some such instant.  What is kept is lost from the end: a    *)
(* restart finds the data of some earlier instant, all keys at the same    *)
(* one, and never a part of a write.                                       *)
(*                                                                         *)
(* Store holds the lock of its key during all its calls, so there is at    *)
(* most one call for a key at a time; calls for different keys overlap.    *)
(***************************************************************************)
EXTENDS Naturals, Sequences

CONSTANTS
  Keys,          \* the (symbol, timeframe) keys
  Times,         \* start times of bars, and starts of intervals
  Values,        \* what a bar holds, and the stamp of an interval
  NoValue,       \* no bar
  Batches,       \* the sequences of bars given to PutBars
  IntervalSets,  \* the sets of intervals given to PutIntervals
  Windows        \* the windows given to Bars

Row      == [T : Times, V : Values]
Interval == [From : Times, FetchedAt : Values]

\* The calls the program makes: a set of intervals comes normalized from Store,
\* no two of them with the same start.
WellFormed ==
  /\ Times \subseteq Nat
  /\ NoValue \notin Values
  /\ Batches \subseteq Seq(Row)
  /\ IntervalSets \subseteq SUBSET Interval
  /\ \A s \in IntervalSets : \A a, b \in s : a.From = b.From => a = b
  /\ Windows \subseteq [Start : Nat, End : Nat]

Ops ==
  [name : {"Bars"}, window : Windows] \cup [name : {"Intervals"}]
    \cup [name : {"PutBars"}, batch : Batches]
    \cup [name : {"PutIntervals"}, set : IntervalSets]

NoOp == [name |-> "none"]

VARIABLES
  data,    \* the bars and the intervals of every key
  saved,   \* what a power failure leaves of them
  call     \* the call in progress for each key

rvars == <<data, saved, call>>

Data  == [bars : [Keys -> [Times -> Values \cup {NoValue}]],
          intervals : [Keys -> SUBSET Interval]]
Empty == [bars      |-> [k \in Keys |-> [t \in Times |-> NoValue]],
          intervals |-> [k \in Keys |-> {}]]

Idle == [st |-> "idle", op |-> NoOp, result |-> {}]

Init ==
  /\ data = Empty
  /\ saved = Empty
  /\ call = [k \in Keys |-> Idle]

-----------------------------------------------------------------------------

\* The bars b with the rows of s upserted one after the other: the last wins.
Upsert(b, s) ==
  [t \in Times |->
     IF \E i \in 1 .. Len(s) : s[i].T = t
       THEN s[CHOOSE i \in 1 .. Len(s) :
                s[i].T = t /\ \A j \in 1 .. Len(s) : s[j].T = t => j <= i].V
       ELSE b[t]]

\* The bars that start in a window, both ends included.
InWindow(b, w) ==
  {r \in Row : w.Start <= r.T /\ r.T <= w.End /\ b[r.T] = r.V}

Result(k, op) ==
  CASE op.name = "Bars"      -> InWindow(data.bars[k], op.window)
    [] op.name = "Intervals" -> data.intervals[k]
    [] OTHER                 -> {}

Effect(k, op) ==
  CASE op.name = "PutBars"      -> [data EXCEPT !.bars[k] = Upsert(@, op.batch)]
    [] op.name = "PutIntervals" -> [data EXCEPT !.intervals[k] = op.set]
    [] OTHER                    -> data

Becomes(k, st, op, result) ==
  call' = [call EXCEPT ![k] = [st |-> st, op |-> op, result |-> result]]

Invoke(k) ==
  /\ call[k].st = "idle"
  /\ \E op \in Ops : Becomes(k, "called", op, {})
  /\ UNCHANGED <<data, saved>>

Do(k) ==
  /\ call[k].st = "called"
  /\ data' = Effect(k, call[k].op)
  /\ Becomes(k, "ok", call[k].op, Result(k, call[k].op))
  /\ UNCHANGED saved

\* Writing no bars is no work and cannot fail.
Nothing(op) == op.name = "PutBars" /\ op.batch = <<>>

\* What a read that fails may return beside its error: nothing, or some of the rows,
\* of bars the first in time.
Parts(op, rows) ==
  {part \in SUBSET rows :
     op.name = "Bars" => \A r \in part, s \in rows : s.T < r.T => s \in part}

Fail(k) ==
  /\ call[k].st = "called"
  /\ ~Nothing(call[k].op)
  /\ \E part \in Parts(call[k].op, Result(k, call[k].op)) :
       Becomes(k, "failed", call[k].op, part)
  /\ UNCHANGED <<data, saved>>

Return(k) ==
  /\ call[k].st \in {"ok", "failed"}
  /\ call' = [call EXCEPT ![k] = Idle]
  /\ UNCHANGED <<data, saved>>

\* What was written reaches the disk.
Save ==
  /\ saved' = data
  /\ UNCHANGED <<data, call>>

\* The process ends, in the middle of its calls.
Crash ==
  /\ call' = [k \in Keys |-> Idle]
  /\ UNCHANGED <<data, saved>>

\* The machine stops.
PowerFailure ==
  /\ call' = [k \in Keys |-> Idle]
  /\ data' = saved
  /\ UNCHANGED saved

Next ==
  \/ \E k \in Keys : Invoke(k) \/ Do(k) \/ Fail(k) \/ Return(k)
  \/ Save \/ Crash \/ PowerFailure

Spec == Init /\ [][Next]_rvars

=============================================================================
