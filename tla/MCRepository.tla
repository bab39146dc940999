---------------------------- MODULE MCRepository ----------------------------
(***************************************************************************)
(* SqliteRepo beside a memory repository that is given the same writes.    *)
(* Its loop over a batch runs in step with SQLite's statements, a row at a *)
(* time, and its slice is replaced when SQLite commits.  Of writes that    *)
(* fail in SQLite, or that a power failure loses, it is not told.          *)
(***************************************************************************)
EXTENDS SqliteRepo, BarLoops

VARIABLES
  mem,       \* the memory repository's slice of each key
  merged,    \* the slice the call in progress makes
  memSaved   \* mem when file was last saved

mcvars == <<vars, mem, merged, memSaved>>

\* One bar, three of which one repeats a start out of order, none.
SomeBatches ==
  {<<[T |-> 1, V |-> 2]>>,
   <<[T |-> 2, V |-> 1], [T |-> 1, V |-> 1], [T |-> 2, V |-> 2]>>,
   <<>>}

SomeIntervalSets == {{[From |-> 1, FetchedAt |-> 1]}}

SomeWindows == {[Start |-> 0, End |-> 2]}
AnyWindow   == [Start : Times, End : Times]

None == -1

\* Nothing of the batch is stored before the whole of it is merged and sorted.
MemBegin(k) == BeginPutBars(k) /\ merged' = mem[k] /\ UNCHANGED <<mem, memSaved>>
MemUpsert(k) ==
  /\ ExecBar(k)
  /\ merged' = PutBar(merged, Head(call[k].rows))
  /\ UNCHANGED <<mem, memSaved>>
MemStore(k) ==
  /\ Commit(k)
  /\ call[k].op.name = "PutBars"
  /\ \E s \in Resorted(merged) : mem' = [mem EXCEPT ![k] = s]
  /\ merged' = <<>> /\ UNCHANGED memSaved

Puts(k) ==
  \/ BeginPutBars(k) \/ ExecBar(k)
  \/ Commit(k) /\ call[k].op.name = "PutBars"

MCInit == /\ Init
          /\ mem = [k \in Keys |-> <<>>] /\ merged = <<>> /\ memSaved = mem
MCNext ==
  \/ \E k \in Keys : MemBegin(k) \/ MemUpsert(k) \/ MemStore(k)
  \/ Checkpoint /\ memSaved' = mem /\ UNCHANGED <<mem, merged>>
  \/ PowerFailure /\ mem' = memSaved /\ merged' = <<>> /\ UNCHANGED memSaved
  \/ Crash /\ merged' = <<>> /\ UNCHANGED <<mem, memSaved>>
  \/ /\ Open \/ OpenFails \/ Migrate \/ Close
     /\ UNCHANGED <<mem, merged, memSaved>>
  \/ \E k \in Keys :
       /\ Invoke(k) \/ ConnectFails(k) \/ Begin(k) \/ Work(k)
       /\ ~Puts(k)
       /\ UNCHANGED <<mem, merged, memSaved>>
MCSpec == MCInit /\ [][MCNext]_mcvars
MCFairSpec == MCSpec /\ Fairness

\* The two backends agree, whatever becomes of calls and of the file in between: a
\* read of any window returns from memory, whose loop stops at the first bar after
\* the window, the rows SQLite returns, in ascending order (repository.go:10-16,
\* memory.go:27-73).
MemoryAgrees ==
  \A k \in Keys :
    /\ Ascending(mem[k])
    /\ \A w \in AnyWindow :
         {mem[k][i] : i \in MemBars(mem[k], w)} = R!InWindow(file.data.bars[k], w)

C == INSTANCE Coverage WITH SliverThreshold <- 0

ASSUME NoBarAssumption == NoValue = C!NoBar

Rows(b) == {r \in R!Row : b[r.T] = r.V}

\* The bars of a batch, by start time.
Table(batch) == R!Upsert([t \in Times |-> NoValue], batch)

\* PutBars over the table, and what a degraded call computes over the slice that is
\* stored and freshBars, one fetched batch appended to another, are what the model
\* of the store makes of the same bars by start time: of two bars of one instant
\* the one fetched last, in ascending order (store.go:148, 167, coverage.go:226-260).
\* The Get that merges has no call of its key in progress then.
MergeAgrees ==
  \A k \in Keys, a \in Batches : call[k].pc = "idle" =>
    /\ C!MergeBars(file.data.bars[k], Table(a)) = R!Upsert(file.data.bars[k], a)
    /\ \A b \in Batches :
         \A answer \in {C!MergeBars(file.data.bars[k], C!MergeBars(Table(a), Table(b)))},
            s \in MergeBarsLoop(mem[k], a \o b) :
           /\ Ascending(s)
           /\ \A w \in AnyWindow :
                {s[i] : i \in ClipLoop(s, w)} = Rows(C!Clip(answer, w.Start, w.End))

=============================================================================
