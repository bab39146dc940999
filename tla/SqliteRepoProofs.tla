-------------------------- MODULE SqliteRepoProofs --------------------------
(***************************************************************************)
(* Proofs about SqliteRepo, for any keys, bars, batches, sets of intervals *)
(* and windows: the type invariant, that the schema is ready, that the     *)
(* only connection is with a call that will give it back, that the backend *)
(* implements Repository, and that the memory backend agrees with it.      *)
(***************************************************************************)
EXTENDS MCRepository, SequenceTheorems, WellFoundedInduction, TLAPS

Bars == [Times -> Values \cup {NoValue}]

-----------------------------------------------------------------------------
(* Upserting a batch, row by row *)

\* The last row of s that starts at t.
IsLast(s, t, i) ==
  /\ i \in 1 .. Len(s) /\ s[i].T = t
  /\ \A j \in 1 .. Len(s) : s[j].T = t => j <= i

\* Counting down from the end of a batch stops.
LEMMA LessWellFounded == IsWellFoundedOn({ss \in Nat \X Nat : ss[1] < ss[2]}, Nat)
BY NatLessThanWellFounded DEF OpToRel

\* The rows of a batch that start at t have a last one.
LEMMA LastRow ==
  ASSUME NEW s \in Seq(R!Row), NEW t, \E i \in 1 .. Len(s) : s[i].T = t
  PROVE  \E i : IsLast(s, t, i)
<1> DEFINE W == {ss \in Nat \X Nat : ss[1] < ss[2]}
           S == {k \in Nat : Len(s) - k \in 1 .. Len(s) /\ s[Len(s) - k].T = t}
<1>1. S \subseteq Nat /\ Len(s) \in Nat
  OBVIOUS
<1>2. S # {}
  <2>1. PICK i \in 1 .. Len(s) : s[i].T = t
    OBVIOUS
  <2>2. Len(s) - i \in Nat /\ Len(s) - (Len(s) - i) = i
    BY <1>1
  <2> QED
    BY <2>1, <2>2
<1>3. \A m, k \in Nat : m < k => <<m, k>> \in W
  OBVIOUS
<1>4. IsWellFoundedOn(W, Nat)
  BY LessWellFounded
<1>5. PICK k \in S : \A m \in S : ~(<<m, k>> \in W)
  <2> HIDE DEF S, W
  <2> QED
    BY <1>1, <1>2, <1>4, WFMin
<1>6. ASSUME NEW j \in 1 .. Len(s), s[j].T = t PROVE j <= Len(s) - k
  <2>1. Len(s) - j \in Nat /\ Len(s) - (Len(s) - j) = j
    BY <1>1
  <2>2. Len(s) - j \in S
    BY <2>1, <1>6
  <2>3. ~(Len(s) - j < k)
    BY <2>2, <1>3, <1>5
  <2> QED
    BY <1>1, <2>1, <2>3
<1> QED
  BY <1>5, <1>6 DEF IsLast

LEMMA UpsertAt ==
  ASSUME NEW b, NEW s \in Seq(R!Row), NEW t \in Times, NEW i, IsLast(s, t, i)
  PROVE  R!Upsert(b, s)[t] = s[i].V
<1> DEFINE P(n) == n \in 1 .. Len(s) /\ s[n].T = t /\ \A j \in 1 .. Len(s) : s[j].T = t => j <= n
<1>1. \A n : P(n) => n = i
  BY DEF IsLast
<1>2. (CHOOSE n \in 1 .. Len(s) : s[n].T = t /\ \A j \in 1 .. Len(s) : s[j].T = t => j <= n) = i
  BY <1>1 DEF IsLast
<1> QED
  BY <1>2 DEF IsLast, R!Upsert

LEMMA UpsertNowhere ==
  ASSUME NEW b, NEW s \in Seq(R!Row), NEW t \in Times,
         ~\E i \in 1 .. Len(s) : s[i].T = t
  PROVE  R!Upsert(b, s)[t] = b[t]
BY DEF R!Upsert

LEMMA UpsertIsFunction ==
  ASSUME NEW b, NEW s
  PROVE  R!Upsert(b, s) = [t \in Times |-> R!Upsert(b, s)[t]]
BY DEF R!Upsert

LEMMA UpsertTyped ==
  ASSUME NEW b \in Bars, NEW s \in Seq(R!Row)
  PROVE  R!Upsert(b, s) \in Bars
<1>1. ASSUME NEW t \in Times PROVE R!Upsert(b, s)[t] \in Values \cup {NoValue}
  <2>1. CASE \E i \in 1 .. Len(s) : s[i].T = t
    <3>1. PICK i : IsLast(s, t, i)
      BY <2>1, LastRow
    <3>2. s[i] \in R!Row
      BY <3>1 DEF IsLast
    <3>3. R!Upsert(b, s)[t] = s[i].V
      BY <3>1, UpsertAt
    <3> QED
      BY <3>2, <3>3 DEF R!Row
  <2>2. CASE ~\E i \in 1 .. Len(s) : s[i].T = t
    BY <2>2, UpsertNowhere DEF Bars
  <2> QED
    BY <2>1, <2>2
<1>2. R!Upsert(b, s) = [t \in Times |-> R!Upsert(b, s)[t]]
  BY UpsertIsFunction
<1> QED
  BY <1>1, <1>2 DEF Bars

LEMMA UpsertNothing ==
  ASSUME NEW b \in Bars
  PROVE  R!Upsert(b, <<>>) = b
BY DEF Bars, R!Upsert

\* One row now and the others after it.
LEMMA UpsertStep ==
  ASSUME NEW b \in Bars, NEW s \in Seq(R!Row), s # <<>>
  PROVE  R!Upsert([b EXCEPT ![Head(s).T] = Head(s).V], Tail(s)) = R!Upsert(b, s)
<1> DEFINE c == [b EXCEPT ![Head(s).T] = Head(s).V]
<1>1. /\ Tail(s) \in Seq(R!Row) /\ Len(Tail(s)) = Len(s) - 1 /\ Len(s) \in Nat \ {0}
      /\ \A i \in 1 .. Len(s) - 1 : Tail(s)[i] = s[i + 1]
      /\ Head(s) = s[1] /\ s[1] \in R!Row
  BY HeadTailProperties, EmptySeq
<1> HIDE DEF c
<1>2. PICK u \in Seq(R!Row) : u = Tail(s)
  BY <1>1
<1>3. ASSUME NEW t \in Times PROVE R!Upsert(c, u)[t] = R!Upsert(b, s)[t]
  <2>1. CASE \E i \in 1 .. Len(u) : u[i].T = t
    <3>1. PICK i : IsLast(u, t, i)
      BY <2>1, LastRow
    <3>2. i \in 1 .. Len(s) - 1 /\ i + 1 \in 1 .. Len(s) /\ u[i] = s[i + 1]
      BY <1>1, <1>2, <3>1 DEF IsLast
    <3>3. ASSUME NEW j \in 1 .. Len(s), s[j].T = t PROVE j <= i + 1
      <4>1. CASE j = 1
        BY <3>2, <4>1
      <4>2. CASE j # 1
        <5>1. j - 1 \in 1 .. Len(u) /\ u[j - 1] = s[j]
          BY <1>1, <1>2, <4>2
        <5>2. j - 1 <= i
          BY <3>1, <3>3, <5>1 DEF IsLast
        <5> QED
          BY <3>2, <5>2
      <4> QED
        BY <4>1, <4>2
    <3>4. IsLast(s, t, i + 1)
      BY <3>1, <3>2, <3>3 DEF IsLast
    <3>5. R!Upsert(c, u)[t] = u[i].V
      BY <3>1, UpsertAt
    <3>6. R!Upsert(b, s)[t] = s[i + 1].V
      BY <3>4, UpsertAt
    <3> QED
      BY <3>2, <3>5, <3>6
  <2>2. CASE ~\E i \in 1 .. Len(u) : u[i].T = t
    <3>1. R!Upsert(c, u)[t] = c[t]
      BY <2>2, UpsertNowhere
    <3>2. \A j \in 1 .. Len(s) : s[j].T = t => j = 1
      <4> SUFFICES ASSUME NEW j \in 1 .. Len(s), s[j].T = t, j # 1 PROVE FALSE
        OBVIOUS
      <4>1. j - 1 \in 1 .. Len(u) /\ u[j - 1] = s[j]
        BY <1>1, <1>2
      <4> QED
        BY <2>2, <4>1
    <3>3. CASE Head(s).T = t
      <4>1. IsLast(s, t, 1)
        BY <1>1, <3>2, <3>3 DEF IsLast
      <4>2. R!Upsert(b, s)[t] = s[1].V
        BY <4>1, UpsertAt
      <4> QED
        BY <1>1, <3>1, <3>3, <4>2 DEF Bars, c
    <3>4. CASE Head(s).T # t
      <4>1. ~\E i \in 1 .. Len(s) : s[i].T = t
        BY <1>1, <3>2, <3>4
      <4> QED
        BY <3>1, <3>4, <4>1, UpsertNowhere DEF Bars, c
    <3> QED
      BY <3>3, <3>4
  <2> QED
    BY <2>1, <2>2
<1>4. /\ R!Upsert(c, u) = [t \in Times |-> R!Upsert(c, u)[t]]
      /\ R!Upsert(b, s) = [t \in Times |-> R!Upsert(b, s)[t]]
  BY UpsertIsFunction
<1>5. R!Upsert(c, u) = R!Upsert(b, s)
  BY <1>3, <1>4
<1> QED
  BY <1>5, <1>2 DEF c

-----------------------------------------------------------------------------
(* The invariant *)

\* What the open transaction of a call will have done once the rest is executed.
Finished(k, c) ==
  [bars      |-> [tx.bars EXCEPT ![k] = R!Upsert(@, c.rows)],
   intervals |-> [tx.intervals EXCEPT ![k] = @ \cup c.left]]

\* Of bars, what was read starts no later than what is left.
InOrder(c) ==
  c.op.name = "Bars" => \A r \in c.out, s \in c.left : r.T <= s.T

CallInv(k, c) ==
  /\ c.pc = "idle" => c = Idle
  /\ c.pc # "idle" => c.op \in R!Ops
  /\ c.pc = "wait" => c.rows = <<>> /\ c.left = {} /\ c.out = {}
  /\ c.pc \in {"reading", "exec"} => conn = k /\ ~R!Nothing(c.op)
  /\ c.pc = "reading" =>
       ~Writes(c.op) /\ c.out \cup c.left = R!Result(k, c.op) /\ InOrder(c)
  /\ c.pc = "exec" => Writes(c.op) /\ c.out = {} /\ Finished(k, c) = R!Effect(k, c.op)

\* The connection is with a call that is at work.
ConnectionInUse == conn # NoKey => call[conn].pc \in {"reading", "exec"}

\* Nothing is open before the migration is over.
Prepared == [bars |-> {}, fetched_ranges |-> {"bars"},
             schema_meta |-> {"bars", "fetched_ranges"}, version |-> Tables]
Migrated == db \in DOMAIN Statement => Prepared[db] \subseteq file.tables

IndInv ==
  /\ TypeOK /\ SchemaReady /\ durable.versions <= 1 /\ Migrated /\ ConnectionInUse
  /\ \A k \in Keys : CallInv(k, call[k])

-----------------------------------------------------------------------------
(* Types *)

LEMMA OpTypes ==
  ASSUME NEW op \in R!Ops
  PROVE  /\ op.name \in {"Bars", "Intervals", "PutBars", "PutIntervals"}
         /\ op.name = "PutBars" => op.batch \in Seq(R!Row)
         /\ op.name = "PutIntervals" => op.set \in SUBSET R!Interval
BY SqliteAssumption DEF R!Ops, R!WellFormed

LEMMA EmptyTyped == R!Empty \in R!Data /\ Idle \in Calls
BY DEF RowSets, R!Empty, R!Data, Idle, Calls

LEMMA ResultTyped ==
  ASSUME file.data \in R!Data, NEW k \in Keys, NEW op
  PROVE  R!Result(k, op) \in RowSets
BY DEF RowSets, R!Result, R!InWindow, R!Data

\* Writing keeps data what it is.
LEMMA PutTyped ==
  ASSUME NEW d \in R!Data, NEW k \in Keys
  PROVE  /\ \A b \in Bars : [d EXCEPT !.bars[k] = b] \in R!Data
         /\ \A s \in SUBSET R!Interval : [d EXCEPT !.intervals[k] = s] \in R!Data
         /\ d.bars[k] \in Bars /\ d.intervals[k] \in SUBSET R!Interval
BY DEF R!Data, Bars

LEMMA EffectTyped ==
  ASSUME file.data \in R!Data, NEW k \in Keys, NEW op \in R!Ops
  PROVE  R!Effect(k, op) \in R!Data
<1>1. CASE op.name = "PutBars"
  <2>1. op.batch \in Seq(R!Row) /\ file.data.bars[k] \in Bars
    BY <1>1, OpTypes, PutTyped
  <2>2. R!Upsert(file.data.bars[k], op.batch) \in Bars
    BY <2>1, UpsertTyped
  <2>3. R!Effect(k, op) = [file.data EXCEPT !.bars[k] = R!Upsert(file.data.bars[k], op.batch)]
    BY <1>1 DEF R!Effect
  <2> QED
    BY <2>2, <2>3, PutTyped
<1>2. CASE op.name = "PutIntervals"
  <2>1. op.set \in SUBSET R!Interval
    BY <1>2, OpTypes
  <2>2. R!Effect(k, op) = [file.data EXCEPT !.intervals[k] = op.set]
    BY <1>2 DEF R!Effect
  <2>3. [file.data EXCEPT !.intervals[k] = op.set] \in R!Data
    BY <2>1 DEF R!Data
  <2> QED
    BY <2>2, <2>3
<1>3. CASE op.name \notin {"PutBars", "PutIntervals"}
  BY <1>3 DEF R!Effect
<1> QED
  BY <1>1, <1>2, <1>3

-----------------------------------------------------------------------------
(* Steps *)

\* What a change of one call leaves of the others.
LEMMA Becoming ==
  ASSUME TypeOK, NEW k \in Keys, NEW c \in Calls, Becomes(k, c)
  PROVE  /\ call' \in [Keys -> Calls]
         /\ call'[k] = c
         /\ \A q \in Keys \ {k} : call'[q] = call[q]
BY DEF Becomes, TypeOK

\* A step of one call preserves the invariant when what it makes of the
\* connection, the transaction and its own call does; nobody else is at work if
\* it changes what they rely on.
LEMMA StepInv ==
  ASSUME IndInv, NEW k \in Keys, NEW c \in Calls, Becomes(k, c),
         UNCHANGED <<db, durable>>, file' \in Files, tx' \in R!Data, writes' \in Nat,
         conn' \in Keys \cup {NoKey}, file'.tables = file.tables,
         file'.versions = file.versions, CallInv(k, c)',
         \/ conn' = NoKey
         \/ conn' = k /\ c.pc \in {"reading", "exec"}
         \/ conn' = conn /\ (conn = k => c.pc \in {"reading", "exec"}),
         \A q \in Keys \ {k} :
           call[q].pc \in {"reading", "exec"} => UNCHANGED <<conn, tx, file>>
  PROVE  IndInv'
<1>1. /\ call' \in [Keys -> Calls]
      /\ call'[k] = c
      /\ \A q \in Keys \ {k} : call'[q] = call[q]
  BY Becoming DEF IndInv
<1>2. TypeOK'
  BY <1>1 DEF IndInv, TypeOK
<1>3. SchemaReady' /\ durable'.versions <= 1 /\ Migrated'
  BY DEF IndInv, SchemaReady, Migrated
<1>4. ConnectionInUse'
  BY <1>1 DEF IndInv, ConnectionInUse, TypeOK
<1>5. ASSUME NEW q \in Keys \ {k} PROVE CallInv(q, call[q])'
  <2>1. CallInv(q, call[q]) /\ call'[q] = call[q]
    BY <1>1 DEF IndInv
  <2>2. CASE call[q].pc \in {"reading", "exec"}
    <3>1. conn' = conn /\ tx' = tx /\ file' = file
      BY <2>2
    <3>2. Finished(q, call[q])' = Finished(q, call[q])
      BY <2>1, <3>1 DEF Finished
    <3>3. /\ R!Result(q, call[q].op)' = R!Result(q, call[q].op)
          /\ R!Effect(q, call[q].op)' = R!Effect(q, call[q].op)
      BY <2>1, <3>1 DEF R!Result, R!Effect
    <3> QED
      BY <2>1, <3>1, <3>2, <3>3 DEF CallInv
  <2>3. CASE call[q].pc \notin {"reading", "exec"}
    BY <2>1, <2>3 DEF CallInv
  <2> QED
    BY <2>2, <2>3
<1> QED
  BY <1>1, <1>2, <1>3, <1>4, <1>5 DEF IndInv

\* A call that is at work is the only one.
LEMMA Alone ==
  ASSUME IndInv, NEW k \in Keys,
         call[k].pc \in {"reading", "exec"} \/ conn = NoKey
  PROVE  \A q \in Keys \ {k} : call[q].pc \notin {"reading", "exec"}
BY SqliteAssumption DEF IndInv, CallInv

LEMMA OpenInv ==
  ASSUME IndInv, Open \/ OpenFails \/ Migrate \/ Close \/ Checkpoint
  PROVE  IndInv'
<1>1. CASE Open \/ OpenFails \/ Close
  <2>1. UNCHANGED <<conn, file, durable, tx, call, writes>>
    BY <1>1 DEF Open, OpenFails, Close
  <2>2. \A k \in Keys : CallInv(k, call[k])'
    BY <2>1 DEF IndInv, CallInv, Finished, R!Result, R!Effect
  <2>3. TypeOK' /\ SchemaReady' /\ durable'.versions <= 1 /\ Migrated' /\ ConnectionInUse'
    BY <1>1, <2>1
    DEF IndInv, TypeOK, SchemaReady, Migrated, ConnectionInUse, Open, OpenFails, Close,
        Prepared, Statement
  <2> QED
    BY <2>2, <2>3 DEF IndInv
<1>2. CASE Checkpoint
  <2>1. UNCHANGED <<db, conn, file, tx, call, writes>> /\ durable' = file
    BY <1>2 DEF Checkpoint
  <2>2. \A k \in Keys : CallInv(k, call[k])'
    BY <2>1 DEF IndInv, CallInv, Finished, R!Result, R!Effect
  <2>3. TypeOK' /\ SchemaReady' /\ durable'.versions <= 1 /\ Migrated' /\ ConnectionInUse'
    BY <2>1 DEF IndInv, TypeOK, SchemaReady, Migrated, ConnectionInUse
  <2> QED
    BY <2>2, <2>3 DEF IndInv
<1>3. CASE Migrate
  <2>1. /\ UNCHANGED <<conn, durable, tx, call, writes>> /\ db \in DOMAIN Statement
        /\ file' = RunStatement(db, file) /\ db' = Statement[db] /\ file \in Files
    BY <1>3 DEF Migrate, IndInv, TypeOK
  <2>2. file'.data = file.data /\ file' \in Files
    BY <2>1 DEF RunStatement, Files, Statement, Tables
  <2>3. \A k \in Keys : CallInv(k, call[k])'
    BY <2>1, <2>2 DEF IndInv, CallInv, Finished, R!Result, R!Effect
  <2>4. SchemaReady' /\ Migrated'
    BY <2>1
    DEF IndInv, SchemaReady, Migrated, Prepared, Statement, RunStatement, Files, Tables
  <2>5. TypeOK' /\ durable'.versions <= 1 /\ ConnectionInUse'
    BY <2>1, <2>2 DEF IndInv, TypeOK, ConnectionInUse, Statement
  <2> QED
    BY <2>3, <2>4, <2>5 DEF IndInv
<1> QED
  BY <1>1, <1>2, <1>3

LEMMA StopsInv ==
  ASSUME IndInv, Crash \/ PowerFailure
  PROVE  IndInv'
<1>1. /\ db' = "down" /\ conn' = NoKey /\ tx' = R!Empty /\ durable' = durable
      /\ call' = [k \in Keys |-> Idle] /\ writes' = writes /\ file' \in {file, durable}
  BY DEF Crash, PowerFailure, Stops
<1>2. TypeOK' /\ SchemaReady' /\ durable'.versions <= 1 /\ Migrated' /\ ConnectionInUse'
  BY <1>1, EmptyTyped
  DEF IndInv, TypeOK, SchemaReady, Migrated, ConnectionInUse, Statement
<1>3. \A k \in Keys : CallInv(k, call[k])'
  BY <1>1 DEF CallInv, Idle
<1> QED
  BY <1>2, <1>3 DEF IndInv

-----------------------------------------------------------------------------
(* The steps of a call *)

\* What the invariant says of one call.
LEMMA CallFacts ==
  ASSUME IndInv, NEW k \in Keys
  PROVE  /\ call[k] \in Calls /\ CallInv(k, call[k]) /\ tx \in R!Data
         /\ file \in Files /\ durable \in Files /\ file.data \in R!Data
         /\ writes \in Nat /\ conn \in Keys \cup {NoKey}
BY DEF IndInv, TypeOK, Files

\* A step that leaves the connection, the transaction and the file alone.
LEMMA LocalInv ==
  ASSUME IndInv, NEW k \in Keys, NEW c \in Calls, Becomes(k, c), CallInv(k, c),
         UNCHANGED <<db, conn, file, durable, tx>>, writes' \in Nat,
         call[k].pc \in {"reading", "exec"} => c.pc = call[k].pc
  PROVE  IndInv'
<1>1. CallInv(k, c)'
  BY DEF CallInv, Finished, R!Result, R!Effect
<1>2. conn' = conn /\ (conn = k => c.pc \in {"reading", "exec"})
  BY SqliteAssumption DEF IndInv, ConnectionInUse
<1>3. file' \in Files /\ tx' \in R!Data /\ conn' \in Keys \cup {NoKey}
  BY CallFacts
<1> QED
  BY <1>1, <1>2, <1>3, StepInv

LEMMA OutsideInv ==
  ASSUME IndInv, NEW k \in Keys,
         Invoke(k) \/ PutNothing(k) \/ ConnectFails(k) \/ Return(k)
  PROVE  IndInv'
<1>1. call[k] \in Calls /\ CallInv(k, call[k]) /\ writes \in Nat
  BY CallFacts
<1>2. CASE Invoke(k)
  <2>1. PICK op \in R!Ops : Becomes(k, [call[k] EXCEPT !.pc = "wait", !.op = op])
    BY <1>2 DEF Invoke
  <2>2. PICK c \in Calls : c = [call[k] EXCEPT !.pc = "wait", !.op = op]
    BY <1>1 DEF Calls
  <2>3. call[k] = Idle
    BY <1>1, <1>2 DEF Invoke, CallInv
  <2>4. /\ c.pc = "wait" /\ c.op = op /\ c.rows = <<>> /\ c.left = {} /\ c.out = {}
        /\ call[k].pc = "idle"
    BY <2>2, <2>3 DEF Idle
  <2>5. CallInv(k, c)
    BY <2>4 DEF CallInv
  <2>6. UNCHANGED <<db, conn, file, durable, tx>> /\ writes' \in {writes, writes + 1}
    BY <1>2 DEF Invoke
  <2>7. writes' \in Nat
    BY <1>1, <2>6
  <2> QED
    BY <2>1, <2>2, <2>4, <2>5, <2>6, <2>7, LocalInv
<1>3. CASE PutNothing(k) \/ ConnectFails(k)
  <2>1. PICK pc \in {"ok", "failed"} :
          /\ Becomes(k, [call[k] EXCEPT !.pc = pc]) /\ call[k].pc = "wait"
          /\ UNCHANGED <<db, conn, file, durable, tx, writes>>
    BY <1>3 DEF PutNothing, ConnectFails
  <2>2. PICK c \in Calls : c = [call[k] EXCEPT !.pc = pc]
    BY <1>1 DEF Calls
  <2>3. CallInv(k, c)
    BY <1>1, <2>1, <2>2 DEF CallInv, Calls
  <2> QED
    BY <1>1, <2>1, <2>2, <2>3, LocalInv
<1>4. CASE Return(k)
  <2>1. PICK c \in Calls : c = Idle
    BY EmptyTyped
  <2>2. CallInv(k, c) /\ Becomes(k, c)
    BY <1>4, <2>1 DEF CallInv, Idle, Return
  <2>3. call[k].pc \in {"ok", "failed"} /\ UNCHANGED <<db, conn, file, durable, tx, writes>>
    BY <1>4 DEF Return
  <2> QED
    BY <1>1, <2>2, <2>3, LocalInv
<1> QED
  BY <1>2, <1>3, <1>4

LEMMA QueryInv == ASSUME IndInv, NEW k \in Keys, Query(k) PROVE IndInv'
<1>1. /\ call[k] \in Calls /\ CallInv(k, call[k]) /\ file.data \in R!Data
      /\ call[k].pc = "wait" /\ conn = NoKey /\ conn' = k /\ ~Writes(call[k].op)
      /\ ~R!Nothing(call[k].op) /\ UNCHANGED <<db, file, durable, tx, writes>>
  BY CallFacts DEF Query, Connect
<1>2. R!Result(k, call[k].op) \in RowSets
  BY <1>1, ResultTyped
<1>3. PICK c \in Calls :
        c = [call[k] EXCEPT !.pc = "reading", !.left = R!Result(k, call[k].op)]
  BY <1>1, <1>2 DEF Calls
<1>4. CallInv(k, c)'
  <2>1. c.op = call[k].op /\ c.pc = "reading" /\ c.out = {} /\ c.left = R!Result(k, c.op)
    BY <1>1, <1>3 DEF Calls, CallInv
  <2>2. R!Result(k, c.op)' = R!Result(k, c.op)
    BY <1>1 DEF R!Result
  <2> QED
    BY <1>1, <2>1, <2>2 DEF CallInv, InOrder
<1>5. Becomes(k, c) /\ c.pc = "reading"
  BY <1>1, <1>3 DEF Query, Calls
<1>6. file' \in Files /\ tx' \in R!Data /\ writes' \in Nat
  BY <1>1, CallFacts
<1> QED
  BY <1>1, <1>4, <1>5, <1>6, Alone, StepInv

\* A transaction is begun over what is committed.
LEMMA BeginInv ==
  ASSUME IndInv, NEW k \in Keys, BeginPutBars(k) \/ BeginPutIntervals(k)
  PROVE  IndInv'
<1>1. /\ call[k] \in Calls /\ CallInv(k, call[k]) /\ file.data \in R!Data
      /\ call[k].pc = "wait" /\ conn = NoKey /\ conn' = k
      /\ ~R!Nothing(call[k].op) /\ UNCHANGED <<db, file, durable, writes>>
      /\ call[k].op \in R!Ops
  BY CallFacts DEF BeginPutBars, BeginPutIntervals, Connect, CallInv
<1>2. file' \in Files /\ writes' \in Nat
  BY <1>1, CallFacts
<1>3. \A c \in Calls : R!Effect(k, c.op)' = R!Effect(k, c.op)
  BY <1>1 DEF R!Effect
<1>4. CASE BeginPutBars(k)
  <2>1. call[k].op.name = "PutBars" /\ call[k].op.batch \in Seq(R!Row) /\ tx' = file.data
    BY <1>1, <1>4, OpTypes DEF BeginPutBars
  <2>2. PICK c \in Calls : c = [call[k] EXCEPT !.pc = "exec", !.rows = call[k].op.batch]
    BY <1>1, <2>1 DEF Calls
  <2>3. /\ c.pc = "exec" /\ c.op = call[k].op /\ c.rows = call[k].op.batch
        /\ c.left = {} /\ c.out = {}
    BY <1>1, <2>2 DEF Calls, CallInv
  <2>4. Finished(k, c)' = R!Effect(k, c.op)'
    <3>1. R!Effect(k, c.op)' = [tx' EXCEPT !.bars[k] = R!Upsert(@, c.rows)]
      BY <1>1, <1>3, <2>1, <2>3 DEF R!Effect
    <3>2. tx' \in R!Data /\ tx'.intervals[k] \cup c.left = tx'.intervals[k]
      BY <1>1, <2>1, <2>3
    <3> QED
      BY <3>1, <3>2 DEF Finished, R!Data
  <2>5. CallInv(k, c)'
    BY <1>1, <2>1, <2>3, <2>4 DEF CallInv, Writes
  <2>6. Becomes(k, c)
    BY <1>4, <2>2 DEF BeginPutBars
  <2> QED
    BY <1>1, <1>2, <2>1, <2>3, <2>5, <2>6, Alone, StepInv
<1>5. CASE BeginPutIntervals(k)
  <2>1. /\ call[k].op.name = "PutIntervals" /\ call[k].op.set \in SUBSET R!Interval
        /\ tx' = [file.data EXCEPT !.intervals[k] = {}]
    BY <1>1, <1>5, OpTypes DEF BeginPutIntervals
  <2>2. PICK c \in Calls : c = [call[k] EXCEPT !.pc = "exec", !.left = call[k].op.set]
    BY <1>1, <2>1 DEF Calls, RowSets
  <2>3. /\ c.pc = "exec" /\ c.op = call[k].op /\ c.rows = <<>>
        /\ c.left = call[k].op.set /\ c.out = {}
    BY <1>1, <2>2 DEF Calls, CallInv
  <2>4. tx' \in R!Data
    BY <1>1, <2>1, PutTyped
  <2>5. R!Upsert(file.data.bars[k], <<>>) = file.data.bars[k]
    BY <1>1, PutTyped, UpsertNothing
  <2>6. Finished(k, c)' = R!Effect(k, c.op)'
    <3> DEFINE d == file.data
               s == call[k].op.set
    <3>1. Finished(k, c)' =
            [bars      |-> [d.bars EXCEPT ![k] = R!Upsert(d.bars[k], <<>>)],
             intervals |-> [[d.intervals EXCEPT ![k] = {}] EXCEPT ![k] = {} \cup s]]
      BY <1>1, <2>1, <2>3 DEF Finished, R!Data
    <3>2. [d.bars EXCEPT ![k] = d.bars[k]] = d.bars
      BY <1>1 DEF R!Data
    <3>3. [[d.intervals EXCEPT ![k] = {}] EXCEPT ![k] = {} \cup s] = [d.intervals EXCEPT ![k] = s]
      BY <1>1 DEF R!Data
    <3>4. R!Effect(k, c.op) = [bars |-> d.bars, intervals |-> [d.intervals EXCEPT ![k] = s]]
      BY <1>1, <2>1, <2>3 DEF R!Effect, R!Data
    <3>5. R!Effect(k, c.op)' = R!Effect(k, c.op)
      BY <1>3
    <3> QED
      BY <2>5, <3>1, <3>2, <3>3, <3>4, <3>5
  <2>7. CallInv(k, c)'
    BY <1>1, <2>1, <2>3, <2>6 DEF CallInv, Writes
  <2>8. Becomes(k, c)
    BY <1>5, <2>2 DEF BeginPutIntervals
  <2> QED
    BY <1>1, <1>2, <2>3, <2>4, <2>7, <2>8, Alone, StepInv
<1> QED
  BY <1>4, <1>5

LEMMA ReadInv ==
  ASSUME IndInv, NEW k \in Keys,
         NextRow(k) \/ RowsEnd(k) \/ ScanFails(k) \/ RowsBreakOff(k)
  PROVE  IndInv'
<1>1. /\ call[k] \in Calls /\ CallInv(k, call[k]) /\ call[k].pc = "reading"
      /\ UNCHANGED <<db, file, durable, tx, writes>>
  BY CallFacts DEF NextRow, RowsEnd, ScanFails, RowsBreakOff
<1>2. file' \in Files /\ tx' \in R!Data /\ writes' \in Nat
  BY <1>1, CallFacts
<1>3. CASE NextRow(k)
  <2>1. PICK r \in call[k].left :
          /\ ComesNext(r, call[k])
          /\ Becomes(k, [call[k] EXCEPT !.left = @ \ {r}, !.out = @ \cup {r}])
    BY <1>3 DEF NextRow
  <2>2. call[k].left \cup call[k].out = R!Result(k, call[k].op)
    BY <1>1 DEF CallInv
  <2>3. call[k].left \ {r} \in RowSets /\ call[k].out \cup {r} \in RowSets
    <3>1. R!Result(k, call[k].op) \in RowSets
      BY CallFacts, ResultTyped
    <3> QED
      BY <1>1, <2>2, <3>1 DEF RowSets, Calls
  <2>4. PICK c \in Calls : c = [call[k] EXCEPT !.left = @ \ {r}, !.out = @ \cup {r}]
    BY <1>1, <2>3 DEF Calls
  <2>5. c.pc = "reading" /\ c.op = call[k].op /\ c.out \cup c.left = R!Result(k, c.op)
    BY <1>1, <2>1, <2>2, <2>4 DEF Calls
  <2>6. CallInv(k, c)
    <3>1. InOrder(c)
      <4>1. InOrder(call[k])
        BY <1>1 DEF CallInv
      <4>2. c.left = call[k].left \ {r} /\ c.out = call[k].out \cup {r}
        BY <1>1, <2>4 DEF Calls
      <4> QED
        BY <2>1, <2>5, <4>1, <4>2 DEF InOrder, ComesNext
    <3> QED
      BY <1>1, <2>5, <3>1 DEF CallInv
  <2>7. conn' = conn /\ Becomes(k, c)
    BY <1>3, <2>1, <2>4 DEF NextRow
  <2> QED
    BY <1>1, <1>2, <2>5, <2>6, <2>7, LocalInv
<1>4. CASE RowsEnd(k) \/ ScanFails(k) \/ RowsBreakOff(k)
  <2>1. PICK c \in Calls : Becomes(k, c) /\ c.pc \in {"ok", "failed"} /\ c.op = call[k].op
    <3>1. /\ [call[k] EXCEPT !.pc = "ok"] \in Calls
          /\ [call[k] EXCEPT !.pc = "failed", !.left = {}, !.out = {}] \in Calls
          /\ [call[k] EXCEPT !.pc = "failed", !.left = {}] \in Calls
      BY <1>1 DEF Calls, RowSets
    <3> QED
      BY <1>1, <1>4, <3>1 DEF RowsEnd, ScanFails, RowsBreakOff, Calls
  <2>2. conn' = NoKey
    BY <1>4 DEF RowsEnd, ScanFails, RowsBreakOff
  <2>3. CallInv(k, c)'
    BY <1>1, <2>1 DEF CallInv
  <2> QED
    BY <1>1, <1>2, <2>1, <2>2, <2>3, Alone, StepInv
<1> QED
  BY <1>3, <1>4

LEMMA ExecBarInv == ASSUME IndInv, NEW k \in Keys, ExecBar(k) PROVE IndInv'
<1>1. PICK r : r = Head(call[k].rows)
  OBVIOUS
<1>2. PICK u : u = Tail(call[k].rows)
  OBVIOUS
<1>3. /\ call[k] \in Calls /\ CallInv(k, call[k]) /\ call[k].pc = "exec" /\ tx \in R!Data
      /\ call[k].rows # <<>> /\ call[k].rows \in Seq(R!Row)
      /\ UNCHANGED <<db, conn, file, durable, writes>>
      /\ tx' = [tx EXCEPT !.bars[k][r.T] = r.V]
      /\ Becomes(k, [call[k] EXCEPT !.rows = u])
  BY <1>1, <1>2, CallFacts DEF ExecBar, Calls
<1>4. r \in R!Row /\ u \in Seq(R!Row)
  BY <1>1, <1>2, <1>3, HeadTailProperties
<1>5. PICK c \in Calls : c = [call[k] EXCEPT !.rows = u]
  BY <1>3, <1>4 DEF Calls
<1>6. /\ c.pc = "exec" /\ c.op = call[k].op /\ c.rows = u /\ c.out = call[k].out
      /\ c.left = call[k].left
  BY <1>3, <1>5 DEF Calls
<1>7. tx.bars[k] \in Bars /\ r.T \in Times /\ r.V \in Values
  BY <1>3, <1>4, PutTyped DEF R!Row
<1>8. PICK b : b = [tx.bars[k] EXCEPT ![r.T] = r.V]
  OBVIOUS
<1>9. b \in Bars
  BY <1>7, <1>8 DEF Bars
<1>10. tx' = [tx EXCEPT !.bars[k] = b]
  BY <1>3, <1>8 DEF R!Data
<1>11. tx' \in R!Data /\ tx'.bars = [tx.bars EXCEPT ![k] = b] /\ tx'.intervals = tx.intervals
  BY <1>3, <1>9, <1>10, PutTyped DEF R!Data
<1>12. R!Upsert(b, u) = R!Upsert(tx.bars[k], call[k].rows)
  BY <1>1, <1>2, <1>3, <1>7, <1>8, UpsertStep
<1>13. Finished(k, c)' = Finished(k, call[k])
  <2>1. [[tx.bars EXCEPT ![k] = b] EXCEPT ![k] = R!Upsert(b, u)]
          = [tx.bars EXCEPT ![k] = R!Upsert(tx.bars[k], call[k].rows)]
    BY <1>3, <1>12 DEF R!Data
  <2>2. [tx.bars EXCEPT ![k] = b][k] = b
    BY <1>3 DEF R!Data
  <2> QED
    BY <1>6, <1>11, <2>1, <2>2 DEF Finished
<1>14. R!Effect(k, c.op)' = R!Effect(k, c.op)
  BY <1>3 DEF R!Effect
<1>15. CallInv(k, c)'
  BY <1>3, <1>6, <1>13, <1>14 DEF CallInv
<1>16. file' \in Files /\ writes' \in Nat /\ Becomes(k, c) /\ conn' = k
  BY <1>3, <1>5, CallFacts DEF CallInv
<1> QED
  BY <1>3, <1>6, <1>11, <1>15, <1>16, Alone, StepInv

LEMMA ExecIntervalInv == ASSUME IndInv, NEW k \in Keys, ExecInterval(k) PROVE IndInv'
<1>1. /\ call[k] \in Calls /\ CallInv(k, call[k]) /\ call[k].pc = "exec" /\ tx \in R!Data
      /\ UNCHANGED <<db, conn, file, durable, writes>>
  BY CallFacts DEF ExecInterval
<1>2. PICK iv \in call[k].left :
        /\ tx' = [tx EXCEPT !.intervals[k] = @ \cup {iv}]
        /\ Becomes(k, [call[k] EXCEPT !.left = @ \ {iv}])
  BY DEF ExecInterval
<1>3. iv \in R!Interval
  <2>1. /\ tx.intervals[k] \cup call[k].left = R!Effect(k, call[k].op).intervals[k]
        /\ call[k].op \in R!Ops /\ file.data \in R!Data
    BY <1>1, CallFacts DEF CallInv, Finished, R!Data
  <2>2. R!Effect(k, call[k].op).intervals[k] \in SUBSET R!Interval
    BY <2>1, EffectTyped, PutTyped
  <2> QED
    BY <2>1, <2>2
<1>4. call[k].left \ {iv} \in RowSets
  BY <1>1 DEF Calls, RowSets
<1>5. PICK c \in Calls : c = [call[k] EXCEPT !.left = @ \ {iv}]
  BY <1>1, <1>4 DEF Calls
<1>6. /\ c.pc = "exec" /\ c.op = call[k].op /\ c.rows = call[k].rows /\ c.out = call[k].out
      /\ c.left = call[k].left \ {iv}
  BY <1>1, <1>5 DEF Calls
<1>7. PICK s : s = tx.intervals[k] \cup {iv}
  OBVIOUS
<1>8. s \in SUBSET R!Interval
  BY <1>1, <1>3, <1>7, PutTyped
<1>9. tx' = [tx EXCEPT !.intervals[k] = s]
  BY <1>1, <1>2, <1>7 DEF R!Data
<1>10. tx' \in R!Data /\ tx'.bars = tx.bars /\ tx'.intervals = [tx.intervals EXCEPT ![k] = s]
  BY <1>1, <1>8, <1>9, PutTyped DEF R!Data
<1>11. Finished(k, c)' = Finished(k, call[k])
  <2>1. s \cup c.left = tx.intervals[k] \cup call[k].left
    BY <1>6, <1>7
  <2>2. [[tx.intervals EXCEPT ![k] = s] EXCEPT ![k] = s \cup c.left]
          = [tx.intervals EXCEPT ![k] = tx.intervals[k] \cup call[k].left]
    BY <1>1, <2>1 DEF R!Data
  <2>3. [tx.intervals EXCEPT ![k] = s][k] = s
    BY <1>1 DEF R!Data
  <2> QED
    BY <1>6, <1>10, <2>2, <2>3 DEF Finished
<1>12. R!Effect(k, c.op)' = R!Effect(k, c.op)
  BY <1>1 DEF R!Effect
<1>13. CallInv(k, c)'
  BY <1>1, <1>6, <1>11, <1>12 DEF CallInv
<1>14. file' \in Files /\ writes' \in Nat /\ Becomes(k, c) /\ conn' = k
  BY <1>1, <1>2, <1>5, CallFacts DEF CallInv
<1> QED
  BY <1>1, <1>6, <1>10, <1>13, <1>14, Alone, StepInv

\* When nothing is left to execute the transaction is the effect of the call.
LEMMA Executed ==
  ASSUME IndInv, NEW k \in Keys, call[k].pc = "exec", call[k].rows = <<>>, call[k].left = {}
  PROVE  tx = R!Effect(k, call[k].op)
<1>1. tx \in R!Data /\ Finished(k, call[k]) = R!Effect(k, call[k].op)
  BY CallFacts DEF CallInv
<1>2. R!Upsert(tx.bars[k], <<>>) = tx.bars[k]
  BY <1>1, PutTyped, UpsertNothing
<1>3. [tx.bars EXCEPT ![k] = tx.bars[k]] = tx.bars
  BY <1>1 DEF R!Data
<1>4. [tx.intervals EXCEPT ![k] = tx.intervals[k] \cup {}] = tx.intervals
  BY <1>1 DEF R!Data
<1>5. tx = [bars |-> tx.bars, intervals |-> tx.intervals]
  BY <1>1 DEF R!Data
<1> QED
  BY <1>1, <1>2, <1>3, <1>4, <1>5 DEF Finished

LEMMA EndInv ==
  ASSUME IndInv, NEW k \in Keys, Commit(k) \/ Rollback(k)
  PROVE  IndInv'
<1>1. /\ call[k] \in Calls /\ CallInv(k, call[k]) /\ call[k].pc = "exec"
      /\ UNCHANGED <<db, durable, writes>> /\ conn' = NoKey /\ tx' = R!Empty
  BY CallFacts DEF Commit, Rollback
<1>2. PICK c \in Calls : Becomes(k, c) /\ c.pc \in {"ok", "failed"} /\ c.op = call[k].op
  <2>1. /\ [call[k] EXCEPT !.pc = "ok"] \in Calls
        /\ [call[k] EXCEPT !.pc = "failed", !.rows = <<>>, !.left = {}] \in Calls
    <3>1. <<>> \in Seq(R!Row) /\ {} \in RowSets
      BY DEF RowSets
    <3> QED
      BY <1>1, <3>1 DEF Calls
  <2> QED
    BY <1>1, <2>1 DEF Commit, Rollback, Calls
<1>3. /\ file' \in Files /\ file'.tables = file.tables /\ file'.versions = file.versions
  BY CallFacts DEF Commit, Rollback, Files
<1>4. CallInv(k, c)'
  BY <1>1, <1>2 DEF CallInv
<1>5. tx' \in R!Data /\ writes' \in Nat
  BY <1>1, EmptyTyped, CallFacts
<1> QED
  BY <1>1, <1>2, <1>3, <1>4, <1>5, Alone, StepInv

-----------------------------------------------------------------------------
(* The theorems *)

LEMMA InitInv == ASSUME Init PROVE IndInv
<1>1. TypeOK
  BY SqliteAssumption, EmptyTyped DEF Init, TypeOK, Files
<1> QED
  BY <1>1, SqliteAssumption
  DEF Init, IndInv, SchemaReady, Migrated, ConnectionInUse, CallInv, Idle, Statement

LEMMA NextInv == ASSUME IndInv, [Next]_vars PROVE IndInv'
<1>1. CASE UNCHANGED vars
  BY <1>1
  DEF vars, IndInv, TypeOK, SchemaReady, Migrated, ConnectionInUse, CallInv, Finished,
      R!Result, R!Effect
<1>2. CASE Open \/ OpenFails \/ Migrate \/ Close \/ Checkpoint
  BY <1>2, OpenInv
<1>3. CASE Crash \/ PowerFailure
  BY <1>3, StopsInv
<1>4. ASSUME NEW k \in Keys, Invoke(k) \/ ConnectFails(k) \/ Begin(k) \/ Work(k)
      PROVE  IndInv'
  BY <1>4, OutsideInv, QueryInv, BeginInv, ReadInv, ExecBarInv, ExecIntervalInv, EndInv
  DEF Begin, Work
<1> QED
  BY <1>1, <1>2, <1>3, <1>4 DEF Next

THEOREM InvariantHolds == Spec => []IndInv
<1>1. Init => IndInv
  BY InitInv
<1>2. IndInv /\ [Next]_vars => IndInv'
  BY NextInv
<1> QED
  BY <1>1, <1>2, PTL DEF Spec

\* Every state has the types it should (the variables of sqlitestore.go's calls,
\* its one connection and its file).
THEOREM TypeCorrect == Spec => []TypeOK
<1>1. IndInv => TypeOK
  BY DEF IndInv
<1> QED
  BY <1>1, InvariantHolds, PTL

\* An open database has its tables and one version, wherever earlier migrations
\* were interrupted (sqlitestore.go:50-71).
THEOREM SchemaIsReady == Spec => []SchemaReady
<1>1. IndInv => SchemaReady
  BY DEF IndInv
<1> QED
  BY <1>1, InvariantHolds, PTL

\* The one connection is free or with a call that has yet to give it back
\* (sqlitestore.go:32): no path of a call ends with the connection.
THEOREM ConnectionGivenBack == Spec => []ConnectionInUse
<1>1. IndInv => ConnectionInUse
  BY DEF IndInv
<1> QED
  BY <1>1, InvariantHolds, PTL

-----------------------------------------------------------------------------
(* The refinement *)

\* How a change of one call looks to the callers.
LEMMA ViewChange ==
  ASSUME TypeOK, NEW k \in Keys, NEW c, Becomes(k, c)
  PROVE  callMap' = [callMap EXCEPT ![k] = View(c)] /\ callMap[k] = View(call[k])
BY DEF TypeOK, Becomes, callMap

LEMMA IdleView == View(Idle) = R!Idle
BY DEF View, Status, Idle, R!Idle

LEMMA InitMaps == ASSUME Init PROVE R!Init
BY DEF Init, R!Init, callMap, View, Status, Idle, R!Idle

LEMMA SystemMaps ==
  ASSUME IndInv,
         Open \/ OpenFails \/ Migrate \/ Close \/ Checkpoint \/ Crash \/ PowerFailure
  PROVE  [R!Next]_(R!rvars)
<1>1. CASE Open \/ OpenFails \/ Close
  BY <1>1 DEF Open, OpenFails, Close, R!rvars, callMap
<1>2. CASE Migrate
  <2>1. file'.data = file.data /\ UNCHANGED <<durable, call>>
    BY <1>2, CallFacts DEF IndInv, TypeOK, Migrate, RunStatement, Files
  <2> QED
    BY <2>1 DEF R!rvars, callMap
<1>3. CASE Checkpoint
  BY <1>3 DEF Checkpoint, R!Next, R!Save, callMap
<1>4. CASE Crash \/ PowerFailure
  <2>1. callMap' = [k \in Keys |-> R!Idle]
    BY <1>4, IdleView DEF Crash, PowerFailure, Stops, callMap
  <2> QED
    BY <1>4, <2>1 DEF Crash, PowerFailure, R!Next, R!Crash, R!PowerFailure
<1> QED
  BY <1>1, <1>2, <1>3, <1>4

\* The steps at which a call begins, takes effect, fails or returns.
LEMMA CallMaps ==
  ASSUME IndInv, NEW k \in Keys,
         \/ Invoke(k) \/ PutNothing(k) \/ ConnectFails(k)
         \/ RowsEnd(k) \/ ScanFails(k) \/ RowsBreakOff(k)
         \/ Commit(k) \/ Rollback(k) \/ Return(k)
  PROVE  R!Next
<1>1. call[k] \in Calls /\ CallInv(k, call[k]) /\ file \in Files /\ TypeOK
  BY CallFacts DEF IndInv
<1>2. CASE Invoke(k)
  <2>1. PICK op \in R!Ops : Becomes(k, [call[k] EXCEPT !.pc = "wait", !.op = op])
    BY <1>2 DEF Invoke
  <2>2. call[k] = Idle /\ UNCHANGED <<file, durable>>
    BY <1>1, <1>2 DEF Invoke, CallInv
  <2>3. PICK c : c = [call[k] EXCEPT !.pc = "wait", !.op = op]
    OBVIOUS
  <2>4. View(c) = [st |-> "called", op |-> op, result |-> {}]
    BY <2>2, <2>3 DEF View, Status, Idle
  <2>5. callMap' = [callMap EXCEPT ![k] = View(c)] /\ callMap[k] = R!Idle
    BY <1>1, <2>1, <2>2, <2>3, ViewChange, IdleView
  <2>6. R!Invoke(k)
    <3>1. callMap[k].st = "idle"
      BY <2>5 DEF R!Idle
    <3>2. R!Becomes(k, "called", op, {})
      BY <2>4, <2>5 DEF R!Becomes
    <3>3. file.data' = file.data /\ durable.data' = durable.data
      BY <2>2
    <3> QED
      BY <3>1, <3>2, <3>3 DEF R!Invoke
  <2> QED
    BY <2>6 DEF R!Next
<1>3. CASE PutNothing(k) \/ RowsEnd(k) \/ Commit(k)
  <2>1. PICK c : /\ Becomes(k, c) /\ c.pc = "ok" /\ c.op = call[k].op /\ c.out = call[k].out
                 /\ call[k].pc \in {"wait", "reading", "exec"} /\ durable' = durable
    BY <1>1, <1>3 DEF PutNothing, RowsEnd, Commit, Calls
  <2>2. /\ View(c) = [st |-> "ok", op |-> call[k].op, result |-> c.out]
        /\ View(call[k]) = [st |-> "called", op |-> call[k].op, result |-> {}]
    BY <2>1 DEF View, Status
  <2>3. callMap' = [callMap EXCEPT ![k] = View(c)] /\ callMap[k] = View(call[k])
    BY <1>1, <2>1, ViewChange
  <2>4. call[k].op \in R!Ops /\ file.data \in R!Data
    BY <1>1, <2>1, CallFacts DEF CallInv
  <2>5. file'.data = R!Effect(k, call[k].op) /\ c.out = R!Result(k, call[k].op)
    <3>1. CASE PutNothing(k)
      <4>1. call[k].op.name = "PutBars" /\ call[k].op.batch = <<>> /\ file' = file
        BY <3>1 DEF PutNothing, R!Nothing
      <4>2. R!Upsert(file.data.bars[k], <<>>) = file.data.bars[k]
        BY <2>4, PutTyped, UpsertNothing
      <4>3. [file.data.bars EXCEPT ![k] = file.data.bars[k]] = file.data.bars
        BY <2>4 DEF R!Data
      <4>4. file.data = [bars |-> file.data.bars, intervals |-> file.data.intervals]
        BY <2>4 DEF R!Data
      <4>5. R!Effect(k, call[k].op) = [file.data EXCEPT !.bars = file.data.bars]
        BY <4>1, <4>2, <4>3 DEF R!Effect
      <4>6. c.out = {} /\ R!Result(k, call[k].op) = {}
        BY <1>1, <2>1, <3>1, <4>1 DEF PutNothing, CallInv, R!Result
      <4> QED
        BY <4>1, <4>4, <4>5, <4>6
    <3>2. CASE RowsEnd(k)
      <4>1. c.out = R!Result(k, call[k].op) /\ file' = file /\ ~Writes(call[k].op)
        BY <1>1, <2>1, <3>2 DEF RowsEnd, CallInv
      <4> QED
        BY <4>1 DEF R!Effect, Writes
    <3>3. CASE Commit(k)
      <4>1. /\ call[k].pc = "exec" /\ call[k].rows = <<>> /\ call[k].left = {}
            /\ file'.data = tx
        BY <1>1, <3>3 DEF Commit, Files
      <4>2. Writes(call[k].op) /\ c.out = {}
        BY <1>1, <2>1, <4>1 DEF CallInv
      <4>3. R!Result(k, call[k].op) = {}
        BY <4>2 DEF Writes, R!Result
      <4> QED
        BY <4>1, <4>2, <4>3, Executed
    <3> QED
      BY <1>3, <3>1, <3>2, <3>3
  <2>6. R!Do(k)
    BY <2>1, <2>2, <2>3, <2>5 DEF R!Do, R!Becomes
  <2> QED
    BY <2>6 DEF R!Next
<1>4. CASE ConnectFails(k) \/ ScanFails(k) \/ RowsBreakOff(k) \/ Rollback(k)
  <2>1. PICK c : /\ Becomes(k, c) /\ c.pc = "failed" /\ c.op = call[k].op
                 /\ c.out = {} \/ (RowsBreakOff(k) /\ c.out = call[k].out)
                 /\ call[k].pc \in {"wait", "reading", "exec"} /\ UNCHANGED <<file, durable>>
    <3>1. CASE ConnectFails(k)
      BY <1>1, <3>1 DEF ConnectFails, CallInv, Calls
    <3>2. CASE ScanFails(k)
      BY <1>1, <3>2 DEF ScanFails, Calls
    <3>3. CASE RowsBreakOff(k)
      BY <1>1, <3>3 DEF RowsBreakOff, Calls
    <3>4. CASE Rollback(k)
      BY <1>1, <3>4 DEF Rollback, CallInv, Calls
    <3> QED
      BY <1>4, <3>1, <3>2, <3>3, <3>4
  <2>2. /\ View(c) = [st |-> "failed", op |-> call[k].op, result |-> c.out]
        /\ View(call[k]) = [st |-> "called", op |-> call[k].op, result |-> {}]
    BY <2>1 DEF View, Status
  <2>3. callMap' = [callMap EXCEPT ![k] = View(c)] /\ callMap[k] = View(call[k])
    BY <1>1, <2>1, ViewChange
  <2>4. ~R!Nothing(call[k].op)
    BY <1>1, <1>4 DEF ConnectFails, ScanFails, RowsBreakOff, Rollback, CallInv
  <2>5. c.out \in R!Parts(call[k].op, R!Result(k, call[k].op))
    <3>1. CASE c.out = {}
      BY <3>1 DEF R!Parts
    <3>2. CASE RowsBreakOff(k) /\ c.out = call[k].out
      <4>1. /\ call[k].out \cup call[k].left = R!Result(k, call[k].op)
            /\ InOrder(call[k])
        BY <1>1, <3>2 DEF RowsBreakOff, CallInv
      <4>2. ASSUME call[k].op.name = "Bars",
                   NEW r \in c.out, NEW s \in R!Result(k, call[k].op), s.T < r.T
            PROVE  s \in c.out
        <5>1. r.T \in Nat /\ s.T \in Nat
          BY <3>2, <4>1, <4>2, SqliteAssumption
          DEF R!WellFormed, R!Result, R!InWindow, R!Row
        <5>2. s \in call[k].left => r.T <= s.T
          BY <3>2, <4>1, <4>2 DEF InOrder
        <5> QED
          BY <3>2, <4>1, <4>2, <5>1, <5>2
      <4> QED
        BY <3>2, <4>1, <4>2 DEF R!Parts
    <3> QED
      BY <2>1, <3>1, <3>2
  <2>6. R!Fail(k)
    <3>1. callMap[k].st = "called" /\ callMap[k].op = call[k].op
      BY <2>2, <2>3
    <3>2. R!Becomes(k, "failed", call[k].op, c.out)
      BY <2>2, <2>3 DEF R!Becomes
    <3>3. file.data' = file.data /\ durable.data' = durable.data
      BY <2>1
    <3> QED
      BY <2>4, <2>5, <3>1, <3>2, <3>3 DEF R!Fail
  <2> QED
    BY <2>6 DEF R!Next
<1>5. CASE Return(k)
  <2>1. Becomes(k, Idle) /\ call[k].pc \in {"ok", "failed"} /\ UNCHANGED <<file, durable>>
    BY <1>5 DEF Return
  <2>2. callMap' = [callMap EXCEPT ![k] = View(Idle)] /\ callMap[k] = View(call[k])
    BY <1>1, <2>1, ViewChange
  <2>3. View(call[k]).st \in {"ok", "failed"}
    BY <2>1 DEF View, Status
  <2> QED
    BY <2>1, <2>2, <2>3, IdleView DEF R!Return, R!Next
<1> QED
  BY <1>2, <1>3, <1>4, <1>5

\* The steps that no caller sees.
LEMMA HiddenMaps ==
  ASSUME IndInv, NEW k \in Keys, Begin(k) \/ NextRow(k) \/ ExecBar(k) \/ ExecInterval(k)
  PROVE  UNCHANGED R!rvars
<1>1. call[k] \in Calls /\ UNCHANGED <<file, durable>> /\ TypeOK
  BY CallFacts
  DEF IndInv, Begin, Query, BeginPutBars, BeginPutIntervals, NextRow, ExecBar, ExecInterval
<1>2. PICK c : /\ Becomes(k, c) /\ c.op = call[k].op
               /\ c.pc \in {"reading", "exec"} /\ call[k].pc \in {"wait", "reading", "exec"}
  <2>1. CASE Begin(k)
    BY <1>1, <2>1 DEF Begin, Query, BeginPutBars, BeginPutIntervals, Connect, Calls
  <2>2. CASE NextRow(k)
    <3>1. PICK r \in call[k].left :
            Becomes(k, [call[k] EXCEPT !.left = @ \ {r}, !.out = @ \cup {r}])
      BY <2>2 DEF NextRow
    <3> QED
      BY <1>1, <2>2, <3>1 DEF NextRow, Calls
  <2>3. CASE ExecBar(k)
    BY <1>1, <2>3 DEF ExecBar, Calls
  <2>4. CASE ExecInterval(k)
    <3>1. PICK iv : Becomes(k, [call[k] EXCEPT !.left = @ \ {iv}])
      BY <2>4 DEF ExecInterval
    <3> QED
      BY <1>1, <2>4, <3>1 DEF ExecInterval, Calls
  <2> QED
    BY <2>1, <2>2, <2>3, <2>4
<1>3. View(c) = View(call[k])
  BY <1>2 DEF View, Status
<1>4. callMap' = callMap
  BY <1>1, <1>2, <1>3, ViewChange DEF callMap
<1> QED
  BY <1>1, <1>4 DEF R!rvars

\* For any keys, bars, batches, sets of intervals and windows: what callers of the
\* SQLite backend see, through failures, restarts and power failures, is what a
\* Repository promises (repository.go:10-12).
THEOREM Implements == Spec => ImplementsRepository
<1>1. Init => R!Init
  BY InitMaps
<1>2. IndInv /\ [Next]_vars => [R!Next]_(R!rvars)
  <2> SUFFICES ASSUME IndInv, [Next]_vars PROVE [R!Next]_(R!rvars)
    OBVIOUS
  <2>1. CASE UNCHANGED vars
    BY <2>1 DEF vars, R!rvars, callMap
  <2>2. CASE Open \/ OpenFails \/ Migrate \/ Close \/ Checkpoint \/ Crash \/ PowerFailure
    BY <2>2, SystemMaps
  <2>3. ASSUME NEW k \in Keys, Invoke(k) \/ ConnectFails(k) \/ Begin(k) \/ Work(k)
        PROVE  [R!Next]_(R!rvars)
    BY <2>3, CallMaps, HiddenMaps DEF Work
  <2> QED
    BY <2>1, <2>2, <2>3 DEF Next
<1> QED
  BY <1>1, <1>2, InvariantHolds, PTL DEF Spec, ImplementsRepository, R!Spec

-----------------------------------------------------------------------------
(* The memory repository *)

\* A slice holds the rows of a table, each start once.
Agrees(s, b) ==
  /\ s \in Seq(R!Row)
  /\ \A i, j \in DOMAIN s : s[i].T = s[j].T => i = j
  /\ \A r \in R!Row : b[r.T] = r.V <=> \E i \in DOMAIN s : s[i] = r

\* The merged slice follows the transaction of the call that makes it.
InStep(k) ==
  call[k].pc = "exec" /\ call[k].op.name = "PutBars" => Agrees(merged, tx.bars[k])

MemInv ==
  /\ mem \in [Keys -> Seq(R!Row)] /\ memSaved \in [Keys -> Seq(R!Row)]
  /\ \A k \in Keys : Agrees(mem[k], file.data.bars[k]) /\ Ascending(mem[k])
  /\ \A k \in Keys : Agrees(memSaved[k], durable.data.bars[k]) /\ Ascending(memSaved[k])
  /\ \A k \in Keys : InStep(k)

LEMMA SameRow ==
  ASSUME NEW q \in R!Row, NEW r \in R!Row, q.T = r.T, q.V = r.V
  PROVE  q = r
BY DEF R!Row

\* Replacing the bar with a row's start, or appending the row, is the upsert.
LEMMA PutBarAgrees ==
  ASSUME NEW b \in Bars, NEW s, Agrees(s, b), NEW r \in R!Row
  PROVE  Agrees(PutBar(s, r), [b EXCEPT ![r.T] = r.V])
<1>1. /\ s \in Seq(R!Row) /\ r.T \in Times /\ r.V \in Values
      /\ \A i, j \in DOMAIN s : s[i].T = s[j].T => i = j
      /\ \A q \in R!Row : b[q.T] = q.V <=> \E i \in DOMAIN s : s[i] = q
  BY DEF Agrees, R!Row
<1>2. PICK n \in Nat : n = Len(s) /\ DOMAIN s = 1 .. n /\ s \in [1 .. n -> R!Row]
  BY <1>1
<1>3. PICK c : c = [b EXCEPT ![r.T] = r.V]
  OBVIOUS
<1>4. \A q \in R!Row : c[q.T] = q.V <=> IF q.T = r.T THEN q = r ELSE b[q.T] = q.V
  <2> SUFFICES ASSUME NEW q \in R!Row
               PROVE  c[q.T] = q.V <=> IF q.T = r.T THEN q = r ELSE b[q.T] = q.V
    OBVIOUS
  <2>1. q.T \in Times /\ q.V \in Values
    BY DEF R!Row
  <2>2. CASE q.T = r.T
    BY <1>1, <1>3, <2>1, <2>2, SameRow DEF Bars
  <2>3. CASE q.T # r.T
    BY <1>1, <1>3, <2>1, <2>3 DEF Bars
  <2> QED
    BY <2>2, <2>3
<1>5. CASE \E i \in DOMAIN s : s[i].T = r.T
  <2>1. PICK i \in 1 .. n :
          i = (CHOOSE x \in DOMAIN s : s[x].T = r.T) /\ s[i].T = r.T
    BY <1>2, <1>5
  <2>2. PICK t : t = [s EXCEPT ![i] = r]
    OBVIOUS
  <2>3. PutBar(s, r) = t
    BY <1>5, <2>1, <2>2 DEF PutBar
  <2>4. /\ t \in [1 .. n -> R!Row] /\ DOMAIN t = 1 .. n /\ t[i] = r
        /\ \A j \in 1 .. n : j # i => t[j] = s[j]
    BY <1>2, <2>1, <2>2
  <2>5. t \in Seq(R!Row)
    BY <1>2, <2>4
  <2>6. \A x, y \in DOMAIN t : t[x].T = t[y].T => x = y
    BY <1>1, <1>2, <2>1, <2>4
  <2>7. ASSUME NEW q \in R!Row PROVE c[q.T] = q.V <=> \E x \in DOMAIN t : t[x] = q
    <3>1. CASE q.T = r.T
      <4>1. \A x \in 1 .. n : t[x] = q => q = r
        BY <1>1, <1>2, <2>1, <2>4, <3>1
      <4> QED
        BY <1>4, <2>4, <3>1, <4>1
    <3>2. CASE q.T # r.T
      <4>1. \A x \in 1 .. n : t[x] = q <=> s[x] = q
        BY <2>1, <2>4, <3>2
      <4> QED
        BY <1>1, <1>2, <1>4, <2>4, <3>2, <4>1
    <3> QED
      BY <3>1, <3>2
  <2>8. Agrees(t, c)
    BY <2>5, <2>6, <2>7 DEF Agrees
  <2> QED
    BY <1>3, <2>3, <2>8
<1>6. CASE ~\E i \in DOMAIN s : s[i].T = r.T
  <2>1. PICK t : t = Append(s, r)
    OBVIOUS
  <2>2. PutBar(s, r) = t
    BY <1>6, <2>1 DEF PutBar
  <2>3. /\ t \in Seq(R!Row) /\ DOMAIN t = 1 .. n + 1 /\ t[n + 1] = r
        /\ \A x \in 1 .. n : t[x] = s[x] /\ x # n + 1
    BY <1>1, <1>2, <2>1
  <2>4. \A x \in DOMAIN t : x = n + 1 \/ x \in 1 .. n
    BY <1>2, <2>3
  <2>5. \A x, y \in DOMAIN t : t[x].T = t[y].T => x = y
    <3> SUFFICES ASSUME NEW x \in DOMAIN t, NEW y \in DOMAIN t, t[x].T = t[y].T PROVE x = y
      OBVIOUS
    <3>1. CASE x \in 1 .. n /\ y \in 1 .. n
      BY <1>1, <1>2, <2>3, <3>1
    <3>2. CASE x = n + 1 \/ y = n + 1
      BY <1>2, <1>6, <2>3, <2>4, <3>2
    <3> QED
      BY <2>4, <3>1, <3>2
  <2>6. ASSUME NEW q \in R!Row PROVE c[q.T] = q.V <=> \E x \in DOMAIN t : t[x] = q
    <3>1. n + 1 \in DOMAIN t /\ \A x \in 1 .. n : x \in DOMAIN t
      BY <1>2, <2>3
    <3>2. CASE q.T = r.T
      <4>1. \A x \in DOMAIN t : t[x] = q => q = r
        BY <1>2, <1>6, <2>3, <2>4, <3>2
      <4> QED
        BY <1>4, <2>3, <3>1, <3>2, <4>1
    <3>3. CASE q.T # r.T
      <4>1. (\E x \in DOMAIN t : t[x] = q) <=> \E x \in 1 .. n : s[x] = q
        BY <2>3, <2>4, <3>1, <3>3
      <4> QED
        BY <1>1, <1>2, <1>4, <3>3, <4>1
    <3> QED
      BY <3>2, <3>3
  <2>7. Agrees(t, c)
    BY <2>3, <2>5, <2>6 DEF Agrees
  <2> QED
    BY <1>3, <2>2, <2>7
<1> QED
  BY <1>5, <1>6

\* Sorting moves the bars of a slice: however it does so, with each start once
\* they end up ascending.
LEMMA ResortedAgrees ==
  ASSUME NEW s, NEW b, Agrees(s, b), NEW t \in Resorted(s)
  PROVE  Agrees(t, b) /\ Ascending(t)
<1>1. /\ s \in Seq(R!Row)
      /\ \A i, j \in DOMAIN s : s[i].T = s[j].T => i = j
      /\ \A q \in R!Row : b[q.T] = q.V <=> \E i \in DOMAIN s : s[i] = q
  BY DEF Agrees
<1>2. PICK n \in Nat : n = Len(s) /\ DOMAIN s = 1 .. n /\ s \in [1 .. n -> R!Row]
  BY <1>1
<1>3. PICK p \in Funs!Bijection(1 .. n, 1 .. n) : t = [i \in 1 .. n |-> s[p[i]]]
  BY <1>2 DEF Resorted, Reordered
<1>4. /\ p \in [1 .. n -> 1 .. n]
      /\ \A i, j \in 1 .. n : p[i] = p[j] => i = j
      /\ \A j \in 1 .. n : \E i \in 1 .. n : p[i] = j
  BY <1>3 DEF Funs!Bijection, Funs!Injection, Funs!Surjection, Funs!IsInjective
<1>5. /\ t \in [1 .. n -> R!Row] /\ DOMAIN t = 1 .. n
      /\ \A i \in 1 .. n : t[i] = s[p[i]] /\ p[i] \in 1 .. n
  BY <1>2, <1>3, <1>4
<1>6. t \in Seq(R!Row)
  BY <1>2, <1>5
<1>7. \A i, j \in DOMAIN t : t[i].T = t[j].T => i = j
  <2> SUFFICES ASSUME NEW i \in 1 .. n, NEW j \in 1 .. n, t[i].T = t[j].T PROVE i = j
    BY <1>5
  <2>1. p[i] \in 1 .. n /\ p[j] \in 1 .. n /\ s[p[i]].T = s[p[j]].T
    BY <1>5
  <2>2. p[i] = p[j]
    BY <1>1, <1>2, <2>1
  <2> QED
    BY <1>4, <2>2
<1>8. \A q : (\E i \in DOMAIN t : t[i] = q) <=> \E i \in DOMAIN s : s[i] = q
  BY <1>2, <1>4, <1>5
<1>9. Agrees(t, b)
  BY <1>1, <1>6, <1>7, <1>8 DEF Agrees
<1>10. Ascending(t)
  <2>1. \A i, j \in DOMAIN t : i < j => ~(t[j].T < t[i].T)
    BY DEF Resorted, ByT
  <2> SUFFICES ASSUME NEW i \in DOMAIN t, NEW j \in DOMAIN t, i < j PROVE t[i].T < t[j].T
    BY DEF Ascending, ByT
  <2>2. t[i].T \in Nat /\ t[j].T \in Nat
    BY <1>5, SqliteAssumption DEF R!WellFormed, R!Row
  <2>3. t[i].T # t[j].T
    BY <1>2, <1>5, <1>7
  <2> QED
    BY <2>1, <2>2, <2>3
<1> QED
  BY <1>9, <1>10

\* In an ascending slice the first bar after the window ends all that the read is
\* to return.
LEMMA ReadAgrees ==
  ASSUME NEW s, NEW b, Agrees(s, b), Ascending(s), NEW w \in AnyWindow
  PROVE  {s[i] : i \in MemBars(s, w)} = R!InWindow(b, w)
<1>1. /\ s \in Seq(R!Row) /\ w.Start \in Nat /\ w.End \in Nat
      /\ \A q \in R!Row : b[q.T] = q.V <=> \E i \in DOMAIN s : s[i] = q
  BY SqliteAssumption DEF Agrees, AnyWindow, R!WellFormed
<1>2. PICK n \in Nat : DOMAIN s = 1 .. n /\ s \in [1 .. n -> R!Row]
  BY <1>1
<1>3. \A i \in 1 .. n : s[i] \in R!Row /\ s[i].T \in Nat
  BY <1>2, SqliteAssumption DEF R!WellFormed, R!Row
<1>4. ASSUME NEW i \in MemBars(s, w) PROVE s[i] \in R!InWindow(b, w)
  <2>1. /\ i \in 1 .. n /\ s[i].T >= w.Start
        /\ \A j \in 1 .. i : s[j].T < w.Start \/ s[j].T <= w.End
    BY <1>2 DEF MemBars
  <2>2. s[i].T <= w.End
    BY <1>1, <1>3, <2>1
  <2>3. b[s[i].T] = s[i].V
    BY <1>1, <1>2, <1>3, <2>1
  <2> QED
    BY <1>1, <1>3, <2>1, <2>2, <2>3 DEF R!InWindow
<1>5. ASSUME NEW r \in R!InWindow(b, w) PROVE \E i \in MemBars(s, w) : s[i] = r
  <2>1. r \in R!Row /\ w.Start <= r.T /\ r.T <= w.End /\ b[r.T] = r.V
    BY DEF R!InWindow
  <2>2. PICK i \in 1 .. n : s[i] = r
    BY <1>1, <1>2, <2>1
  <2>3. ASSUME NEW j \in 1 .. i PROVE s[j].T <= w.End
    <3>1. j \in 1 .. n /\ (j < i \/ j = i)
      BY <1>2, <2>2
    <3>2. s[j].T < s[i].T \/ j = i
      BY <1>2, <2>2, <3>1 DEF Ascending, ByT
    <3> QED
      BY <1>1, <1>3, <2>1, <2>2, <3>1, <3>2
  <2>4. i \in MemBars(s, w)
    BY <1>1, <1>2, <1>3, <2>1, <2>2, <2>3 DEF MemBars
  <2> QED
    BY <2>2, <2>4
<1> QED
  BY <1>4, <1>5

\* The invariant after a step that is given what it makes of the slices.
LEMMA Kept ==
  ASSUME MemInv,
         UNCHANGED <<mem, memSaved>>, UNCHANGED <<file.data, durable.data>>,
         \A k \in Keys : InStep(k)'
  PROVE  MemInv'
BY DEF MemInv

\* Nobody but the call that has the connection is in the middle of a write.
LEMMA OthersInStep ==
  ASSUME IndInv, NEW k \in Keys, NEW c, Becomes(k, c),
         call[k].pc \in {"reading", "exec"} \/ conn = NoKey,
         NEW q \in Keys \ {k}
  PROVE  InStep(q)'
<1>1. call'[q] = call[q]
  BY DEF Becomes, IndInv, TypeOK
<1>2. call[q].pc # "exec"
  BY Alone
<1> QED
  BY <1>1, <1>2 DEF InStep

LEMMA SystemKeeps ==
  ASSUME IndInv, MemInv, Open \/ OpenFails \/ Migrate \/ Close,
         UNCHANGED <<mem, merged, memSaved>>
  PROVE  MemInv'
<1>1. UNCHANGED <<tx, call, durable>> /\ file'.data = file.data
  <2>1. CASE Open \/ OpenFails \/ Close
    BY <2>1 DEF Open, OpenFails, Close
  <2>2. CASE Migrate
    <3>1. file \in Files /\ file' = RunStatement(db, file) /\ UNCHANGED <<tx, call, durable>>
      BY <2>2 DEF Migrate, IndInv, TypeOK
    <3> QED
      BY <3>1 DEF RunStatement, Files
  <2> QED
    BY <2>1, <2>2
<1>2. \A k \in Keys : InStep(k)'
  BY <1>1 DEF MemInv, InStep
<1> QED
  BY <1>1, <1>2, Kept

LEMMA MachineKeeps ==
  ASSUME MemInv,
         \/ Checkpoint /\ memSaved' = mem /\ UNCHANGED <<mem, merged>>
         \/ PowerFailure /\ mem' = memSaved /\ merged' = <<>> /\ UNCHANGED memSaved
         \/ Crash /\ merged' = <<>> /\ UNCHANGED <<mem, memSaved>>
  PROVE  MemInv'
<1>1. CASE Checkpoint /\ memSaved' = mem /\ UNCHANGED <<mem, merged>>
  <2>1. durable' = file /\ UNCHANGED <<file, tx, call>>
    BY <1>1 DEF Checkpoint
  <2>2. \A k \in Keys : InStep(k)'
    BY <1>1, <2>1 DEF MemInv, InStep
  <2> QED
    BY <1>1, <2>1, <2>2 DEF MemInv
<1>2. CASE \/ PowerFailure /\ mem' = memSaved /\ merged' = <<>> /\ UNCHANGED memSaved
           \/ Crash /\ merged' = <<>> /\ UNCHANGED <<mem, memSaved>>
  <2>1. \A k \in Keys : InStep(k)'
    BY <1>2 DEF PowerFailure, Crash, Stops, Idle, InStep
  <2>2. CASE PowerFailure /\ mem' = memSaved /\ UNCHANGED memSaved
    BY <2>1, <2>2 DEF PowerFailure, MemInv
  <2>3. CASE Crash /\ UNCHANGED <<mem, memSaved>>
    BY <2>1, <2>3 DEF Crash, MemInv
  <2> QED
    BY <1>2, <2>2, <2>3
<1> QED
  BY <1>1, <1>2

LEMMA BeginKeeps ==
  ASSUME IndInv, MemInv, NEW k \in Keys, MemBegin(k)
  PROVE  MemInv'
<1>1. /\ BeginPutBars(k) /\ merged' = mem[k] /\ UNCHANGED <<mem, memSaved>>
      /\ conn = NoKey /\ tx' = file.data /\ UNCHANGED <<file, durable>>
  BY DEF MemBegin, BeginPutBars, Connect
<1>2. PICK c : Becomes(k, c)
  BY <1>1 DEF BeginPutBars
<1>3. InStep(k)'
  BY <1>1 DEF InStep, MemInv
<1>4. \A q \in Keys \ {k} : InStep(q)'
  BY <1>1, <1>2, OthersInStep
<1> QED
  BY <1>1, <1>3, <1>4, Kept

LEMMA UpsertKeeps ==
  ASSUME IndInv, MemInv, NEW k \in Keys, MemUpsert(k)
  PROVE  MemInv'
<1>1. PICK r : r = Head(call[k].rows)
  OBVIOUS
<1>2. /\ merged' = PutBar(merged, r) /\ UNCHANGED <<mem, memSaved, file, durable>>
      /\ call[k].pc = "exec" /\ call[k].rows # <<>> /\ tx' = [tx EXCEPT !.bars[k][r.T] = r.V]
      /\ Becomes(k, [call[k] EXCEPT !.rows = Tail(@)])
  BY <1>1 DEF MemUpsert, ExecBar
<1>3. r \in R!Row
  BY <1>1, <1>2, CallFacts, HeadTailProperties DEF Calls
<1>4. PICK c : c = [call[k] EXCEPT !.rows = Tail(@)]
  OBVIOUS
<1>5. c.op = call[k].op /\ call'[k] = c
  BY <1>2, <1>4, CallFacts DEF Calls, Becomes, IndInv, TypeOK
<1>6. tx'.bars[k] = [tx.bars[k] EXCEPT ![r.T] = r.V] /\ tx.bars[k] \in Bars
  BY <1>2, CallFacts, PutTyped DEF R!Data
<1>7. InStep(k)'
  <2> SUFFICES ASSUME call[k].op.name = "PutBars" PROVE Agrees(merged', tx'.bars[k])
    BY <1>5 DEF InStep
  <2>1. Agrees(merged, tx.bars[k])
    BY <1>2 DEF MemInv, InStep
  <2> QED
    BY <1>2, <1>3, <1>6, <2>1, PutBarAgrees
<1>8. \A q \in Keys \ {k} : InStep(q)'
  BY <1>2, OthersInStep
<1> QED
  BY <1>2, <1>7, <1>8, Kept

LEMMA StoreKeeps ==
  ASSUME IndInv, MemInv, NEW k \in Keys, MemStore(k)
  PROVE  MemInv'
<1>1. /\ Commit(k) /\ call[k].op.name = "PutBars" /\ memSaved' = memSaved
      /\ call[k].pc = "exec" /\ call[k].rows = <<>> /\ call[k].left = {}
      /\ durable' = durable
  BY DEF MemStore, Commit
<1>2. PICK s \in Resorted(merged) : mem' = [mem EXCEPT ![k] = s]
  BY DEF MemStore
<1>3. file'.data = tx
  BY <1>1, CallFacts DEF Commit, Files
<1>4. Agrees(s, tx.bars[k]) /\ Ascending(s) /\ s \in Seq(R!Row)
  <2>1. Agrees(merged, tx.bars[k])
    BY <1>1 DEF MemInv, InStep
  <2>2. Agrees(s, tx.bars[k]) /\ Ascending(s)
    BY <2>1, ResortedAgrees
  <2> QED
    BY <2>2 DEF Agrees
<1>5. \A q \in Keys \ {k} : tx.bars[q] = file.data.bars[q]
  <2>1. tx = R!Effect(k, call[k].op)
    BY <1>1, Executed
  <2> QED
    BY <1>1, <2>1, CallFacts DEF R!Effect, R!Data
<1>6. \A q \in Keys : Agrees(mem'[q], file'.data.bars[q]) /\ Ascending(mem'[q])
  <2> SUFFICES ASSUME NEW q \in Keys
               PROVE  Agrees(mem'[q], file'.data.bars[q]) /\ Ascending(mem'[q])
    OBVIOUS
  <2>1. CASE q = k
    BY <1>2, <1>3, <1>4, <2>1 DEF MemInv
  <2>2. CASE q # k
    BY <1>2, <1>3, <1>5, <2>2 DEF MemInv
  <2> QED
    BY <2>1, <2>2
<1>7. mem' \in [Keys -> Seq(R!Row)]
  BY <1>2, <1>4 DEF MemInv
<1>8. \A q \in Keys : InStep(q)'
  <2>1. PICK c : c = [call[k] EXCEPT !.pc = "ok"]
    OBVIOUS
  <2>2. Becomes(k, c)
    BY <1>1, <2>1 DEF Commit
  <2>3. InStep(k)'
    BY <2>1, <2>2, CallFacts DEF Calls, Becomes, IndInv, TypeOK, InStep
  <2> QED
    BY <1>1, <2>2, <2>3, OthersInStep
<1> QED
  BY <1>1, <1>6, <1>7, <1>8 DEF MemInv

\* The steps of calls that change no bar of a transaction that is to be committed.
LEMMA CallKeeps ==
  ASSUME IndInv, MemInv, NEW k \in Keys,
         Invoke(k) \/ ConnectFails(k) \/ Begin(k) \/ Work(k),
         ~Puts(k), UNCHANGED <<mem, merged, memSaved>>
  PROVE  MemInv'
<1>1. call \in [Keys -> Calls] /\ call[k] \in Calls
  BY DEF IndInv, TypeOK
<1>2. CASE \/ Invoke(k) \/ ConnectFails(k) \/ PutNothing(k) \/ Return(k)
           \/ Query(k) \/ NextRow(k) \/ RowsEnd(k) \/ ScanFails(k) \/ RowsBreakOff(k)
  <2>1. PICK c : Becomes(k, c) /\ c.pc # "exec" /\ UNCHANGED <<tx, file, durable>>
    <3>1. CASE Invoke(k)
      <4>1. PICK op : Becomes(k, [call[k] EXCEPT !.pc = "wait", !.op = op])
        BY <3>1 DEF Invoke
      <4> QED
        BY <1>1, <3>1, <4>1 DEF Invoke, Calls
    <3>2. CASE NextRow(k)
      <4>1. PICK r : Becomes(k, [call[k] EXCEPT !.left = @ \ {r}, !.out = @ \cup {r}])
        BY <3>2 DEF NextRow
      <4> QED
        BY <1>1, <3>2, <4>1 DEF NextRow, Calls
    <3>3. CASE Return(k)
      BY <3>3 DEF Return, Idle
    <3>4. CASE \/ ConnectFails(k) \/ PutNothing(k) \/ Query(k)
               \/ RowsEnd(k) \/ ScanFails(k) \/ RowsBreakOff(k)
      BY <1>1, <3>4
      DEF ConnectFails, PutNothing, Query, RowsEnd, ScanFails, RowsBreakOff, Calls
    <3> QED
      BY <1>2, <3>1, <3>2, <3>3, <3>4
  <2>2. ASSUME NEW q \in Keys PROVE InStep(q)'
    <3>1. CASE q = k
      BY <1>1, <2>1, <3>1 DEF Becomes, InStep
    <3>2. CASE q # k
      BY <1>1, <2>1, <3>2 DEF Becomes, InStep, MemInv
    <3> QED
      BY <3>1, <3>2
  <2> QED
    BY <2>1, <2>2, Kept
<1>3. CASE BeginPutIntervals(k)
  <2>1. PICK c : c = [call[k] EXCEPT !.pc = "exec", !.left = call[k].op.set]
    OBVIOUS
  <2>2. /\ Becomes(k, c) /\ conn = NoKey /\ call[k].op.name = "PutIntervals"
        /\ UNCHANGED <<file, durable>>
    BY <1>3, <2>1, OpTypes, CallFacts DEF BeginPutIntervals, Connect, CallInv, Writes
  <2>3. InStep(k)'
    BY <1>1, <2>1, <2>2 DEF Becomes, Calls, InStep
  <2> QED
    BY <2>2, <2>3, OthersInStep, Kept
<1>4. CASE ExecInterval(k)
  <2>1. PICK iv : /\ tx' = [tx EXCEPT !.intervals[k] = @ \cup {iv}]
                  /\ Becomes(k, [call[k] EXCEPT !.left = @ \ {iv}])
    BY <1>4 DEF ExecInterval
  <2>2. tx'.bars = tx.bars /\ call[k].pc = "exec" /\ UNCHANGED <<file, durable>>
    BY <1>4, <2>1, CallFacts DEF ExecInterval, R!Data
  <2>3. InStep(k)'
    BY <1>1, <2>1, <2>2 DEF Becomes, Calls, InStep, MemInv
  <2> QED
    BY <2>1, <2>2, <2>3, OthersInStep, Kept
<1>5. CASE Rollback(k)
  <2>1. PICK c : c = [call[k] EXCEPT !.pc = "failed", !.rows = <<>>, !.left = {}]
    OBVIOUS
  <2>2. Becomes(k, c) /\ call[k].pc = "exec" /\ UNCHANGED <<file, durable>>
    BY <1>5, <2>1 DEF Rollback
  <2>3. InStep(k)'
    BY <1>1, <2>1, <2>2 DEF Becomes, Calls, InStep
  <2> QED
    BY <2>2, <2>3, OthersInStep, Kept
<1>6. CASE Commit(k)
  <2>1. PICK c : c = [call[k] EXCEPT !.pc = "ok"]
    OBVIOUS
  <2>2. /\ Becomes(k, c) /\ call[k].pc = "exec" /\ call[k].rows = <<>> /\ call[k].left = {}
        /\ file'.data = tx /\ durable' = durable /\ call[k].op.name # "PutBars"
    BY <1>6, <2>1, CallFacts DEF Commit, Puts, Files
  <2>3. InStep(k)'
    BY <1>1, <2>1, <2>2 DEF Becomes, Calls, InStep
  <2>4. \A q \in Keys : InStep(q)'
    BY <2>2, <2>3, OthersInStep
  <2>5. tx.bars = file.data.bars
    <3>1. tx = R!Effect(k, call[k].op)
      BY <2>2, Executed
    <3> QED
      BY <2>2, <3>1, CallFacts DEF R!Effect, R!Data
  <2> QED
    BY <2>2, <2>4, <2>5 DEF MemInv
<1> QED
  BY <1>2, <1>3, <1>4, <1>5, <1>6 DEF Begin, Work, Puts

LEMMA MCInitInv == ASSUME MCInit PROVE MemInv
<1>1. mem = [k \in Keys |-> <<>>] /\ memSaved = mem /\ Init
  BY DEF MCInit
<1>2. <<>> \in Seq(R!Row) /\ Ascending(<<>>) /\ DOMAIN <<>> = {}
  BY DEF Ascending
<1>3. ASSUME NEW k \in Keys PROVE Agrees(<<>>, R!Empty.bars[k])
  <2>1. \A r \in R!Row : r.T \in Times /\ r.V \in Values
    BY DEF R!Row
  <2>2. \A r \in R!Row : R!Empty.bars[k][r.T] # r.V
    BY <2>1, SqliteAssumption DEF R!Empty, R!WellFormed
  <2> QED
    BY <1>2, <2>2 DEF Agrees
<1>4. \A k \in Keys : InStep(k)
  BY <1>1 DEF Init, Idle, InStep
<1> QED
  BY <1>1, <1>2, <1>3, <1>4 DEF MemInv, Init

LEMMA MCNextInv == ASSUME IndInv, MemInv, [MCNext]_mcvars PROVE MemInv'
<1>1. CASE UNCHANGED mcvars
  BY <1>1 DEF mcvars, vars, MemInv, InStep
<1>2. CASE MCNext
  <2>1. ASSUME NEW k \in Keys, MemBegin(k) \/ MemUpsert(k) \/ MemStore(k) PROVE MemInv'
    BY <2>1, BeginKeeps, UpsertKeeps, StoreKeeps
  <2> QED
    BY <1>2, <2>1, MachineKeeps, SystemKeeps, CallKeeps DEF MCNext
<1> QED
  BY <1>1, <1>2

\* The memory repository only watches.
LEMMA MCNextSteps == ASSUME [MCNext]_mcvars PROVE [Next]_vars
<1>1. CASE UNCHANGED mcvars
  BY <1>1 DEF mcvars
<1>2. CASE MCNext
  BY <1>2 DEF MCNext, MemBegin, MemUpsert, MemStore, Next, Begin, Work
<1> QED
  BY <1>1, <1>2

LEMMA MCInvariantHolds == MCSpec => [](IndInv /\ MemInv)
<1>1. MCInit => IndInv /\ MemInv
  BY InitInv, MCInitInv DEF MCInit
<1>2. IndInv /\ MemInv /\ [MCNext]_mcvars => (IndInv /\ MemInv)'
  BY NextInv, MCNextSteps, MCNextInv
<1> QED
  BY <1>1, <1>2, PTL DEF MCSpec

\* The two backends are interchangeable: given the same writes, in any number and
\* with starts in any order and repeated, the slice that memory.go:50-73 merges and
\* sorts is ascending, and a read of any window returns from it, as far as the first
\* bar after the window, the rows that SQLite returns - whatever calls fail, and
\* wherever the process or the power does, for any keys, bars and batches.
THEOREM BackendsAgree == MCSpec => []MemoryAgrees
<1>1. MemInv => MemoryAgrees
  BY ReadAgrees DEF MemInv, MemoryAgrees
<1> QED
  BY <1>1, MCInvariantHolds, PTL

-----------------------------------------------------------------------------
(* mergeBars and clip *)

NoBars == [t \in Times |-> NoValue]

LEMMA Least ==
  ASSUME NEW S \in SUBSET Nat, S # {}
  PROVE  \E i \in S : \A j \in S : ~(j < i)
<1> DEFINE W == {ss \in Nat \X Nat : ss[1] < ss[2]}
<1>1. \A m, k \in Nat : m < k => <<m, k>> \in W
  OBVIOUS
<1>2. IsWellFoundedOn(W, Nat)
  BY LessWellFounded
<1>3. PICK i \in S : \A j \in S : ~(<<j, i>> \in W)
  <2> HIDE DEF W
  <2> QED
    BY <1>2, WFMin
<1> QED
  BY <1>1, <1>3

\* One row after the others.
LEMMA UpsertAppend ==
  ASSUME NEW b \in Bars, NEW s \in Seq(R!Row), NEW r \in R!Row, NEW u \in Seq(R!Row),
         Len(u) = Len(s) + 1, u[Len(s) + 1] = r, \A i \in 1 .. Len(s) : u[i] = s[i]
  PROVE  R!Upsert(b, u) = [R!Upsert(b, s) EXCEPT ![r.T] = r.V]
<1>1. PICK n \in Nat : n = Len(s)
  OBVIOUS
<1>2. /\ Len(u) = n + 1 /\ u[n + 1] = r
      /\ \A i \in 1 .. n : u[i] = s[i]
      /\ \A i \in 1 .. n + 1 : i = n + 1 \/ i \in 1 .. n
  BY <1>1
<1>3. r.T \in Times /\ r.V \in Values
  BY DEF R!Row
<1>4. PICK c : c = R!Upsert(b, s)
  OBVIOUS
<1>5. c \in Bars
  BY <1>4, UpsertTyped
<1>6. ASSUME NEW t \in Times
      PROVE  R!Upsert(b, u)[t] = IF t = r.T THEN r.V ELSE c[t]
  <2>1. CASE t = r.T
    <3>1. IsLast(u, t, n + 1)
      BY <1>1, <1>2, <2>1 DEF IsLast
    <3>2. R!Upsert(b, u)[t] = u[n + 1].V
      BY <3>1, UpsertAt
    <3> QED
      BY <1>2, <2>1, <3>2
  <2>2. CASE t # r.T /\ \E i \in 1 .. n : s[i].T = t
    <3>1. PICK i : IsLast(s, t, i)
      BY <1>1, <2>2, LastRow
    <3>2. i \in 1 .. n + 1 /\ u[i] = s[i]
      BY <1>1, <1>2, <3>1 DEF IsLast
    <3>3. IsLast(u, t, i)
      BY <1>1, <1>2, <2>2, <3>1, <3>2 DEF IsLast
    <3>4. R!Upsert(b, u)[t] = u[i].V
      BY <3>3, UpsertAt
    <3>5. R!Upsert(b, s)[t] = s[i].V
      BY <3>1, UpsertAt
    <3> QED
      BY <1>4, <2>2, <3>2, <3>4, <3>5
  <2>3. CASE t # r.T /\ ~\E i \in 1 .. n : s[i].T = t
    <3>1. ~\E i \in 1 .. Len(u) : u[i].T = t
      BY <1>2, <2>3
    <3>2. R!Upsert(b, u)[t] = b[t] /\ R!Upsert(b, s)[t] = b[t]
      BY <1>1, <1>2, <2>3, <3>1, UpsertNowhere
    <3> QED
      BY <1>4, <2>3, <3>2
  <2> QED
    BY <2>1, <2>2, <2>3
<1>7. R!Upsert(b, u) = [t \in Times |-> IF t = r.T THEN r.V ELSE c[t]]
  <2>1. R!Upsert(b, u) = [t \in Times |-> R!Upsert(b, u)[t]]
    BY UpsertIsFunction
  <2> QED
    BY <1>6, <2>1
<1>8. [c EXCEPT ![r.T] = r.V] = [t \in Times |-> IF t = r.T THEN r.V ELSE c[t]]
  BY <1>3, <1>5 DEF Bars
<1> QED
  BY <1>4, <1>7, <1>8

\* The slices that add has made of the first bars of s.
IsAdding(s, m, f) ==
  f = [i \in 0 .. m |-> IF i = 0 THEN <<>> ELSE PutBar(f[i - 1], s[i])]

LEMMA AddingExists ==
  ASSUME NEW s \in Seq(R!Row), NEW n \in Nat
  PROVE  \E f : IsAdding(s, n, f)
<1> DEFINE Bad == {m \in Nat : ~\E f : IsAdding(s, m, f)}
<1> SUFFICES ASSUME Bad # {} PROVE FALSE
  OBVIOUS
<1>1. PICK m \in Bad : \A j \in Bad : ~(j < m)
  <2>1. Bad \in SUBSET Nat
    OBVIOUS
  <2> HIDE DEF Bad
  <2> QED
    BY <2>1, Least
<1>2. m \in Nat
  OBVIOUS
<1>3. CASE m = 0
  <2> DEFINE f == [i \in 0 .. 0 |-> <<>>]
  <2>1. IsAdding(s, 0, f)
    BY DEF IsAdding
  <2> QED
    BY <1>1, <1>3, <2>1
<1>4. CASE m # 0
  <2>1. m - 1 \in Nat /\ m - 1 < m
    BY <1>2, <1>4
  <2>2. m - 1 \notin Bad
    BY <1>1, <2>1
  <2>3. PICK f : IsAdding(s, m - 1, f)
    BY <2>1, <2>2
  <2> DEFINE g == [i \in 0 .. m |-> IF i = m THEN PutBar(f[m - 1], s[m]) ELSE f[i]]
  <2>4. \A i \in 0 .. m : g[i] = IF i = 0 THEN <<>> ELSE PutBar(g[i - 1], s[i])
    <3> SUFFICES ASSUME NEW i \in 0 .. m
                 PROVE  g[i] = IF i = 0 THEN <<>> ELSE PutBar(g[i - 1], s[i])
      OBVIOUS
    <3>1. CASE i = m
      BY <1>2, <1>4, <2>1, <3>1
    <3>2. CASE i # m
      <4>1. i \in 0 .. m - 1 /\ i # 0 => i - 1 \in 0 .. m /\ i - 1 # m
        BY <1>2, <3>2
      <4>2. i \in 0 .. m - 1
        BY <1>2, <3>2
      <4>3. f[i] = IF i = 0 THEN <<>> ELSE PutBar(f[i - 1], s[i])
        BY <2>3, <4>2 DEF IsAdding
      <4> QED
        BY <3>2, <4>1, <4>2, <4>3
    <3> QED
      BY <3>1, <3>2
  <2>5. IsAdding(s, m, g)
    BY <2>4 DEF IsAdding
  <2> QED
    BY <1>1, <2>5
<1> QED
  BY <1>3, <1>4

LEMMA NothingAgrees == Agrees(<<>>, NoBars) /\ NoBars \in Bars
<1>1. <<>> \in Seq(R!Row) /\ DOMAIN <<>> = {}
  OBVIOUS
<1>2. \A r \in R!Row : NoBars[r.T] # r.V
  BY SqliteAssumption DEF NoBars, R!Row, R!WellFormed
<1> QED
  BY <1>1, <1>2 DEF Agrees, Bars, NoBars

\* What add makes of any bars, in any order and with starts repeated, is the table
\* that has them upserted one after the other.
LEMMA AddedAgrees ==
  ASSUME NEW s \in Seq(R!Row)
  PROVE  Agrees(Added(s), R!Upsert(NoBars, s))
<1>1. PICK n \in Nat : n = Len(s)
  OBVIOUS
<1>2. PICK f : f = [i \in 0 .. n |-> IF i = 0 THEN <<>> ELSE PutBar(f[i - 1], s[i])] /\ Added(s) = f[n]
  <2> DEFINE g == CHOOSE h : h = [i \in 0 .. Len(s) |->
                                   IF i = 0 THEN <<>> ELSE PutBar(h[i - 1], s[i])]
  <2>1. \E h : h = [i \in 0 .. Len(s) |-> IF i = 0 THEN <<>> ELSE PutBar(h[i - 1], s[i])]
    BY <1>1, AddingExists DEF IsAdding
  <2>2. g = [i \in 0 .. Len(s) |-> IF i = 0 THEN <<>> ELSE PutBar(g[i - 1], s[i])]
    BY <2>1
  <2>3. Added(s) = g[Len(s)]
    BY DEF Added
  <2> HIDE DEF g
  <2> QED
    BY <1>1, <2>2, <2>3
<1>3. f[0] = <<>> /\ \A i \in 1 .. n : f[i] = PutBar(f[i - 1], s[i])
  BY <1>2
<1> DEFINE Good(i) == Agrees(f[i], R!Upsert(NoBars, SubSeq(s, 1, i)))
           Bad == {i \in 0 .. n : ~Good(i)}
<1>4. Bad = {}
  <2> SUFFICES ASSUME Bad # {} PROVE FALSE
    OBVIOUS
  <2>1. PICK i \in Bad : \A j \in Bad : ~(j < i)
    <3>1. Bad \in SUBSET Nat
      OBVIOUS
    <3> HIDE DEF Bad
    <3> QED
      BY <3>1, Least
  <2>2. i \in 0 .. n
    OBVIOUS
  <2>3. CASE i = 0
    <3>1. SubSeq(s, 1, 0) = <<>>
      BY <1>1
    <3>2. R!Upsert(NoBars, <<>>) = NoBars
      BY NothingAgrees, UpsertNothing
    <3>3. Good(0)
      BY <1>3, <3>1, <3>2, NothingAgrees
    <3> QED
      BY <2>1, <2>3, <3>3
  <2>4. CASE i # 0
    <3>1. i \in 1 .. n /\ i - 1 \in 0 .. n /\ i - 1 < i /\ s[i] \in R!Row
      BY <1>1, <2>2, <2>4
    <3>2. Good(i - 1)
      BY <2>1, <3>1
    <3>3. PICK u : u = SubSeq(s, 1, i - 1)
      OBVIOUS
    <3>4. u \in Seq(R!Row) /\ Len(u) = i - 1 /\ \A j \in 1 .. i - 1 : u[j] = s[j]
      BY <1>1, <3>1, <3>3
    <3>5. R!Upsert(NoBars, SubSeq(s, 1, i)) = [R!Upsert(NoBars, u) EXCEPT ![s[i].T] = s[i].V]
      <4>1. PICK r \in R!Row : r = s[i]
        BY <3>1
      <4>2. PICK v : v = SubSeq(s, 1, i)
        OBVIOUS
      <4>3. v \in Seq(R!Row) /\ Len(v) = i /\ \A j \in 1 .. i : v[j] = s[j]
        BY <1>1, <3>1, <4>2
      <4>4. /\ Len(v) = Len(u) + 1 /\ v[Len(u) + 1] = r
            /\ \A j \in 1 .. Len(u) : v[j] = u[j]
        BY <3>1, <3>4, <4>1, <4>3
      <4>5. R!Upsert(NoBars, v) = [R!Upsert(NoBars, u) EXCEPT ![r.T] = r.V]
        BY <3>4, <4>3, <4>4, NothingAgrees, UpsertAppend
      <4> QED
        BY <4>1, <4>2, <4>5
    <3>6. R!Upsert(NoBars, u) \in Bars
      BY <3>4, NothingAgrees, UpsertTyped
    <3>7. Agrees(f[i - 1], R!Upsert(NoBars, u))
      BY <3>2, <3>3
    <3>8. Agrees(PutBar(f[i - 1], s[i]), [R!Upsert(NoBars, u) EXCEPT ![s[i].T] = s[i].V])
      BY <3>1, <3>6, <3>7, PutBarAgrees
    <3>9. Good(i)
      BY <1>3, <3>1, <3>5, <3>8
    <3> QED
      BY <2>1, <3>9
  <2> QED
    BY <2>3, <2>4
<1>5. Good(n)
  BY <1>1, <1>4
<1>6. SubSeq(s, 1, n) = s
  BY <1>1
<1> QED
  BY <1>2, <1>5, <1>6

\* A start has at most one bar in a slice, and the one the table has.
LEMMA SliceAt ==
  ASSUME NEW s, NEW b \in Bars, Agrees(s, b), NEW t \in Times
  PROVE  IF b[t] # NoValue
           THEN \E i \in 1 .. Len(s) :
                  s[i].T = t /\ s[i].V = b[t] /\ \A j \in 1 .. Len(s) : s[j].T = t => j = i
           ELSE \A j \in 1 .. Len(s) : s[j].T # t
<1>1. /\ s \in Seq(R!Row) /\ DOMAIN s = 1 .. Len(s)
      /\ \A i, j \in 1 .. Len(s) : s[i].T = s[j].T => i = j
      /\ \A r \in R!Row : b[r.T] = r.V <=> \E i \in 1 .. Len(s) : s[i] = r
  BY DEF Agrees
<1>2. CASE b[t] # NoValue
  <2>1. PICK r \in R!Row : r.T = t /\ r.V = b[t]
    <3>1. [T |-> t, V |-> b[t]] \in R!Row
      BY <1>2 DEF Bars, R!Row
    <3> QED
      BY <3>1
  <2>2. PICK i \in 1 .. Len(s) : s[i] = r
    BY <1>1, <2>1
  <2> QED
    BY <1>1, <1>2, <2>1, <2>2
<1>3. CASE b[t] = NoValue
  <2> SUFFICES ASSUME NEW j \in 1 .. Len(s), s[j].T = t PROVE FALSE
    BY <1>3
  <2>1. s[j] \in R!Row /\ b[s[j].T] = s[j].V
    BY <1>1
  <2> QED
    BY <1>3, <2>1, SqliteAssumption DEF R!Row, R!WellFormed
<1> QED
  BY <1>2, <1>3

\* Upserting makes of a slice the table it holds.
LEMMA SliceTable ==
  ASSUME NEW s, NEW b \in Bars, Agrees(s, b)
  PROVE  R!Upsert(NoBars, s) = b
<1>1. s \in Seq(R!Row)
  BY DEF Agrees
<1>2. ASSUME NEW t \in Times PROVE R!Upsert(NoBars, s)[t] = b[t]
  <2>1. CASE b[t] # NoValue
    <3>1. PICK i \in 1 .. Len(s) :
            s[i].T = t /\ s[i].V = b[t] /\ \A j \in 1 .. Len(s) : s[j].T = t => j = i
      BY <2>1, SliceAt
    <3>2. IsLast(s, t, i)
      BY <1>1, <3>1 DEF IsLast
    <3> QED
      BY <1>1, <3>1, <3>2, UpsertAt
  <2>2. CASE b[t] = NoValue
    <3>1. ~\E j \in 1 .. Len(s) : s[j].T = t
      BY <2>2, SliceAt
    <3>2. R!Upsert(NoBars, s)[t] = NoBars[t]
      BY <1>1, <3>1, UpsertNowhere
    <3> QED
      BY <2>2, <3>2 DEF NoBars
  <2> QED
    BY <2>1, <2>2
<1>3. R!Upsert(NoBars, s) = [t \in Times |-> R!Upsert(NoBars, s)[t]]
  BY UpsertIsFunction
<1>4. b = [t \in Times |-> b[t]]
  BY DEF Bars
<1>5. [t \in Times |-> R!Upsert(NoBars, s)[t]] = [t \in Times |-> b[t]]
  BY <1>2
<1> QED
  BY <1>3, <1>4, <1>5

\* Upserting a batch merges its table.
LEMMA UpsertMerges ==
  ASSUME NEW b \in Bars, NEW s \in Seq(R!Row)
  PROVE  R!Upsert(b, s) = C!MergeBars(b, R!Upsert(NoBars, s))
<1>1. PICK y : y = R!Upsert(NoBars, s)
  OBVIOUS
<1>2. ASSUME NEW t \in Times
      PROVE  R!Upsert(b, s)[t] = IF y[t] # NoValue THEN y[t] ELSE b[t]
  <2>1. CASE \E i \in 1 .. Len(s) : s[i].T = t
    <3>1. PICK i : IsLast(s, t, i)
      BY <2>1, LastRow
    <3>2. R!Upsert(b, s)[t] = s[i].V /\ y[t] = s[i].V
      BY <1>1, <3>1, UpsertAt
    <3>3. s[i] \in R!Row
      BY <3>1 DEF IsLast
    <3>4. s[i].V # NoValue
      BY <3>3, SqliteAssumption DEF R!Row, R!WellFormed
    <3> QED
      BY <3>2, <3>4
  <2>2. CASE ~\E i \in 1 .. Len(s) : s[i].T = t
    <3>1. R!Upsert(b, s)[t] = b[t] /\ y[t] = NoBars[t]
      BY <1>1, <2>2, UpsertNowhere
    <3> QED
      BY <3>1 DEF NoBars
  <2> QED
    BY <2>1, <2>2
<1>3. R!Upsert(b, s) = [t \in Times |-> R!Upsert(b, s)[t]]
  BY UpsertIsFunction
<1>4. C!MergeBars(b, y) = [t \in Times |-> IF y[t] # NoValue THEN y[t] ELSE b[t]]
  BY NoBarAssumption DEF C!MergeBars, Bars
<1> QED
  BY <1>1, <1>2, <1>3, <1>4

\* A batch and another after it.
LEMMA UpsertConcat ==
  ASSUME NEW b \in Bars, NEW s \in Seq(R!Row), NEW u \in Seq(R!Row)
  PROVE  R!Upsert(b, s \o u) = R!Upsert(R!Upsert(b, s), u)
<1>1. PICK m \in Nat, n \in Nat : m = Len(s) /\ n = Len(u)
  OBVIOUS
<1>2. PICK v : v = s \o u
  OBVIOUS
<1>3. /\ v \in Seq(R!Row) /\ Len(v) = m + n
      /\ \A i \in 1 .. m : v[i] = s[i]
      /\ \A i \in 1 .. n : v[m + i] = u[i]
  BY <1>1, <1>2
<1>4. \A i \in 1 .. m + n : i \in 1 .. m \/ (i - m \in 1 .. n /\ i = m + (i - m))
  BY <1>1
<1>5. PICK c : c = R!Upsert(b, s)
  OBVIOUS
<1>6. ASSUME NEW t \in Times PROVE R!Upsert(b, v)[t] = R!Upsert(c, u)[t]
  <2>1. CASE \E i \in 1 .. n : u[i].T = t
    <3>1. PICK i : IsLast(u, t, i)
      BY <1>1, <2>1, LastRow
    <3>2. i \in 1 .. n /\ u[i].T = t /\ \A j \in 1 .. n : u[j].T = t => j <= i
      BY <1>1, <3>1 DEF IsLast
    <3>3. ASSUME NEW j \in 1 .. m + n, v[j].T = t PROVE j <= m + i
      <4>1. CASE j \in 1 .. m
        BY <3>2, <4>1
      <4>2. CASE j - m \in 1 .. n /\ j = m + (j - m)
        <5>1. u[j - m].T = t
          BY <1>3, <3>3, <4>2
        <5>2. j - m <= i
          BY <3>2, <4>2, <5>1
        <5> QED
          BY <3>2, <4>2, <5>2
      <4> QED
        BY <1>4, <4>1, <4>2
    <3>4. m + i \in 1 .. m + n /\ v[m + i] = u[i]
      BY <1>3, <3>2
    <3>5. IsLast(v, t, m + i)
      BY <1>3, <3>2, <3>3, <3>4 DEF IsLast
    <3>6. R!Upsert(b, v)[t] = v[m + i].V
      BY <1>3, <3>5, UpsertAt
    <3>7. R!Upsert(c, u)[t] = u[i].V
      BY <3>1, UpsertAt
    <3> QED
      BY <3>4, <3>6, <3>7
  <2>2. CASE ~\E i \in 1 .. n : u[i].T = t
    <3>1. R!Upsert(c, u)[t] = c[t]
      BY <1>1, <2>2, UpsertNowhere
    <3>2. ASSUME NEW j \in 1 .. m + n, v[j].T = t PROVE j \in 1 .. m /\ s[j].T = t
      <4>1. CASE j \in 1 .. m
        BY <1>3, <3>2, <4>1
      <4>2. CASE j - m \in 1 .. n /\ j = m + (j - m)
        <5>1. u[j - m].T = t
          BY <1>3, <3>2, <4>2
        <5> QED
          BY <2>2, <4>2, <5>1
      <4> QED
        BY <1>4, <4>1, <4>2
    <3>3. CASE \E i \in 1 .. m : s[i].T = t
      <4>1. PICK i : IsLast(s, t, i)
        BY <1>1, <3>3, LastRow
      <4>2. i \in 1 .. m /\ s[i].T = t /\ \A j \in 1 .. m : s[j].T = t => j <= i
        BY <1>1, <4>1 DEF IsLast
      <4>3. i \in 1 .. m + n /\ v[i] = s[i]
        BY <1>3, <4>2
      <4>4. IsLast(v, t, i)
        BY <1>3, <3>2, <4>2, <4>3 DEF IsLast
      <4>5. R!Upsert(b, v)[t] = v[i].V
        BY <1>3, <4>4, UpsertAt
      <4>6. c[t] = s[i].V
        BY <1>5, <4>1, UpsertAt
      <4> QED
        BY <3>1, <4>3, <4>5, <4>6
    <3>4. CASE ~\E i \in 1 .. m : s[i].T = t
      <4>1. ~\E j \in 1 .. Len(v) : v[j].T = t
        BY <1>3, <3>2, <3>4
      <4>2. R!Upsert(b, v)[t] = b[t]
        BY <1>3, <4>1, UpsertNowhere
      <4>3. c[t] = b[t]
        BY <1>1, <1>5, <3>4, UpsertNowhere
      <4> QED
        BY <3>1, <4>2, <4>3
    <3> QED
      BY <3>3, <3>4
  <2> QED
    BY <2>1, <2>2
<1>7. /\ R!Upsert(b, v) = [t \in Times |-> R!Upsert(b, v)[t]]
      /\ R!Upsert(c, u) = [t \in Times |-> R!Upsert(c, u)[t]]
  BY UpsertIsFunction
<1>8. R!Upsert(b, v) = R!Upsert(c, u)
  BY <1>6, <1>7
<1> QED
  BY <1>2, <1>5, <1>8

LEMMA TableIs == \A s : Table(s) = R!Upsert(NoBars, s)
BY DEF Table, NoBars

\* Of a slice and two batches after it: the batches' tables merged, over the slice's.
LEMMA MergedRows ==
  ASSUME NEW m, NEW x \in Bars, Agrees(m, x), NEW a \in Seq(R!Row), NEW b \in Seq(R!Row)
  PROVE  /\ m \o (a \o b) \in Seq(R!Row)
         /\ R!Upsert(NoBars, m \o (a \o b)) = C!MergeBars(x, C!MergeBars(Table(a), Table(b)))
<1>1. m \in Seq(R!Row) /\ a \o b \in Seq(R!Row) /\ NoBars \in Bars
  BY NothingAgrees DEF Agrees
<1>2. PICK c \in Seq(R!Row) : c = a \o b
  BY <1>1
<1>3. R!Upsert(NoBars, m \o c) = R!Upsert(R!Upsert(NoBars, m), c)
  BY <1>1, UpsertConcat
<1>4. R!Upsert(NoBars, m) = x
  BY SliceTable
<1>5. R!Upsert(x, c) = C!MergeBars(x, R!Upsert(NoBars, c))
  BY UpsertMerges
<1>6. R!Upsert(NoBars, c) = R!Upsert(R!Upsert(NoBars, a), b)
  BY <1>1, <1>2, UpsertConcat
<1>7. R!Upsert(NoBars, a) \in Bars
  BY <1>1, UpsertTyped
<1>8. R!Upsert(R!Upsert(NoBars, a), b) = C!MergeBars(R!Upsert(NoBars, a), R!Upsert(NoBars, b))
  BY <1>7, UpsertMerges
<1>9. m \o c \in Seq(R!Row)
  BY <1>1
<1> QED
  BY <1>2, <1>3, <1>4, <1>5, <1>6, <1>8, <1>9, TableIs

\* mergeBars of any slice and any two batches.
LEMMA MergeBarsAgrees ==
  ASSUME NEW m, NEW x \in Bars, Agrees(m, x), NEW a \in Seq(R!Row), NEW b \in Seq(R!Row),
         NEW s \in MergeBarsLoop(m, a \o b),
         NEW y, y = C!MergeBars(x, C!MergeBars(Table(a), Table(b)))
  PROVE  Agrees(s, y) /\ Ascending(s) /\ y \in Bars
<1>1. PICK c : c = m \o (a \o b)
  OBVIOUS
<1>2. c \in Seq(R!Row) /\ R!Upsert(NoBars, c) = y
  BY <1>1, MergedRows
<1>3. Agrees(Added(c), y)
  BY <1>2, AddedAgrees
<1>4. s \in Resorted(Added(c))
  BY <1>1 DEF MergeBarsLoop
<1>5. y \in Bars
  BY <1>2, NothingAgrees, UpsertTyped
<1> QED
  BY <1>3, <1>4, <1>5, ResortedAgrees

\* clip of any slice.
LEMMA ClipAgrees ==
  ASSUME NEW s, NEW b \in Bars, Agrees(s, b), NEW w \in AnyWindow
  PROVE  {s[i] : i \in ClipLoop(s, w)} = Rows(C!Clip(b, w.Start, w.End))
<1>1. /\ s \in Seq(R!Row) /\ w.Start \in Nat /\ w.End \in Nat
      /\ \A r \in R!Row : b[r.T] = r.V <=> \E i \in DOMAIN s : s[i] = r
  BY SqliteAssumption DEF Agrees, AnyWindow, R!WellFormed
<1>2. PICK c : c = C!Clip(b, w.Start, w.End)
  OBVIOUS
<1>3. ASSUME NEW r \in R!Row
      PROVE  c[r.T] = r.V <=> w.Start <= r.T /\ r.T <= w.End /\ b[r.T] = r.V
  <2>1. r.T \in Times /\ r.V # C!NoBar
    BY SqliteAssumption, NoBarAssumption DEF R!Row, R!WellFormed
  <2>2. c[r.T] = IF w.Start <= r.T /\ r.T <= w.End THEN b[r.T] ELSE C!NoBar
    BY <1>2, <2>1 DEF C!Clip, Bars
  <2> QED
    BY <2>1, <2>2
<1>4. ASSUME NEW i \in DOMAIN s
      PROVE  /\ s[i] \in R!Row
             /\ i \in ClipLoop(s, w) <=> w.Start <= s[i].T /\ s[i].T <= w.End
  <2>1. s[i] \in R!Row
    BY <1>1
  <2>2. s[i].T \in Nat
    BY <2>1, SqliteAssumption DEF R!WellFormed, R!Row
  <2>3. i \in ClipLoop(s, w) <=> ~(s[i].T < w.Start \/ s[i].T > w.End)
    BY DEF ClipLoop
  <2>4. \A x \in Nat : ~(x < w.Start \/ x > w.End) <=> w.Start <= x /\ x <= w.End
    BY <1>1
  <2> QED
    BY <2>1, <2>2, <2>3, <2>4
<1>5. \A i \in ClipLoop(s, w) : i \in DOMAIN s
  BY DEF ClipLoop
<1>6. ASSUME NEW r \in R!Row
      PROVE  (\E i \in ClipLoop(s, w) : s[i] = r) <=> c[r.T] = r.V
  BY <1>1, <1>3, <1>4, <1>5
<1>7. \A i \in ClipLoop(s, w) : s[i] \in R!Row
  BY <1>4, <1>5
<1> QED
  BY <1>2, <1>6, <1>7 DEF Rows

\* mergeBars and clip (coverage.go:226-260) compute the functions of start times
\* with which the proofs about Store reason, for any slice that a repository holds,
\* any fetched batches, their starts in any order and repeated, and any windows.
THEOREM LoopsMerge == MCSpec => []MergeAgrees
<1>1. ASSUME IndInv, MemInv PROVE MergeAgrees
  <2> SUFFICES ASSUME NEW k \in Keys, NEW a \in Batches
               PROVE  /\ C!MergeBars(file.data.bars[k], Table(a)) = R!Upsert(file.data.bars[k], a)
                      /\ \A b \in Batches :
                           \A answer \in {C!MergeBars(file.data.bars[k],
                                                     C!MergeBars(Table(a), Table(b)))},
                              s \in MergeBarsLoop(mem[k], a \o b) :
                             /\ Ascending(s)
                             /\ \A w \in AnyWindow :
                                  {s[i] : i \in ClipLoop(s, w)} =
                                    Rows(C!Clip(answer, w.Start, w.End))
    BY DEF MergeAgrees
  <2>1. Agrees(mem[k], file.data.bars[k]) /\ file.data.bars[k] \in Bars
    BY <1>1, CallFacts, PutTyped DEF MemInv
  <2>2. a \in Seq(R!Row) /\ \A b \in Batches : b \in Seq(R!Row)
    BY SqliteAssumption DEF R!WellFormed
  <2>3. C!MergeBars(file.data.bars[k], Table(a)) = R!Upsert(file.data.bars[k], a)
    BY <2>1, <2>2, UpsertMerges, TableIs
  <2>4. ASSUME NEW b \in Batches,
               NEW answer,
               answer = C!MergeBars(file.data.bars[k], C!MergeBars(Table(a), Table(b))),
               NEW s \in MergeBarsLoop(mem[k], a \o b)
        PROVE  /\ Ascending(s)
               /\ \A w \in AnyWindow :
                    {s[i] : i \in ClipLoop(s, w)} = Rows(C!Clip(answer, w.Start, w.End))
    <3>1. Agrees(s, answer) /\ Ascending(s) /\ answer \in Bars
      BY <2>1, <2>2, <2>4, MergeBarsAgrees
    <3> QED
      BY <3>1, ClipAgrees
  <2> QED
    BY <2>3, <2>4
<1> QED
  BY <1>1, MCInvariantHolds, PTL

=============================================================================
