----------------------------- MODULE SqliteRepo -----------------------------
(***************************************************************************)
(* The SQLite backend, internal/store/sqlitestore/sqlitestore.go, between  *)
(* its callers and the file: the one connection of the pool, which every   *)
(* call of every key waits for and gives back on every path; transactions  *)
(* row by row; the migration, statement by statement, on every start; and  *)
(* what crashes and power failures leave of the file.                      *)
(*                                                                         *)
(* SQLite itself is external: a statement outside a transaction is one of  *)
(* its own, and with journal_mode=WAL and synchronous=NORMAL a transaction *)
(* that is committed survives the process at once and a power failure from *)
(* the next checkpoint on; those a power failure loses are the last ones.  *)
(***************************************************************************)
EXTENDS Naturals, Sequences, FiniteSets

CONSTANTS
  Keys, Times, Values, NoValue, Batches, IntervalSets, Windows,  \* as in Repository
  NoKey,      \* nobody has the connection
  MaxWrites   \* bound on the writes called for, for TLC

VARIABLES
  db,       \* the sql.DB, or the statement of migrate that is next
  conn,     \* the key whose call has the connection
  file,     \* what is committed
  durable,  \* what a power failure leaves of it
  tx,       \* what the open transaction sees of the data
  call,     \* the call in progress for each key
  writes    \* how many writes were called for

vars == <<db, conn, file, durable, tx, call, writes>>

\* The statements of migrate, each with what follows it.
Tables    == {"bars", "fetched_ranges", "schema_meta"}
Statement == [bars |-> "fetched_ranges", fetched_ranges |-> "schema_meta",
              schema_meta |-> "version", version |-> "open"]

\* Refinement: what a call is to its caller.
Status(pc) == IF pc \in {"idle", "ok", "failed"} THEN pc ELSE "called"
View(c)    == [st |-> Status(c.pc), op |-> c.op,
               result |-> IF c.pc \in {"ok", "failed"} THEN c.out ELSE {}]

callMap == [k \in Keys |-> View(call[k])]

R == INSTANCE Repository
       WITH data <- file.data, saved <- durable.data, call <- callMap

ASSUME SqliteAssumption == R!WellFormed /\ NoKey \notin Keys /\ MaxWrites \in Nat

\* A file: its tables, the rows of schema_meta, and the data.
Files == [tables : SUBSET Tables, versions : Nat, data : R!Data]

Idle == [pc |-> "idle", op |-> R!NoOp, rows |-> <<>>, left |-> {}, out |-> {}]

Init ==
  /\ db = "down"
  /\ conn = NoKey
  /\ file = [tables |-> {}, versions |-> 0, data |-> R!Empty]
  /\ durable = file
  /\ tx = R!Empty
  /\ call = [k \in Keys |-> Idle]
  /\ writes = 0

Becomes(k, c) == call' = [call EXCEPT ![k] = c]

-----------------------------------------------------------------------------
(* Open and migrate *)

\* Nobody else has the database yet.
Open ==
  /\ db = "down"
  /\ db' = "bars"
  /\ UNCHANGED <<conn, file, durable, tx, call, writes>>

\* A pragma or a statement fails: the program does not start.
OpenFails ==
  /\ db \in DOMAIN Statement
  /\ db' = "down"
  /\ UNCHANGED <<conn, file, durable, tx, call, writes>>

\* A mistaken variant: the version is inserted at every start.
RunAgain(s, f) ==
  IF s = "version" THEN [f EXCEPT !.versions = @ + 1]
                   ELSE [f EXCEPT !.tables = @ \cup {s}]

\* CREATE TABLE IF NOT EXISTS, and INSERT ... WHERE NOT EXISTS.
RunStatement(s, f) ==
  IF s # "version" THEN [f EXCEPT !.tables = @ \cup {s}]
  ELSE IF f.versions = 0 THEN [f EXCEPT !.versions = 1] ELSE f

Migrate ==
  /\ db \in DOMAIN Statement
  /\ file' = RunStatement(db, file)
  /\ db' = Statement[db]
  /\ UNCHANGED <<conn, durable, tx, call, writes>>

\* db.Close: calls that have the connection go on, the others fail.
Close ==
  /\ db = "open"
  /\ db' = "closed"
  /\ UNCHANGED <<conn, file, durable, tx, call, writes>>

-----------------------------------------------------------------------------
(* Calls *)

Writes(op) == op.name \in {"PutBars", "PutIntervals"}

Invoke(k) ==
  /\ db = "open"
  /\ call[k].pc = "idle"
  /\ \E op \in R!Ops :
       /\ Writes(op) => writes < MaxWrites
       /\ writes' = IF Writes(op) THEN writes + 1 ELSE writes
       /\ Becomes(k, [call[k] EXCEPT !.pc = "wait", !.op = op])
  /\ UNCHANGED <<db, conn, file, durable, tx>>

\* PutBars of no bars returns before it needs the connection.
PutNothing(k) ==
  /\ call[k].pc = "wait"
  /\ R!Nothing(call[k].op)
  /\ Becomes(k, [call[k] EXCEPT !.pc = "ok"])
  /\ UNCHANGED <<db, conn, file, durable, tx, writes>>

\* The caller gives up waiting, the database was closed, or the first statement,
\* BEGIN or the query, fails: the connection stays where it is.
ConnectFails(k) ==
  /\ call[k].pc = "wait"
  /\ ~R!Nothing(call[k].op)
  /\ Becomes(k, [call[k] EXCEPT !.pc = "failed"])
  /\ UNCHANGED <<db, conn, file, durable, tx, writes>>

\* The connection is free, and handed to one of those that wait for it.
Connect(k) ==
  /\ db = "open"
  /\ conn = NoKey
  /\ call[k].pc = "wait"
  /\ ~R!Nothing(call[k].op)
  /\ conn' = k

\* QueryContext: the statement sees what is committed.
Query(k) ==
  /\ Connect(k)
  /\ ~Writes(call[k].op)
  /\ Becomes(k, [call[k] EXCEPT !.pc = "reading", !.left = R!Result(k, call[k].op)])
  /\ UNCHANGED <<db, file, durable, tx, writes>>

\* The rows of bars come ORDER BY t, those of intervals in any order.
ComesNext(r, c) == c.op.name = "Bars" => \A s \in c.left : r.T <= s.T

NextRow(k) ==
  /\ call[k].pc = "reading"
  /\ \E r \in call[k].left :
       /\ ComesNext(r, call[k])
       /\ Becomes(k, [call[k] EXCEPT !.left = @ \ {r}, !.out = @ \cup {r}])
  /\ UNCHANGED <<db, conn, file, durable, tx, writes>>

\* The rows end; with them the connection is given back.
RowsEnd(k) ==
  /\ call[k].pc = "reading"
  /\ call[k].left = {}
  /\ conn' = NoKey
  /\ Becomes(k, [call[k] EXCEPT !.pc = "ok"])
  /\ UNCHANGED <<db, file, durable, tx, writes>>

\* A row cannot be scanned: what was read is dropped.
ScanFails(k) ==
  /\ call[k].pc = "reading"
  /\ call[k].left # {}
  /\ conn' = NoKey
  /\ Becomes(k, [call[k] EXCEPT !.pc = "failed", !.left = {}, !.out = {}])
  /\ UNCHANGED <<db, file, durable, tx, writes>>

\* The rows break off, or the context is done: what was read is returned with the
\* error of rows.Err.
RowsBreakOff(k) ==
  /\ call[k].pc = "reading"
  /\ conn' = NoKey
  /\ Becomes(k, [call[k] EXCEPT !.pc = "failed", !.left = {}])
  /\ UNCHANGED <<db, file, durable, tx, writes>>

BeginPutBars(k) ==
  /\ Connect(k)
  /\ call[k].op.name = "PutBars"
  /\ tx' = file.data
  /\ Becomes(k, [call[k] EXCEPT !.pc = "exec", !.rows = call[k].op.batch])
  /\ UNCHANGED <<db, file, durable, writes>>

\* BEGIN, and the DELETE of the key's intervals.
BeginPutIntervals(k) ==
  /\ Connect(k)
  /\ call[k].op.name = "PutIntervals"
  /\ tx' = [file.data EXCEPT !.intervals[k] = {}]
  /\ Becomes(k, [call[k] EXCEPT !.pc = "exec", !.left = call[k].op.set])
  /\ UNCHANGED <<db, file, durable, writes>>

\* INSERT ... ON CONFLICT DO UPDATE of the next bar.
ExecBar(k) ==
  /\ call[k].pc = "exec"
  /\ call[k].rows # <<>>
  /\ LET r == Head(call[k].rows)
     IN  tx' = [tx EXCEPT !.bars[k][r.T] = r.V]
  /\ Becomes(k, [call[k] EXCEPT !.rows = Tail(@)])
  /\ UNCHANGED <<db, conn, file, durable, writes>>

\* INSERT of an interval: its start is in the primary key.
ExecInterval(k) ==
  /\ call[k].pc = "exec"
  /\ \E iv \in call[k].left :
       /\ \A other \in tx.intervals[k] : other.From # iv.From
       /\ tx' = [tx EXCEPT !.intervals[k] = @ \cup {iv}]
       /\ Becomes(k, [call[k] EXCEPT !.left = @ \ {iv}])
  /\ UNCHANGED <<db, conn, file, durable, writes>>

Commit(k) ==
  /\ call[k].pc = "exec"
  /\ call[k].rows = <<>> /\ call[k].left = {}
  /\ file' = [file EXCEPT !.data = tx]
  /\ tx' = R!Empty
  /\ conn' = NoKey
  /\ Becomes(k, [call[k] EXCEPT !.pc = "ok"])
  /\ UNCHANGED <<db, durable, writes>>

\* A mistaken variant: a write that fails commits what it has written.
CommitAnyway(k) ==
  /\ call[k].pc = "exec"
  /\ file' = [file EXCEPT !.data = tx]
  /\ tx' = R!Empty
  /\ conn' = NoKey
  /\ Becomes(k, [call[k] EXCEPT !.pc = "failed", !.rows = <<>>, !.left = {}])
  /\ UNCHANGED <<db, durable, writes>>

\* A mistaken variant: without the deferred Rollback.
NoRollback(k) ==
  /\ call[k].pc = "exec"
  /\ Becomes(k, [call[k] EXCEPT !.pc = "failed", !.rows = <<>>, !.left = {}])
  /\ UNCHANGED <<db, conn, file, durable, tx, writes>>

\* A statement or COMMIT fails, or the context is done: the deferred Rollback
\* gives the connection back.
Rollback(k) ==
  /\ call[k].pc = "exec"
  /\ tx' = R!Empty
  /\ conn' = NoKey
  /\ Becomes(k, [call[k] EXCEPT !.pc = "failed", !.rows = <<>>, !.left = {}])
  /\ UNCHANGED <<db, file, durable, writes>>

Return(k) ==
  /\ call[k].pc \in {"ok", "failed"}
  /\ Becomes(k, Idle)
  /\ UNCHANGED <<db, conn, file, durable, tx, writes>>

-----------------------------------------------------------------------------
(* What the machine does *)

\* A checkpoint of the WAL.
Checkpoint ==
  /\ durable' = file
  /\ UNCHANGED <<db, conn, file, tx, call, writes>>

Stops ==
  /\ db' = "down"
  /\ conn' = NoKey
  /\ tx' = R!Empty
  /\ call' = [k \in Keys |-> Idle]
  /\ UNCHANGED writes

\* The process ends, closed or not; a transaction that is open is rolled back.
Crash ==
  /\ Stops
  /\ UNCHANGED <<file, durable>>

PowerFailure ==
  /\ Stops
  /\ file' = durable
  /\ UNCHANGED durable

\* What a call does once it has the connection, and its return.
Begin(k) == Query(k) \/ BeginPutBars(k) \/ BeginPutIntervals(k)
Work(k) ==
  \/ NextRow(k) \/ RowsEnd(k) \/ ScanFails(k) \/ RowsBreakOff(k)
  \/ ExecBar(k) \/ ExecInterval(k) \/ Commit(k) \/ Rollback(k)
  \/ PutNothing(k) \/ Return(k)

Next ==
  \/ Open \/ OpenFails \/ Migrate \/ Close
  \/ \E k \in Keys : Invoke(k) \/ ConnectFails(k) \/ Begin(k) \/ Work(k)
  \/ Checkpoint \/ Crash \/ PowerFailure

Spec == Init /\ [][Next]_vars

\* Statements return, a connection that is given back goes to those that wait for
\* it in turn, and a database that is closed fails them.
Fairness ==
  \A k \in Keys : /\ WF_vars(Work(k))
                  /\ SF_vars(Begin(k))
                  /\ WF_vars(db = "closed" /\ ConnectFails(k))

FairSpec == Spec /\ Fairness

-----------------------------------------------------------------------------
(* Properties *)

RowSets == (SUBSET R!Row) \cup (SUBSET R!Interval)
Calls ==
  [pc : {"idle", "wait", "reading", "exec", "ok", "failed"},
   op : R!Ops \cup {R!NoOp}, rows : Seq(R!Row),
   left : RowSets, out : RowSets]

TypeOK ==
  /\ db \in {"down", "open", "closed"} \cup DOMAIN Statement
  /\ conn \in Keys \cup {NoKey}
  /\ file \in Files /\ durable \in Files
  /\ tx \in R!Data
  /\ call \in [Keys -> Calls]
  /\ writes \in Nat

\* However often the program is started, stopped in the middle of a migration,
\* or thrown back by a power failure: when the database is open its tables are
\* there, and schema_meta has one row (sqlitestore.go:62-63).
SchemaReady ==
  /\ file.versions <= 1
  /\ db = "open" => file.tables = Tables /\ file.versions = 1

\* Row by row, with failures anywhere, restarts and power failures, and calls of
\* other keys that wait for the same connection: every call takes effect at one
\* instant or not at all, what a failed read hands over beside its error is a part
\* of what was stored at one instant, and a restart finds what was committed up to
\* some instant (repository.go:10-12, sqlitestore.go:92, 113).
ImplementsRepository == R!Spec

\* Every call returns: the only connection is given back on every path, or
\* every call of every key would wait for ever (sqlitestore.go:32).
EveryCallReturns == \A k \in Keys : call[k].pc # "idle" ~> call[k].pc = "idle"

=============================================================================
