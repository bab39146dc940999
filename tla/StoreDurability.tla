--------------------------- MODULE StoreDurability ---------------------------
(***************************************************************************)
(* Store over the SQLite file of internal/store/sqlitestore, on a machine  *)
(* that may lose power: with journal_mode=WAL and synchronous=NORMAL       *)
(* (sqlitestore.go:33-37) a power failure loses the last commits.  The     *)
(* bars and the intervals are in one file, so it loses them together: what *)
(* is left is what the repository held at some earlier instant             *)
(* (SqliteRepo shows that it is).                                          *)
(***************************************************************************)
EXTENDS Store

VARIABLE durable   \* what a power failure leaves of the repository

dvars == <<vars, durable>>

Contents == [bars |-> bars, intervals |-> intervals]

DInit == Init /\ durable = Contents

\* A checkpoint of the WAL.
Sync ==
  /\ Persistent
  /\ durable' = Contents
  /\ UNCHANGED vars

\* A mistaken variant: bars and coverage are in files of their own.
LosesBarsOnly ==
  /\ Persistent
  /\ bars' = durable.bars
  /\ get' = [p \in Procs |-> Idle]
  /\ holder' = NoProc
  /\ UNCHANGED <<clock, intervals, durable>>

\* The machine stops and is started again.
PowerFailure ==
  /\ Persistent
  /\ bars' = durable.bars
  /\ intervals' = durable.intervals
  /\ get' = [p \in Procs |-> Idle]
  /\ holder' = NoProc
  /\ UNCHANGED <<clock, durable>>

DNext ==
  \/ Next /\ UNCHANGED durable
  \/ Sync
  \/ PowerFailure

DSpec == DInit /\ [][DNext]_dvars

=============================================================================
