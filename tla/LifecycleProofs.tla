-------------------------- MODULE LifecycleProofs --------------------------
(***************************************************************************)
(* Proofs about Lifecycle, for any requests, keys and watchlist, with or   *)
(* without the admin server: the type invariant, that the repository       *)
(* outlives the Gets, that telemetry is flushed last, and that no failure  *)
(* is reported as success.                                                 *)
(***************************************************************************)
EXTENDS Lifecycle, TLAPS

\* Before the goroutines are started nothing runs.
Unstarted ==
  main \in {"load", "setup", "open", "start"} =>
    /\ poll = "unborn"
    /\ \A c \in Callers : phase[c] = "out"
    /\ \A s \in Servers : srv[s] = "unborn"

\* The poller has a Get only while it refreshes, and for a key it has left.
PollerAsks ==
  phase[Poller] # "out" => poll \in {"first", "refresh"} /\ key[Poller] \in left

\* From the drain on no request is let in, and after it none is being served
\* unless time was up.
Drained ==
  /\ main \in {"drainApi", "shutAdmin", "wait", "flush", "close", "return"} =>
       closing[Api]
  /\ main \in {"shutAdmin", "wait", "flush", "close", "return"} =>
       late \/ \A r \in Requests : phase[r] = "out"

\* Past the wait group the poller has returned.
PollerGone == main \in {"flush", "close", "return"} => poll = "returned"

\* The repository is closed only before it is opened and as run returns.
Opened == Alive /\ repo = "closed" => main \in {"load", "setup", "open", "return"}

\* stop is called on one path only, which a signal or a failure leads to.
Caused ==
  /\ main \in {"load", "setup", "open", "start", "select", "stop"} => ~stopped
  /\ main \notin {"load", "setup", "open", "start", "select", "killed", "panicked"} =>
       runErr \/ signal

\* A failure stays in the channel until the select takes it, and makes run fail.
FailureKept ==
  \A s \in Servers : srv[s] = "failed" => s \in srvErr \/ runErr

IndInv ==
  /\ TypeOK /\ Unstarted /\ PollerAsks /\ Drained /\ PollerGone /\ Opened
  /\ Caused /\ FailureKept /\ RepositoryOutlivesGets

USE DEF Callers, process, servers, poller, gets

-----------------------------------------------------------------------------

\* There is an API server, and initially nothing runs.
LEMMA ApiIsServer == Api \in Servers
BY LifecycleAssumption

LEMMA InitInv == Init => IndInv
BY ApiIsServer, LifecycleAssumption
   DEF Init, IndInv, TypeOK, Unstarted, PollerAsks, Drained, PollerGone, Opened, Caused,
       FailureKept, RepositoryOutlivesGets, Alive, Locks!Init

\* The steps of run, of the signals and of the clock.
LEMMA RunInv ==
  ASSUME IndInv, Alive, Run \/ BootFails \/ Signal \/ Kill \/ DrainTimesOut
  PROVE  IndInv'
<1>. USE ApiIsServer, LifecycleAssumption
     DEF IndInv, TypeOK, Unstarted, PollerAsks, Drained, PollerGone, Opened, Caused,
         FailureKept, RepositoryOutlivesGets, Alive, ctxDone
<1>1. CASE Boot        BY <1>1 DEF Boot
<1>16. CASE Load       BY <1>16 DEF Load
<1>17. CASE Setup      BY <1>17 DEF Setup
<1>18. CASE OpenRepo   BY <1>18 DEF OpenRepo
<1>2. CASE SelectDone  BY <1>2 DEF SelectDone
<1>3. CASE SelectErr   BY <1>3 DEF SelectErr
<1>4. CASE Stop        BY <1>4 DEF Stop
<1>5. CASE ShutApi     BY <1>5 DEF ShutApi
<1>6. CASE DrainApi    BY <1>6 DEF DrainApi
<1>7. CASE ShutAdmin   BY <1>7 DEF ShutAdmin
<1>8. CASE Wait        BY <1>8 DEF Wait
<1>9. CASE Flush
  <2>1. runErr => runErr'
    BY <1>9 DEF Flush
  <2>2. FailureKept'
    BY <1>9, <2>1 DEF Flush
  <2> QED
    BY <1>9, <2>2 DEF Flush
<1>10. CASE Close      BY <1>10 DEF Close
<1>11. CASE Return     BY <1>11 DEF Return
<1>12. CASE BootFails  BY <1>12 DEF BootFails
<1>13. CASE Signal     BY <1>13 DEF Signal
<1>14. CASE Kill       BY <1>14 DEF Kill
<1>15. CASE DrainTimesOut BY <1>15 DEF DrainTimesOut
<1> QED
  BY <1>1, <1>2, <1>3, <1>4, <1>5, <1>6, <1>7, <1>8, <1>9, <1>10, <1>11, <1>12,
     <1>13, <1>14, <1>15, <1>16, <1>17, <1>18 DEF Run

\* The steps of a server.
LEMMA ServerInv ==
  ASSUME IndInv, Alive, NEW s \in Servers,
         Listen(s) \/ ServeFails(s) \/ Send(s) \/ ServerClosed(s)
  PROVE  IndInv'
<1>. USE DEF IndInv, TypeOK, Unstarted, PollerAsks, Drained, PollerGone, Opened, Caused,
             FailureKept, RepositoryOutlivesGets, Alive
<1>1. CASE Listen(s)       BY <1>1 DEF Listen
<1>2. CASE ServeFails(s)   BY <1>2 DEF ServeFails
<1>3. CASE Send(s)         BY <1>3 DEF Send
<1>4. CASE ServerClosed(s) BY <1>4 DEF ServerClosed
<1> QED
  BY <1>1, <1>2, <1>3, <1>4

\* The steps of a Get, of a request or of the poller.  While a request can begin
\* the API server is not closing; while the poller has a Get it refreshes.
LEMMA GetInv ==
  ASSUME IndInv, Alive,
         \/ \E r \in Requests : Request(r) \/ Respond(r)
         \/ \E c \in Callers : Acquire(c)
  PROVE  IndInv'
<1>. USE ApiIsServer, LifecycleAssumption
     DEF IndInv, TypeOK, Unstarted, PollerAsks, Drained, PollerGone, Opened, Caused,
         FailureKept, RepositoryOutlivesGets, Alive, Locks!Acquire, Locks!Release
<1>1. ASSUME NEW r \in Requests, Request(r) PROVE IndInv'
  BY <1>1 DEF Request, Ask
<1>2. ASSUME NEW r \in Requests, Respond(r) PROVE IndInv'
  BY <1>2 DEF Respond, GetReturns
<1>3. ASSUME NEW c \in Callers, Acquire(c) PROVE IndInv'
  BY <1>3 DEF Acquire
<1> QED
  BY <1>1, <1>2, <1>3

\* The steps of the poller and its ticker.
LEMMA PollInv ==
  ASSUME IndInv, Alive, Poll \/ Tick
  PROVE  IndInv'
<1>. USE LifecycleAssumption
     DEF IndInv, TypeOK, Unstarted, PollerAsks, Drained, PollerGone, Opened, Caused,
         FailureKept, RepositoryOutlivesGets, Alive
<1>1. CASE PollAsk       BY <1>1 DEF PollAsk, Ask
<1>2. CASE PollGot       BY <1>2 DEF PollGot, GetReturns, Locks!Release
<1>3. CASE PollRefreshed BY <1>3 DEF PollRefreshed
<1>7. CASE NewTickerPanics BY <1>7 DEF NewTickerPanics
<1>4. CASE PollTick      BY <1>4 DEF PollTick
<1>5. CASE PollStop      BY <1>5 DEF PollStop
<1>6. CASE Tick          BY <1>6 DEF Tick
<1> QED
  BY <1>1, <1>2, <1>3, <1>4, <1>5, <1>6, <1>7 DEF Poll

\* The invariant is inductive.
LEMMA NextInv == IndInv /\ [Next]_vars => IndInv'
<1> SUFFICES ASSUME IndInv, [Next]_vars PROVE IndInv'
  OBVIOUS
<1>1. CASE Next
  BY <1>1, RunInv, ServerInv, GetInv, PollInv DEF Next
<1>2. CASE UNCHANGED vars
  BY <1>2 DEF vars, gets, IndInv, TypeOK, Unstarted, PollerAsks, Drained, PollerGone,
              Opened, Caused, FailureKept, RepositoryOutlivesGets, Alive
<1> QED
  BY <1>1, <1>2

\* The inductive invariant holds of every behaviour.
THEOREM InvariantHolds == Spec => []IndInv
BY InitInv, NextInv, PTL DEF Spec

-----------------------------------------------------------------------------

\* Type correctness: in particular a refresh only ever asks for keys of the
\* watchlist.
THEOREM TypeCorrect == Spec => []TypeOK
<1>1. IndInv => TypeOK
  BY DEF IndInv
<1> QED
  BY <1>1, InvariantHolds, PTL

\* However the signal, the servers, the requests and the poller interleave, the
\* repository is closed under no Get but that of a request the drain gave up on.
THEOREM Outlives == Spec => []RepositoryOutlivesGets
<1>1. IndInv => RepositoryOutlivesGets
  BY DEF IndInv
<1> QED
  BY <1>1, InvariantHolds, PTL

\* A clean exit has been asked for by a signal, and no failure of a server that
\* the select took is lost on the way to it.
THEOREM Reported == Spec => []FailureIsReported
<1>1. IndInv => FailureIsReported
  BY DEF IndInv, Caused, FailureKept, FailureIsReported
<1> QED
  BY <1>1, InvariantHolds, PTL

-----------------------------------------------------------------------------
(* The flush *)

\* Telemetry is flushed in the last steps of run, past the wait group.
TelemetryUp ==
  /\ main \in {"flush", "close", "return"} => ServersReturned
  /\ main \in {"close", "return"} => telemetry = "flushed"
  /\ Alive /\ telemetry = "flushed" => main \in {"close", "return"}

LEMMA FlushInit == Init => TelemetryUp /\ FlushedLast
BY DEF Init, TelemetryUp, FlushedLast, Alive

\* A step that is not run's leaves telemetry alone, and lets nothing begin or come
\* back that is over.
LEMMA OthersQuiet ==
  ASSUME IndInv, Alive,
         \/ Signal \/ Kill \/ DrainTimesOut \/ Poll \/ Tick
         \/ \E s \in Servers : Listen(s) \/ ServeFails(s) \/ Send(s) \/ ServerClosed(s)
         \/ \E r \in Requests : Request(r) \/ Respond(r)
         \/ \E c \in Callers : Acquire(c)
  PROVE  /\ telemetry' = telemetry /\ main' \in {main, "killed", "panicked"}
         /\ late => late'
         /\ poll = "returned" => poll' = "returned"
         /\ \A s \in Servers : srv[s] \in {"closed", "failed"} => srv'[s] = srv[s]
         /\ closing[Api] /\ poll = "returned" =>
              \A c \in Callers : phase[c] = "out" => phase'[c] = "out"
<1>. USE DEF IndInv, TypeOK
<1>1. CASE Signal \/ Kill \/ DrainTimesOut
  BY <1>1 DEF Signal, Kill, DrainTimesOut
<1>2. CASE Poll \/ Tick
  BY <1>2 DEF Poll, Tick, PollAsk, PollGot, PollRefreshed, NewTickerPanics, PollTick,
              PollStop, Ask, GetReturns
<1>3. ASSUME NEW s \in Servers, Listen(s) \/ ServeFails(s) \/ Send(s) \/ ServerClosed(s)
      PROVE  /\ UNCHANGED <<telemetry, main, late, poll, phase>>
             /\ srv[s] \notin {"closed", "failed"}
             /\ \A q \in Servers \ {s} : srv'[q] = srv[q]
  BY <1>3 DEF Listen, ServeFails, Send, ServerClosed
<1>4. ASSUME NEW r \in Requests, Request(r) \/ Respond(r)
      PROVE  /\ UNCHANGED <<telemetry, main, late, poll, srv>>
             /\ closing[Api] => \A c \in Callers : phase[c] = "out" => phase'[c] = "out"
  BY <1>4 DEF Request, Respond, Ask, GetReturns
<1>5. ASSUME NEW c \in Callers, Acquire(c)
      PROVE  /\ UNCHANGED <<telemetry, main, late, poll, srv>>
             /\ \A d \in Callers : phase[d] = "out" => phase'[d] = "out"
  BY <1>5 DEF Acquire
<1> QED
  BY <1>1, <1>2, <1>3, <1>4, <1>5

LEMMA FlushNext ==
  IndInv /\ TelemetryUp /\ FlushedLast /\ [Next]_vars => TelemetryUp' /\ FlushedLast'
<1> SUFFICES ASSUME IndInv, TelemetryUp, FlushedLast, [Next]_vars
             PROVE  TelemetryUp' /\ FlushedLast'
  OBVIOUS
<1>1. CASE UNCHANGED vars
  BY <1>1 DEF vars, TelemetryUp, FlushedLast, ServersReturned, Alive
<1>2. CASE Alive /\ (Run \/ BootFails)
  <2>. USE <1>2 DEF TelemetryUp, FlushedLast, ServersReturned, Alive
  <2>1. CASE Load \/ Setup \/ OpenRepo \/ Boot \/ BootFails
    BY <2>1 DEF Load, Setup, OpenRepo, Boot, BootFails, IndInv, Unstarted
  <2>2. CASE SelectDone \/ SelectErr \/ Stop \/ ShutApi \/ DrainApi \/ ShutAdmin
    BY <2>2 DEF SelectDone, SelectErr, Stop, ShutApi, DrainApi, ShutAdmin
  <2>3. CASE Wait
    BY <2>3 DEF Wait
  <2>4. CASE Flush
    BY <2>4, LifecycleAssumption DEF Flush, IndInv, Drained, PollerAsks, PollerGone
  <2>5. CASE Close \/ Return
    BY <2>5 DEF Close, Return
  <2> QED
    BY <2>1, <2>2, <2>3, <2>4, <2>5 DEF Run
<1>3. CASE /\ Alive
           /\ \/ Signal \/ Kill \/ DrainTimesOut \/ Poll \/ Tick
              \/ \E s \in Servers : Listen(s) \/ ServeFails(s) \/ Send(s) \/ ServerClosed(s)
              \/ \E r \in Requests : Request(r) \/ Respond(r)
              \/ \E c \in Callers : Acquire(c)
  <2>1. /\ telemetry' = telemetry /\ main' \in {main, "killed", "panicked"}
        /\ late => late'
        /\ poll = "returned" => poll' = "returned"
        /\ \A s \in Servers : srv[s] \in {"closed", "failed"} => srv'[s] = srv[s]
        /\ closing[Api] /\ poll = "returned" =>
             \A c \in Callers : phase[c] = "out" => phase'[c] = "out"
    BY <1>3, OthersQuiet
  <2>2. telemetry = "flushed" => main \in {"close", "return"}
    BY <1>3 DEF TelemetryUp
  <2>3. telemetry = "flushed" => closing[Api]
    BY <2>2 DEF IndInv, Drained
  <2>4. main \notin {"exited", "killed", "panicked"}
    BY <1>3 DEF Alive
  <2>5. TelemetryUp'
    BY <2>1, <2>2, <2>4 DEF TelemetryUp, ServersReturned, Alive
  <2>6. FlushedLast'
    BY <2>1, <2>3, <2>4 DEF FlushedLast, ServersReturned
  <2> QED
    BY <2>5, <2>6
<1> QED
  BY <1>1, <1>2, <1>3 DEF Next

\* Telemetry is flushed after all that makes it, and by every program that was
\* started and exits.
THEOREM Flushed == Spec => []FlushedLast
<1>1. Init => IndInv /\ TelemetryUp /\ FlushedLast
  BY InitInv, FlushInit
<1>2. IndInv /\ TelemetryUp /\ FlushedLast /\ [Next]_vars
        => (IndInv /\ TelemetryUp /\ FlushedLast)'
  BY NextInv, FlushNext
<1> QED
  BY <1>1, <1>2, PTL DEF Spec

=============================================================================
