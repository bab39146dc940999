----------------------------- MODULE Lifecycle -----------------------------
(***************************************************************************)
(* The life of the process: main.go loads the configuration, sets up       *)
(* telemetry, client and repository, starts the poller and the HTTP        *)
(* servers over them, waits for a signal or for a server to fail, and      *)
(* shuts everything down; internal/poller refreshes the watchlist until    *)
(* its context is done.                                                    *)
(*                                                                         *)
(* A Get is what Store shows of it: it waits for its key, holds it for     *)
(* some steps in which it uses the repository, and gives it back.  The     *)
(* locks are KeyMutex, which KeyLock implements.                           *)
(***************************************************************************)
EXTENDS Naturals, FiniteSets

CONSTANTS
  Requests,    \* connections to the API server, each with a request at a time
  Poller,      \* the poller's goroutine
  NoCaller,    \* owner of a free key
  Keys,        \* the (symbol, timeframe) keys
  Watched,     \* those of the watchlist
  Api, Admin,  \* the two HTTP servers
  Servers      \* the servers configured: the admin server is optional

ASSUME LifecycleAssumption ==
  /\ Poller \notin Requests
  /\ NoCaller \notin Requests \cup {Poller}
  /\ Watched \subseteq Keys
  /\ Api # Admin
  /\ Servers \in {{Api}, {Api, Admin}}

VARIABLES
  main,      \* where run is
  signal,    \* SIGINT or SIGTERM was received while it was listened for
  stopped,   \* stop() was called
  late,      \* the ten seconds of shutdownCtx are over
  runErr,    \* run returns an error
  interval,  \* the configuration's POLL_INTERVAL
  telemetry, \* the providers of Setup
  repo,      \* whether the repository is open
  srv,       \* where the goroutine of each server is
  closing,   \* Shutdown was called on each server
  srvErr,    \* the servers whose failure is in the channel srvErr
  poll,      \* where Poller.Run is
  left,      \* the keys this refresh has still to ask for
  tick,      \* a tick waits in the ticker's channel
  phase,     \* where each caller's Get is
  key,       \* the key it is for
  owner      \* the caller that holds each key

process == <<main, signal, stopped, late, runErr, interval, telemetry, repo>>
servers == <<srv, closing, srvErr>>
poller  == <<poll, left, tick>>
gets    == <<phase, key, owner>>
vars    == <<process, servers, poller, gets>>

Callers == Requests \cup {Poller}
Locks   == INSTANCE KeyMutex WITH Procs <- Callers, NoProc <- NoCaller

\* The context of run, which the poller is given, is done.
ctxDone == signal \/ stopped

Init ==
  /\ main = "load" /\ signal = FALSE /\ stopped = FALSE /\ late = FALSE
  /\ runErr = FALSE /\ repo = "closed"
  /\ interval = "unset" /\ telemetry = "none"
  /\ srv = [s \in Servers |-> "unborn"]
  /\ closing = [s \in Servers |-> FALSE]
  /\ srvErr = {}
  /\ poll = "unborn" /\ left = {} /\ tick = FALSE
  /\ phase = [c \in Callers |-> "out"]
  /\ key \in [Callers -> Keys]
  /\ Locks!Init

-----------------------------------------------------------------------------
(* run *)

\* Load takes any duration for POLL_INTERVAL.  Signals are listened for from here.
Load ==
  /\ main = "load"
  /\ main' = "setup"
  /\ interval' \in {"positive", "nonpositive"}
  /\ UNCHANGED <<signal, stopped, late, runErr, telemetry, repo, servers, poller, gets>>

\* Every exporter is built before the first provider is installed.
Setup ==
  /\ main = "setup"
  /\ main' = "open"
  /\ telemetry' = "up"
  /\ UNCHANGED <<signal, stopped, late, runErr, interval, repo, servers, poller, gets>>

\* The client is made and the repository opened.
OpenRepo ==
  /\ main = "open"
  /\ main' = "start"
  /\ repo' = "open"
  /\ UNCHANGED <<signal, stopped, late, runErr, interval, telemetry, servers, poller, gets>>

\* Load, Setup, the client or the repository fails: run returns at once, and
\* leaves telemetry that is set up as it is.
BootFails ==
  /\ main \in {"load", "setup", "open"}
  /\ main' = "exited"
  /\ runErr' = TRUE
  /\ UNCHANGED <<signal, stopped, late, interval, telemetry, repo, servers, poller, gets>>

\* The goroutines are started.
Boot ==
  /\ main = "start"
  /\ main' = "select"
  /\ srv' = [s \in Servers |-> "starting"]
  /\ poll' = "first"
  /\ left' = Watched
  /\ UNCHANGED <<signal, stopped, late, runErr, interval, telemetry, repo, closing,
                 srvErr, tick, gets>>

\* A signal, or the failure of a server: whichever the select finds ready.
SelectDone ==
  /\ main = "select"
  /\ ctxDone
  /\ main' = "stop"
  /\ UNCHANGED <<signal, stopped, late, runErr, interval, telemetry, repo, servers,
                 poller, gets>>

SelectErr ==
  /\ main = "select"
  /\ \E s \in srvErr : srvErr' = srvErr \ {s}
  /\ main' = "stop"
  /\ runErr' = TRUE
  /\ UNCHANGED <<signal, stopped, late, interval, telemetry, repo, srv, closing,
                 poller, gets>>

\* A mistaken variant: the context is left to the signal.
StopNothing ==
  /\ main = "stop"
  /\ main' = "shutApi"
  /\ UNCHANGED <<signal, stopped, late, runErr, interval, telemetry, repo, servers,
                 poller, gets>>

Stop ==
  /\ main = "stop"
  /\ main' = "shutApi"
  /\ stopped' = TRUE
  /\ UNCHANGED <<signal, late, runErr, interval, telemetry, repo, servers, poller, gets>>

ShutApi ==
  /\ main = "shutApi"
  /\ main' = "drainApi"
  /\ closing' = [closing EXCEPT ![Api] = TRUE]
  /\ UNCHANGED <<signal, stopped, late, runErr, interval, telemetry, repo, srv, srvErr,
                 poller, gets>>

\* Shutdown returns when no request is being served, or when time is up.
DrainApi ==
  /\ main = "drainApi"
  /\ late \/ \A r \in Requests : phase[r] = "out"
  /\ main' = "shutAdmin"
  /\ UNCHANGED <<signal, stopped, late, runErr, interval, telemetry, repo, servers,
                 poller, gets>>

\* The admin server's requests use nothing of the store.
ShutAdmin ==
  /\ main = "shutAdmin"
  /\ main' = "wait"
  /\ closing' = [s \in Servers |-> s = Admin \/ closing[s]]
  /\ UNCHANGED <<signal, stopped, late, runErr, interval, telemetry, repo, srv, srvErr,
                 poller, gets>>

ServersReturned == \A s \in Servers : srv[s] \in {"closed", "failed"}

\* A mistaken variant: the poller is not in the wait group.
WaitForServers ==
  /\ main = "wait"
  /\ ServersReturned
  /\ main' = "flush"
  /\ UNCHANGED <<signal, stopped, late, runErr, interval, telemetry, repo, servers,
                 poller, gets>>

\* A mistaken variant: telemetry is flushed before the goroutines are waited for.
FlushWithoutWaiting ==
  /\ main = "wait"
  /\ main' = "flush"
  /\ UNCHANGED <<signal, stopped, late, runErr, interval, telemetry, repo, servers,
                 poller, gets>>

Wait ==
  /\ main = "wait"
  /\ ServersReturned
  /\ poll = "returned"
  /\ main' = "flush"
  /\ UNCHANGED <<signal, stopped, late, runErr, interval, telemetry, repo, servers,
                 poller, gets>>

\* A mistaken variant: the outcome of the flush replaces the first error.
FlushOverwrites ==
  /\ main = "flush"
  /\ main' = "close"
  /\ telemetry' = "flushed"
  /\ runErr' \in BOOLEAN
  /\ UNCHANGED <<signal, stopped, late, interval, repo, servers, poller, gets>>

\* Flushing the telemetry has its own five seconds and may fail.
Flush ==
  /\ main = "flush"
  /\ main' = "close"
  /\ telemetry' = "flushed"
  /\ runErr' \in {runErr, TRUE}
  /\ UNCHANGED <<signal, stopped, late, interval, repo, servers, poller, gets>>

\* The deferred Close, and then the end of the process with all it runs.
Close ==
  /\ main = "close"
  /\ main' = "return"
  /\ repo' = "closed"
  /\ UNCHANGED <<signal, stopped, late, runErr, interval, telemetry, servers, poller, gets>>

Return ==
  /\ main = "return"
  /\ main' = "exited"
  /\ UNCHANGED <<signal, stopped, late, runErr, interval, telemetry, repo, servers,
                 poller, gets>>

Run ==
  \/ Load \/ Setup \/ OpenRepo \/ Boot \/ SelectDone \/ SelectErr \/ Stop \/ ShutApi \/ DrainApi \/ ShutAdmin
  \/ Wait \/ Flush \/ Close \/ Return

\* A signal cancels the context; before it is listened for, and once stop() was
\* called, it kills the process.
Signal ==
  /\ main # "load"
  /\ ~stopped
  /\ signal' = TRUE
  /\ UNCHANGED <<main, stopped, late, runErr, interval, telemetry, repo, servers,
                 poller, gets>>

Kill ==
  /\ main = "load" \/ stopped
  /\ main' = "killed"
  /\ UNCHANGED <<signal, stopped, late, runErr, interval, telemetry, repo, servers,
                 poller, gets>>

DrainTimesOut ==
  /\ main \in {"shutApi", "drainApi"}
  /\ late' = TRUE
  /\ UNCHANGED <<main, signal, stopped, runErr, interval, telemetry, repo, servers,
                 poller, gets>>

-----------------------------------------------------------------------------
(* The goroutine of a server *)

Listen(s) ==
  /\ srv[s] = "starting"
  /\ ~closing[s]
  /\ srv' = [srv EXCEPT ![s] = "serving"]
  /\ UNCHANGED <<process, closing, srvErr, poller, gets>>

\* The address is in use, or accepting fails.
ServeFails(s) ==
  /\ srv[s] \in {"starting", "serving"}
  /\ ~closing[s]
  /\ srv' = [srv EXCEPT ![s] = "sending"]
  /\ UNCHANGED <<process, closing, srvErr, poller, gets>>

\* A mistaken variant: the channel has no buffer.
SendUnbuffered(s) ==
  /\ srv[s] = "sending"
  /\ main = "select"
  /\ srv' = [srv EXCEPT ![s] = "failed"]
  /\ srvErr' = srvErr \cup {s}
  /\ UNCHANGED <<process, closing, poller, gets>>

\* The channel has room for two.
Send(s) ==
  /\ srv[s] = "sending"
  /\ Cardinality(srvErr) < 2
  /\ srv' = [srv EXCEPT ![s] = "failed"]
  /\ srvErr' = srvErr \cup {s}
  /\ UNCHANGED <<process, closing, poller, gets>>

\* ErrServerClosed, also to a server that was shut down before it listened.
ServerClosed(s) ==
  /\ srv[s] \in {"starting", "serving"}
  /\ closing[s]
  /\ srv' = [srv EXCEPT ![s] = "closed"]
  /\ UNCHANGED <<process, closing, srvErr, poller, gets>>

-----------------------------------------------------------------------------
(* Gets *)

Ask(c, k) ==
  /\ phase[c] = "out"
  /\ phase' = [phase EXCEPT ![c] = "waiting"]
  /\ key' = [key EXCEPT ![c] = k]
  /\ UNCHANGED owner

\* The wait for a key watches no context.
Acquire(c) ==
  /\ phase[c] = "waiting"
  /\ Locks!Acquire(c, key[c])
  /\ phase' = [phase EXCEPT ![c] = "inside"]
  /\ UNCHANGED <<process, servers, poller, key>>

GetReturns(c) ==
  /\ phase[c] = "inside"
  /\ Locks!Release(c, key[c])
  /\ phase' = [phase EXCEPT ![c] = "out"]
  /\ UNCHANGED key

\* A request arrives at the API server, and is answered.
Request(r) ==
  /\ srv[Api] = "serving"
  /\ ~closing[Api]
  /\ \E k \in Keys : Ask(r, k)
  /\ UNCHANGED <<process, servers, poller>>

Respond(r) ==
  /\ GetReturns(r)
  /\ UNCHANGED <<process, servers, poller>>

-----------------------------------------------------------------------------
(* Poller.Run *)

\* refresh asks for one key after another, whether or not the context is done.
PollAsk ==
  /\ poll \in {"first", "refresh"}
  /\ \E k \in left : Ask(Poller, k)
  /\ UNCHANGED <<process, servers, poller>>

\* A mistaken variant: an error ends the refresh.
PollGivesUp ==
  /\ GetReturns(Poller)
  /\ left' \in {left \ {key[Poller]}, {}}
  /\ UNCHANGED <<process, servers, poll, tick>>

\* An error of Get is counted, and the next key is asked for.
PollGot ==
  /\ GetReturns(Poller)
  /\ left' = left \ {key[Poller]}
  /\ UNCHANGED <<process, servers, poll, tick>>

\* After the first refresh the ticker is made.
PollRefreshed ==
  /\ poll \in {"first", "refresh"}
  /\ left = {}
  /\ poll = "first" => interval = "positive"
  /\ poll' = "select"
  /\ UNCHANGED <<process, servers, left, tick, gets>>

\* NewTicker panics for an interval of zero or less, and nobody recovers.
NewTickerPanics ==
  /\ poll = "first"
  /\ left = {}
  /\ interval = "nonpositive"
  /\ poll' = "panicked"
  /\ main' = "panicked"
  /\ UNCHANGED <<signal, stopped, late, runErr, interval, telemetry, repo, servers,
                 left, tick, gets>>

\* A mistaken variant: a tick refreshes whatever anybody asks for.
PollEverything ==
  /\ poll = "select"
  /\ tick
  /\ tick' = FALSE
  /\ poll' = "refresh"
  /\ left' = Keys
  /\ UNCHANGED <<process, servers, gets>>

PollTick ==
  /\ poll = "select"
  /\ tick
  /\ tick' = FALSE
  /\ poll' = "refresh"
  /\ left' = Watched
  /\ UNCHANGED <<process, servers, gets>>

PollStop ==
  /\ poll = "select"
  /\ ctxDone
  /\ poll' = "returned"
  /\ UNCHANGED <<process, servers, left, tick, gets>>

\* The ticker drops the ticks it cannot deliver.
Tick ==
  /\ poll \in {"refresh", "select"}
  /\ tick' = TRUE
  /\ UNCHANGED <<process, servers, poll, left, gets>>

Poll == PollAsk \/ PollGot \/ PollRefreshed \/ NewTickerPanics \/ PollTick \/ PollStop

-----------------------------------------------------------------------------

Alive == main \notin {"exited", "killed", "panicked"}

Next ==
  /\ Alive
  /\ \/ Run \/ BootFails \/ Signal \/ Kill \/ DrainTimesOut
     \/ \E s \in Servers : Listen(s) \/ ServeFails(s) \/ Send(s) \/ ServerClosed(s)
     \/ \E r \in Requests : Request(r) \/ Respond(r)
     \/ \E c \in Callers : Acquire(c)
     \/ Poll \/ Tick

Spec == Init /\ [][Next]_vars

\* Goroutines run, Gets return (Store), keys are handed on in turn (KeyLock),
\* time passes, and a select that finds Done ready again and again takes it.
Fairness ==
  /\ WF_vars(Alive /\ Run)
  /\ WF_vars(Alive /\ DrainTimesOut)
  /\ \A s \in Servers : WF_vars(Alive /\ (Listen(s) \/ Send(s) \/ ServerClosed(s)))
  /\ \A r \in Requests : WF_vars(Alive /\ Respond(r))
  /\ \A c \in Callers : SF_vars(Alive /\ Acquire(c))
  /\ WF_vars(Alive /\ Poll)
  /\ SF_vars(Alive /\ PollStop)
  /\ WF_vars(Alive /\ Tick)

FairSpec == Spec /\ Fairness

-----------------------------------------------------------------------------
(* Properties *)

TypeOK ==
  /\ main \in {"load", "setup", "open", "start", "select", "stop", "shutApi", "drainApi", "shutAdmin",
               "wait", "flush", "close", "return", "exited", "killed", "panicked"}
  /\ {signal, stopped, late, runErr, tick} \subseteq BOOLEAN
  /\ interval \in {"unset", "positive", "nonpositive"}
  /\ telemetry \in {"none", "up", "flushed"}
  /\ repo \in {"open", "closed"}
  /\ srv \in [Servers -> {"unborn", "starting", "serving", "sending", "closed", "failed"}]
  /\ closing \in [Servers -> BOOLEAN]
  /\ srvErr \subseteq Servers
  /\ poll \in {"unborn", "first", "refresh", "select", "returned", "panicked"}
  /\ left \subseteq Watched
  /\ phase \in [Callers -> {"out", "waiting", "inside"}]
  /\ key \in [Callers -> Keys]
  /\ owner \in [Keys -> Callers \cup {NoCaller}]

\* No Get finds the repository closed, unless the drain of the API server ran
\* out of time: neither a request nor a refresh, which may have begun after the
\* signal, outlives it (main.go:69, 128-134).
RepositoryOutlivesGets ==
  \A c \in Callers :
    repo = "closed" /\ phase[c] # "out" => c \in Requests /\ late

\* The program exits without an error only when a signal asked it to and its
\* select took no failure: without a signal, a server that fails makes it fail,
\* and what the select took from the channel is lost by no later step, the flush
\* included.  With a signal the select may choose the signal; the failure of a
\* server is then left in the channel, unread, and is not reported
\* (main.go:117-142).
FailureIsReported ==
  main = "exited" /\ ~runErr =>
    /\ signal
    /\ \A s \in Servers : srv[s] = "failed" => s \in srvErr

\* Telemetry is flushed when nothing is left that makes any: neither the poller
\* nor a server's goroutine runs on, nor a request unless the drain of the API
\* server ran out of time; and a program that was started does not exit without
\* the flush (main.go:134-141).
FlushedLast ==
  /\ telemetry = "flushed" =>
       /\ poll = "returned" /\ ServersReturned
       /\ \A c \in Callers : phase[c] # "out" => late
  /\ main = "exited" /\ poll # "unborn" => telemetry = "flushed"

\* After a signal or the failure of a server the process ends, although requests
\* go on holding keys the poller waits for, ticks keep coming, and both servers
\* may fail at once (main.go:85, 115-134).
ShutsDown ==
  (signal \/ \E s \in Servers : srv[s] = "sending") ~> ~Alive

\* Every key of the watchlist is refreshed again and again until the context is
\* done, whatever happens to the Gets of the others (poller.go:83-92).
KeepsWarm ==
  \A k \in Watched : []<>(ctxDone \/ ~Alive \/ owner[k] = Poller)

-----------------------------------------------------------------------------
(* What the comments say and the code does not do *)

\* "Run refreshes immediately, then every interval, until ctx is cancelled": the
\* poller stops for no other reason.
PollsUntilCancelled == poll \in {"returned", "panicked"} => ctxDone

=============================================================================
