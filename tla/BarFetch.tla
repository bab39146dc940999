------------------------------ MODULE BarFetch ------------------------------
(***************************************************************************)
(* What Store asks of its FetchFunc (internal/store/store.go), which       *)
(* main.go makes of the Alpaca client's GetBars: a call for a window       *)
(* delivers every bar of it that had started when the call began, each     *)
(* obtained between the call and its return, and perhaps bars that started *)
(* since; or it fails and delivers nothing.                                *)
(*                                                                         *)
(* A bar is the instant it was obtained, as in Store.                      *)
(***************************************************************************)
EXTENDS Upstream

CONSTANTS
  BarTimes,   \* the instants at which upstream has a bar
  Windows     \* the windows asked for

VARIABLES
  clock,      \* time.Now
  call        \* the call in progress

fvars == <<clock, call>>

NoBars == [t \in BarTimes |-> NoBar]
Idle   == [st |-> "idle", from |-> 0, to |-> 0, began |-> 0, bars |-> NoBars]

Init == clock = 0 /\ call = Idle

Begin ==
  /\ call.st = "idle"
  /\ \E w \in Windows :
       call' = [st |-> "called", from |-> w.Start, to |-> w.End, began |-> clock,
                bars |-> NoBars]
  /\ UNCHANGED clock

Succeed ==
  /\ call.st = "called"
  /\ \E bars \in [BarTimes -> (0 .. clock) \cup {NoBar}] :
       /\ \A t \in BarTimes :
            Delivers(call.from, call.to, call.began, clock, t, bars[t])
       /\ call' = [st |-> "ok", from |-> call.from, to |-> call.to, began |-> call.began,
                   bars |-> bars]
  /\ UNCHANGED clock

Fail ==
  /\ call.st = "called"
  /\ call' = [call EXCEPT !.st = "failed"]
  /\ UNCHANGED clock

Return ==
  /\ call.st \in {"ok", "failed"}
  /\ call' = Idle
  /\ UNCHANGED clock

Tick == clock' = clock + 1 /\ UNCHANGED call

Next == Begin \/ Succeed \/ Fail \/ Return \/ Tick

Spec == Init /\ [][Next]_fvars

=============================================================================
