------------------------------ MODULE Upstream ------------------------------
(***************************************************************************)
(* What a fetch of bars may return, as the store may assume it and the     *)
(* Alpaca client provides it.  A bar is the instant its value was          *)
(* obtained; upstream publishes a bar as soon as it starts.                *)
(***************************************************************************)
EXTENDS Integers

CONSTANT NoBar   \* no bar

\* What a fetch of [from, to] that began at one instant and returns at another
\* may deliver for the bar that starts at t: a bar of the window that had
\* started when the fetch began is delivered, as of some instant since; one that
\* started since may be.
Delivers(from, to, began, ended, t, at) ==
  LET inWindow == from <= t /\ t <= to
  IN  IF inWindow /\ t <= began
        THEN at \in began .. ended
        ELSE at = NoBar \/ (inWindow /\ at \in t .. ended)

=============================================================================
