---------------------------- MODULE AlpacaClient ----------------------------
(***************************************************************************)
(* GetBars of internal/alpaca/client.go: a window is asked for page by     *)
(* page, each page by a request that the transport below repeats while     *)
(* upstream is busy, failing or silent; upstream goes on publishing and    *)
(* revising bars in between.  A failure of any page is recorded, once, and *)
(* drops the pages before it.                                              *)
(*                                                                         *)
(* External are upstream and go-retryablehttp.  Upstream's pages are the   *)
(* bars of the window in order; a token comes with at least one bar and    *)
(* continues after the last of them.  The transport repeats a request      *)
(* after a 429, a 5xx or a transport error, RetryMax times at most, and    *)
(* then passes the last answer on.                                         *)
(***************************************************************************)
EXTENDS Integers, Sequences

CONSTANTS
  BarTimes, Windows, NoBar,   \* as in BarFetch
  PageSize,                   \* the most bars of a page
  RetryMax,                   \* the most repetitions of a request
  MaxClock                    \* bound on the clock, for TLC

ASSUME AlpacaAssumption ==
  /\ BarTimes \subseteq Nat
  /\ Windows \subseteq [Start : Nat, End : Nat]
  /\ NoBar \in Int /\ NoBar < 0
  /\ PageSize \in Nat \ {0}
  /\ RetryMax \in Nat
  /\ MaxClock \in Nat

VARIABLES
  clock,      \* time.Now
  pc,         \* where GetBars is
  window,     \* its start and end
  began,      \* when it was called
  ctx,        \* its context
  attempts,   \* the repetitions of the request at work
  token,      \* the start of the last bar delivered, which is the page token
  out,        \* the bars delivered, each with the instant it was obtained
  last,       \* how the last request ended
  recorded    \* the kinds of errors recorded for the call

vars == <<clock, pc, window, began, ctx, attempts, token, out, last, recorded>>

\* How a request may end other than with a page.
Repeated == {"429", "5xx", "transport", "attempt_timeout"}
Final    == {"other_status", "200_without_JSON", "bad_body", "body_timeout"}
Contexts == {"live", "cancelled", "expired"}

FirstPage == -1    \* no token

Init ==
  /\ clock = 0
  /\ pc = "idle"
  /\ window = [Start |-> 0, End |-> 0] /\ began = 0
  /\ ctx = "live"
  /\ attempts = 0 /\ token = FirstPage /\ out = <<>>
  /\ last = "none" /\ recorded = <<>>

Call ==
  /\ pc = "idle"
  /\ window' \in Windows
  /\ pc' = "request" /\ began' = clock /\ ctx' = "live"
  /\ attempts' = 0 /\ token' = FirstPage /\ out' = <<>>
  /\ last' = "none" /\ recorded' = <<>>
  /\ UNCHANGED clock

\* The request is sent, for the first time or again after a pause.
Send ==
  /\ pc = "request"
  /\ ctx = "live"
  /\ pc' = "sent"
  /\ UNCHANGED <<clock, window, began, ctx, attempts, token, out, last, recorded>>

-----------------------------------------------------------------------------
(* Pages *)

\* What upstream has for the request: the bars of the window after the token.
Remaining ==
  {t \in BarTimes : /\ t > token /\ t <= clock
                    /\ window.Start <= t /\ t <= window.End}

\* The first bars of what remains, in order.
IsPage(p) ==
  /\ \A i, j \in DOMAIN p : i < j => p[i] < p[j]
  /\ \A t \in Remaining, i \in DOMAIN p : t < p[i] => \E j \in DOMAIN p : p[j] = t
  /\ Remaining # {} => p # <<>>

Stamped(p) == [i \in DOMAIN p |-> [T |-> p[i], At |-> clock]]

\* A mistaken variant: the next request carries the token of the last.
SameToken(p) == token
\* next_page_token continues after the last bar of the page.
NextToken(p) == p[Len(p)]

PageWith(p, more) ==
  /\ IsPage(p)
  /\ (\E t \in Remaining : \A i \in DOMAIN p : p[i] # t) => more
  /\ more => p # <<>>
  /\ out' = out \o Stamped(p)
  /\ IF more
       THEN pc' = "request" /\ token' = NextToken(p) /\ attempts' = 0
       ELSE pc' = "ok" /\ UNCHANGED <<token, attempts>>

\* A page arrives: its bars are appended, and the next one is asked for if there
\* is a token.
Page ==
  /\ pc = "sent"
  /\ \E n \in 0 .. PageSize, more \in BOOLEAN :
       \E p \in [1 .. n -> Remaining] : PageWith(p, more)
  /\ last' = "page"
  /\ UNCHANGED <<clock, window, began, ctx, recorded>>

-----------------------------------------------------------------------------
(* Failures *)

Kind(end) ==
  CASE end = "429"                                            -> "rate_limited"
    [] end \in {"attempt_timeout", "body_timeout", "expired"} -> "timeout"
    [] OTHER                                                  -> "upstream"

\* A mistaken variant: the transport never gives up.
RepeatForEver(end) ==
  /\ pc = "sent" /\ ctx = "live"
  /\ pc' = "request"
  /\ last' = end
  /\ UNCHANGED <<clock, window, began, ctx, attempts, token, out, recorded>>

\* A mistaken variant: every attempt that fails is recorded.
RepeatRecorded(end) ==
  /\ pc = "sent" /\ ctx = "live"
  /\ attempts < RetryMax
  /\ pc' = "request" /\ attempts' = attempts + 1
  /\ last' = end
  /\ recorded' = Append(recorded, Kind(end))
  /\ UNCHANGED <<clock, window, began, ctx, token, out>>

\* The transport pauses and repeats the request.
Repeat(end) ==
  /\ pc = "sent" /\ ctx = "live"
  /\ attempts < RetryMax
  /\ pc' = "request" /\ attempts' = attempts + 1
  /\ last' = end
  /\ UNCHANGED <<clock, window, began, ctx, token, out, recorded>>

\* A mistaken variant: a failure after the first page ends the call as if its
\* pages were all.
GiveUpWithPages(end) ==
  /\ pc' = IF out = <<>> THEN "failed" ELSE "ok"
  /\ last' = end
  /\ recorded' = IF out = <<>> THEN Append(recorded, Kind(end)) ELSE recorded
  /\ UNCHANGED <<clock, window, began, ctx, attempts, token, out>>

\* GetBars records the error under its kind, and returns it without bars.
GiveUp(end) ==
  /\ pc' = "failed" /\ out' = <<>>
  /\ last' = end
  /\ recorded' = Append(recorded, Kind(end))
  /\ UNCHANGED <<clock, window, began, ctx, attempts, token>>

\* The last repetition fails, or the request ends in a way that is not repeated.
RequestFails ==
  /\ pc = "sent"
  /\ \E end \in Repeated \cup Final :
       /\ end \in Repeated => attempts = RetryMax
       /\ GiveUp(end)

\* The caller's context ends a request that is sent, and one that is to be sent.
ContextEnds ==
  /\ pc \in {"request", "sent"}
  /\ ctx # "live"
  /\ GiveUp(ctx)

-----------------------------------------------------------------------------

Return ==
  /\ pc \in {"ok", "failed"}
  /\ pc' = "idle"
  /\ UNCHANGED <<clock, window, began, ctx, attempts, token, out, last, recorded>>

\* The caller goes away, or its deadline passes.
ContextDone ==
  /\ pc \in {"request", "sent"}
  /\ ctx = "live"
  /\ ctx' \in Contexts \ {"live"}
  /\ UNCHANGED <<clock, pc, window, began, attempts, token, out, last, recorded>>

Tick ==
  /\ clock < MaxClock
  /\ clock' = clock + 1
  /\ UNCHANGED <<pc, window, began, ctx, attempts, token, out, last, recorded>>

Answered == Page \/ (\E end \in Repeated : Repeat(end)) \/ RequestFails \/ ContextEnds

Next == Call \/ Send \/ Answered \/ Return \/ ContextDone \/ Tick

Spec == Init /\ [][Next]_vars

\* The transport's pauses end, and every attempt ends within the 30 seconds of its
\* HTTP client.
FairSpec == Spec /\ WF_vars(Send) /\ WF_vars(Answered)

-----------------------------------------------------------------------------
(* Properties *)

TypeOK ==
  /\ clock \in Nat
  /\ pc \in {"idle", "request", "sent", "ok", "failed"}
  /\ window \in [Start : Nat, End : Nat] /\ began \in Nat
  /\ ctx \in Contexts
  /\ attempts \in 0 .. RetryMax
  /\ token \in BarTimes \cup {FirstPage}
  /\ out \in Seq([T : BarTimes, At : Nat])
  /\ last \in {"none", "page"} \cup Repeated \cup Final \cup Contexts
  /\ recorded \in Seq({"rate_limited", "timeout", "upstream"})

\* Whatever is published or revised between two pages and however often requests
\* are repeated: no bar is delivered twice, and bars come in order
\* (client.go:117-126).
DeliveredInOrder ==
  \A i, j \in DOMAIN out : i < j => out[i].T < out[j].T

\* A call that fails is recorded once, whatever attempts failed before, and under
\* rate_limited when its last answer was a 429; a call that succeeds in the end
\* is not recorded (client.go:100-116, errors.go:42-46).
FailuresRecordedOnce ==
  /\ pc = "ok" => recorded = <<>>
  /\ pc = "failed" => /\ Len(recorded) = 1
                      /\ recorded[1] = "rate_limited" <=> last = "429"

\* Refinement: what was delivered, for each bar.
Delivered(t) ==
  IF \E i \in DOMAIN out : out[i].T = t
    THEN out[CHOOSE i \in DOMAIN out : out[i].T = t].At
    ELSE NoBar

Status == IF pc \in {"request", "sent"} THEN "called" ELSE pc

fetch ==
  IF pc = "idle"
    THEN [st |-> "idle", from |-> 0, to |-> 0, began |-> 0,
          bars |-> [t \in BarTimes |-> NoBar]]
    ELSE [st |-> Status, from |-> window.Start, to |-> window.End, began |-> began,
          bars |-> [t \in BarTimes |-> IF pc = "ok" THEN Delivered(t) ELSE NoBar]]

F == INSTANCE BarFetch WITH call <- fetch

\* Page by page, with failures of any request, retries, and bars that appear and
\* are revised in between: a call that succeeds delivers the whole window as of
\* no earlier than its start, and one that fails delivers nothing (client.go:89).
FetchesWindow == F!Spec

\* Every call ends, with all its pages or an error (client.go:89).
EveryCallEnds == pc = "request" ~> pc \in {"ok", "failed"}

=============================================================================
