---------------------------- MODULE AlpacaProofs ----------------------------
(***************************************************************************)
(* Proofs about AlpacaClient, for any bars, windows, page size and number  *)
(* of repetitions: bars are delivered once and in order, a failure is      *)
(* recorded once, and the client is the upstream that Store asks for.      *)
(***************************************************************************)
EXTENDS AlpacaClient, SequenceTheorems, TLAPS

Underway == pc \in {"request", "sent"}

Delivery == [T : BarTimes, At : Nat]

InWindow(t) == window.Start <= t /\ t <= window.End

\* A bar is delivered inside the window, was obtained during the call, and is not
\* past the token while there are pages to come.
DeliveredInTime ==
  /\ began <= clock
  /\ \A i \in DOMAIN out :
       /\ InWindow(out[i].T)
       /\ began <= out[i].At /\ out[i].At <= clock /\ out[i].T <= out[i].At
       /\ Underway => out[i].T <= token

\* Up to the token, and in the end altogether, every bar of the window is there
\* that had started when the call began.
DeliveredSoFar ==
  \A t \in BarTimes :
    (/\ InWindow(t) /\ t <= began
     /\ pc = "ok" \/ (Underway /\ t <= token))
    => \E i \in DOMAIN out : out[i].T = t

\* What is recorded, and when.
RecordedAtEnd ==
  /\ Underway => recorded = <<>>
  /\ pc = "failed" => out = <<>>

IndInv ==
  /\ TypeOK /\ DeliveredInOrder /\ DeliveredInTime /\ DeliveredSoFar
  /\ RecordedAtEnd /\ FailuresRecordedOnce

-----------------------------------------------------------------------------
(* Pages *)

LEMMA Numbers ==
  /\ BarTimes \subseteq Nat /\ BarTimes \subseteq Int
  /\ NoBar \in Int /\ NoBar < 0 /\ PageSize \in Nat /\ RetryMax \in Nat
BY AlpacaAssumption

\* A sequence with a page appended: its elements are the old ones, where they were,
\* and the page's after them.
LEMMA Joined ==
  ASSUME NEW o \in Seq(Delivery), NEW n \in Nat, NEW s \in [1 .. n -> Delivery],
         NEW q, q = o \o s
  PROVE  /\ q \in Seq(Delivery)
         /\ \A i \in DOMAIN o : i \in DOMAIN q /\ q[i] = o[i]
         /\ \A j \in 1 .. n : Len(o) + j \in DOMAIN q /\ q[Len(o) + j] = s[j]
         /\ \A i \in DOMAIN q : \/ i \in DOMAIN o /\ q[i] = o[i]
                                \/ \E j \in 1 .. n : i = Len(o) + j /\ q[i] = s[j]
<1>1. s \in Seq(Delivery) /\ Len(s) = n
  OBVIOUS
<1>2. /\ q \in Seq(Delivery) /\ Len(q) = Len(o) + n
      /\ \A i \in 1 .. Len(o) + n : q[i] = IF i <= Len(o) THEN o[i] ELSE s[i - Len(o)]
  BY <1>1, ConcatProperties
<1>3. PICK m \in Nat : m = Len(o)
  BY LenProperties
<1>4. DOMAIN o = 1 .. m /\ DOMAIN q = 1 .. (m + n)
  BY <1>2, <1>3, LenProperties
<1>5. \A i \in 1 .. (m + n) : q[i] = IF i <= m THEN o[i] ELSE s[i - m]
  BY <1>2, <1>3
<1>6. \A i \in DOMAIN o : i \in DOMAIN q /\ q[i] = o[i]
  BY <1>4, <1>5
<1>7. ASSUME NEW j \in 1 .. n PROVE Len(o) + j \in DOMAIN q /\ q[Len(o) + j] = s[j]
  <2>1. m + j \in 1 .. (m + n) /\ ~(m + j <= m) /\ (m + j) - m = j
    OBVIOUS
  <2> QED
    BY <2>1, <1>3, <1>4, <1>5
<1>8. ASSUME NEW i \in DOMAIN q
      PROVE  \/ i \in DOMAIN o /\ q[i] = o[i]
             \/ \E j \in 1 .. n : i = Len(o) + j /\ q[i] = s[j]
  <2>1. CASE i <= m
    BY <2>1, <1>4, <1>5
  <2>2. CASE ~(i <= m)
    <3>1. i \in 1 .. (m + n)
      BY <1>4
    <3>2. PICK j \in 1 .. n : j = i - m /\ i = m + j
      BY <2>2, <3>1
    <3>3. q[i] = s[j]
      BY <2>2, <3>1, <3>2, <1>5
    <3> QED
      BY <3>2, <3>3, <1>3
  <2> QED
    BY <2>1, <2>2
<1> QED
  BY <1>2, <1>6, <1>7, <1>8

\* Order survives a page that comes after everything before it.
LEMMA JoinedInOrder ==
  ASSUME NEW o \in Seq(Delivery), NEW n \in Nat, NEW s \in [1 .. n -> Delivery],
         NEW q, q = o \o s,
         \A i, j \in DOMAIN o : i < j => o[i].T < o[j].T,
         \A i, j \in 1 .. n : i < j => s[i].T < s[j].T,
         \A i \in DOMAIN o, j \in 1 .. n : o[i].T < s[j].T
  PROVE  \A i, j \in DOMAIN q : i < j => q[i].T < q[j].T
<1>1. \A i \in DOMAIN q : \/ i \in DOMAIN o /\ q[i] = o[i]
                          \/ \E j \in 1 .. n : i = Len(o) + j /\ q[i] = s[j]
  BY Joined
<1>2. PICK m \in Nat : m = Len(o)
  BY LenProperties
<1>3. DOMAIN o = 1 .. m
  BY <1>2, LenProperties
<1> SUFFICES ASSUME NEW i \in DOMAIN q, NEW j \in DOMAIN q, i < j
             PROVE  q[i].T < q[j].T
  OBVIOUS
<1>4. CASE j \in DOMAIN o /\ q[j] = o[j]
  <2>1. i \in DOMAIN o /\ q[i] = o[i]
    BY <1>1, <1>2, <1>3, <1>4
  <2> QED
    BY <1>4, <2>1
<1>5. ASSUME NEW k \in 1 .. n, j = Len(o) + k, q[j] = s[k]
      PROVE  q[i].T < q[j].T
  <2>1. CASE i \in DOMAIN o /\ q[i] = o[i]
    BY <2>1, <1>5
  <2>2. ASSUME NEW l \in 1 .. n, i = Len(o) + l, q[i] = s[l]
        PROVE  q[i].T < q[j].T
    <3>1. l < k
      BY <2>2, <1>5, <1>2
    <3> QED
      BY <3>1, <2>2, <1>5
  <2> QED
    BY <2>1, <2>2, <1>1
<1> QED
  BY <1>4, <1>5, <1>1

LEMMA PageInv ==
  ASSUME IndInv, Page
  PROVE  IndInv'
<1>1. PICK n \in 0 .. PageSize, more \in BOOLEAN :
        \E r \in [1 .. n -> Remaining] : PageWith(r, more)
  BY DEF Page
<1>2. PICK p \in [1 .. n -> Remaining] : PageWith(p, more)
  BY <1>1
<1>3. n \in Nat
  BY Numbers
<1>4. pc = "sent" /\ last' = "page" /\ UNCHANGED <<clock, window, began, ctx, recorded>>
  BY DEF Page
<1>5. DOMAIN p = 1 .. n /\ \A j \in 1 .. n : p[j] \in Remaining
  OBVIOUS
<1>6. /\ clock \in Nat /\ began \in Nat /\ token \in Int /\ began <= clock
      /\ window.Start \in Nat /\ window.End \in Nat
  BY Numbers DEF IndInv, TypeOK, DeliveredInTime, FirstPage
<1>7. \A t \in Remaining : t \in BarTimes /\ t \in Nat /\ token < t /\ t <= clock /\ InWindow(t)
  BY Numbers, <1>6 DEF Remaining, InWindow
<1>8. PICK s : s = [j \in 1 .. n |-> [T |-> p[j], At |-> clock]]
  OBVIOUS
<1>9. \A j \in 1 .. n : s[j].T = p[j] /\ s[j].At = clock
  BY <1>8
<1>10. s \in [1 .. n -> Delivery]
  BY <1>5, <1>6, <1>7, <1>8 DEF Delivery
<1>11. PICK o \in Seq(Delivery) : o = out
  BY DEF IndInv, TypeOK, Delivery
<1>12. PICK q : q = out'
  OBVIOUS
<1>13. q = o \o s
  BY <1>2, <1>5, <1>8, <1>11, <1>12 DEF PageWith, Stamped
<1>14. \A i \in DOMAIN o : o[i] \in Delivery
  BY <1>11, LenProperties, ElementOfSeq
<1>15. \A i \in DOMAIN o :
         /\ o[i].T \in Nat /\ o[i].At \in Nat
         /\ InWindow(o[i].T) /\ o[i].T <= token
         /\ began <= o[i].At /\ o[i].At <= clock /\ o[i].T <= o[i].At
  BY <1>4, <1>11, <1>14, Numbers DEF IndInv, DeliveredInTime, Underway, Delivery
<1>16. /\ q \in Seq(Delivery)
       /\ \A i \in DOMAIN o : i \in DOMAIN q /\ q[i] = o[i]
       /\ \A j \in 1 .. n : \E i \in DOMAIN q : q[i] = s[j]
       /\ \A i \in DOMAIN q : \/ i \in DOMAIN o /\ q[i] = o[i]
                              \/ \E j \in 1 .. n : i = Len(o) + j /\ q[i] = s[j]
  <2>1. /\ o \in Seq(Delivery) /\ n \in Nat /\ s \in [1 .. n -> Delivery]
        /\ q = o \o s
    BY <1>3, <1>10, <1>11, <1>13
  <2>2. q \in Seq(Delivery)
    BY <2>1, Joined
  <2>3. \A i \in DOMAIN o : i \in DOMAIN q /\ q[i] = o[i]
    BY <2>1, Joined
  <2>4. \A j \in 1 .. n : Len(o) + j \in DOMAIN q /\ q[Len(o) + j] = s[j]
    BY <2>1, Joined
  <2>5. \A i \in DOMAIN q :
          \/ i \in DOMAIN o /\ q[i] = o[i]
          \/ \E j \in 1 .. n : i = Len(o) + j /\ q[i] = s[j]
    BY <2>1, Joined
  <2> QED
    BY <2>2, <2>3, <2>4, <2>5
<1>17. \A i, j \in 1 .. n : i < j => p[i] < p[j]
  BY <1>2, <1>5 DEF PageWith, IsPage
<1>18. \A i, j \in DOMAIN q : i < j => q[i].T < q[j].T
  <2>1. \A i, j \in DOMAIN o : i < j => o[i].T < o[j].T
    BY <1>11 DEF IndInv, DeliveredInOrder
  <2>2. \A i, j \in 1 .. n : i < j => s[i].T < s[j].T
    BY <1>9, <1>17
  <2>3. \A i \in DOMAIN o, j \in 1 .. n : o[i].T < s[j].T
    BY <1>5, <1>6, <1>7, <1>9, <1>15
  <2> QED
    BY <2>1, <2>2, <2>3, <1>3, <1>10, <1>11, <1>13, JoinedInOrder
<1>19. \A i \in DOMAIN q :
         /\ window.Start <= q[i].T /\ q[i].T <= window.End
         /\ began <= q[i].At /\ q[i].At <= clock /\ q[i].T <= q[i].At
  <2> SUFFICES ASSUME NEW i \in DOMAIN q
               PROVE  /\ window.Start <= q[i].T /\ q[i].T <= window.End
                      /\ began <= q[i].At /\ q[i].At <= clock /\ q[i].T <= q[i].At
    OBVIOUS
  <2>1. CASE i \in DOMAIN o /\ q[i] = o[i]
    BY <2>1, <1>15 DEF InWindow
  <2>2. ASSUME NEW j \in 1 .. n, q[i] = s[j]
        PROVE  /\ window.Start <= q[i].T /\ q[i].T <= window.End
               /\ began <= q[i].At /\ q[i].At <= clock /\ q[i].T <= q[i].At
    <3>1. q[i].T = p[j] /\ q[i].At = clock /\ p[j] \in Remaining
      BY <2>2, <1>5, <1>9
    <3> QED
      BY <3>1, <1>6, <1>7 DEF InWindow
  <2> QED
    BY <2>1, <2>2, <1>16
<1>20. \A t \in BarTimes :
         InWindow(t) /\ t <= began /\ t <= token => \E i \in DOMAIN q : q[i].T = t
  <2> SUFFICES ASSUME NEW t \in BarTimes, InWindow(t), t <= began, t <= token
               PROVE  \E i \in DOMAIN q : q[i].T = t
    OBVIOUS
  <2>1. PICK i \in DOMAIN o : o[i].T = t
    BY <1>4, <1>11 DEF IndInv, DeliveredSoFar, Underway
  <2> QED
    BY <2>1, <1>16
<1>21. \A t \in BarTimes : InWindow(t) /\ t <= began /\ ~(t <= token) => t \in Remaining
  BY <1>6, Numbers DEF Remaining, InWindow
<1>22. \A j \in 1 .. n : \E i \in DOMAIN q : q[i].T = p[j]
  <2> SUFFICES ASSUME NEW j \in 1 .. n PROVE \E i \in DOMAIN q : q[i].T = p[j]
    OBVIOUS
  <2>1. PICK i \in DOMAIN q : q[i] = s[j]
    BY <1>16
  <2>2. s[j].T = p[j]
    BY <1>9
  <2> QED
    BY <2>1, <2>2
<1>23. recorded = <<>> /\ recorded' = <<>>
  BY <1>4 DEF IndInv, RecordedAtEnd, Underway
<1>24. CASE more
  <2>1. Len(p) = n /\ n \in 1 .. n
    <3>1. p # <<>> /\ Len(p) = n
      BY <1>2, <1>3, <1>5, <1>24 DEF PageWith
    <3>2. n # 0
      BY <3>1, <1>5
    <3> QED
      BY <3>1, <3>2, <1>3
  <2>2. pc' = "request" /\ token' = p[n] /\ attempts' = 0
    BY <1>2, <1>24, <2>1 DEF PageWith, NextToken
  <2>3. token' \in BarTimes /\ token' \in Nat /\ token < token'
    BY <2>1, <2>2, <1>5, <1>7
  <2>4. \A j \in 1 .. n : p[j] <= token'
    <3> SUFFICES ASSUME NEW j \in 1 .. n PROVE p[j] <= p[n]
      BY <2>2
    <3>1. p[j] \in Nat /\ p[n] \in Nat
      BY <2>1, <1>5, <1>7
    <3>2. CASE j = n
      BY <3>1, <3>2
    <3>3. CASE j < n
      BY <2>1, <3>1, <3>3, <1>17
    <3> QED
      BY <3>2, <3>3, <1>3
  <2>5. \A i \in DOMAIN q : q[i].T <= token'
    <3> SUFFICES ASSUME NEW i \in DOMAIN q PROVE q[i].T <= token'
      OBVIOUS
    <3>1. CASE i \in DOMAIN o /\ q[i] = o[i]
      BY <3>1, <1>6, <1>15, <2>3
    <3>2. ASSUME NEW j \in 1 .. n, q[i] = s[j] PROVE q[i].T <= token'
      BY <3>2, <1>9, <2>4
    <3> QED
      BY <3>1, <3>2, <1>16
  <2>6. \A t \in BarTimes :
          InWindow(t) /\ t <= began /\ t <= token' => \E i \in DOMAIN q : q[i].T = t
    <3> SUFFICES ASSUME NEW t \in BarTimes, InWindow(t), t <= began, t <= token', ~(t <= token)
                 PROVE  \E i \in DOMAIN q : q[i].T = t
      BY <1>20
    <3>1. t \in Remaining /\ t \in Nat
      BY <1>21, Numbers
    <3>2. CASE t = p[n]
      BY <3>2, <2>1, <1>22
    <3>3. CASE t < p[n]
      <4>1. PICK j \in 1 .. n : p[j] = t
        BY <3>1, <3>3, <2>1, <1>2, <1>5 DEF PageWith, IsPage
      <4> QED
        BY <4>1, <1>22
    <3> QED
      BY <3>1, <3>2, <3>3, <2>2, <2>3
  <2>7. TypeOK'
    BY <1>4, <1>12, <1>16, <2>2, <2>3, Numbers DEF IndInv, TypeOK, Delivery
  <2>8. DeliveredInOrder' /\ DeliveredInTime' /\ DeliveredSoFar'
    <3>1. DeliveredInOrder'
      BY <1>12, <1>18 DEF DeliveredInOrder
    <3>2. DeliveredInTime'
      BY <1>4, <1>6, <1>12, <1>19, <2>2, <2>5, <2>6 DEF DeliveredInTime, InWindow, Underway
    <3>3. DeliveredSoFar'
      <4> SUFFICES ASSUME NEW t \in BarTimes, InWindow(t)', t <= began',
                          pc' = "ok" \/ (Underway' /\ t <= token')
                   PROVE  \E i \in DOMAIN q : q[i].T = t
        BY <1>12 DEF DeliveredSoFar
      <4>1. InWindow(t) /\ t <= began /\ t <= token'
        BY <1>4, <2>2 DEF InWindow
      <4> QED
        BY <4>1, <2>6
    <3> QED
      BY <3>1, <3>2, <3>3
  <2>9. RecordedAtEnd' /\ FailuresRecordedOnce'
    BY <1>23, <2>2 DEF RecordedAtEnd, FailuresRecordedOnce, Underway
  <2> QED
    BY <2>7, <2>8, <2>9 DEF IndInv
<1>25. CASE ~more
  <2>1. pc' = "ok" /\ token' = token /\ attempts' = attempts
    BY <1>2, <1>25 DEF PageWith
  <2>2. \A t \in BarTimes : InWindow(t) /\ t <= began => \E i \in DOMAIN q : q[i].T = t
    <3> SUFFICES ASSUME NEW t \in BarTimes, InWindow(t), t <= began, ~(t <= token)
                 PROVE  \E i \in DOMAIN q : q[i].T = t
      BY <1>20
    <3>1. t \in Remaining
      BY <1>21
    <3>2. PICK j \in 1 .. n : p[j] = t
      BY <3>1, <1>2, <1>5, <1>25 DEF PageWith
    <3> QED
      BY <3>2, <1>22
  <2>3. TypeOK'
    BY <1>4, <1>12, <1>16, <2>1 DEF IndInv, TypeOK, Delivery
  <2>4. DeliveredInOrder' /\ DeliveredInTime' /\ DeliveredSoFar'
    <3>1. DeliveredInOrder'
      BY <1>12, <1>18 DEF DeliveredInOrder
    <3>2. DeliveredInTime'
      BY <1>4, <1>6, <1>12, <1>19, <2>1, <2>2 DEF DeliveredInTime, InWindow, Underway
    <3>3. DeliveredSoFar'
      <4> SUFFICES ASSUME NEW t \in BarTimes, InWindow(t)', t <= began',
                          pc' = "ok" \/ (Underway' /\ t <= token')
                   PROVE  \E i \in DOMAIN q : q[i].T = t
        BY <1>12 DEF DeliveredSoFar
      <4>1. InWindow(t) /\ t <= began
        BY <1>4, <2>1 DEF InWindow
      <4> QED
        BY <4>1, <2>2
    <3> QED
      BY <3>1, <3>2, <3>3
  <2>5. RecordedAtEnd' /\ FailuresRecordedOnce'
    BY <1>23, <2>1 DEF RecordedAtEnd, FailuresRecordedOnce, Underway
  <2> QED
    BY <2>3, <2>4, <2>5 DEF IndInv
<1> QED
  BY <1>24, <1>25

-----------------------------------------------------------------------------
(* The other steps *)

LEMMA InitInv == Init => IndInv
<1> SUFFICES ASSUME Init PROVE IndInv
  OBVIOUS
<1>1. out = <<>> /\ DOMAIN out = {} /\ recorded = <<>> /\ pc = "idle"
  BY DEF Init
<1>2. TypeOK
  BY <1>1, Numbers DEF Init, TypeOK, FirstPage, Contexts
<1> QED
  BY <1>1, <1>2 DEF Init, IndInv, DeliveredInOrder, DeliveredInTime, DeliveredSoFar,
                    RecordedAtEnd, FailuresRecordedOnce, Underway

LEMMA CallInv ==
  ASSUME IndInv, Call
  PROVE  IndInv'
<1>1. /\ out' = <<>> /\ DOMAIN out' = {} /\ recorded' = <<>>
      /\ pc' = "request" /\ token' = FirstPage /\ began' = clock' /\ clock' = clock
      /\ window' \in Windows
  BY DEF Call
<1>2. TypeOK'
  BY <1>1, Numbers, AlpacaAssumption DEF Call, IndInv, TypeOK, FirstPage, Contexts
<1>3. DeliveredInTime'
  BY <1>1 DEF IndInv, TypeOK, DeliveredInTime
<1>4. DeliveredSoFar'
  <2>1. \A t \in BarTimes : ~(t <= FirstPage)
    BY Numbers DEF FirstPage
  <2> QED
    BY <1>1, <2>1 DEF DeliveredSoFar, Underway
<1> QED
  BY <1>1, <1>2, <1>3, <1>4
     DEF IndInv, DeliveredInOrder, RecordedAtEnd, FailuresRecordedOnce, Underway

\* A request is sent, or sent again: only where the call is and the count change.
LEMMA RequestInv ==
  ASSUME IndInv, Send \/ (\E end \in Repeated : Repeat(end))
  PROVE  IndInv'
<1>1. /\ Underway /\ Underway' /\ pc' # "ok" /\ pc' # "failed"
      /\ pc' \in {"request", "sent"}
      /\ pc # "ok" /\ pc # "failed"
      /\ UNCHANGED <<clock, window, began, ctx, token, out, recorded>>
  BY DEF Send, Repeat, Underway
<1>2. TypeOK'
  <2>1. attempts' \in 0 .. RetryMax /\ (last' = last \/ last' \in Repeated)
    BY Numbers DEF Send, Repeat, IndInv, TypeOK
  <2> QED
    BY <1>1, <2>1 DEF IndInv, TypeOK
<1>3. DeliveredInOrder' /\ RecordedAtEnd' /\ FailuresRecordedOnce'
  BY <1>1 DEF IndInv, DeliveredInOrder, RecordedAtEnd, FailuresRecordedOnce
<1>4. DeliveredInTime'
  BY <1>1 DEF IndInv, DeliveredInTime, InWindow
<1>5. DeliveredSoFar'
  BY <1>1 DEF IndInv, DeliveredSoFar, InWindow
<1> QED
  BY <1>2, <1>3, <1>4, <1>5 DEF IndInv

\* Only what ends with a 429 is recorded as rate_limited.
LEMMA Kinds ==
  ASSUME NEW end \in Repeated \cup Final \cup Contexts
  PROVE  /\ Kind(end) \in {"rate_limited", "timeout", "upstream"}
         /\ Kind(end) = "rate_limited" <=> end = "429"
BY DEF Kind, Repeated, Final, Contexts

LEMMA GiveUpInv ==
  ASSUME IndInv, Underway, NEW end \in Repeated \cup Final \cup Contexts, GiveUp(end)
  PROVE  IndInv'
<1>1. /\ pc' = "failed" /\ out' = <<>> /\ DOMAIN out' = {} /\ last' = end
      /\ UNCHANGED <<clock, window, began, ctx, attempts, token>>
  BY DEF GiveUp
<1>2. recorded' = <<Kind(end)>>
  <2>1. recorded = <<>> /\ recorded' = Append(recorded, Kind(end))
    BY DEF GiveUp, IndInv, RecordedAtEnd
  <2> QED
    BY <2>1
<1>3. PICK k : k = Kind(end)
  OBVIOUS
<1>4. k \in {"rate_limited", "timeout", "upstream"} /\ (k = "rate_limited" <=> end = "429")
  BY <1>3, Kinds
<1>5. recorded' = <<k>> /\ Len(recorded') = 1 /\ recorded'[1] = k
  BY <1>2, <1>3
<1>6. TypeOK'
  <2>1. recorded' \in Seq({"rate_limited", "timeout", "upstream"})
    BY <1>4, <1>5
  <2> QED
    BY <1>1, <2>1 DEF IndInv, TypeOK
<1>7. FailuresRecordedOnce'
  BY <1>1, <1>4, <1>5 DEF FailuresRecordedOnce
<1>8. DeliveredInOrder' /\ DeliveredInTime' /\ DeliveredSoFar' /\ RecordedAtEnd'
  BY <1>1 DEF IndInv, DeliveredInOrder, DeliveredInTime, DeliveredSoFar, RecordedAtEnd,
              Underway
<1> QED
  BY <1>6, <1>7, <1>8 DEF IndInv

LEMMA FailureInv ==
  ASSUME IndInv, RequestFails \/ ContextEnds
  PROVE  IndInv'
<1>1. CASE RequestFails
  <2>1. PICK end \in Repeated \cup Final : GiveUp(end)
    BY <1>1 DEF RequestFails
  <2>2. Underway
    BY <1>1 DEF RequestFails, Underway
  <2> QED
    BY <2>1, <2>2, GiveUpInv
<1>2. CASE ContextEnds
  <2>1. Underway /\ GiveUp(ctx) /\ ctx \in Contexts
    BY <1>2 DEF ContextEnds, Underway, IndInv, TypeOK
  <2> QED
    BY <2>1, GiveUpInv
<1> QED
  BY <1>1, <1>2

LEMMA Elements == TypeOK => \A i \in DOMAIN out : out[i] \in Delivery
<1> SUFFICES ASSUME TypeOK PROVE \A i \in DOMAIN out : out[i] \in Delivery
  OBVIOUS
<1>1. PICK o \in Seq(Delivery) : o = out
  BY DEF TypeOK, Delivery
<1>2. \A i \in DOMAIN o : o[i] \in Delivery
  BY <1>1, LenProperties, ElementOfSeq
<1> QED
  BY <1>1, <1>2

LEMMA OtherInv ==
  ASSUME IndInv, Return \/ ContextDone \/ Tick \/ UNCHANGED vars
  PROVE  IndInv'
<1>1. /\ UNCHANGED <<window, began, token, out, recorded, attempts, last>>
      /\ pc' = pc \/ pc' = "idle"
      /\ clock' = clock \/ clock' = clock + 1
      /\ ctx' = ctx \/ ctx' \in Contexts
  BY DEF Return, ContextDone, Tick, vars
<1>2. clock \in Nat /\ clock' \in Nat /\ clock <= clock'
  BY <1>1 DEF IndInv, TypeOK
<1>3. TypeOK'
  BY <1>1, <1>2 DEF IndInv, TypeOK
<1>4. Underway' => Underway
  BY <1>1 DEF Underway
<1>5. DeliveredInOrder' /\ RecordedAtEnd' /\ FailuresRecordedOnce'
  BY <1>1, <1>4 DEF IndInv, DeliveredInOrder, RecordedAtEnd, FailuresRecordedOnce
<1>6. DeliveredInTime'
  <2>1. began \in Nat /\ began <= clock
    BY DEF IndInv, TypeOK, DeliveredInTime
  <2>2. \A i \in DOMAIN out : out[i].At \in Nat
    <3>1. TypeOK
      BY DEF IndInv
    <3> QED
      BY <3>1, Elements DEF Delivery
  <2>3. \A i \in DOMAIN out : out[i].At <= clock'
    BY <1>2, <2>2 DEF IndInv, DeliveredInTime
  <2>4. began <= clock'
    BY <1>2, <2>1
  <2> QED
    BY <1>1, <1>4, <2>3, <2>4 DEF IndInv, DeliveredInTime, InWindow
<1>7. DeliveredSoFar'
  BY <1>1, <1>4 DEF IndInv, DeliveredSoFar, InWindow
<1> QED
  BY <1>3, <1>5, <1>6, <1>7 DEF IndInv

LEMMA NextInv == IndInv /\ [Next]_vars => IndInv'
<1> SUFFICES ASSUME IndInv, [Next]_vars PROVE IndInv'
  OBVIOUS
<1>1. CASE Call
  BY <1>1, CallInv
<1>2. CASE Send \/ (\E end \in Repeated : Repeat(end))
  BY <1>2, RequestInv
<1>3. CASE Page
  BY <1>3, PageInv
<1>4. CASE RequestFails \/ ContextEnds
  BY <1>4, FailureInv
<1>5. CASE Return \/ ContextDone \/ Tick \/ UNCHANGED vars
  BY <1>5, OtherInv
<1> QED
  BY <1>1, <1>2, <1>3, <1>4, <1>5 DEF Next, Answered

\* The strengthened invariant holds of every execution.
THEOREM InvariantHolds == Spec => []IndInv
<1>1. Init => IndInv
  BY InitInv
<1>2. IndInv /\ [Next]_vars => IndInv'
  BY NextInv
<1> QED
  BY <1>1, <1>2, PTL DEF Spec

\* Every variable keeps its type.
THEOREM TypeCorrect == Spec => []TypeOK
<1>1. IndInv => TypeOK
  BY DEF IndInv
<1> QED
  BY <1>1, InvariantHolds, PTL

\* However requests are repeated and whatever upstream publishes between two pages,
\* no bar is delivered twice and bars come in order (client.go:117-126).
THEOREM InOrder == Spec => []DeliveredInOrder
<1>1. IndInv => DeliveredInOrder
  BY DEF IndInv
<1> QED
  BY <1>1, InvariantHolds, PTL

\* A failed call is recorded once and under its kind, a successful one not at all
\* (client.go:100-116, errors.go:42-46).
THEOREM RecordedOnce == Spec => []FailuresRecordedOnce
<1>1. IndInv => FailuresRecordedOnce
  BY DEF IndInv
<1> QED
  BY <1>1, InvariantHolds, PTL

-----------------------------------------------------------------------------
(* The client is the upstream that Store asks for *)

DeliveredIn(o, t) ==
  IF \E i \in DOMAIN o : o[i].T = t THEN o[CHOOSE i \in DOMAIN o : o[i].T = t].At ELSE NoBar

LEMMA DeliveredFrom ==
  ASSUME NEW o, NEW t
  PROVE  /\ (\E i \in DOMAIN o : o[i].T = t)
              => \E i \in DOMAIN o : o[i].T = t /\ DeliveredIn(o, t) = o[i].At
         /\ ~(\E i \in DOMAIN o : o[i].T = t) => DeliveredIn(o, t) = NoBar
BY DEF DeliveredIn

Underways == {"request", "sent"}

\* The abstract call, by where the concrete one is.
FetchOf(p, w, b, o) ==
  IF p = "idle"
    THEN F!Idle
    ELSE [st |-> IF p \in Underways THEN "called" ELSE p,
          from |-> w.Start, to |-> w.End, began |-> b,
          bars |-> IF p = "ok" THEN [t \in BarTimes |-> DeliveredIn(o, t)] ELSE F!NoBars]

LEMMA FetchIs ==
  fetch = FetchOf(pc, window, began, out) /\ fetch' = FetchOf(pc', window', began', out')
BY DEF fetch, FetchOf, Underways, Status, Delivered, DeliveredIn, F!Idle, F!NoBars

LEMMA FetchUnderway ==
  ASSUME NEW p \in Underways, NEW w, NEW b, NEW o
  PROVE  FetchOf(p, w, b, o)
           = [st |-> "called", from |-> w.Start, to |-> w.End, began |-> b, bars |-> F!NoBars]
BY DEF FetchOf, Underways

LEMMA FetchEnded ==
  ASSUME NEW w, NEW b, NEW o
  PROVE  /\ FetchOf("idle", w, b, o) = F!Idle
         /\ FetchOf("failed", w, b, o)
              = [st |-> "failed", from |-> w.Start, to |-> w.End, began |-> b,
                 bars |-> F!NoBars]
         /\ FetchOf("ok", w, b, o)
              = [st |-> "ok", from |-> w.Start, to |-> w.End, began |-> b,
                 bars |-> [t \in BarTimes |-> DeliveredIn(o, t)]]
         /\ \A p \in {"ok", "failed"} : FetchOf(p, w, b, o).st = p
BY DEF FetchOf, Underways

LEMMA InitMaps == Init => F!Init
BY FetchIs, FetchEnded DEF Init, F!Init

LEMMA CallMaps ==
  ASSUME IndInv, Call
  PROVE  F!Begin
<1>1. fetch = F!Idle
  BY FetchIs, FetchEnded DEF Call
<1>2. fetch' = [st |-> "called", from |-> window'.Start, to |-> window'.End,
                began |-> clock, bars |-> F!NoBars]
  BY FetchIs, FetchUnderway DEF Call, Underways
<1>3. fetch.st = "idle"
  BY <1>1 DEF F!Idle
<1>4. window' \in Windows /\ UNCHANGED clock
  BY DEF Call
<1> QED
  BY <1>2, <1>3, <1>4 DEF F!Begin

LEMMA RequestMaps ==
  ASSUME Underway, Underway', UNCHANGED <<clock, window, began>>
  PROVE  UNCHANGED <<clock, fetch>>
BY FetchIs, FetchUnderway DEF Underway, Underways

LEMMA GiveUpMaps ==
  ASSUME Underway, NEW end, GiveUp(end)
  PROVE  F!Fail
<1>1. fetch = [st |-> "called", from |-> window.Start, to |-> window.End, began |-> began,
               bars |-> F!NoBars]
  BY FetchIs, FetchUnderway DEF Underway, Underways
<1>2. fetch' = [st |-> "failed", from |-> window.Start, to |-> window.End, began |-> began,
                bars |-> F!NoBars]
  BY FetchIs, FetchEnded DEF GiveUp
<1>3. UNCHANGED clock
  BY DEF GiveUp
<1> QED
  BY <1>1, <1>2, <1>3 DEF F!Fail

\* The last page ends the call, with what was delivered.
LEMMA LastPageMaps ==
  ASSUME IndInv, IndInv', Page, pc' = "ok"
  PROVE  F!Succeed
<1>1. pc = "sent" /\ UNCHANGED <<clock, window, began>>
  BY DEF Page
<1>2. fetch = [st |-> "called", from |-> window.Start, to |-> window.End, began |-> began,
               bars |-> F!NoBars]
  BY <1>1, FetchIs, FetchUnderway DEF Underways
<1>3. PICK q : q = out'
  OBVIOUS
<1>4. PICK bars : bars = [t \in BarTimes |-> DeliveredIn(q, t)]
  OBVIOUS
<1>5. fetch' = [st |-> "ok", from |-> window.Start, to |-> window.End, began |-> began,
                bars |-> bars]
  BY <1>1, <1>3, <1>4, FetchIs, FetchEnded
<1>6. /\ clock \in Nat /\ began \in Nat /\ window.Start \in Nat /\ window.End \in Nat
  BY DEF IndInv, TypeOK
<1>7. \A i \in DOMAIN q :
        /\ window.Start <= q[i].T /\ q[i].T <= window.End
        /\ began <= q[i].At /\ q[i].At <= clock /\ q[i].T <= q[i].At
  BY <1>1, <1>3 DEF IndInv, DeliveredInTime, InWindow
<1>8. \A t \in BarTimes : window.Start <= t /\ t <= window.End /\ t <= began
                            => \E i \in DOMAIN q : q[i].T = t
  BY <1>1, <1>3 DEF IndInv, DeliveredSoFar, InWindow
<1>9. \A i \in DOMAIN q : q[i].At \in Nat
  <2>1. PICK r \in Seq(Delivery) : r = q
    BY <1>3 DEF IndInv, TypeOK, Delivery
  <2>2. \A i \in DOMAIN r : r[i] \in Delivery
    BY <2>1, LenProperties, ElementOfSeq
  <2> QED
    BY <2>1, <2>2 DEF Delivery
<1>10. ASSUME NEW t \in BarTimes
       PROVE  /\ DeliveredIn(q, t) \in (0 .. clock) \cup {NoBar}
              /\ IF (window.Start <= t /\ t <= window.End) /\ t <= began
                   THEN DeliveredIn(q, t) \in began .. clock
                   ELSE \/ DeliveredIn(q, t) = NoBar
                        \/ /\ window.Start <= t /\ t <= window.End
                           /\ DeliveredIn(q, t) \in t .. clock
  <2>1. t \in Nat
    BY Numbers
  <2>2. CASE \E i \in DOMAIN q : q[i].T = t
    <3>1. PICK i \in DOMAIN q : q[i].T = t /\ DeliveredIn(q, t) = q[i].At
      BY <2>2, DeliveredFrom
    <3>2. PICK a \in Nat : a = DeliveredIn(q, t) /\ a = q[i].At
      BY <3>1, <1>9
    <3>3. began <= a /\ a <= clock /\ t <= a /\ window.Start <= t /\ t <= window.End
      BY <3>1, <3>2, <1>7
    <3> QED
      BY <3>2, <3>3, <2>1, <1>6
  <2>3. CASE ~(\E i \in DOMAIN q : q[i].T = t)
    BY <2>3, <1>8, DeliveredFrom
  <2> QED
    BY <2>2, <2>3
<1>11. bars \in [BarTimes -> (0 .. clock) \cup {NoBar}]
  BY <1>4, <1>10
<1>12. \A t \in BarTimes : F!Delivers(fetch.from, fetch.to, fetch.began, clock, t, bars[t])
  BY <1>2, <1>4, <1>10 DEF F!Delivers
<1>13. /\ fetch.st = "called"
       /\ fetch' = [st |-> "ok", from |-> fetch.from, to |-> fetch.to,
                    began |-> fetch.began, bars |-> bars]
  BY <1>2, <1>5
<1> QED
  BY <1>1, <1>11, <1>12, <1>13 DEF F!Succeed

LEMMA ReturnMaps ==
  ASSUME Return
  PROVE  F!Return
<1>1. fetch.st \in {"ok", "failed"}
  BY FetchIs, FetchEnded DEF Return
<1>2. fetch' = F!Idle
  BY FetchIs, FetchEnded DEF Return
<1> QED
  BY <1>1, <1>2 DEF Return, F!Return

\* A step of the client is a step of the call or leaves it as it is.
LEMMA StepMaps ==
  ASSUME IndInv, IndInv', [Next]_vars
  PROVE  [F!Next]_(F!fvars)
<1>1. CASE Call
  BY <1>1, CallMaps DEF F!Next
<1>2. CASE Send \/ (\E end \in Repeated : Repeat(end)) \/ ContextDone
  <2>1. Underway /\ Underway' /\ UNCHANGED <<clock, window, began>>
    BY <1>2 DEF Send, Repeat, ContextDone, Underway
  <2> QED
    BY <2>1, RequestMaps DEF F!fvars
<1>3. CASE Page
  <2>1. pc = "sent" /\ (pc' = "request" \/ pc' = "ok") /\ UNCHANGED <<clock, window, began>>
    BY <1>3 DEF Page, PageWith
  <2>2. CASE pc' = "ok"
    BY <1>3, <2>2, LastPageMaps DEF F!Next
  <2>3. CASE pc' = "request"
    BY <2>1, <2>3, RequestMaps DEF F!fvars, Underway
  <2> QED
    BY <2>1, <2>2, <2>3
<1>4. CASE RequestFails \/ ContextEnds
  <2>1. Underway /\ \E end : GiveUp(end)
    BY <1>4 DEF RequestFails, ContextEnds, Underway
  <2> QED
    BY <2>1, GiveUpMaps DEF F!Next
<1>5. CASE Return
  BY <1>5, ReturnMaps DEF F!Next
<1>6. CASE Tick
  BY <1>6, FetchIs DEF Tick, F!Tick, F!Next
<1>7. CASE UNCHANGED vars
  BY <1>7, FetchIs DEF vars, F!fvars
<1> QED
  BY <1>1, <1>2, <1>3, <1>4, <1>5, <1>6, <1>7 DEF Next, Answered

\* Page by page, with failures, retries and bars that appear and are revised in
\* between, GetBars delivers the whole window as of no earlier than its start or
\* nothing: it implements the fetch that Store declares (client.go:89).
THEOREM Implements == Spec => FetchesWindow
<1>1. Init => F!Init
  BY InitMaps
<1>2. IndInv /\ IndInv' /\ [Next]_vars => [F!Next]_(F!fvars)
  BY StepMaps
<1> QED
  BY <1>1, <1>2, InvariantHolds, PTL DEF Spec, FetchesWindow, F!Spec

=============================================================================
