------------------------------ MODULE KeyMutex ------------------------------
(***************************************************************************)
(* What store.lockKey promises: at most one Get at a time holds a key, and *)
(* Gets of different keys do not exclude one another.                      *)
(***************************************************************************)
CONSTANTS Procs, Keys, NoProc

VARIABLE owner    \* the process that holds each key, or NoProc

Init == owner = [k \in Keys |-> NoProc]

Acquire(p, k) ==
  /\ owner[k] = NoProc
  /\ \A j \in Keys : owner[j] # p
  /\ owner' = [owner EXCEPT ![k] = p]

Release(p, k) ==
  /\ owner[k] = p
  /\ owner' = [owner EXCEPT ![k] = NoProc]

Next == \E p \in Procs, k \in Keys : Acquire(p, k) \/ Release(p, k)

Spec == Init /\ [][Next]_owner

=============================================================================
