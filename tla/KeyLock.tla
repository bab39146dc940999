------------------------------ MODULE KeyLock ------------------------------
(***************************************************************************)
(* The table of per-key locks of internal/store/store.go (lockKey): a lock *)
(* object is created on a key's first use, counted by the callers that     *)
(* hold or wait for it, and dropped from the table by the last of them.    *)
(*                                                                         *)
(* An object is an identity in Objs.  A dropped object may still be        *)
(* referred to by a caller, so a new one takes an identity no caller       *)
(* refers to, as the garbage collector does.                               *)
(***************************************************************************)
EXTENDS Integers, FiniteSets

CONSTANTS
  Procs,     \* the goroutines that call Get
  NoProc,    \* no goroutine
  Keys,      \* the (symbol, timeframe) keys
  Objs,      \* identities of keyLock objects, at least one per process
  NoObj      \* the nil *keyLock

ASSUME KeyLockAssumption == NoProc \notin Procs /\ NoObj \notin Objs /\ IsFiniteSet(Procs)

VARIABLES
  mu,      \* holder of Store.mu
  locks,   \* Store.locks: the object of each key, or NoObj
  refs,    \* refs of each object
  held,    \* holder of the mu of each object
  pc,      \* where each process is in lockKey and in its unlock func
  key,     \* the key each process asks for
  kl       \* the object each process refers to

vars == <<mu, locks, refs, held, pc, key, kl>>

Pcs == {"out", "enter", "lookup", "wait", "in", "leave", "deref"}

Init ==
  /\ mu = NoProc
  /\ locks = [k \in Keys |-> NoObj]
  /\ refs = [o \in Objs |-> 0]
  /\ held = [o \in Objs |-> NoProc]
  /\ pc = [p \in Procs |-> "out"]
  /\ key \in [Procs -> Keys]
  /\ kl = [p \in Procs |-> NoObj]

-----------------------------------------------------------------------------
(* lockKey *)

Call(p) ==
  /\ pc[p] = "out"
  /\ pc' = [pc EXCEPT ![p] = "enter"]
  /\ \E k \in Keys : key' = [key EXCEPT ![p] = k]
  /\ UNCHANGED <<mu, locks, refs, held, kl>>

\* Store.mu is taken to look the key up, and to drop the reference.
LockTable(p, from, to) ==
  /\ pc[p] = from
  /\ mu = NoProc
  /\ mu' = p
  /\ pc' = [pc EXCEPT ![p] = to]
  /\ UNCHANGED <<locks, refs, held, key, kl>>

Enter(p) == LockTable(p, "enter", "lookup")

\* The identities a new object can have.
Free(o) == o \notin {locks[k] : k \in Keys} /\ o \notin {kl[p] : p \in Procs}

\* The key has an object: the caller refers to it.
Find(p) ==
  /\ pc[p] = "lookup"
  /\ locks[key[p]] # NoObj
  /\ kl' = [kl EXCEPT ![p] = locks[key[p]]]
  /\ refs' = [refs EXCEPT ![locks[key[p]]] = @ + 1]
  /\ mu' = NoProc
  /\ pc' = [pc EXCEPT ![p] = "wait"]
  /\ UNCHANGED <<locks, held, key>>

\* The key has none: a new, unlocked object is put in the table.
Create(p) ==
  /\ pc[p] = "lookup"
  /\ locks[key[p]] = NoObj
  /\ \E o \in Objs :
       /\ Free(o)
       /\ locks' = [locks EXCEPT ![key[p]] = o]
       /\ kl' = [kl EXCEPT ![p] = o]
       /\ refs' = [refs EXCEPT ![o] = 1]
       /\ held' = [held EXCEPT ![o] = NoProc]
  /\ mu' = NoProc
  /\ pc' = [pc EXCEPT ![p] = "wait"]
  /\ UNCHANGED key

\* A mistaken variant: a caller that finds the object locked gives up.
LockOrGiveUp(p) ==
  /\ pc[p] = "wait"
  /\ held' = IF held[kl[p]] = NoProc THEN [held EXCEPT ![kl[p]] = p] ELSE held
  /\ pc' = [pc EXCEPT ![p] = IF held[kl[p]] = NoProc THEN "in" ELSE "leave"]
  /\ UNCHANGED <<mu, locks, refs, key, kl>>

Lock(p) ==
  /\ pc[p] = "wait"
  /\ held[kl[p]] = NoProc
  /\ held' = [held EXCEPT ![kl[p]] = p]
  /\ pc' = [pc EXCEPT ![p] = "in"]
  /\ UNCHANGED <<mu, locks, refs, key, kl>>

-----------------------------------------------------------------------------
(* The unlock func *)

Unlock(p) ==
  /\ pc[p] = "in"
  /\ held' = [held EXCEPT ![kl[p]] = NoProc]
  /\ pc' = [pc EXCEPT ![p] = "leave"]
  /\ UNCHANGED <<mu, locks, refs, key, kl>>

Leave(p) == LockTable(p, "leave", "deref")

\* Mistaken variants: the holder that leaves drops the object whoever waits for
\* it; nobody ever drops it; a reference is given back twice.
DerefAlwaysDrops(p) ==
  /\ pc[p] = "deref"
  /\ refs' = [refs EXCEPT ![kl[p]] = @ - 1]
  /\ locks' = [locks EXCEPT ![key[p]] = NoObj]
  /\ kl' = [kl EXCEPT ![p] = NoObj]
  /\ mu' = NoProc
  /\ pc' = [pc EXCEPT ![p] = "out"]
  /\ UNCHANGED <<held, key>>

DerefNeverDrops(p) ==
  /\ pc[p] = "deref"
  /\ refs' = [refs EXCEPT ![kl[p]] = @ - 1]
  /\ kl' = [kl EXCEPT ![p] = NoObj]
  /\ mu' = NoProc
  /\ pc' = [pc EXCEPT ![p] = "out"]
  /\ UNCHANGED <<locks, held, key>>

DerefTwice(p) ==
  /\ pc[p] = "deref"
  /\ refs' = [refs EXCEPT ![kl[p]] = @ - 2]
  /\ locks' = IF refs[kl[p]] <= 2 THEN [locks EXCEPT ![key[p]] = NoObj] ELSE locks
  /\ kl' = [kl EXCEPT ![p] = NoObj]
  /\ mu' = NoProc
  /\ pc' = [pc EXCEPT ![p] = "out"]
  /\ UNCHANGED <<held, key>>

\* The last reference dropped removes the object from the table.
Deref(p) ==
  /\ pc[p] = "deref"
  /\ refs' = [refs EXCEPT ![kl[p]] = @ - 1]
  /\ locks' = IF refs[kl[p]] = 1 THEN [locks EXCEPT ![key[p]] = NoObj] ELSE locks
  /\ kl' = [kl EXCEPT ![p] = NoObj]
  /\ mu' = NoProc
  /\ pc' = [pc EXCEPT ![p] = "out"]
  /\ UNCHANGED <<held, key>>

-----------------------------------------------------------------------------

Next == \E p \in Procs :
  \/ Call(p)
  \/ Enter(p) \/ Find(p) \/ Create(p) \/ Lock(p)
  \/ Unlock(p) \/ Leave(p) \/ Deref(p)

Spec == Init /\ [][Next]_vars

\* A goroutine runs when it can; a sync.Mutex in starvation mode hands itself to
\* the longest waiter; a holder eventually unlocks (Get returns: Store).
Fairness ==
  \A p \in Procs : /\ SF_vars(Enter(p)) /\ SF_vars(Leave(p)) /\ SF_vars(Lock(p))
                   /\ WF_vars(Find(p) \/ Create(p))
                   /\ WF_vars(Unlock(p)) /\ WF_vars(Deref(p))

FairSpec == Spec /\ Fairness

-----------------------------------------------------------------------------
(* Properties *)

TypeOK ==
  /\ mu \in Procs \cup {NoProc}
  /\ locks \in [Keys -> Objs \cup {NoObj}]
  /\ refs \in [Objs -> Nat]
  /\ held \in [Objs -> Procs \cup {NoProc}]
  /\ pc \in [Procs -> Pcs]
  /\ key \in [Procs -> Keys]
  /\ kl \in [Procs -> Objs \cup {NoObj}]

\* No two Gets of one key are ever both past the lock, although each found its
\* lock object in a table from which objects come and go (store.go:64-65).
MutualExclusion ==
  \A p, q \in Procs : pc[p] = "in" /\ pc[q] = "in" /\ key[p] = key[q] => p = q

\* The table holds an object exactly for the keys that some caller refers to: a
\* waiter never loses its object, and no object outlives its callers, so the
\* table stays as small as the number of calls in flight.
TableInUse ==
  \A k \in Keys :
    locks[k] # NoObj <=> \E p \in Procs : pc[p] \in {"wait", "in", "leave", "deref"} /\ key[p] = k

\* The process past the lock of k, if any.
Owner(k) ==
  IF \E p \in Procs : pc[p] = "in" /\ key[p] = k
  THEN CHOOSE p \in Procs : pc[p] = "in" /\ key[p] = k
  ELSE NoProc

\* The table of counted objects implements one lock per key: a key passes from
\* a caller to nobody and from nobody to a caller, never from one caller to
\* another, and a caller owns one key at a time.
owner == [k \in Keys |-> Owner(k)]
Mutex == INSTANCE KeyMutex
ImplementsMutex == Mutex!Spec

\* Every caller gets its key.
EveryCallerEnters == \A p \in Procs : pc[p] = "enter" ~> pc[p] = "in"

=============================================================================
