--------------------------- MODULE KeyLockProofs ---------------------------
(***************************************************************************)
(* Proofs about KeyLock, for any finite number of processes and any keys:  *)
(* the type invariant, mutual exclusion per key, that the table holds      *)
(* exactly the objects in use, and that KeyLock implements KeyMutex.       *)
(***************************************************************************)
EXTENDS KeyLock, FiniteSetTheorems, TLAPS

Refers == {"wait", "in", "leave", "deref"}

\* The processes that refer to an object.
Users(o) == {p \in Procs : kl[p] = o}

\* Store.mu is held in the two critical sections.
TableLocked == \A p \in Procs : pc[p] \in {"lookup", "deref"} <=> mu = p

\* A caller refers to the object the table has for its key.
Referring ==
  \A p \in Procs :
    IF pc[p] \in Refers THEN kl[p] \in Objs /\ locks[key[p]] = kl[p]
                        ELSE kl[p] = NoObj

\* Keys do not share objects.
Distinct ==
  \A j, k \in Keys : locks[j] # NoObj /\ locks[j] = locks[k] => j = k

\* An object counts its users, and one that is in the table has some.
Counted == \A o \in Objs : refs[o] = Cardinality(Users(o))
Used    == \A k \in Keys : locks[k] # NoObj => Users(locks[k]) # {}

\* An object is held by the process past its lock.
Holding ==
  /\ \A p \in Procs : pc[p] = "in" => held[kl[p]] = p
  /\ \A o \in Objs : held[o] # NoProc => pc[held[o]] = "in" /\ kl[held[o]] = o

IndInv == TypeOK /\ TableLocked /\ Referring /\ Distinct /\ Counted /\ Used /\ Holding

-----------------------------------------------------------------------------

\* The number of users is a natural number, 0 when there are none.
LEMMA UsersFinite ==
  ASSUME NEW o
  PROVE  /\ IsFiniteSet(Users(o))
         /\ Cardinality(Users(o)) \in Nat
         /\ Cardinality(Users(o)) = 0 <=> Users(o) = {}
<1>1. Users(o) \subseteq Procs
  BY DEF Users
<1>2. IsFiniteSet(Users(o))
  BY <1>1, FS_Subset, KeyLockAssumption
<1> QED
  BY <1>2, FS_CardinalityType, FS_EmptySet

LEMMA InitIndInv == Init => IndInv
<1> SUFFICES ASSUME Init PROVE IndInv
  OBVIOUS
<1>1. TypeOK /\ TableLocked /\ Referring /\ Distinct /\ Used /\ Holding
  BY KeyLockAssumption
  DEF Init, TypeOK, Pcs, TableLocked, Referring, Refers, Distinct, Used, Holding
<1>2. Counted
  <2> SUFFICES ASSUME NEW o \in Objs PROVE refs[o] = Cardinality(Users(o))
    BY DEF Counted
  <2>1. Users(o) = {}
    BY KeyLockAssumption DEF Init, Users
  <2> QED
    BY <2>1, UsersFinite DEF Init
<1> QED
  BY <1>1, <1>2 DEF IndInv

\* A process that takes an object nobody else accounts for adds one user to it
\* and leaves the others alone.
LEMMA AddUser ==
  ASSUME TypeOK, NEW p \in Procs, kl[p] = NoObj, NEW o \in Objs,
         kl' = [kl EXCEPT ![p] = o]
  PROVE  /\ Cardinality(Users(o)') = Cardinality(Users(o)) + 1
         /\ p \in Users(o)'
         /\ \A x \in Objs \ {o} : Users(x)' = Users(x)
<1>1. Users(o)' = Users(o) \cup {p}
  BY DEF Users, TypeOK
<1>2. p \notin Users(o)
  BY KeyLockAssumption DEF Users
<1>3. Cardinality(Users(o) \cup {p}) = Cardinality(Users(o)) + 1
  BY <1>2, UsersFinite, FS_AddElement
<1>4. \A x \in Objs \ {o} : Users(x)' = Users(x)
  BY KeyLockAssumption DEF Users, TypeOK
<1> QED
  BY <1>1, <1>3, <1>4

\* A process that lets go of its object is one user less of it.
LEMMA DropUser ==
  ASSUME TypeOK, NEW p \in Procs, NEW o \in Objs, kl[p] = o,
         kl' = [kl EXCEPT ![p] = NoObj]
  PROVE  /\ Cardinality(Users(o)) \in Nat \ {0}
         /\ Cardinality(Users(o)') = Cardinality(Users(o)) - 1
         /\ Users(o)' = Users(o) \ {p}
         /\ \A x \in Objs \ {o} : Users(x)' = Users(x)
<1>1. p \in Users(o)
  BY DEF Users
<1>2. Users(o)' = Users(o) \ {p}
  BY KeyLockAssumption DEF Users, TypeOK
<1>3. Cardinality(Users(o) \ {p}) = Cardinality(Users(o)) - 1
  BY <1>1, UsersFinite, FS_RemoveElement
<1>4. Cardinality(Users(o)) \in Nat \ {0}
  BY <1>1, UsersFinite
<1>5. \A x \in Objs \ {o} : Users(x)' = Users(x)
  BY KeyLockAssumption DEF Users, TypeOK
<1> QED
  BY <1>2, <1>3, <1>4, <1>5

-----------------------------------------------------------------------------
(* Every step preserves the invariant *)

LEMMA CallInv == ASSUME IndInv, NEW p \in Procs, Call(p) PROVE IndInv'
<1> USE DEF IndInv
<1>1. TypeOK'
  BY DEF Call, TypeOK, Pcs
<1>2. TableLocked' /\ Referring' /\ Distinct' /\ Holding'
  BY DEF Call, TypeOK, TableLocked, Referring, Refers, Distinct, Holding
<1>3. Counted' /\ Used'
  BY DEF Call, Counted, Used, Users
<1> QED
  BY <1>1, <1>2, <1>3

\* Taking Store.mu, for a move between pcs at which no object is referred to or
\* one is.
LEMMA LockTableInv ==
  ASSUME IndInv, NEW p \in Procs, Enter(p) \/ Leave(p)
  PROVE  IndInv'
<1> USE DEF IndInv
<1>1. TypeOK'
  BY DEF Enter, Leave, LockTable, TypeOK, Pcs
<1>2. TableLocked'
  BY KeyLockAssumption DEF Enter, Leave, LockTable, TypeOK, TableLocked
<1>3. Referring' /\ Distinct' /\ Holding'
  BY DEF Enter, Leave, LockTable, TypeOK, Referring, Refers, Distinct, Holding
<1>4. Counted' /\ Used'
  BY DEF Enter, Leave, LockTable, Counted, Used, Users
<1> QED
  BY <1>1, <1>2, <1>3, <1>4

LEMMA FindInv == ASSUME IndInv, NEW p \in Procs, Find(p) PROVE IndInv'
<1> USE DEF IndInv
<1>1. PICK o \in Objs : o = locks[key[p]]
  BY DEF Find, TypeOK
<1>2. /\ kl' = [kl EXCEPT ![p] = o]
      /\ refs' = [refs EXCEPT ![o] = @ + 1]
      /\ UNCHANGED <<locks, held, key>>
      /\ mu' = NoProc
      /\ pc[p] = "lookup" /\ pc' = [pc EXCEPT ![p] = "wait"]
  BY <1>1 DEF Find
<1>3. kl[p] = NoObj
  BY <1>2 DEF Referring, Refers
<1>4. TypeOK'
  BY <1>2 DEF TypeOK, Pcs
<1>5. TableLocked'
  BY <1>2, KeyLockAssumption DEF TypeOK, TableLocked
<1>6. Referring'
  BY <1>1, <1>2 DEF TypeOK, Referring, Refers
<1>7. Distinct' /\ Holding'
  BY <1>2, <1>3, KeyLockAssumption DEF TypeOK, Distinct, Holding
<1>8. Counted' /\ Used'
  <2>1. /\ Cardinality(Users(o)') = Cardinality(Users(o)) + 1
        /\ p \in Users(o)'
        /\ \A x \in Objs \ {o} : Users(x)' = Users(x)
    BY <1>2, <1>3, AddUser
  <2>2. Counted'
    BY <1>2, <2>1 DEF TypeOK, Counted
  <2>3. Used'
    <3> SUFFICES ASSUME NEW k \in Keys, locks[k] # NoObj
                 PROVE  \E q \in Procs : kl'[q] = locks[k]
      BY <1>2 DEF Used, Users
    <3>1. PICK q \in Procs : kl[q] = locks[k]
      BY DEF Used, Users
    <3> QED
      BY <1>2, <1>3, <3>1 DEF TypeOK
  <2> QED
    BY <2>2, <2>3
<1> QED
  BY <1>4, <1>5, <1>6, <1>7, <1>8

\* A new object has no users and no holder, and no key but one.
LEMMA CreateInv == ASSUME IndInv, NEW p \in Procs, Create(p) PROVE IndInv'
<1> USE DEF IndInv
<1>1. PICK o \in Objs :
        /\ Free(o)
        /\ locks' = [locks EXCEPT ![key[p]] = o]
        /\ kl' = [kl EXCEPT ![p] = o]
        /\ refs' = [refs EXCEPT ![o] = 1]
        /\ held' = [held EXCEPT ![o] = NoProc]
  BY DEF Create
<1>2. /\ mu' = NoProc /\ key' = key
      /\ locks[key[p]] = NoObj
      /\ pc[p] = "lookup" /\ pc' = [pc EXCEPT ![p] = "wait"]
  BY DEF Create
<1>3. kl[p] = NoObj
  BY <1>2 DEF Referring, Refers
<1>4. Users(o) = {}
  BY <1>1 DEF Free, Users
<1>5. TypeOK'
  BY <1>1, <1>2 DEF TypeOK, Pcs
<1>6. TableLocked'
  BY <1>2, KeyLockAssumption DEF TypeOK, TableLocked
<1>7. Referring'
  <2> SUFFICES ASSUME NEW q \in Procs
               PROVE  IF pc'[q] \in Refers THEN kl'[q] \in Objs /\ locks'[key'[q]] = kl'[q]
                                           ELSE kl'[q] = NoObj
    BY DEF Referring
  <2>1. CASE q = p
    BY <1>1, <1>2, <2>1 DEF TypeOK, Refers
  <2>2. CASE q # p
    <3>1. pc[q] \in Refers => key[q] # key[p]
      BY <1>2, KeyLockAssumption DEF Referring
    <3> QED
      BY <1>1, <1>2, <2>2, <3>1 DEF TypeOK, Referring
  <2> QED
    BY <2>1, <2>2
<1>8. Distinct'
  BY <1>1, <1>2 DEF TypeOK, Distinct, Free
<1>9. Holding'
  <2>1. \A q \in Procs : pc'[q] = "in" => q # p /\ kl[q] # o /\ kl'[q] = kl[q] /\ kl[q] \in Objs
    BY <1>1, <1>2 DEF TypeOK, Free, Referring, Refers
  <2>2. \A q \in Procs : pc'[q] = "in" => held'[kl'[q]] = q
    BY <1>1, <1>2, <2>1 DEF TypeOK, Holding
  <2>3. \A x \in Objs : held'[x] # NoProc => pc'[held'[x]] = "in" /\ kl'[held'[x]] = x
    BY <1>1, <1>2 DEF TypeOK, Holding
  <2> QED
    BY <2>2, <2>3 DEF Holding
<1>10. Counted' /\ Used'
  <2>1. /\ Cardinality(Users(o)') = Cardinality(Users(o)) + 1
        /\ p \in Users(o)'
        /\ \A x \in Objs \ {o} : Users(x)' = Users(x)
    BY <1>1, <1>3, AddUser
  <2>2. Cardinality(Users(o)) = 0
    BY <1>4, UsersFinite
  <2>3. Counted'
    BY <1>1, <2>1, <2>2 DEF TypeOK, Counted
  <2>4. Used'
    <3> SUFFICES ASSUME NEW k \in Keys, locks'[k] # NoObj
                 PROVE  \E q \in Procs : kl'[q] = locks'[k]
      BY DEF Used, Users
    <3>1. CASE k = key[p]
      BY <1>1, <3>1 DEF TypeOK
    <3>2. CASE k # key[p]
      <4>1. PICK q \in Procs : kl[q] = locks[k]
        BY <1>1, <3>2 DEF TypeOK, Used, Users
      <4> QED
        BY <1>1, <1>3, <3>2, <4>1 DEF TypeOK
    <3> QED
      BY <3>1, <3>2
  <2> QED
    BY <2>3, <2>4
<1> QED
  BY <1>5, <1>6, <1>7, <1>8, <1>9, <1>10

LEMMA LockInv == ASSUME IndInv, NEW p \in Procs, Lock(p) PROVE IndInv'
<1> USE DEF IndInv
<1>1. kl[p] \in Objs /\ locks[key[p]] = kl[p]
  BY DEF Lock, Referring, Refers
<1>2. TypeOK'
  BY <1>1 DEF Lock, TypeOK, Pcs
<1>3. TableLocked' /\ Referring' /\ Distinct'
  BY DEF Lock, TypeOK, TableLocked, Referring, Refers, Distinct
<1>4. Holding'
  BY <1>1, KeyLockAssumption DEF Lock, TypeOK, Holding, Referring, Refers
<1>5. Counted' /\ Used'
  BY DEF Lock, Counted, Used, Users
<1> QED
  BY <1>2, <1>3, <1>4, <1>5

LEMMA UnlockInv == ASSUME IndInv, NEW p \in Procs, Unlock(p) PROVE IndInv'
<1> USE DEF IndInv
<1>1. kl[p] \in Objs /\ held[kl[p]] = p
  BY DEF Unlock, Referring, Refers, Holding
<1>2. TypeOK'
  BY <1>1 DEF Unlock, TypeOK, Pcs
<1>3. TableLocked' /\ Referring' /\ Distinct'
  BY DEF Unlock, TypeOK, TableLocked, Referring, Refers, Distinct
<1>4. Holding'
  BY <1>1, KeyLockAssumption DEF Unlock, TypeOK, Holding, Referring, Refers
<1>5. Counted' /\ Used'
  BY DEF Unlock, Counted, Used, Users
<1> QED
  BY <1>2, <1>3, <1>4, <1>5

\* Only a process that is the last user of its object takes it off the table.
LEMMA DerefInv == ASSUME IndInv, NEW p \in Procs, Deref(p) PROVE IndInv'
<1> USE DEF IndInv
<1>1. PICK o \in Objs : kl[p] = o /\ locks[key[p]] = o
  BY DEF Deref, Referring, Refers
<1>2. /\ kl' = [kl EXCEPT ![p] = NoObj]
      /\ refs' = [refs EXCEPT ![o] = @ - 1]
      /\ locks' = IF refs[o] = 1 THEN [locks EXCEPT ![key[p]] = NoObj] ELSE locks
      /\ UNCHANGED <<held, key>>
      /\ mu' = NoProc
      /\ pc[p] = "deref" /\ pc' = [pc EXCEPT ![p] = "out"]
  BY <1>1 DEF Deref
<1>3. /\ Cardinality(Users(o)) \in Nat \ {0}
      /\ Cardinality(Users(o)') = Cardinality(Users(o)) - 1
      /\ Users(o)' = Users(o) \ {p}
      /\ \A x \in Objs \ {o} : Users(x)' = Users(x)
  BY <1>1, <1>2, DropUser
<1>4. refs[o] = 1 <=> Users(o) \ {p} = {}
  <2>1. (Cardinality(Users(o)) = 0 <=> Users(o) = {})'
    BY UsersFinite, PTL
  <2> QED
    BY <1>3, <2>1 DEF Counted
<1>5. TypeOK'
  BY <1>2, <1>3 DEF TypeOK, Pcs, Counted
<1>6. TableLocked'
  BY <1>2, KeyLockAssumption DEF TypeOK, TableLocked
<1>7. Referring'
  <2> SUFFICES ASSUME NEW q \in Procs
               PROVE  IF pc'[q] \in Refers THEN kl'[q] \in Objs /\ locks'[key'[q]] = kl'[q]
                                           ELSE kl'[q] = NoObj
    BY DEF Referring
  <2>1. CASE q = p
    BY <1>2, <2>1 DEF TypeOK, Refers
  <2>2. CASE q # p
    <3>1. refs[o] = 1 /\ pc[q] \in Refers => key[q] # key[p]
      BY <1>1, <1>4, <2>2 DEF Referring, Users
    <3> QED
      BY <1>2, <2>2, <3>1 DEF TypeOK, Referring
  <2> QED
    BY <2>1, <2>2
<1>8. Distinct'
  BY <1>2 DEF TypeOK, Distinct
<1>9. Holding'
  BY <1>1, <1>2 DEF TypeOK, Holding
<1>10. Counted'
  BY <1>2, <1>3 DEF TypeOK, Counted
<1>11. Used'
  <2> SUFFICES ASSUME NEW k \in Keys, locks'[k] # NoObj
               PROVE  \E q \in Procs : kl'[q] = locks'[k]
    BY DEF Used, Users
  <2>1. locks'[k] = locks[k]
    BY <1>2 DEF TypeOK
  <2>2. CASE locks[k] = o
    <3>1. k = key[p]
      BY <1>1, <2>1, <2>2 DEF TypeOK, Distinct
    <3>2. PICK q \in Users(o) : q # p
      BY <1>2, <1>4, <2>1, <2>2, <3>1, KeyLockAssumption DEF TypeOK
    <3> QED
      BY <1>2, <2>1, <2>2, <3>2 DEF TypeOK, Users
  <2>3. CASE locks[k] # o
    <3>1. PICK q \in Procs : kl[q] = locks[k]
      BY <2>1 DEF Used, Users
    <3> QED
      BY <1>1, <1>2, <2>1, <2>3, <3>1 DEF TypeOK
  <2> QED
    BY <2>2, <2>3
<1> QED
  BY <1>5, <1>6, <1>7, <1>8, <1>9, <1>10, <1>11

LEMMA NextIndInv == IndInv /\ [Next]_vars => IndInv'
<1> SUFFICES ASSUME IndInv, [Next]_vars PROVE IndInv'
  OBVIOUS
<1>1. CASE UNCHANGED vars
  BY <1>1 DEF vars, IndInv, TypeOK, TableLocked, Referring, Distinct, Counted, Used,
              Users, Holding
<1>2. CASE Next
  <2>1. PICK p \in Procs : \/ Call(p) \/ Enter(p) \/ Find(p) \/ Create(p) \/ Lock(p)
                           \/ Unlock(p) \/ Leave(p) \/ Deref(p)
    BY <1>2 DEF Next
  <2> QED
    BY <2>1, CallInv, LockTableInv, FindInv, CreateInv, LockInv, UnlockInv, DerefInv
<1> QED
  BY <1>1, <1>2

THEOREM InvariantHolds == Spec => []IndInv
BY InitIndInv, NextIndInv, PTL DEF Spec

-----------------------------------------------------------------------------
(* What follows *)

\* Every variable keeps its type.
THEOREM TypeCorrect == Spec => []TypeOK
<1>1. IndInv => TypeOK
  BY DEF IndInv
<1> QED
  BY <1>1, InvariantHolds, PTL

LEMMA IndInvExcludes == IndInv => MutualExclusion
BY KeyLockAssumption DEF IndInv, MutualExclusion, Referring, Refers, Holding

\* Two Gets of one key are never both past the lock, for any number of
\* goroutines and keys.
THEOREM Exclusion == Spec => []MutualExclusion
BY IndInvExcludes, InvariantHolds, PTL

LEMMA IndInvTable == IndInv => TableInUse
<1> SUFFICES ASSUME IndInv, NEW k \in Keys
             PROVE  locks[k] # NoObj <=> \E p \in Procs : pc[p] \in Refers /\ key[p] = k
  BY DEF TableInUse, Refers
<1> USE DEF IndInv
<1>1. ASSUME locks[k] # NoObj PROVE \E p \in Procs : pc[p] \in Refers /\ key[p] = k
  <2>1. PICK p \in Procs : kl[p] = locks[k]
    BY <1>1 DEF Used, Users
  <2>2. pc[p] \in Refers /\ locks[key[p]] = locks[k]
    BY <1>1, <2>1 DEF Referring
  <2> QED
    BY <1>1, <2>2 DEF Distinct, TypeOK
<1>2. ASSUME NEW p \in Procs, pc[p] \in Refers, key[p] = k PROVE locks[k] # NoObj
  BY <1>2, KeyLockAssumption DEF Referring
<1> QED
  BY <1>1, <1>2

\* The table holds exactly the objects in use: no lock is dropped under a
\* waiter and none is leaked.
THEOREM TableCorrect == Spec => []TableInUse
BY IndInvTable, InvariantHolds, PTL

-----------------------------------------------------------------------------
(* KeyLock implements KeyMutex *)

\* The owner of a key is the one process past its lock.
OwnerCorrect ==
  \A k \in Keys : /\ \A p \in Procs : owner[k] = p <=> pc[p] = "in" /\ key[p] = k
                  /\ owner[k] \in Procs \cup {NoProc}

LEMMA OwnerIs == IndInv => OwnerCorrect
<1> SUFFICES ASSUME IndInv, NEW k \in Keys
             PROVE  /\ \A p \in Procs : Owner(k) = p <=> pc[p] = "in" /\ key[p] = k
                    /\ Owner(k) \in Procs \cup {NoProc}
  BY DEF owner, OwnerCorrect
<1>1. CASE \E p \in Procs : pc[p] = "in" /\ key[p] = k
  <2>1. PICK p \in Procs : pc[p] = "in" /\ key[p] = k
    BY <1>1
  <2>2. \A q \in Procs : pc[q] = "in" /\ key[q] = k => q = p
    BY <2>1, IndInvExcludes DEF MutualExclusion
  <2>3. Owner(k) = CHOOSE q \in Procs : pc[q] = "in" /\ key[q] = k
    BY <1>1 DEF Owner
  <2>4. Owner(k) \in Procs /\ pc[Owner(k)] = "in" /\ key[Owner(k)] = k
    BY <2>1, <2>3
  <2> QED
    BY <2>1, <2>2, <2>4
<1>2. CASE ~\E p \in Procs : pc[p] = "in" /\ key[p] = k
  BY <1>2, KeyLockAssumption DEF Owner
<1> QED
  BY <1>1, <1>2

\* Every step is a step of KeyMutex or leaves the owners alone: who is past a
\* lock changes in Lock and in Unlock only.
LEMMA StepRefines ==
  IndInv /\ IndInv' /\ [Next]_vars => [Mutex!Next]_owner
<1> SUFFICES ASSUME IndInv, IndInv', [Next]_vars PROVE [Mutex!Next]_owner
  OBVIOUS
<1>1. OwnerCorrect /\ OwnerCorrect'
  BY OwnerIs, PTL
<1>2. owner = [k \in Keys |-> owner[k]] /\ owner' = [k \in Keys |-> owner'[k]]
  BY DEF owner
<1>3. TypeOK
  BY DEF IndInv
<1>4. ASSUME \A q \in Procs : /\ pc[q] = "in" <=> pc'[q] = "in"
                              /\ pc[q] = "in" => key'[q] = key[q]
      PROVE  owner' = owner
  <2>1. \A k \in Keys : owner'[k] = owner[k]
    BY <1>1, <1>4 DEF OwnerCorrect
  <2> QED
    BY <1>2, <2>1
<1>5. ASSUME NEW p \in Procs, Lock(p) PROVE Mutex!Acquire(p, key[p])
  <2>1. pc[p] = "wait" /\ pc' = [pc EXCEPT ![p] = "in"] /\ key' = key /\ held[kl[p]] = NoProc
    BY <1>5 DEF Lock
  <2>2. \A q \in Procs : pc[q] = "in" => key[q] # key[p]
    BY <2>1, KeyLockAssumption DEF IndInv, Referring, Refers, Holding
  <2>3. key[p] \in Keys
    BY <1>3 DEF TypeOK
  <2>4. owner[key[p]] = NoProc /\ \A j \in Keys : owner[j] # p
    BY <1>1, <2>1, <2>2, <2>3 DEF OwnerCorrect
  <2>5. \A k \in Keys : owner'[k] = IF k = key[p] THEN p ELSE owner[k]
    BY <1>1, <1>3, <2>1, <2>2 DEF OwnerCorrect, TypeOK
  <2> QED
    BY <1>2, <2>3, <2>4, <2>5 DEF Mutex!Acquire
<1>6. ASSUME NEW p \in Procs, Unlock(p) PROVE Mutex!Release(p, key[p])
  <2>1. pc[p] = "in" /\ pc' = [pc EXCEPT ![p] = "leave"] /\ key' = key
    BY <1>6 DEF Unlock
  <2>2. key[p] \in Keys
    BY <1>3 DEF TypeOK
  <2>3. \A k \in Keys : owner'[k] = IF k = key[p] THEN NoProc ELSE owner[k]
    BY <1>1, <1>3, <2>1 DEF OwnerCorrect, TypeOK
  <2> QED
    BY <1>1, <1>2, <2>1, <2>2, <2>3 DEF Mutex!Release, OwnerCorrect
<1>7. CASE UNCHANGED vars
  BY <1>4, <1>7 DEF vars
<1>8. CASE Next
  <2>1. PICK p \in Procs : \/ Call(p) \/ Enter(p) \/ Find(p) \/ Create(p) \/ Lock(p)
                           \/ Unlock(p) \/ Leave(p) \/ Deref(p)
    BY <1>8 DEF Next
  <2>2. CASE Lock(p)
    BY <1>3, <1>5, <2>2 DEF Mutex!Next, TypeOK
  <2>3. CASE Unlock(p)
    BY <1>3, <1>6, <2>3 DEF Mutex!Next, TypeOK
  <2>4. CASE Call(p) \/ Enter(p) \/ Find(p) \/ Create(p) \/ Leave(p) \/ Deref(p)
    BY <1>3, <1>4, <2>4
    DEF Call, Enter, Leave, LockTable, Find, Create, Deref, TypeOK
  <2> QED
    BY <2>1, <2>2, <2>3, <2>4
<1> QED
  BY <1>7, <1>8

\* The counted objects and their table implement one lock per key.
THEOREM Implements == Spec => ImplementsMutex
<1>1. Init => Mutex!Init
  BY KeyLockAssumption DEF Init, Mutex!Init, owner, Owner
<1>2. IndInv /\ IndInv' /\ [Next]_vars => [Mutex!Next]_owner
  BY StepRefines
<1> QED
  BY <1>1, <1>2, InvariantHolds, PTL DEF Spec, Mutex!Spec, ImplementsMutex

=============================================================================
