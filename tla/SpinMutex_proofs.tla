---------------------------- MODULE SpinMutex_proofs ----------------------------
(* What holds of the lock for every number of threads, every build and with *)
(* or without terminated threads.                                           *)
EXTENDS SpinMutex, TLAPS

USE MutexConstants

\* Every place a step can lead to is one of the places, and the handle only
\* ever holds 0 or the id of the thread that writes it.
THEOREM TypeCorrect == Spec => []TypeOK
<1>1. Init => TypeOK
  BY DEF Init, TypeOK, Places
<1>2. TypeOK /\ [Next]_vars => TypeOK'
  <2> SUFFICES ASSUME TypeOK, [Next]_vars PROVE TypeOK'
    OBVIOUS
  <2>1. CASE UNCHANGED vars
    BY <2>1 DEF TypeOK, vars
  <2>2. ASSUME NEW t \in Threads, CallLock(t) \/ Spin(t) \/ Leave(t)
        PROVE  TypeOK'
    BY <2>2 DEF TypeOK, CallLock, Spin, Leave, GoTo, Places
  <2>3. ASSUME NEW t \in Threads, Check(t) PROVE TypeOK'
    BY <2>3 DEF TypeOK, Check, GoTo, Places
  <2>4. ASSUME NEW t \in Threads, Claim(t) \/ Unlock(t) PROVE TypeOK'
    BY <2>4 DEF TypeOK, Claim, Unlock, GoTo, Places
  <2>5. ASSUME NEW t \in Threads, Write(t) \/ Clear(t) PROVE TypeOK'
    BY <2>5 DEF TypeOK, Write, Clear, GoTo, Places
  <2>6. ASSUME NEW t \in Threads, Terminate(t) PROVE TypeOK'
    BY <2>6 DEF TypeOK, Terminate, Places
  <2> QED
    BY <2>1, <2>2, <2>3, <2>4, <2>5, <2>6 DEF Next, Runs
<1> QED
  BY <1>1, <1>2, PTL DEF Spec

------------------------------------------------------------------------------
\* Only Write stores an id, and it takes its thread into the critical section.
\* From there on, a thread gets back to "idle" by Clear, which stores 0, or by
\* Unlock when another id is stored: either way its own id is no longer stored.
THEOREM StoredIdUnlocks == Spec => []StoredIdHasUnlockAhead
<1> DEFINE Inv == TypeOK /\ StoredIdHasUnlockAhead
<1>1. Init => StoredIdHasUnlockAhead
  BY DEF Init, StoredIdHasUnlockAhead
<1>2. Inv /\ [Next]_vars => StoredIdHasUnlockAhead'
  <2> SUFFICES ASSUME TypeOK, StoredIdHasUnlockAhead, [Next]_vars
               PROVE  StoredIdHasUnlockAhead'
    OBVIOUS
  <2> USE DEF TypeOK, StoredIdHasUnlockAhead, GoTo
  <2>1. CASE UNCHANGED vars
    BY <2>1 DEF vars
  <2>2. ASSUME NEW t \in Threads, CallLock(t) \/ Spin(t) PROVE StoredIdHasUnlockAhead'
    BY <2>2 DEF CallLock, Spin
  <2>3. ASSUME NEW t \in Threads, Check(t) PROVE StoredIdHasUnlockAhead'
    BY <2>3 DEF Check
  <2>4. ASSUME NEW t \in Threads, Claim(t) PROVE StoredIdHasUnlockAhead'
    BY <2>4 DEF Claim
  <2>5. ASSUME NEW t \in Threads, Write(t) PROVE StoredIdHasUnlockAhead'
    BY <2>5 DEF Write
  <2>6. ASSUME NEW t \in Threads, Leave(t) PROVE StoredIdHasUnlockAhead'
    BY <2>6 DEF Leave
  <2>7. ASSUME NEW t \in Threads, Unlock(t) PROVE StoredIdHasUnlockAhead'
    BY <2>7 DEF Unlock
  <2>8. ASSUME NEW t \in Threads, Clear(t) PROVE StoredIdHasUnlockAhead'
    BY <2>8 DEF Clear
  <2>9. ASSUME NEW t \in Threads, Terminate(t) PROVE StoredIdHasUnlockAhead'
    BY <2>9 DEF Terminate
  <2> QED
    BY <2>1, <2>2, <2>3, <2>4, <2>5, <2>6, <2>7, <2>8, <2>9 DEF Next, Runs
<1> QED
  BY TypeCorrect, <1>1, <1>2, PTL DEF Spec
==============================================================================
