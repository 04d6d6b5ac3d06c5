------------------------------- MODULE SpinMutex -------------------------------
(***************************************************************************)
(* a3_MutexHandle: a lock made of one plain integer, the id of the thread  *)
(* that holds it or 0.  Every read and every write of the integer is a     *)
(* step of its own, because no atomic operation, fence or volatile joins   *)
(* two of them.                                                            *)
(*                                                                         *)
(* The unsynchronised reads are a data race, so the compiler may keep or   *)
(* merge them.  "build" is what it did: "each" reads the integer wherever  *)
(* the source does (Debug), "once" reads it at the first use in a call     *)
(* (Release), which turns the empty wait loop into one that never ends.    *)
(*                                                                         *)
(* Callers do as the header says: a result of 1 is locked and unlocked     *)
(* after the critical section, a result of 0 is "already owner" and enters *)
(* without unlocking.                                                      *)
(***************************************************************************)
EXTENDS Naturals

CONSTANTS
  Threads,         \* thread ids, as returned by a3threadInternalGetID
  Builds,          \* the builds considered, of "each" and "once"
  MayTerminate     \* whether a3threadTerminate is used on a running thread

ASSUME MutexConstants ==
  /\ Threads \subseteq Nat \ {0}
  /\ Builds \subseteq {"each", "once"}
  /\ MayTerminate \in BOOLEAN

VARIABLES
  build,
  threadID,     \* mutex->threadID
  pc            \* what each thread is about to do

vars == <<build, threadID, pc>>

Places == {"idle", "check", "spin", "claim", "write", "critical", "unlock", "clear",
           "guest", "hung", "terminated"}

TypeOK ==
  /\ build \in Builds
  /\ threadID \in Threads \cup {0}
  /\ pc \in [Threads -> Places]

Init ==
  /\ build \in Builds
  /\ threadID = 0
  /\ pc = [t \in Threads |-> "idle"]

------------------------------------------------------------------------------
GoTo(t, from, to) == pc[t] = from /\ pc' = [pc EXCEPT ![t] = to]

CallLock(t) == GoTo(t, "idle", "check") /\ UNCHANGED <<build, threadID>>

\* mutex->threadID != id; merged reads decide the loop and the second test too.
Check(t) ==
  /\ GoTo(t, "check", CASE threadID = t                    -> "guest"
                        [] threadID # t /\ build = "each"  -> "spin"
                        [] threadID = 0 /\ build = "once"  -> "write"
                        [] OTHER                           -> "hung")
  /\ UNCHANGED <<build, threadID>>

\* Slip: waiting for the wrong value.
SpinForOwn(t) ==
  /\ threadID = t
  /\ GoTo(t, "spin", "claim")
  /\ UNCHANGED <<build, threadID>>

\* while (mutex->threadID > 0);
Spin(t) ==
  /\ threadID = 0
  /\ GoTo(t, "spin", "claim")
  /\ UNCHANGED <<build, threadID>>

\* if (mutex->threadID == 0); otherwise the call returns 0.
Claim(t) ==
  /\ GoTo(t, "claim", IF threadID = 0 THEN "write" ELSE "guest")
  /\ UNCHANGED <<build, threadID>>

Write(t) ==
  /\ GoTo(t, "write", "critical")
  /\ threadID' = t
  /\ UNCHANGED build

\* The critical section ends; a guest has nothing to unlock.
Leave(t) ==
  /\ GoTo(t, "critical", "unlock") \/ GoTo(t, "guest", "idle")
  /\ UNCHANGED <<build, threadID>>

\* Slip: an inverted test, so that no owner clears the handle.
UnlockInverted(t) ==
  /\ GoTo(t, "unlock", IF threadID # t THEN "clear" ELSE "idle")
  /\ UNCHANGED <<build, threadID>>

\* if (mutex->threadID == id); otherwise the call returns 0.
Unlock(t) ==
  /\ GoTo(t, "unlock", IF threadID = t THEN "clear" ELSE "idle")
  /\ UNCHANGED <<build, threadID>>

Clear(t) ==
  /\ GoTo(t, "clear", "idle")
  /\ threadID' = 0
  /\ UNCHANGED build

\* a3threadTerminate stops a thread wherever it is.
Terminate(t) ==
  /\ MayTerminate
  /\ pc[t] # "terminated"
  /\ pc' = [pc EXCEPT ![t] = "terminated"]
  /\ UNCHANGED <<build, threadID>>

Runs(t) ==
  Check(t) \/ Spin(t) \/ Claim(t) \/ Write(t) \/ Leave(t) \/ Unlock(t) \/ Clear(t)

Next == \E t \in Threads : CallLock(t) \/ Runs(t) \/ Terminate(t)

\* The scheduler runs every thread that can run; nobody has to call Lock.
Fairness == \A t \in Threads : WF_vars(Runs(t))

Spec == Init /\ [][Next]_vars /\ Fairness

------------------------------------------------------------------------------
Inside(t) == pc[t] \in {"critical", "guest"}

(* Whoever's id is stored still has its unlock ahead of it (or was          *)
(* terminated before it), through every race of claims and clears: the      *)
(* handle never stays locked in the name of a thread that has moved on.     *)
StoredIdHasUnlockAhead ==
  threadID # 0 => pc[threadID] \in {"critical", "unlock", "clear", "terminated"}

(* A stored id is cleared or replaced unless its thread is terminated: the  *)
(* lock is never lost by a race of Unlock with Lock.                        *)
LockIsGivenBack ==
  \A t \in Threads : (threadID = t) ~> (threadID # t \/ pc[t] = "terminated")

(* And while some thread waits in the loop, some thread gets in, unless a   *)
(* thread is terminated, which may have been the owner.                     *)
WaitingLetsSomeoneIn ==
  (\E t \in Threads : pc[t] = "spin")
    ~> (\E t \in Threads : Inside(t) \/ pc[t] = "terminated")

------------------------------------------------------------------------------
(* What the header says and the code does not do.                           *)

(* "Simple descriptor for mutual exclusion (mutex) handle" (a3_Thread.h:76):*)
(* the threads whose Lock returned 1 and that have not left are one at most.*)
MutualExclusion == \A t, u \in Threads : pc[t] = "critical" /\ pc[u] = "critical" => t = u

==============================================================================
