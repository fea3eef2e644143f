-------------------------- MODULE UncontendedMutex --------------------------
(***************************************************************************)
(* The lock of gem5's event queues (base/uncontended_mutex.hh).            *)
(*                                                                         *)
(* An atomic counter "flag" is tried first; only a thread that loses the   *)
(* race touches the std::mutex "m" and the condition variable "cv".        *)
(* EventQueue::service_mutex and EventQueue::async_queue_mutex are locks   *)
(* of this type, so every property of the parallel simulator rests on it.  *)
(*                                                                         *)
(* Every step below is one atomic operation of the code: a compare-and-    *)
(* exchange, an increment, an acquisition or release of m, a wait or a     *)
(* notification.  m and cv are the C++ library's: m is modelled by its     *)
(* owner, cv by the threads whose program counter is "waiting".            *)
(***************************************************************************)
EXTENDS Naturals

CONSTANTS
  Locker,        \* the threads that lock and unlock the mutex
  NoThread,      \* "nobody": the value of m while it is free
  SpuriousBound  \* cv.wait() may return spuriously only while flag is below this

ASSUME NoThreadAssumption == NoThread \notin Locker
ASSUME SpuriousBoundAssumption == SpuriousBound \in Nat

VARIABLES
  flag,  \* std::atomic<int> flag: 0 free, 1 held, > 1 held and waited for
  m,     \* the thread that owns std::mutex m
  at     \* where each thread is in lock() or unlock()

lockVars == <<flag, m, at>>

(***************************************************************************)
(* "idle"       outside lock() and unlock(), not holding the lock          *)
(* "lockCas"    about to run testAndSet(0, 1)                              *)
(* "lockM"      about to construct the unique_lock on m                    *)
(* "increment"  owns m, about to run flag++                                *)
(* "enterWait"  owns m, flag++ returned non-zero, about to call cv.wait()  *)
(* "waiting"    blocked in cv.wait(), m released                           *)
(* "rewake"     notified, about to get m back before cv.wait() returns     *)
(* "unwind"     owns m, about to leave the loop body (~unique_lock)        *)
(* "acquired"   owns m and the lock: flag++ returned 0, break taken        *)
(* "critical"   lock() has returned                                        *)
(* "unlockM"    testAndSet(1, 0) failed, about to take m                   *)
(* "clear"      owns m, about to run flag = 0                              *)
(* "release"    owns m, flag is cleared, about to run ~lock_guard          *)
(* "notify"     about to run cv.notify_all()                               *)
(***************************************************************************)
PC == {"idle", "lockCas", "lockM", "increment", "enterWait", "waiting",
       "rewake", "unwind", "acquired", "critical", "unlockM", "clear",
       "release", "notify"}

LockTypeOK ==
  /\ flag \in Nat
  /\ m \in Locker \cup {NoThread}
  /\ at \in [Locker -> PC]

LockInit ==
  /\ flag = 0
  /\ m = NoThread
  /\ at = [t \in Locker |-> "idle"]

Goto(t, from, to) ==
  /\ at[t] = from
  /\ at' = [at EXCEPT ![t] = to]

-----------------------------------------------------------------------------
(* lock() *)

Lock(t) ==
  /\ Goto(t, "idle", "lockCas")
  /\ UNCHANGED <<flag, m>>

\* while (!testAndSet(0, 1)): the loop's test, reached first and after a wait.
LockTestAndSet(t) ==
  /\ \/ /\ flag = 0
        /\ flag' = 1
        /\ Goto(t, "lockCas", "critical")
     \/ /\ flag # 0
        /\ Goto(t, "lockCas", "lockM")
        /\ UNCHANGED flag
  /\ UNCHANGED m

LockAcquireM(t) ==
  /\ m = NoThread
  /\ m' = t
  /\ Goto(t, "lockM", "increment")
  /\ UNCHANGED flag

\* Mutant: "flag++ <= 1", taking the lock while one thread holds it.
IncrementTooEager(t) ==
  /\ flag' = flag + 1
  /\ \/ flag <= 1 /\ Goto(t, "increment", "acquired")
     \/ flag > 1 /\ Goto(t, "increment", "enterWait")
  /\ UNCHANGED m

\* if (flag++ == 0) break;
Increment(t) ==
  /\ flag' = flag + 1
  /\ \/ flag = 0 /\ Goto(t, "increment", "acquired")
     \/ flag # 0 /\ Goto(t, "increment", "enterWait")
  /\ UNCHANGED m

\* break leaves the scope of the unique_lock: m is released, lock() returns.
LockReturn(t) ==
  /\ Goto(t, "acquired", "critical")
  /\ m' = NoThread
  /\ UNCHANGED flag

\* cv.wait(ul) releases m and blocks in one step.
CvWait(t) ==
  /\ Goto(t, "enterWait", "waiting")
  /\ m' = NoThread
  /\ UNCHANGED flag

CvSpuriousWakeup(t) ==
  /\ flag < SpuriousBound
  /\ Goto(t, "waiting", "rewake")
  /\ UNCHANGED <<flag, m>>

WaitReacquireM(t) ==
  /\ m = NoThread
  /\ m' = t
  /\ Goto(t, "rewake", "unwind")
  /\ UNCHANGED flag

\* cv.wait() has returned: ul is destroyed and the loop's test runs again.
WaitReturn(t) ==
  /\ Goto(t, "unwind", "lockCas")
  /\ m' = NoThread
  /\ UNCHANGED flag

-----------------------------------------------------------------------------
(* unlock() *)

\* Mutant: the fast path "flag = 0; return" is taken whatever flag is.
UnlockAlwaysFast(t) ==
  /\ flag' = 0
  /\ Goto(t, "critical", "idle")
  /\ UNCHANGED m

\* if (testAndSet(1, 0)) return;
UnlockTestAndSet(t) ==
  /\ \/ /\ flag = 1
        /\ flag' = 0
        /\ Goto(t, "critical", "idle")
     \/ /\ flag # 1
        /\ Goto(t, "critical", "unlockM")
        /\ UNCHANGED flag
  /\ UNCHANGED m

UnlockAcquireM(t) ==
  /\ m = NoThread
  /\ m' = t
  /\ Goto(t, "unlockM", "clear")
  /\ UNCHANGED flag

Clear(t) ==
  /\ flag' = 0
  /\ Goto(t, "clear", "release")
  /\ UNCHANGED m

UnlockReleaseM(t) ==
  /\ m' = NoThread
  /\ Goto(t, "release", "notify")
  /\ UNCHANGED flag

\* Mutant: cv.notify_one(), which the code's comment considers.
NotifyOne(t) ==
  /\ at[t] = "notify"
  /\ \/ \E u \in Locker :
          /\ at[u] = "waiting"
          /\ at' = [at EXCEPT ![t] = "idle", ![u] = "rewake"]
     \/ /\ \A u \in Locker : at[u] # "waiting"
        /\ at' = [at EXCEPT ![t] = "idle"]
  /\ UNCHANGED <<flag, m>>

\* cv.notify_all() wakes every thread that is blocked at this moment.
NotifyAll(t) ==
  /\ at[t] = "notify"
  /\ at' = [u \in Locker |-> IF u = t THEN "idle"
                             ELSE IF at[u] = "waiting" THEN "rewake"
                             ELSE at[u]]
  /\ UNCHANGED <<flag, m>>

-----------------------------------------------------------------------------
\* A thread that is inside lock() or unlock() takes its next step.
Step(t) ==
  \/ LockTestAndSet(t)
  \/ LockAcquireM(t)
  \/ Increment(t)
  \/ LockReturn(t)
  \/ CvWait(t)
  \/ WaitReacquireM(t)
  \/ WaitReturn(t)
  \/ UnlockTestAndSet(t)
  \/ UnlockAcquireM(t)
  \/ Clear(t)
  \/ UnlockReleaseM(t)
  \/ NotifyAll(t)

LockNext == \E t \in Locker : Lock(t) \/ CvSpuriousWakeup(t) \/ Step(t)

LockSpec == LockInit /\ [][LockNext]_lockVars

(***************************************************************************)
(* The operating system keeps running a thread that is not blocked, and    *)
(* the holders of the lock (serviceOne(), the async queue's critical       *)
(* sections) always unlock it.  Calls of lock() and spurious wake-ups need *)
(* not happen.                                                             *)
(***************************************************************************)
FairLockSpec == LockSpec /\ \A t \in Locker : WF_lockVars(Step(t))

-----------------------------------------------------------------------------
\* The program points at which a thread owns the lock.
Owning == {"acquired", "critical", "unlockM", "clear"}

\* The program points at which a thread owns m.
OwningM == {"increment", "enterWait", "unwind", "acquired", "clear", "release"}

(***************************************************************************)
(* lock() gives the lock to one thread at a time, although two different   *)
(* paths hand it out (the compare-and-exchange, which never looks at m,    *)
(* and flag++ under m) and two different paths give it back.               *)
(***************************************************************************)
MutualExclusion ==
  \A t, u \in Locker : at[t] \in Owning /\ at[u] \in Owning => t = u

(***************************************************************************)
(* No thread sleeps in cv.wait() without somebody bound to wake it:        *)
(* either flag > 1, so that the owner's unlock() must take its slow path,  *)
(* or a thread on that path has cleared flag and not yet notified.         *)
(***************************************************************************)
NoLostWakeup ==
  (\E t \in Locker : at[t] = "waiting") =>
    flag > 1 \/ \E u \in Locker : at[u] \in {"release", "notify"}

(***************************************************************************)
(* A thread in lock() never waits for a lock that nobody owns: whenever    *)
(* some thread is trying, some thread eventually owns the lock (the lock   *)
(* does not promise that it is the same one).                              *)
(***************************************************************************)
Progress ==
  (\E t \in Locker : at[t] \in PC \ (Owning \cup {"idle", "release", "notify"}))
    ~> (\E t \in Locker : at[t] = "critical")

=============================================================================
