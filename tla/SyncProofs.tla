----------------------------- MODULE SyncProofs -----------------------------
(***************************************************************************)
(* What the threads of a parallel simulation synchronize with is correct   *)
(* for any number of them.  The barrier of base/barrier.hh lets nobody     *)
(* leave a round early, for every width of the generation counter and      *)
(* every number of rounds.  The lock of the event queues                   *)
(* (base/uncontended_mutex.hh, in the last part) excludes and loses no     *)
(* wake-up.                                                                *)
(***************************************************************************)
EXTENDS Barrier, UncontendedMutex, FiniteSetTheorems, TLAPS

-----------------------------------------------------------------------------
(* The barrier *)

\* The threads that have not entered the current round.
Missing == {t \in Thread : entered[t] = serials}

(***************************************************************************)
(* The inductive invariant relates the code's variables, which forget the  *)
(* past, to the history: numLeft counts the threads missing in the current *)
(* round, and for a thread inside wait() the comparison of its copy of     *)
(* generation with the current value tells whether its round is still      *)
(* open.  The latter holds even though generation wraps around, because    *)
(* nobody can be two rounds behind.                                        *)
(***************************************************************************)
Inv ==
  /\ TypeOK
  /\ numLeft = Cardinality(Missing)
  /\ \A t \in Thread :
       /\ entered[t] \in {serials, serials + 1}
       /\ pc[t] = "out" => entered[t] = serials /\ left[t] = entered[t]
       /\ pc[t] # "out" => entered[t] = left[t] + 1
       /\ pc[t] # "out" => (gen[t] = generation <=> entered[t] = serials + 1)
       /\ pc[t] = "asleep" => gen[t] = generation

\* There is at least one thread to wait for.
LEMMA NumWaiting == numWaiting \in Nat /\ numWaiting >= 1
<1>1. Cardinality(Thread) \in Nat
  BY ThreadAssumption, FS_CardinalityType
<1>2. Cardinality(Thread) # 0
  BY ThreadAssumption, FS_EmptySet
<1> QED
  BY <1>1, <1>2 DEF numWaiting

\* A generation differs from the next one, wrap-around included.
LEMMA NextGeneration ==
  ASSUME NEW g \in 0..(GenModulus - 1)
  PROVE  /\ (g + 1) % GenModulus \in 0..(GenModulus - 1)
         /\ (g + 1) % GenModulus # g
<1>1. CASE g + 1 < GenModulus
  <2>1. (g + 1) % GenModulus = g + 1
    BY <1>1, GenModulusAssumption
  <2> QED
    BY <1>1, <2>1, GenModulusAssumption
<1>2. CASE g + 1 = GenModulus
  <2>1. (g + 1) % GenModulus = 0
    BY <1>2, GenModulusAssumption
  <2> QED
    BY <1>2, <2>1, GenModulusAssumption
<1> QED
  BY <1>1, <1>2, GenModulusAssumption

\* The barrier is created with every thread outside (Barrier's constructor).
LEMMA InitInv == Init => Inv
<1> SUFFICES ASSUME Init PROVE Inv
  OBVIOUS
<1>1. Missing = Thread
  BY DEF Init, Missing
<1> QED
  BY <1>1, NumWaiting, GenModulusAssumption DEF Init, Inv, TypeOK, numWaiting

\* The thread that completes a round: everybody moves on with it.
LEMMA WaitLastInv ==
  ASSUME Inv, NEW t \in Thread, WaitLast(t)
  PROVE  Inv'
<1> USE DEF Inv, TypeOK
<1>1. Missing = {t}
  <2>1. IsFiniteSet(Missing)
    BY ThreadAssumption, FS_Subset DEF Missing
  <2>2. PICK x : Missing = {x}
    BY <2>1, FS_Singleton, Zenon DEF WaitLast
  <2> QED
    BY <2>2 DEF WaitLast, Enter, Missing
<1>2. \A u \in Thread : u # t => entered[u] = serials + 1 /\ pc[u] # "out"
  BY <1>1 DEF Missing
<1>3. \A u \in Thread : entered'[u] = serials'
  BY <1>1, <1>2 DEF WaitLast, Enter, Missing
<1>4. Missing' = Thread
  BY <1>3 DEF Missing
<1>5. TypeOK'
  BY NumWaiting, NextGeneration DEF WaitLast, Enter, Leave, notify_all
<1>6. ASSUME NEW u \in Thread, u # t
      PROVE  /\ pc'[u] = "awake"
             /\ gen'[u] # generation'
             /\ left'[u] = left[u] /\ entered'[u] = entered[u]
  BY <1>2, <1>6, NextGeneration DEF WaitLast, Enter, Leave, notify_all
<1>7. pc'[t] = "out" /\ left'[t] = entered'[t]
  BY DEF WaitLast, Enter, Leave, notify_all
<1>8. numLeft' = Cardinality(Missing')
  BY <1>4 DEF WaitLast, numWaiting
<1> QED
  BY <1>2, <1>3, <1>5, <1>6, <1>7, <1>8 DEF WaitLast, Enter, Leave, notify_all

\* A thread that arrives before the last one: one thread less is missing.
LEMMA WaitBlockInv ==
  ASSUME Inv, NEW t \in Thread, WaitBlock(t)
  PROVE  Inv'
<1> USE DEF Inv, TypeOK
<1>1. Missing' = Missing \ {t} /\ t \in Missing
  BY DEF WaitBlock, Enter, Missing
<1>2. IsFiniteSet(Missing)
  BY ThreadAssumption, FS_Subset DEF Missing
<1>3. Cardinality(Missing') = Cardinality(Missing) - 1
  BY <1>1, <1>2, FS_RemoveElement
<1>4. TypeOK'
  BY NumWaiting DEF WaitBlock, Enter
<1> QED
  BY <1>3, <1>4 DEF WaitBlock, Enter

\* Waking up changes nothing that another thread can see.
LEMMA WakeInv ==
  ASSUME Inv, NEW t \in Thread, SpuriousWakeup(t) \/ Recheck(t)
  PROVE  Inv'
<1> USE DEF Inv, TypeOK
<1>1. Missing' = Missing
  BY DEF SpuriousWakeup, Recheck, Missing
<1>2. CASE SpuriousWakeup(t)
  BY <1>1, <1>2 DEF SpuriousWakeup
<1>3. CASE Recheck(t)
  BY <1>1, <1>3 DEF Recheck, Leave
<1> QED
  BY <1>2, <1>3

\* Every step of wait() preserves the invariant.
LEMMA NextInv == Inv /\ [Next]_vars => Inv'
<1> SUFFICES ASSUME Inv, [Next]_vars PROVE Inv'
  OBVIOUS
<1>1. ASSUME NEW t \in Thread, Wait(t) PROVE Inv'
  BY <1>1, WaitLastInv, WaitBlockInv DEF Wait
<1>2. ASSUME NEW t \in Thread, SpuriousWakeup(t) \/ Recheck(t) PROVE Inv'
  BY <1>2, WakeInv
<1>3. CASE UNCHANGED vars
  BY <1>3 DEF vars, Inv, TypeOK, Missing
<1> QED
  BY <1>1, <1>2, <1>3 DEF Next

\* The inductive invariant of Barrier's wait() holds in every state.
LEMMA Invariance == Spec => []Inv
BY InitInv, NextInv, PTL DEF Spec

\* The variables of Barrier keep their types; numLeft never reaches zero
\* outside the critical section of wait().
THEOREM TypeCorrect == Spec => []TypeOK
BY Invariance, PTL DEF Inv

\* No wait() of base/barrier.hh returns before all threads have called it,
\* for any number of threads and rounds and any width of generation.
THEOREM BarrierSafe == Spec => []NobodyLeavesEarly
<1>1. Inv => NobodyLeavesEarly
  <2> SUFFICES ASSUME Inv, NEW t \in Thread, NEW u \in Thread
               PROVE  left[t] <= entered[u]
    BY DEF NobodyLeavesEarly
  <2>1. left[t] <= serials
    BY DEF Inv, TypeOK
  <2>2. serials <= entered[u]
    BY DEF Inv, TypeOK
  <2> QED
    BY <2>1, <2>2 DEF Inv, TypeOK
<1> QED
  BY <1>1, Invariance, PTL

\* wait() returns true once per round, so one thread runs process() of a
\* global event.
THEOREM SerialThreadUnique == Spec => []OneSerialThread
<1>1. Inv => OneSerialThread
  BY DEF Inv, TypeOK, OneSerialThread
<1> QED
  BY <1>1, Invariance, PTL

\* The notify_all of the last thread reaches every thread of the round.
THEOREM EverybodyNotified == Spec => []NoSleeperLeftBehind
<1>1. Inv => NoSleeperLeftBehind
  BY DEF Inv, NoSleeperLeftBehind
<1> QED
  BY <1>1, Invariance, PTL

-----------------------------------------------------------------------------
(* The lock *)

(***************************************************************************)
(* flag = 0 is what both acquiring paths test, so exclusion needs that a   *)
(* held lock always shows in flag.                                         *)
(***************************************************************************)
FlagShowsOwner ==
  \A t \in Locker : at[t] \in Owning => flag > 0

(***************************************************************************)
(* m is owned by the thread whose program counter says so.  NoLostWakeup   *)
(* needs it: nobody clears flag between a waiter's flag++ and its wait.    *)
(***************************************************************************)
OwnerOfM ==
  \A t \in Locker : at[t] \in OwningM <=> m = t

\* A thread about to wait has left its mark in flag.
AboutToWait ==
  \A t \in Locker : at[t] = "enterWait" => flag > 1

MutexInv ==
  /\ LockTypeOK
  /\ MutualExclusion
  /\ FlagShowsOwner
  /\ OwnerOfM
  /\ AboutToWait
  /\ NoLostWakeup

\* The lock starts free, with no waiter: the inductive invariant holds.
LEMMA MutexInitInv == LockInit => MutexInv
<1> SUFFICES ASSUME LockInit PROVE MutexInv
  OBVIOUS
<1>1. flag = 0 /\ m = NoThread /\ \A t \in Locker : at[t] = "idle"
  BY DEF LockInit
<1>2. LockTypeOK
  BY DEF LockInit, LockTypeOK, PC
<1>3. MutualExclusion /\ FlagShowsOwner
  BY <1>1 DEF MutualExclusion, FlagShowsOwner, Owning
<1>4. OwnerOfM /\ AboutToWait
  BY <1>1, NoThreadAssumption DEF OwnerOfM, AboutToWait, OwningM
<1>5. NoLostWakeup
  BY <1>1 DEF NoLostWakeup
<1> QED
  BY <1>2, <1>3, <1>4, <1>5, Zenon DEF MutexInv

\* Every step of lock(), of unlock() and of the environment keeps MutexInv.
LEMMA MutexNextInv == MutexInv /\ [LockNext]_lockVars => MutexInv'
<1> SUFFICES ASSUME MutexInv, [LockNext]_lockVars PROVE MutexInv'
  OBVIOUS
<1> USE DEF MutexInv, LockTypeOK, PC, MutualExclusion, FlagShowsOwner, OwnerOfM,
        AboutToWait, NoLostWakeup, Owning, OwningM, Goto
<1>1. ASSUME NEW t \in Locker, Lock(t) PROVE MutexInv'
  BY <1>1 DEF Lock
<1>2. ASSUME NEW t \in Locker, LockTestAndSet(t) PROVE MutexInv'
  BY <1>2 DEF LockTestAndSet
<1>3. ASSUME NEW t \in Locker, LockAcquireM(t) PROVE MutexInv'
  BY <1>3, NoThreadAssumption DEF LockAcquireM
<1>4. ASSUME NEW t \in Locker, Increment(t) PROVE MutexInv'
  BY <1>4 DEF Increment
<1>5. ASSUME NEW t \in Locker, LockReturn(t) PROVE MutexInv'
  BY <1>5, NoThreadAssumption DEF LockReturn
<1>6. ASSUME NEW t \in Locker, CvWait(t) PROVE MutexInv'
  BY <1>6, NoThreadAssumption DEF CvWait
<1>7. ASSUME NEW t \in Locker, CvSpuriousWakeup(t) PROVE MutexInv'
  BY <1>7 DEF CvSpuriousWakeup
<1>8. ASSUME NEW t \in Locker, WaitReacquireM(t) PROVE MutexInv'
  BY <1>8, NoThreadAssumption DEF WaitReacquireM
<1>9. ASSUME NEW t \in Locker, WaitReturn(t) PROVE MutexInv'
  BY <1>9, NoThreadAssumption DEF WaitReturn
<1>10. ASSUME NEW t \in Locker, UnlockTestAndSet(t) PROVE MutexInv'
  BY <1>10 DEF UnlockTestAndSet
<1>11. ASSUME NEW t \in Locker, UnlockAcquireM(t) PROVE MutexInv'
  BY <1>11, NoThreadAssumption DEF UnlockAcquireM
<1>12. ASSUME NEW t \in Locker, Clear(t) PROVE MutexInv'
  BY <1>12 DEF Clear
<1>13. ASSUME NEW t \in Locker, UnlockReleaseM(t) PROVE MutexInv'
  BY <1>13, NoThreadAssumption DEF UnlockReleaseM
<1>14. ASSUME NEW t \in Locker, NotifyAll(t) PROVE MutexInv'
  BY <1>14 DEF NotifyAll
<1>15. CASE UNCHANGED lockVars
  BY <1>15 DEF lockVars
<1> QED
  BY <1>1, <1>2, <1>3, <1>4, <1>5, <1>6, <1>7, <1>8, <1>9, <1>10, <1>11,
     <1>12, <1>13, <1>14, <1>15, Zenon DEF LockNext, Step

\* The inductive invariant holds in every reachable state.
LEMMA MutexInvariance == LockSpec => []MutexInv
BY MutexInitInv, MutexNextInv, PTL DEF LockSpec

(***************************************************************************)
(* UncontendedMutex::lock() never lets two threads in, whatever their      *)
(* number and however often cv.wait() returns spuriously.                  *)
(***************************************************************************)
THEOREM Exclusion == LockSpec => []MutualExclusion
<1>1. MutexInv => MutualExclusion
  BY DEF MutexInv
<1> QED
  BY <1>1, MutexInvariance, PTL

(***************************************************************************)
(* No thread is left asleep in lock(): whenever one sleeps, flag forces    *)
(* the owner's unlock() to notify, or a notification is on its way.        *)
(***************************************************************************)
THEOREM WakeupNotLost == LockSpec => []NoLostWakeup
<1>1. MutexInv => NoLostWakeup
  BY DEF MutexInv
<1> QED
  BY <1>1, MutexInvariance, PTL

=============================================================================
