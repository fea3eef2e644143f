------------------------------- MODULE Barrier -------------------------------
(***************************************************************************)
(* The reusable thread barrier of gem5 (base/barrier.hh).  Every global    *)
(* event of the parallel simulator owns one, and the simulation threads    *)
(* start and stop on another, so the same object is waited on round after  *)
(* round while slow threads are still waking up from the previous one.     *)
(*                                                                         *)
(* wait() runs under bMutex from its first line to its return or to the    *)
(* bCond.wait() that releases the mutex, so these two parts are the        *)
(* actions.  The condition variable is the C++ library's: a thread blocked *)
(* on it is "asleep"; notify_all, or a spurious wake-up, makes it "awake", *)
(* and it runs its loop test once it has bMutex again.                     *)
(***************************************************************************)
EXTENDS Naturals, FiniteSets

CONSTANTS
  Thread,      \* the threads that use the barrier: numWaiting of them
  GenModulus,  \* generation is an unsigned int and wraps around at this value
  MaxRounds    \* bound: how often each thread calls wait()

ASSUME ThreadAssumption == IsFiniteSet(Thread) /\ Thread # {}
ASSUME GenModulusAssumption == GenModulus \in Nat /\ GenModulus >= 2
ASSUME MaxRoundsAssumption == MaxRounds \in Nat

VARIABLES
  numLeft,     \* threads still missing in the current generation
  generation,  \* number of completed rounds, modulo GenModulus
  gen,         \* wait()'s local copy of generation, per thread
  pc,          \* "out", "asleep" in bCond.wait(), or "awake" in it
  entered,     \* history: calls of wait() per thread
  left,        \* history: returns of wait() per thread
  serials      \* history: how many of the returns were "true"

vars == <<numLeft, generation, gen, pc, entered, left, serials>>

numWaiting == Cardinality(Thread)

TypeOK ==
  /\ numLeft \in 1..numWaiting
  /\ generation \in 0..(GenModulus - 1)
  /\ gen \in [Thread -> 0..(GenModulus - 1)]
  /\ pc \in [Thread -> {"out", "asleep", "awake"}]
  /\ entered \in [Thread -> Nat]
  /\ left \in [Thread -> Nat]
  /\ serials \in Nat

Init ==
  /\ numLeft = numWaiting
  /\ generation = 0
  /\ gen = [t \in Thread |-> 0]
  /\ pc = [t \in Thread |-> "out"]
  /\ entered = [t \in Thread |-> 0]
  /\ left = [t \in Thread |-> 0]
  /\ serials = 0

Enter(t) ==
  /\ pc[t] = "out"
  /\ entered[t] < MaxRounds
  /\ entered' = [entered EXCEPT ![t] = @ + 1]
  /\ gen' = [gen EXCEPT ![t] = generation]

Leave(t) == left' = [left EXCEPT ![t] = @ + 1]

notify_all == pc' = [u \in Thread |-> IF pc[u] = "asleep" THEN "awake" ELSE pc[u]]

\* Mutant: bCond.notify_one().
WaitLastNotifyOne(t) ==
  /\ Enter(t)
  /\ numLeft = 1
  /\ generation' = (generation + 1) % GenModulus
  /\ numLeft' = numWaiting
  /\ \/ \E u \in Thread : pc[u] = "asleep" /\ pc' = [pc EXCEPT ![u] = "awake"]
     \/ (\A u \in Thread : pc[u] # "asleep") /\ UNCHANGED pc
  /\ Leave(t)
  /\ serials' = serials + 1

\* Mutant: the last thread goes through without starting a new generation.
WaitLastNoGeneration(t) ==
  /\ Enter(t)
  /\ numLeft = 1
  /\ numLeft' = numWaiting
  /\ notify_all
  /\ Leave(t)
  /\ serials' = serials + 1
  /\ UNCHANGED generation

\* The last thread of the round opens the barrier and returns true.
WaitLast(t) ==
  /\ Enter(t)
  /\ numLeft = 1
  /\ generation' = (generation + 1) % GenModulus
  /\ numLeft' = numWaiting
  /\ notify_all
  /\ Leave(t)
  /\ serials' = serials + 1

\* Any other thread blocks: gen == generation holds when it is first tested.
WaitBlock(t) ==
  /\ Enter(t)
  /\ numLeft # 1
  /\ numLeft' = numLeft - 1
  /\ pc' = [pc EXCEPT ![t] = "asleep"]
  /\ UNCHANGED <<generation, left, serials>>

SpuriousWakeup(t) ==
  /\ pc[t] = "asleep"
  /\ pc' = [pc EXCEPT ![t] = "awake"]
  /\ UNCHANGED <<numLeft, generation, gen, entered, left, serials>>

\* Mutant: "if" instead of "while" around bCond.wait().
RecheckNever(t) ==
  /\ pc[t] = "awake"
  /\ pc' = [pc EXCEPT ![t] = "out"]
  /\ Leave(t)
  /\ UNCHANGED <<numLeft, generation, gen, entered, serials>>

\* Mutant: the threads that were woken return true as well.
RecheckReturnsTrue(t) ==
  /\ pc[t] = "awake"
  /\ gen[t] # generation
  /\ pc' = [pc EXCEPT ![t] = "out"]
  /\ Leave(t)
  /\ serials' = serials + 1
  /\ UNCHANGED <<numLeft, generation, gen, entered>>

\* while (gen == generation) bCond.wait(lock); return false;
Recheck(t) ==
  /\ pc[t] = "awake"
  /\ \/ /\ gen[t] = generation
        /\ pc' = [pc EXCEPT ![t] = "asleep"]
        /\ UNCHANGED left
     \/ /\ gen[t] # generation
        /\ pc' = [pc EXCEPT ![t] = "out"]
        /\ Leave(t)
  /\ UNCHANGED <<numLeft, generation, gen, entered, serials>>

Wait(t) == WaitLast(t) \/ WaitBlock(t)

Next == \E t \in Thread : Wait(t) \/ SpuriousWakeup(t) \/ Recheck(t)

Spec == Init /\ [][Next]_vars

(***************************************************************************)
(* The operating system runs a thread that is not blocked, and the         *)
(* simulator's threads come back to the barrier (they reach every global   *)
(* event that is in their queues).  Spurious wake-ups need not happen.     *)
(***************************************************************************)
FairSpec == Spec /\ \A t \in Thread : WF_vars(Wait(t)) /\ WF_vars(Recheck(t))

-----------------------------------------------------------------------------
(***************************************************************************)
(* No call of wait() returns before every thread has made its call of the  *)
(* same round, although generation wraps around and a fast thread may be   *)
(* in the next round while a slow one has not yet left the previous one.   *)
(***************************************************************************)
NobodyLeavesEarly == \A t, u \in Thread : left[t] <= entered[u]

(***************************************************************************)
(* wait() returns true exactly once per round: the rounds a thread has     *)
(* left are all covered by a true return, and there is none for a round    *)
(* that some thread has not entered.  GlobalEvent relies on it to run      *)
(* process() once.                                                         *)
(***************************************************************************)
OneSerialThread == \A t \in Thread : left[t] <= serials /\ serials <= entered[t]

(***************************************************************************)
(* Once a round is complete no thread of it sleeps on: the single          *)
(* notify_all reached everybody, and whoever sleeps waits for the current  *)
(* generation.                                                             *)
(***************************************************************************)
NoSleeperLeftBehind == \A t \in Thread : pc[t] = "asleep" => gen[t] = generation

(***************************************************************************)
(* If every thread keeps calling wait(), every thread gets through every   *)
(* round: reuse of the barrier never strands a thread.                     *)
(***************************************************************************)
EveryRoundCompletes == \A t \in Thread : <>(left[t] = MaxRounds)

=============================================================================
