----------------------------- MODULE DrainManager -----------------------------
(***************************************************************************)
(* Draining the simulator: sim/drain.{cc,hh} and the loop of drain() and   *)
(* simulate() in python/m5/simulate.py that drives it.  Objects hold work  *)
(* that only simulation removes, and may hand work to an object that has   *)
(* already drained.  signalDrainDone() is two steps, the object's state    *)
(* and the manager's atomic counter, since objects live in several threads.*)
(***************************************************************************)
EXTENDS Integers, FiniteSets

CONSTANTS
  Object,    \* Drainable objects
  Initial,   \* the ones m5.instantiate() creates
  Quiet,     \* objects whose drain() is always Drained (Process::drain)
  MaxWork,   \* bound: work an object holds
  MaxSupply, \* bound: new work and hand-overs together
  MaxDrains  \* bound: calls of drain()

ASSUME ObjectAssumption == IsFiniteSet(Object) /\ Initial \subseteq Object /\ Quiet \subseteq Object
ASSUME BoundAssumption == MaxWork \in Nat /\ MaxSupply \in Nat /\ MaxDrains \in Nat

VARIABLES
  state,      \* DrainManager::_state
  count,      \* DrainManager::_count
  dstate,     \* Drainable::_drainState, "None" before the object is created
  signalling, \* objects between the two steps of signalDrainDone()
  work,       \* work an object holds; drain() looks at it
  finished,   \* "Finished drain" exit events that are pending
  py,         \* where the Python script is
  todo,       \* objects left in the current pass of resume()
  supply, drains

vars == <<state, count, dstate, signalling, work, finished, py, todo, supply, drains>>

DrainState == {"Running", "Draining", "Drained", "Resuming"}
alive == {o \in Object : dstate[o] # "None"}
simulating == py \in {"sim", "drainSim"}

TypeOK ==
  /\ state \in DrainState
  /\ count \in Nat
  /\ dstate \in [Object -> DrainState \cup {"None"}]
  /\ signalling \in SUBSET Object
  /\ work \in [Object -> 0..MaxWork]
  /\ finished \in Nat
  /\ py \in {"start", "idle", "tryDrain", "sim", "drainSim", "resume"}
  /\ todo \in SUBSET Object
  /\ supply \in 0..MaxSupply
  /\ drains \in 0..MaxDrains

Init ==
  /\ state = "Running"
  /\ count = 0
  /\ dstate = [o \in Object |-> IF o \in Initial THEN "Running" ELSE "None"]
  /\ signalling = {}
  /\ work = [o \in Object |-> 0]
  /\ finished = 0
  /\ py = "start"
  /\ todo = {}
  /\ supply = MaxSupply
  /\ drains = 0

\* m5.instantiate(): with a checkpoint, preCheckpointRestore() first.
preCheckpointRestore ==
  /\ py = "start" /\ state = "Running"
  /\ state' = "Drained"
  /\ dstate' = [o \in Object |-> IF o \in alive THEN "Drained" ELSE dstate[o]]
  /\ py' = "idle"
  /\ UNCHANGED <<count, signalling, work, finished, todo, supply, drains>>

instantiate ==
  /\ py = "start"
  /\ py' = "idle"
  /\ UNCHANGED <<state, count, dstate, signalling, work, finished, todo, supply, drains>>

-----------------------------------------------------------------------------
(* The script *)

drain ==
  /\ py = "idle" /\ state # "Drained" /\ drains < MaxDrains
  /\ py' = "tryDrain"
  /\ drains' = drains + 1
  /\ UNCHANGED <<state, count, dstate, signalling, work, finished, todo, supply>>

\* Mutant of dmDrain: an object that has drained is not asked again.
dmDrainOnce(o) ==
  IF dstate[o] = "Drained" \/ o \in Quiet \/ work[o] = 0 THEN "Drained" ELSE "Draining"

\* drain() of an object: Drained if it needs no more simulation.
dmDrain(o) == IF o \in Quiet \/ work[o] = 0 THEN "Drained" ELSE "Draining"

\* tryDrain() asks every object; unless all are drained, drain() simulates.
tryDrain ==
  LET n == Cardinality({o \in alive : dmDrain(o) = "Draining"})
  IN  /\ py = "tryDrain"
      /\ dstate' = [o \in Object |-> IF o \in alive THEN dmDrain(o) ELSE "None"]
      /\ count' = count + n
      /\ state' = IF count' = 0 THEN "Drained" ELSE "Draining"
      /\ py' = IF count' = 0 THEN "idle" ELSE "drainSim"
      /\ UNCHANGED <<signalling, work, finished, todo, supply, drains>>

\* simulate() of the script resumes a drained system first.
simulate ==
  /\ py = "idle"
  /\ IF state = "Drained"
       THEN state' = "Resuming" /\ todo' = alive /\ py' = "resume"
       ELSE py' = "sim" /\ UNCHANGED <<state, todo>>
  /\ UNCHANGED <<count, dstate, signalling, work, finished, supply, drains>>

\* dmDrainResume() of one object; its drainResume() may create an object,
\* which inherits the manager's state and is behind the end of this pass.
dmDrainResume(o) ==
  /\ py = "resume" /\ o \in todo
  /\ todo' = todo \ {o}
  /\ \E new \in {{}} \cup {{n} : n \in Object \ alive} :
       dstate' = [p \in Object |-> IF p = o THEN "Running"
                                   ELSE IF p \in new /\ dstate[o] # "Running" THEN state
                                   ELSE dstate[p]]
  /\ UNCHANGED <<state, count, signalling, work, finished, py, supply, drains>>

\* Mutant of resumePass: one pass over the objects.
resumePassOnce ==
  /\ py = "resume" /\ todo = {}
  /\ state' = "Running" /\ py' = "sim"
  /\ UNCHANGED <<count, dstate, signalling, work, finished, todo, supply, drains>>

\* The end of a pass: another one unless all objects are Running.
resumePass ==
  /\ py = "resume" /\ todo = {}
  /\ IF \A o \in alive : dstate[o] = "Running"
       THEN state' = "Running" /\ py' = "sim" /\ UNCHANGED todo
       ELSE todo' = alive /\ UNCHANGED <<state, py>>
  /\ UNCHANGED <<count, dstate, signalling, work, finished, supply, drains>>

\* The simulation loop returns with "Finished drain".  Every thread has left
\* its handlers.
FinishedDrain ==
  /\ simulating /\ finished > 0 /\ signalling = {}
  /\ finished' = finished - 1
  /\ py' = IF py = "drainSim" THEN "tryDrain" ELSE "idle"
  /\ UNCHANGED <<state, count, dstate, signalling, work, todo, supply, drains>>

\* The loop returns for another reason, which drain() ignores.
OtherExit ==
  /\ py = "sim" /\ signalling = {}
  /\ py' = "idle"
  /\ UNCHANGED <<state, count, dstate, signalling, work, finished, todo, supply, drains>>

-----------------------------------------------------------------------------
(* The simulated objects *)

NewWork(o) ==
  /\ simulating /\ dstate[o] = "Running" /\ o \notin Quiet
  /\ supply > 0 /\ work[o] < MaxWork
  /\ work' = [work EXCEPT ![o] = @ + 1]
  /\ supply' = supply - 1
  /\ UNCHANGED <<state, count, dstate, signalling, finished, py, todo, drains>>

\* Drainable::signalDrainDone() of an object that has become empty.
signalDrainDone(o) ==
  IF dstate[o] = "Draining"
    THEN /\ dstate' = [dstate EXCEPT ![o] = "Drained"]
         /\ signalling' = signalling \cup {o}
    ELSE UNCHANGED <<dstate, signalling>>

\* An object completes work, or hands it to another object p, and calls
\* signalDrainDone() when nothing is left.
Work(o, to) ==
  /\ simulating /\ work[o] > 0 /\ o \notin signalling
  /\ work' = [p \in Object |-> IF p = o THEN work[p] - 1
                               ELSE IF p \in to THEN work[p] + 1 ELSE work[p]]
  /\ supply' = supply - Cardinality(to)
  /\ IF work[o] = 1 THEN signalDrainDone(o) ELSE UNCHANGED <<dstate, signalling>>
  /\ UNCHANGED <<state, count, finished, py, todo, drains>>

Complete(o) == Work(o, {})

HandOver(o, p) ==
  /\ p \in alive \ (Quiet \cup {o})
  /\ supply > 0 /\ work[p] < MaxWork
  /\ Work(o, {p})

\* Mutant of managerSignal: the exit event comes with one object outstanding.
managerSignalEarly(o) ==
  /\ o \in signalling
  /\ signalling' = signalling \ {o}
  /\ count' = count - 1
  /\ finished' = IF count' = 1 THEN finished + 1 ELSE finished
  /\ UNCHANGED <<state, dstate, work, py, todo, supply, drains>>

\* Mutant of managerSignal: the counter is tested before it is decremented.
managerSignalPostDecrement(o) ==
  /\ o \in signalling
  /\ signalling' = signalling \ {o}
  /\ count' = count - 1
  /\ finished' = IF count = 0 THEN finished + 1 ELSE finished
  /\ UNCHANGED <<state, dstate, work, py, todo, supply, drains>>

\* DrainManager::signalDrainDone().
managerSignal(o) ==
  /\ o \in signalling
  /\ signalling' = signalling \ {o}
  /\ count' = count - 1
  /\ finished' = IF count' = 0 THEN finished + 1 ELSE finished
  /\ UNCHANGED <<state, dstate, work, py, todo, supply, drains>>

\* An object created during simulation (a cloned Process) inherits the
\* manager's state.
Create(o) ==
  /\ simulating /\ o \in Quiet /\ dstate[o] = "None"
  /\ dstate' = [dstate EXCEPT ![o] = state]
  /\ UNCHANGED <<state, count, signalling, work, finished, py, todo, supply, drains>>

-----------------------------------------------------------------------------
Script ==
  \/ preCheckpointRestore \/ instantiate
  \/ drain \/ tryDrain \/ simulate \/ resumePass
  \/ \E o \in Object : dmDrainResume(o)
  \/ FinishedDrain \/ OtherExit

Objects ==
  \E o \in Object :
    \/ NewWork(o) \/ Complete(o) \/ managerSignal(o) \/ Create(o)
    \/ \E p \in Object : HandOver(o, p)

Next == Script \/ Objects

Spec == Init /\ [][Next]_vars

\* The script runs on inside drain() and resume(); simulation completes work,
\* and the exit event is reached.
Fairness ==
  /\ WF_vars(tryDrain) /\ WF_vars(resumePass) /\ WF_vars(FinishedDrain)
  /\ \A o \in Object : /\ WF_vars(dmDrainResume(o))
                       /\ WF_vars(Complete(o))
                       /\ WF_vars(managerSignal(o))

FairSpec == Spec /\ Fairness

-----------------------------------------------------------------------------
\* The panics and assertions of tryDrain(), resume() and signalDrainDone():
\* a drain starts with the counter at zero and not in a drained system, the
\* counter is positive when an object signals, and only drained or resuming
\* objects are resumed.  They rest on what _count means: while draining, it is
\* the number of objects that will still signal it, with the objects created
\* meanwhile left out.
AssertsHold ==
  /\ py = "tryDrain" => state # "Drained" /\ count = 0
  /\ signalling # {} => count > 0
  /\ py = "resume" => /\ count = 0
                      /\ \A o \in todo : dstate[o] # "Draining"
  /\ py = "drainSim" =>
       count = Cardinality({o \in alive \ Quiet : dstate[o] = "Draining"})
                 + Cardinality(signalling)

\* A drained system is really empty (tryDrain, "ready for checkpointing"): no
\* object holds work, though hand-overs disturb objects after they drained,
\* and no exit event is left that would end the next simulate().
DrainedMeansEmpty ==
  state = "Drained" =>
    /\ \A o \in alive : dstate[o] = "Drained" /\ work[o] = 0
    /\ count = 0 /\ signalling = {} /\ finished = 0

\* After resume() nothing is left behind in a drained or resuming state,
\* objects created while resuming included.
NobodyLeftBehind ==
  py = "sim" => state = "Running" /\ \A o \in alive : dstate[o] = "Running"

\* drain() ends in a drained system.
DrainCompletes == (py = "tryDrain") ~> (state = "Drained")

=============================================================================
