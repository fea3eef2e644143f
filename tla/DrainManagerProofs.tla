-------------------------- MODULE DrainManagerProofs --------------------------
(***************************************************************************)
(* The panics and assertions of DrainManager never fire, a drained system  *)
(* is empty, and resume() leaves no object behind, for every set of        *)
(* objects, however they pass work around and whatever is created.         *)
(***************************************************************************)
EXTENDS DrainManager, FiniteSetTheorems, TLAPS

\* Objects that tryDrain() counted and that have not signalled yet.
Outstanding == {o \in alive \ Quiet : dstate[o] = "Draining"}

\* The manager's state while the script is in each of its places.
Places ==
  /\ py \in {"start", "sim"} => state = "Running"
  /\ py = "idle" => state \in {"Running", "Drained"}
  /\ py = "tryDrain" => state \in {"Running", "Draining"}
  /\ py = "drainSim" => state = "Draining"
  /\ py = "resume" => state = "Resuming"

\* The objects follow the manager, those created along the way included.
Followed ==
  \A o \in alive :
    /\ state = "Running" => dstate[o] = "Running"
    /\ state = "Draining" => dstate[o] \in {"Draining", "Drained"}
    /\ state = "Drained" => dstate[o] = "Drained"
    /\ state = "Resuming" => dstate[o] # "Draining"

\* Work is held by objects that exist and are asked to drain, and by none before
\* the first simulate() or once the system is drained; an object that still has
\* to signal holds work.
Held ==
  /\ \A o \in Object :
       work[o] > 0 => o \in alive \ Quiet /\ state \in {"Running", "Draining"} /\ py # "start"
  /\ \A o \in Outstanding : work[o] > 0

\* Outside the simulation that drain() started nobody signals.
Silent == py # "drainSim" => count = 0 /\ signalling = {} /\ finished = 0

(***************************************************************************)
(* Inside it, _count is what is outstanding, the objects between the two   *)
(* halves of signalDrainDone() included, and the exit event is pending     *)
(* once, exactly when the counter is zero.                                 *)
(***************************************************************************)
Counting ==
  py = "drainSim" =>
    /\ count = Cardinality(Outstanding) + Cardinality(signalling)
    /\ signalling \subseteq {o \in alive \ Quiet : dstate[o] = "Drained"}
    /\ finished = IF count = 0 THEN 1 ELSE 0

Inv ==
  /\ TypeOK /\ Places /\ Followed /\ Held /\ Silent /\ Counting
  /\ todo \subseteq alive

-----------------------------------------------------------------------------
\* What is outstanding and who is signalling can be counted.
LEMMA CountedSets ==
  ASSUME signalling \in SUBSET Object
  PROVE  /\ IsFiniteSet(Outstanding) /\ Cardinality(Outstanding) \in Nat
         /\ IsFiniteSet(signalling) /\ Cardinality(signalling) \in Nat
<1>1. Outstanding \in SUBSET Object
  BY DEF Outstanding, alive
<1> QED
  BY <1>1, ObjectAssumption, FS_Subset, FS_CardinalityType

\* The objects m5.instantiate() has created run, and nobody holds work.
LEMMA InitInv == Init => Inv
<1> SUFFICES ASSUME Init PROVE Inv
  OBVIOUS
<1>1. \A o \in alive : dstate[o] = "Running"
  BY DEF Init, alive
<1>2. Outstanding = {}
  BY <1>1 DEF Outstanding
<1>3. TypeOK
  BY BoundAssumption, ObjectAssumption DEF Init, TypeOK, DrainState
<1>4. Places /\ Followed /\ Held /\ Silent /\ Counting /\ todo \subseteq alive
  BY <1>1, <1>2 DEF Init, Places, Followed, Held, Silent, Counting
<1> QED
  BY <1>3, <1>4 DEF Inv

\* The script's part: tryDrain() counts what is outstanding, resume() passes
\* over the objects until all of them run.
LEMMA ScriptInv == Inv /\ Script => Inv'
<1> SUFFICES ASSUME Inv, Script PROVE Inv'
  OBVIOUS
<1> USE DEF Inv
<1>1. CASE preCheckpointRestore
  <2>0. /\ py = "start" /\ state' = "Drained" /\ py' = "idle"
        /\ dstate' = [o \in Object |-> IF o \in alive THEN "Drained" ELSE dstate[o]]
        /\ UNCHANGED <<count, signalling, work, finished, todo, supply, drains>>
    BY <1>1 DEF preCheckpointRestore
  <2>1. alive' = alive /\ \A o \in alive : dstate'[o] = "Drained"
    BY <2>0 DEF alive, TypeOK
  <2>2. TypeOK'
    BY <2>0, <2>1 DEF TypeOK, DrainState, alive
  <2>3. Places' /\ Followed' /\ Silent' /\ Counting' /\ (todo \subseteq alive)'
    BY <2>0, <2>1 DEF Places, Followed, Silent, Counting
  <2>4. Held'
    BY <1>1, <2>0, <2>1 DEF Held, Outstanding, preCheckpointRestore
  <2> QED
    BY <2>2, <2>3, <2>4
<1>2. CASE instantiate \/ drain \/ OtherExit
  <2>0. /\ py \in {"start", "idle", "sim"} /\ py' \in {"idle", "tryDrain"}
        /\ py' = "tryDrain" => state # "Drained"
        /\ drains' \in 0..MaxDrains
        /\ UNCHANGED <<state, count, dstate, signalling, work, finished, todo, supply>>
    BY <1>2, BoundAssumption DEF instantiate, drain, OtherExit, TypeOK
  <2>1. alive' = alive /\ Outstanding' = Outstanding
    BY <2>0 DEF alive, Outstanding
  <2> QED
    BY <2>0, <2>1 DEF TypeOK, Places, Followed, Held, Silent, Counting
<1>3. CASE tryDrain
  <2> DEFINE D == {o \in alive : dmDrain(o) = "Draining"}
  <2>0. /\ py = "tryDrain" /\ count = 0 /\ signalling = {} /\ finished = 0
        /\ dstate' = [o \in Object |-> IF o \in alive THEN dmDrain(o) ELSE "None"]
        /\ count' = count + Cardinality(D)
        /\ state' = IF count' = 0 THEN "Drained" ELSE "Draining"
        /\ py' = IF count' = 0 THEN "idle" ELSE "drainSim"
        /\ UNCHANGED <<signalling, work, finished, todo, supply, drains>>
    BY <1>3 DEF tryDrain, Silent
  <2>1. /\ alive' = alive
        /\ \A o \in alive : dstate'[o] = dmDrain(o) /\ dmDrain(o) \in {"Drained", "Draining"}
    BY <2>0 DEF alive, dmDrain
  <2>2. Outstanding' = D
    BY <2>1 DEF Outstanding, dmDrain
  <2>3. IsFiniteSet(D) /\ Cardinality(D) \in Nat
    <3>1. D \in SUBSET Object
      BY DEF alive
    <3> QED
      BY <3>1, ObjectAssumption, FS_Subset, FS_CardinalityType
  <2>4. TypeOK'
    BY <2>0, <2>1, <2>3 DEF TypeOK, DrainState, alive
  <2>5. CASE Cardinality(D) = 0
    <3>1. D = {}
      BY <2>3, <2>5, FS_EmptySet
    <3>2. count' = 0 /\ state' = "Drained" /\ py' = "idle"
      BY <2>0, <2>5
    <3>3. \A o \in alive : dstate'[o] = "Drained" /\ (o \notin Quiet => work[o] = 0)
      BY <2>1, <3>1 DEF dmDrain
    <3>4. \A o \in Object : ~(work'[o] > 0)
      BY <2>0, <3>3 DEF Held
    <3> QED
      BY <2>0, <2>1, <2>2, <2>4, <3>1, <3>2, <3>3, <3>4
         DEF Places, Followed, Held, Silent, Counting
  <2>6. CASE Cardinality(D) # 0
    <3>1. count' = Cardinality(D) /\ state' = "Draining" /\ py' = "drainSim" /\ count' # 0
      BY <2>0, <2>3, <2>6
    <3>2. Cardinality(signalling') = 0
      BY <2>0, FS_EmptySet
    <3>3. Counting'
      BY <2>0, <2>2, <2>3, <3>1, <3>2 DEF Counting
    <3>4. Held'
      BY <2>0, <2>1, <2>2, <3>1 DEF Held, dmDrain, TypeOK, alive
    <3> QED
      BY <2>0, <2>1, <2>4, <3>1, <3>3, <3>4 DEF Places, Followed, Silent
  <2> QED
    BY <2>5, <2>6
<1>4. CASE simulate
  <2>0. /\ py = "idle"
        /\ UNCHANGED <<count, dstate, signalling, work, finished, supply, drains>>
    BY <1>4 DEF simulate
  <2>1. alive' = alive /\ Outstanding' = Outstanding
    BY <2>0 DEF alive, Outstanding
  <2>2. CASE state = "Drained"
    <3>1. state' = "Resuming" /\ todo' = alive /\ py' = "resume"
      BY <1>4, <2>2 DEF simulate
    <3> QED
      BY <2>0, <2>1, <2>2, <3>1
         DEF TypeOK, DrainState, alive, Places, Followed, Held, Silent, Counting
  <2>3. CASE state # "Drained"
    <3>1. py' = "sim" /\ state' = state /\ todo' = todo
      BY <1>4, <2>3 DEF simulate
    <3> QED
      BY <2>0, <2>1, <2>3, <3>1 DEF TypeOK, Places, Followed, Held, Silent, Counting
  <2> QED
    BY <2>2, <2>3
<1>5. ASSUME NEW o \in Object, dmDrainResume(o) PROVE Inv'
  <2>0. /\ py = "resume" /\ state = "Resuming" /\ o \in todo /\ todo' = todo \ {o}
        /\ UNCHANGED <<state, count, signalling, work, finished, py, supply, drains>>
    BY <1>5 DEF dmDrainResume, Places
  <2>1. PICK new \in {{}} \cup {{n} : n \in Object \ alive} :
          dstate' = [p \in Object |-> IF p = o THEN "Running"
                                      ELSE IF p \in new /\ dstate[o] # "Running" THEN state
                                      ELSE dstate[p]]
    BY <1>5 DEF dmDrainResume
  <2>2. /\ dstate' \in [Object -> DrainState \cup {"None"}]
        /\ \A p \in Object : dstate'[p] \in {"Running", "Resuming", dstate[p]}
    BY <2>0, <2>1 DEF TypeOK, DrainState
  <2>3. alive \subseteq alive'
    BY <2>0, <2>2 DEF alive
  <2>4. \A p \in Object : ~(work[p] > 0)
    BY <2>0 DEF Held
  <2>5. \A p \in alive' : dstate'[p] # "Draining"
    BY <2>0, <2>2 DEF alive, Followed
  <2>6. Outstanding' = {}
    BY <2>5 DEF Outstanding
  <2>7. TypeOK'
    BY <2>0, <2>2 DEF TypeOK
  <2> QED
    BY <2>0, <2>3, <2>4, <2>5, <2>6, <2>7 DEF Places, Followed, Held, Silent, Counting
<1>6. CASE resumePass
  <2>0. /\ py = "resume" /\ state = "Resuming"
        /\ UNCHANGED <<count, dstate, signalling, work, finished, supply, drains>>
    BY <1>6 DEF resumePass, Places
  <2>1. alive' = alive /\ Outstanding' = Outstanding
    BY <2>0 DEF alive, Outstanding
  <2>2. CASE \A o \in alive : dstate[o] = "Running"
    <3>1. state' = "Running" /\ py' = "sim" /\ todo' = todo
      BY <1>6, <2>2 DEF resumePass
    <3> QED
      BY <2>0, <2>1, <2>2, <3>1
         DEF TypeOK, DrainState, Places, Followed, Held, Silent, Counting
  <2>3. CASE ~ \A o \in alive : dstate[o] = "Running"
    <3>1. todo' = alive /\ state' = state /\ py' = py
      BY <1>6, <2>3 DEF resumePass
    <3> QED
      BY <2>0, <2>1, <3>1 DEF TypeOK, alive, Places, Followed, Held, Silent, Counting
  <2> QED
    BY <2>2, <2>3
<1>7. CASE FinishedDrain
  <2>0. /\ finished > 0 /\ finished' = finished - 1 /\ signalling = {}
        /\ py \in {"sim", "drainSim"} /\ py' = IF py = "drainSim" THEN "tryDrain" ELSE "idle"
        /\ UNCHANGED <<state, count, dstate, signalling, work, todo, supply, drains>>
    BY <1>7 DEF FinishedDrain, simulating
  <2>1. py = "drainSim" /\ py' = "tryDrain" /\ count = 0 /\ finished = 1 /\ finished' = 0
    BY <2>0 DEF Silent, Counting, TypeOK
  <2>2. alive' = alive /\ Outstanding' = Outstanding
    BY <2>0 DEF alive, Outstanding
  <2> QED
    BY <2>0, <2>1, <2>2 DEF TypeOK, Places, Followed, Held, Silent, Counting
<1> QED
  BY <1>1, <1>2, <1>3, <1>4, <1>5, <1>6, <1>7 DEF Script

\* An object completes work or hands it on.  The last piece of work of an
\* object that was asked to drain turns one outstanding object into one that
\* is signalling, so the counter still counts it.
LEMMA WorkInv ==
  ASSUME Inv, NEW o \in Object, NEW to \in SUBSET (alive \ (Quiet \cup {o})),
         \A p \in to : work[p] < MaxWork,
         supply - Cardinality(to) \in 0..MaxSupply,
         Work(o, to)
  PROVE  Inv'
<1> USE DEF Inv
<1>0. /\ py \in {"sim", "drainSim"} /\ work[o] > 0 /\ o \notin signalling
      /\ work' = [p \in Object |-> IF p = o THEN work[p] - 1
                                   ELSE IF p \in to THEN work[p] + 1 ELSE work[p]]
      /\ supply' = supply - Cardinality(to)
      /\ IF work[o] = 1 THEN signalDrainDone(o) ELSE UNCHANGED <<dstate, signalling>>
      /\ UNCHANGED <<state, count, finished, py, todo, drains>>
  BY DEF Work, simulating
<1>1. o \in alive \ Quiet /\ state \in {"Running", "Draining"}
  BY <1>0 DEF Held
<1>2. /\ work' \in [Object -> 0..MaxWork]
      /\ \A p \in Object : work'[p] > 0 => p \in alive \ Quiet
      /\ \A p \in Object \ {o} : work[p] > 0 => work'[p] > 0
      /\ work[o] # 1 => work'[o] > 0
  <2>1. \A p \in Object : work[p] \in 0..MaxWork
    BY DEF TypeOK
  <2> QED
    BY <1>0, <1>1, <2>1, BoundAssumption DEF Held
<1>3. CASE dstate' = dstate /\ signalling' = signalling
  <2>1. alive' = alive /\ Outstanding' = Outstanding
    BY <1>3 DEF alive, Outstanding
  <2>2. TypeOK' /\ Places' /\ Followed' /\ Silent' /\ (todo \subseteq alive)'
    BY <1>0, <1>2, <1>3, <2>1 DEF TypeOK, Places, Followed, Silent
  <2>3. Counting'
    BY <1>0, <1>3, <2>1 DEF Counting
  <2>4. o \in Outstanding => work[o] # 1
    BY <1>0, <1>3 DEF Outstanding, signalDrainDone, TypeOK
  <2>5. Held'
    BY <1>0, <1>1, <1>2, <2>1, <2>4 DEF Held, Outstanding, alive
  <2> QED
    BY <2>2, <2>3, <2>5
<1>4. CASE /\ dstate[o] = "Draining" /\ dstate' = [dstate EXCEPT ![o] = "Drained"]
           /\ signalling' = signalling \cup {o}
  <2>1. /\ alive' = alive /\ Outstanding' = Outstanding \ {o} /\ o \in Outstanding
        /\ \A p \in alive : p # o => dstate'[p] = dstate[p]
        /\ dstate'[o] = "Drained"
    BY <1>1, <1>4 DEF alive, Outstanding, TypeOK
  <2>2. py = "drainSim" /\ state = "Draining"
    BY <1>0, <1>1, <1>4 DEF Followed, Places
  <2>3. TypeOK'
    BY <1>0, <1>2, <1>4 DEF TypeOK, DrainState
  <2>4. Places' /\ Followed' /\ Silent' /\ (todo \subseteq alive)'
    BY <1>0, <2>1, <2>2 DEF Places, Followed, Silent
  <2>5. Held'
    BY <1>0, <1>2, <2>1, <2>2 DEF Held, Outstanding, alive
  <2>6. /\ Cardinality(Outstanding') = Cardinality(Outstanding) - 1
        /\ Cardinality(signalling') = Cardinality(signalling) + 1
    <3>1. signalling \in SUBSET Object
      BY DEF TypeOK
    <3> QED
      BY <1>0, <1>4, <2>1, <3>1, CountedSets, FS_AddElement, FS_RemoveElement, Zenon
  <2>7. signalling' \subseteq {p \in alive' \ Quiet : dstate'[p] = "Drained"}
    BY <1>1, <1>4, <2>1, <2>2 DEF Counting
  <2>8. Counting'
    <3>1. Cardinality(Outstanding) \in Nat /\ Cardinality(signalling) \in Nat
      BY CountedSets DEF TypeOK
    <3> QED
      BY <1>0, <2>2, <2>6, <2>7, <3>1 DEF Counting
  <2> QED
    BY <2>3, <2>4, <2>5, <2>8
<1> QED
  BY <1>0, <1>3, <1>4 DEF signalDrainDone

\* The objects' part: work comes, moves and completes, signals reach the
\* manager, and objects are created in the manager's state.
LEMMA ObjectsInv == Inv /\ Objects => Inv'
<1> SUFFICES ASSUME Inv, Objects PROVE Inv'
  OBVIOUS
<1> USE DEF Inv
<1>1. ASSUME NEW o \in Object, NewWork(o) PROVE Inv'
  <2>0. /\ py \in {"sim", "drainSim"} /\ dstate[o] = "Running" /\ o \notin Quiet
        /\ supply > 0 /\ work[o] < MaxWork /\ supply' = supply - 1
        /\ work' = [work EXCEPT ![o] = work[o] + 1]
        /\ UNCHANGED <<state, count, dstate, signalling, finished, py, todo, drains>>
    BY <1>1 DEF NewWork, simulating
  <2>1. alive' = alive /\ Outstanding' = Outstanding /\ o \in alive
    BY <2>0 DEF alive, Outstanding
  <2>2. state = "Running"
    BY <2>0, <2>1 DEF Places, Followed
  <2>3. TypeOK'
    BY <2>0, BoundAssumption DEF TypeOK
  <2>4. Held'
    <3>1. work[o] \in Nat /\ \A p \in Object : p # o => work'[p] = work[p]
      BY <2>0 DEF TypeOK
    <3>2. work'[o] > 0
      BY <2>0, <3>1 DEF TypeOK
    <3> QED
      BY <2>0, <2>1, <2>2, <3>1, <3>2 DEF Held, Outstanding, alive
  <2> QED
    BY <2>0, <2>1, <2>3, <2>4 DEF Places, Followed, Silent, Counting
<1>2. ASSUME NEW o \in Object, Complete(o) PROVE Inv'
  <2>1. Cardinality({}) = 0
    BY FS_EmptySet
  <2>2. supply - Cardinality({}) \in 0..MaxSupply
    BY <2>1, BoundAssumption DEF TypeOK
  <2> QED
    BY <1>2, <2>2, WorkInv DEF Complete
<1>3. ASSUME NEW o \in Object, NEW p \in Object, HandOver(o, p) PROVE Inv'
  <2>0. /\ p \in alive \ (Quiet \cup {o}) /\ supply > 0 /\ work[p] < MaxWork
        /\ Work(o, {p})
    BY <1>3 DEF HandOver
  <2>1. Cardinality({p}) = 1
    BY FS_Singleton
  <2>2. supply - Cardinality({p}) \in 0..MaxSupply
    BY <2>0, <2>1, BoundAssumption DEF TypeOK
  <2> QED
    BY <2>0, <2>2, WorkInv
<1>4. ASSUME NEW o \in Object, managerSignal(o) PROVE Inv'
  <2>0. /\ o \in signalling /\ signalling' = signalling \ {o} /\ count' = count - 1
        /\ finished' = IF count' = 0 THEN finished + 1 ELSE finished
        /\ UNCHANGED <<state, dstate, work, py, todo, supply, drains>>
    BY <1>4 DEF managerSignal
  <2>1. alive' = alive /\ Outstanding' = Outstanding
    BY <2>0 DEF alive, Outstanding
  <2>2. py = "drainSim"
    BY <2>0 DEF Silent
  <2>3. /\ Cardinality(Outstanding) \in Nat /\ Cardinality(signalling) \in Nat
        /\ IsFiniteSet(signalling)
    BY CountedSets DEF TypeOK
  <2>4. Cardinality(signalling') = Cardinality(signalling) - 1 /\ Cardinality(signalling) > 0
    <3>1. Cardinality(signalling \ {o}) = Cardinality(signalling) - 1
      BY <2>0, <2>3, FS_RemoveElement
    <3>2. Cardinality(signalling) # 0
      BY <2>0, <2>3, FS_EmptySet
    <3> QED
      BY <2>0, <2>3, <3>1, <3>2
  <2>5. count > 0 /\ finished = 0 /\ count = Cardinality(Outstanding) + Cardinality(signalling)
    BY <2>2, <2>3, <2>4 DEF Counting
  <2>6. TypeOK'
    BY <2>0, <2>5 DEF TypeOK
  <2>7. Counting'
    BY <2>0, <2>1, <2>2, <2>3, <2>4, <2>5 DEF Counting
  <2> QED
    BY <2>0, <2>1, <2>2, <2>6, <2>7 DEF Places, Followed, Held, Silent
<1>5. ASSUME NEW o \in Object, Create(o) PROVE Inv'
  <2>0. /\ py \in {"sim", "drainSim"} /\ o \in Quiet /\ dstate[o] = "None"
        /\ dstate' = [dstate EXCEPT ![o] = state]
        /\ UNCHANGED <<state, count, signalling, work, finished, py, todo, supply, drains>>
    BY <1>5 DEF Create, simulating
  <2>1. state \in {"Running", "Draining"}
    BY <2>0 DEF Places
  <2>2. /\ alive' = alive \cup {o} /\ Outstanding' = Outstanding
        /\ \A p \in alive : p # o /\ dstate'[p] = dstate[p]
        /\ dstate'[o] = state
    BY <2>0, <2>1 DEF alive, Outstanding, TypeOK
  <2>3. TypeOK'
    BY <2>0 DEF TypeOK
  <2>4. Counting'
    BY <2>0, <2>2 DEF Counting
  <2> QED
    BY <2>0, <2>1, <2>2, <2>3, <2>4 DEF Places, Followed, Held, Silent
<1> QED
  BY <1>1, <1>2, <1>3, <1>4, <1>5 DEF Objects

\* The inductive invariant holds in every reachable state.
LEMMA Invariance == Spec => []Inv
<1>1. Inv /\ UNCHANGED vars => Inv'
  <2> SUFFICES ASSUME Inv, UNCHANGED vars PROVE Inv'
    OBVIOUS
  <2>1. alive' = alive /\ Outstanding' = Outstanding
    BY DEF vars, alive, Outstanding
  <2> QED
    BY <2>1 DEF vars, Inv, TypeOK, Places, Followed, Held, Silent, Counting
<1> QED
  BY <1>1, InitInv, ScriptInv, ObjectsInv, PTL DEF Spec, Next

(***************************************************************************)
(* The panics of tryDrain() and the assertions of signalDrainDone(),       *)
(* resume() and dmDrainResume() never fire; _count counts the objects that *)
(* will still signal, in whatever order their two steps interleave.        *)
(***************************************************************************)
THEOREM AssertionsNeverFire == Spec => []AssertsHold
<1>1. Inv => AssertsHold
  <2> SUFFICES ASSUME Inv PROVE AssertsHold
    OBVIOUS
  <2>1. signalling # {} => count > 0
    <3> SUFFICES ASSUME signalling # {} PROVE count > 0
      OBVIOUS
    <3>1. /\ Cardinality(Outstanding) \in Nat /\ Cardinality(signalling) \in Nat
          /\ IsFiniteSet(signalling)
      BY CountedSets DEF Inv, TypeOK
    <3>2. Cardinality(signalling) # 0
      BY <3>1, FS_EmptySet
    <3>3. count = Cardinality(Outstanding) + Cardinality(signalling)
      BY DEF Inv, Silent, Counting
    <3> QED
      BY <3>1, <3>2, <3>3
  <2>2. py = "drainSim" =>
          count = Cardinality({o \in alive \ Quiet : dstate[o] = "Draining"})
                    + Cardinality(signalling)
    BY DEF Inv, Counting, Outstanding
  <2>3. /\ py = "tryDrain" => state # "Drained" /\ count = 0
        /\ py = "resume" => count = 0 /\ \A o \in todo : dstate[o] # "Draining"
    BY DEF Inv, Places, Silent, Followed
  <2> QED
    BY <2>1, <2>2, <2>3 DEF AssertsHold
<1> QED
  BY <1>1, Invariance, PTL

(***************************************************************************)
(* When tryDrain() reports the system drained, ready for a checkpoint, no  *)
(* object holds work and no "Finished drain" event is left in the queue.   *)
(***************************************************************************)
THEOREM DrainedIsEmpty == Spec => []DrainedMeansEmpty
<1>1. Inv => DrainedMeansEmpty
  <2> SUFFICES ASSUME Inv, state = "Drained" PROVE
        /\ \A o \in alive : dstate[o] = "Drained" /\ work[o] = 0
        /\ count = 0 /\ signalling = {} /\ finished = 0
    BY DEF DrainedMeansEmpty
  <2>1. count = 0 /\ signalling = {} /\ finished = 0
    BY DEF Inv, Places, Silent
  <2>2. \A o \in alive : dstate[o] = "Drained"
    BY DEF Inv, Followed
  <2>3. \A o \in alive : work[o] \in 0..MaxWork /\ ~(work[o] > 0)
    BY DEF Inv, Held, TypeOK, alive
  <2> QED
    BY <2>1, <2>2, <2>3, BoundAssumption
<1> QED
  BY <1>1, Invariance, PTL

(***************************************************************************)
(* resume() repeats its pass over the objects until every one of them is   *)
(* Running, those created by drainResume() included.                       *)
(***************************************************************************)
THEOREM AllResumed == Spec => []NobodyLeftBehind
<1>1. Inv => NobodyLeftBehind
  BY DEF Inv, Places, Followed, NobodyLeftBehind
<1> QED
  BY <1>1, Invariance, PTL
=============================================================================
