----------------------------- MODULE O3Pipeline -----------------------------
(***************************************************************************)
(* Rename and commit of the out-of-order CPU, one thread, with what passes *)
(* between the stages in the time buffers.  One action is one CPU::tick(): *)
(* fetch, decode, rename, IEW and commit read what the others wrote in     *)
(* earlier cycles.  All delays are one cycle, from rename to IEW two       *)
(* (BaseO3CPU.py).  Fetch and decode hand over any number of instructions  *)
(* that decode may hand over; IEW ends the execution of any instruction it *)
(* holds, with a misprediction, an ordering violation or a fault.          *)
(*                                                                         *)
(* The CPU goes to sleep when its activity recorder (cpu/activity.cc) has  *)
(* seen no signal for LongestLatency cycles and no stage is active; then   *)
(* only an instruction that ends its execution, a store that is written    *)
(* back or the instruction cache wakes it (CPU::wakeCPU).  What fetch,     *)
(* decode and the instruction queue record besides is left out: the CPU of *)
(* the model falls asleep no later than the real one.                      *)
(***************************************************************************)
EXTENDS Integers, Sequences, FiniteSets, SequencesExt

CONSTANTS
    None, Arch, Fixed, Phys,
    Programs,                 \* bound: sequences of [dest, kind] that are fetched
    MaxBad,                   \* bound: mispredictions, violations and faults in each
    DecodeWidth, RenameWidth, CommitWidth, SquashWidth, NumEntries,
    LongestLatency            \* backComSize + forwardComSize

VARIABLES
    program,    \* what fetch finds: destination and kind of each instruction
    fetched,    \* the last sequence number given out
    redirect,   \* cycles until decode can see instructions of the new path
    decodeStall,\* stalls.rename of decode
    decoded,    \* decode to rename
    rn,         \* the rename stage
    renamed,    \* rename to commit and IEW: this cycle's and the last one's
    iew,        \* [status, executing] and what IEW tells rename
    toCommit,   \* IEW to commit
    cm,         \* the commit stage
    storing,    \* IEW has stores to write back
    quiet,      \* cycles since the last activity, LongestLatency at most
    bad,        \* mispredictions, violations and faults so far
    beat        \* flips in every cycle in which everything pending ends

vars == <<program, fetched, redirect, decodeStall, decoded, rn, renamed, iew,
          toCommit, cm, storing, quiet, bad, beat>>

Rename == INSTANCE O3Rename
Commit == INSTANCE O3Commit

NoSquash == [sn |-> None, include |-> FALSE]

Init ==
    /\ program \in Programs
    /\ fetched = 0 /\ redirect = 0 /\ decodeStall = FALSE /\ decoded = <<>>
    /\ rn = Rename!Reset(NumEntries)
    /\ renamed = <<<<>>, <<>>>>
    /\ iew = [status |-> "Running", executing |-> {},
              dispatched |-> 0, block |-> FALSE, unblock |-> FALSE]
    /\ toCommit = [squash |-> NoSquash, done |-> {}]
    /\ cm = Commit!Reset(rn.map)
    /\ storing = FALSE
    /\ quiet = 0
    /\ bad = 0
    /\ beat = FALSE

-----------------------------------------------------------------------------
\* Fetch squashes what has not reached the reorder buffer
\* (CPU::removeInstsNotInROB).
InROB == {cm.rob[i].sn : i \in DOMAIN cm.rob}

removeInstsNotInROB ==
    IF cm.info.squash
    THEN cm.squashed \cup {sn \in 1..fetched :
                              sn \notin InROB /\ sn \notin cm.committed}
    ELSE cm.squashed

\* Fetch sees the squash, fetches in the next cycle and decode gets the
\* instructions in the one after.
fetchRedirect == IF cm.info.squash THEN 1 ELSE IF redirect > 0 THEN redirect - 1 ELSE 0

readStallSignals == (decodeStall \/ rn.block) /\ ~rn.unblock

CanDecode == ~cm.info.squash /\ ~readStallSignals /\ redirect = 0

-----------------------------------------------------------------------------
\* IEW: checkSignalsAndUpdate() and dispatch().
Arrived == renamed[2]

dispatch(squashed) ==
    iew.executing \cup {Arrived[i].sn : i \in {j \in DOMAIN Arrived :
                                                  Arrived[j].sn \notin squashed}}

checkSignalsAndUpdate(squashed) ==
    LET told == [iew EXCEPT !.dispatched = Len(Arrived),
                            !.block = FALSE, !.unblock = FALSE]
    IN  IF cm.info.squash
        THEN [told EXCEPT !.executing = {sn \in @ : sn <= cm.info.done},
                          !.unblock = iew.status = "Blocked",
                          !.status = "Squashing"]
        ELSE IF cm.info.robSquashing
        THEN [told EXCEPT !.block = TRUE, !.status = "Blocked"]
        ELSE [told EXCEPT !.unblock = iew.status = "Blocked",
                          !.status = "Running",
                          !.executing = dispatch(squashed)]

\* What may redirect fetch when the instructions done end: one of them was
\* mispredicted, or a younger instruction, executed or with no more than its
\* effective address, violates the memory order of one of them.
Redirects(done) ==
    LET started == InROB \cap (cm.canCommit \cup toCommit.done \cup iew.executing)
    IN  [sn : done, include : {FALSE}]
            \cup [sn : {v \in started : \E s \in done : s < v}, include : {TRUE}]

Faults(done) == {{}} \cup {{sn} : sn \in done}

-----------------------------------------------------------------------------
\* A plausible slip: commit does not keep the CPU awake for what it can commit
\* or until the trap event.
StageActiveRename == rn.active

\* The activity recorder.  The stages that are active by themselves:
StageActive ==
    \/ rn.active
    \/ cm.status = "TrapPending"
    \/ cm.rob # <<>> /\ Head(cm.rob).sn \in cm.canCommit

\* The tick event is scheduled for the next cycle.
Awake == StageActive \/ quiet < LongestLatency

\* A sleeping CPU ticks only when something wakes it: instructions fetch has
\* waited for, the end of an execution or of the last write-back.
wakeCPU(n, done, stores) == n > 0 \/ done # {} \/ (storing /\ ~stores)

\* One cycle in which a stage wrote to a time buffer, or not.
advance(wrote) ==
    quiet' = IF wrote THEN 0
             ELSE IF quiet < LongestLatency THEN quiet + 1 ELSE quiet

\* CPU::tick(): decode hands over n instructions, IEW ends done, sq and faults
\* are what goes wrong with them, trap says whether the trap event has fired,
\* stores whether there are stores to write back.
tick(n, done, sq, faults, trap, stores) ==
    LET squashed == removeInstsNotInROB
        i == checkSignalsAndUpdate(squashed)
        c == [cm EXCEPT !.squashed = squashed, !.faulted = @ \cup faults]
    IN  /\ decodeStall' = readStallSignals
        /\ redirect' = fetchRedirect
        /\ fetched' = fetched + n
        /\ decoded' = [k \in 1..n |-> fetched + k]
        /\ rn' = Rename!tick(rn, decoded, cm.info, iew, program, squashed)
        /\ renamed' = <<rn'.out, renamed[1]>>
        /\ iew' = [i EXCEPT !.executing = @ \ done]
        /\ toCommit' = [squash |-> sq, done |-> done]
        /\ cm' = Commit!tick(c, toCommit, renamed[1], trap, stores, program)
        /\ storing' = stores
        /\ advance(\/ wakeCPU(n, done, stores)
                   \/ rn'.wrote
                   \/ iew'.block \/ iew'.unblock
                   \/ cm'.info.usedROB \/ cm'.info.robSquashing)
        /\ bad' = bad + Cardinality(faults) + (IF sq = NoSquash THEN 0 ELSE 1)
        /\ UNCHANGED program

\* What IEW can end in this cycle: what it held before and still holds.
Executing ==
    {sn \in iew.executing : sn \notin removeInstsNotInROB
                            /\ (cm.info.squash => sn <= cm.info.done)}

\* At most what decode may hand over.
MostDecoded ==
    IF ~CanDecode THEN 0
    ELSE Min({Len(program) - fetched, DecodeWidth})

TrapPending == cm.status = "TrapPending"

\* Only instructions without a destination are stores, and only a store in the
\* reorder buffer or committed can wait to be written back.
StoresPossible == \E sn \in InROB \cup cm.committed : program[sn].dest = None

Cycle(n, done, trap, stores) ==
    /\ Awake \/ wakeCPU(n, done, stores)
    /\ \E sq \in {NoSquash} \cup Redirects(done), faults \in Faults(done) :
         /\ bad + Cardinality(faults) + (IF sq = NoSquash THEN 0 ELSE 1)
               <= MaxBad[program]
         /\ tick(n, done, sq, faults, trap, stores)

Next ==
    \E n \in 0..MostDecoded, done \in SUBSET Executing,
       trap \in {FALSE, TrapPending}, stores \in {FALSE, StoresPossible} :
         /\ Cycle(n, done, trap, stores)
         /\ beat' = (beat # (/\ n = MostDecoded /\ done = Executing
                              /\ trap = TrapPending /\ ~stores))

\* A cycle in which everything pending ends is scheduled, or would be by
\* what ends.
SmoothEnabled == Awake \/ MostDecoded > 0 \/ Executing # {} \/ storing

\* Weak fairness of the cycles in which everything pending ends: an execution,
\* a trap latency, a cache miss or a write-back ends at some time.  A cycle
\* that nothing schedules need not come.
Fairness == []<>~SmoothEnabled \/ ([]<>(beat = TRUE) /\ []<>(beat = FALSE))

Spec == Init /\ [][Next]_vars /\ Fairness

-----------------------------------------------------------------------------
\* The assertions and panics of the stages about each other: the reorder
\* buffer is never overfilled although rename counts its free entries from
\* reports that are cycles old (ROB::insertInst); the skid buffer holds what
\* decode still sends after it was told to block (Rename::skidInsert); the
\* count of instructions in progress is never negative (Rename::tick); and
\* nobody is told to unblock who is not blocked (readStallSignals of rename
\* and decode).
AssertsHold ==
    /\ Len(cm.rob) <= NumEntries
    /\ Len(rn.skid) <= Rename!SkidBufferMax
    /\ rn.inProgress >= 0
    /\ iew.unblock => rn.stall \/ iew.block
    /\ rn.unblock => decodeStall \/ rn.block

\* Every physical register has exactly one place: it is free, waits to be freed
\* after a squash, is the current mapping of an architectural register, or is
\* the older mapping that an entry of the history buffer remembers.  A register
\* in two places would be given to two instructions, one in none is lost; a
\* misc register is never freed (doSquash, removeFromHistory and the end
\* of freeingInProgress).
RegistersConserved ==
    \A p \in Phys \cup Fixed :
        Cardinality({i \in DOMAIN rn.free : rn.free[i] = p})
        + Cardinality({i \in DOMAIN rn.freeing : rn.freeing[i] = p})
        + Cardinality({a \in Arch \cup Fixed : rn.map[a] = p})
        + Cardinality({i \in DOMAIN rn.hist :
                          Rename!Moved(rn.hist[i]) /\ rn.hist[i].prev = p}) = 1

\* Whatever rename has done ahead of commit can be undone: taking back the
\* history of the instructions that have not committed gives the register map
\* that commit keeps of the committed ones.  So a trap, which squashes all of
\* them, restores exactly the architectural registers.
HistoryRestoresCommitted ==
    LET Ahead(e) == e.sn > cm.last
    IN  Rename!Undo(rn.map, SelectSeq(rn.hist, Ahead)) = cm.map

\* Instructions commit in program order and none is skipped: when one commits,
\* every older one has committed or was squashed.  An instruction that commit
\* refuses while it squashes (getInsts) must therefore never be one of the new
\* path.
CommitsWithoutGaps ==
    [][\A sn \in cm'.committed \ cm.committed :
          \A older \in 1..sn - 1 : older \in cm'.committed \cup cm'.squashed]_vars

\* A serializing instruction runs alone: nothing older that is not squashed is
\* still in flight when a serialize-before instruction is renamed, and nothing
\* younger is renamed before a serialize-after instruction has executed
\* (SerializeStall, serializeOnNextInst).  It may be renamed before it commits:
\* when the instruction itself redirects fetch, the mark on its successor is
\* squashed with the successor.
InFlight ==
    InROB \cup {renamed[1][i].sn : i \in DOMAIN renamed[1]}

SerializedAlone ==
    \A old, new \in InFlight \ cm.squashed :
        old < new => /\ program[new].kind # "before"
                     /\ program[old].kind = "after" => old \in cm.canCommit

\* Nothing gets stuck: with every execution, trap and write-back coming to an
\* end, every instruction fetch delivers is committed or squashed in the end,
\* whatever was blocked, stalled or squashed on the way.  In particular the CPU
\* never falls asleep, with nothing left to wake it, over work that a stage
\* could do (ActivityRecorder, Rename::updateStatus, Commit::updateStatus).
PipelineDrains ==
    <>(DOMAIN program \subseteq cm.committed \cup cm.squashed)
=============================================================================
