------------------------------ MODULE O3Rename ------------------------------
(***************************************************************************)
(* The rename stage of the out-of-order CPU for one thread                 *)
(* (cpu/o3/rename.cc with rename_map.cc and free_list.hh): a record r that *)
(* one cycle turns into the next.  An instruction is its sequence number;  *)
(* it renames at most one destination.  Of the free entries rename keeps   *)
(* count of, only those of the reorder buffer are modelled, not those of   *)
(* the instruction queue and of the load and store queues.                 *)
(*                                                                         *)
(*   status, insts, skid     renameStatus, queue from decode, skidBuffer   *)
(*   map, free, hist         rename map, free list, historyBuffer (newest  *)
(*                           entry first)                                  *)
(*   freeing                 freeingInProgress                             *)
(*   inProgress, robFree,    instsInProgress, freeEntries.robEntries,      *)
(*   emptyROB, stall         emptyROB, stalls.iew                          *)
(*   serInst, serNext,       serializeInst, serializeOnNextInst,           *)
(*   resumeSer               resumeSerialize                               *)
(*   before, handled         the SerializeBefore and SerializeHandled bits *)
(*   block, unblock, out,    signals to decode, instructions to IEW, and   *)
(*   blocking, changed,      blockThisCycle, status_change and             *)
(*   wrote                   wroteToTimeBuffer, all of the current cycle   *)
(*   active                  _status: the stage counts as active           *)
(***************************************************************************)
EXTENDS Integers, Sequences, FiniteSets, SequencesExt

CONSTANTS None, Arch, Fixed, Phys, RenameWidth, DecodeWidth

\* Registers of Fixed (misc registers) keep their mapping when renamed.
Reset(robEntries) ==
    LET home == CHOOSE m \in [Arch -> Phys] : IsInjective(m)
    IN  [status |-> "Running", insts |-> <<>>, skid |-> <<>>,
         map |-> [a \in Arch \cup Fixed |-> IF a \in Fixed THEN a ELSE home[a]],
         free |-> SetToSeq(Phys \ {home[a] : a \in Arch}),
         hist |-> <<>>, freeing |-> <<>>, inProgress |-> 0,
         robFree |-> robEntries, emptyROB |-> TRUE, stall |-> FALSE,
         serInst |-> None, serNext |-> FALSE, resumeSer |-> FALSE,
         before |-> {}, handled |-> {},
         block |-> FALSE, unblock |-> FALSE, out |-> <<>>, blocking |-> FALSE,
         changed |-> FALSE, wrote |-> FALSE, active |-> FALSE]

SkidBufferMax == 2 * DecodeWidth

skidInsert(r) == [r EXCEPT !.skid = @ \o r.insts, !.insts = <<>>]

\* A plausible slip: decode is not told when rename blocks on what it has just
\* received.
blockUntold(r) ==
    LET s == skidInsert(r)
    IN  IF r.status = "Blocked" THEN s
        ELSE [s EXCEPT !.block = @ \/ (r.status # "Unblocking" /\ r.insts = <<>>),
                       !.unblock = @ /\ r.status = "Unblocking",
                       !.wrote = @ \/ r.status # "Unblocking",
                       !.status = IF @ = "SerializeStall" THEN @ ELSE "Blocked"]

block(r) ==
    LET s == skidInsert(r)
    IN  IF r.status = "Blocked" THEN s
        ELSE [s EXCEPT !.block = @ \/ r.status # "Unblocking",
                       !.unblock = @ /\ r.status = "Unblocking",
                       !.wrote = @ \/ r.status # "Unblocking",
                       !.status = IF @ = "SerializeStall" THEN @ ELSE "Blocked"]

unblock(r) ==
    IF r.skid = <<>> /\ r.status # "SerializeStall"
    THEN [r EXCEPT !.unblock = TRUE, !.wrote = TRUE, !.changed = TRUE,
                   !.status = "Running"]
    ELSE r

-----------------------------------------------------------------------------
\* doSquash() undoes the entries younger than sn, newest first, and keeps the
\* registers they had taken until the reorder buffer has squashed.
Moved(e) == e.new # e.prev

Undo(map, entries) ==
    FoldLeft(LAMBDA m, e : [m EXCEPT ![e.arch] = e.prev], map, entries)

doSquash(r, sn) ==
    LET Undone(e) == e.sn > sn
        Kept(e) == e.sn <= sn
        undone == SelectSeq(SelectSeq(r.hist, Undone), Moved)
    IN  [r EXCEPT !.map = Undo(@, undone),
                  !.freeing = @ \o [i \in DOMAIN undone |-> undone[i].new],
                  !.hist = SelectSeq(@, Kept)]

squash(r, sn) ==
    LET keepSer == r.status = "SerializeStall" /\ r.serInst <= sn
        held == r.status \in {"Blocked", "Unblocking", "SerializeStall"}
        s == IF ~held THEN r
             ELSE IF keepSer THEN [r EXCEPT !.resumeSer = TRUE]
             ELSE [r EXCEPT !.unblock = TRUE, !.resumeSer = FALSE, !.serInst = None]
    IN  doSquash([s EXCEPT !.status = "Squashing", !.insts = <<>>, !.skid = <<>>,
                           !.wrote = \E i \in DOMAIN r.insts : r.insts[i] > sn], sn)

\* A committed entry gives back the register its destination had before.  A
\* plausible slip: so does one that kept its mapping.
removeFromHistoryAll(r, sn) ==
    LET Done(e) == e.sn <= sn
        Kept(e) == e.sn > sn
        gone == Reverse(SelectSeq(r.hist, Done))
    IN  [r EXCEPT !.free = @ \o [i \in DOMAIN gone |-> gone[i].prev],
                  !.hist = SelectSeq(@, Kept)]

removeFromHistory(r, sn) ==
    LET Done(e) == e.sn <= sn
        Kept(e) == e.sn > sn
        gone == Reverse(SelectSeq(SelectSeq(r.hist, Done), Moved))
    IN  [r EXCEPT !.free = @ \o [i \in DOMAIN gone |-> gone[i].prev],
                  !.hist = SelectSeq(@, Kept)]

\* renameDestRegs() with SimpleRenameMap::rename().
canRename(r, inst) == inst.dest \in Arch => r.free # <<>>

renameDestRegs(r, sn, inst) ==
    LET a == inst.dest
        new == IF a \in Arch THEN Head(r.free) ELSE r.map[a]
    IN  IF a = None THEN r
        ELSE [r EXCEPT !.map[a] = new,
                       !.free = IF a \in Arch THEN Tail(@) ELSE @,
                       !.hist = <<[sn |-> sn, arch |-> a, new |-> new,
                                   prev |-> r.map[a]]>> \o @]

-----------------------------------------------------------------------------
\* The loop of renameInsts(): x.q are the instructions to rename, x.n how many
\* of them may still be renamed.
isSerializeBefore(r, sn, inst) ==
    /\ inst.kind = "before" \/ sn \in r.before
    /\ sn \notin r.handled

serializeAfter(r, rest) ==
    IF rest = <<>> THEN [r EXCEPT !.serNext = TRUE]
    ELSE [r EXCEPT !.before = @ \cup {Head(rest)}]

renameOne(x, program, squashed) ==
    LET sn == Head(x.q)
        inst == program[sn]
        r == x.r
        after == inst.kind = "after" /\ sn \notin r.handled
        s == IF after
             THEN serializeAfter([r EXCEPT !.handled = @ \cup {sn}], Tail(x.q))
             ELSE r
        t == renameDestRegs(s, sn, inst)
        reg == IF inst.dest = None THEN None ELSE t.map[inst.dest]
    IN  IF x.stop \/ Len(r.out) = RenameWidth THEN x
        ELSE IF sn \in squashed THEN [x EXCEPT !.q = Tail(@), !.n = @ - 1]
        ELSE IF ~canRename(r, inst)
             THEN [x EXCEPT !.r.blocking = TRUE, !.stop = TRUE]
        ELSE IF isSerializeBefore(r, sn, inst)
             THEN [x EXCEPT !.q = Tail(@), !.stop = TRUE,
                            !.r.handled = IF sn \in r.before THEN @ ELSE @ \cup {sn},
                            !.r.status = "SerializeStall", !.r.serInst = sn,
                            !.r.blocking = TRUE]
        ELSE [x EXCEPT !.q = Tail(@), !.n = @ - 1,
                       !.r = [t EXCEPT !.out = Append(@, [sn |-> sn, reg |-> reg])]]

\* A plausible slip: instructions on their way to the buffer are not counted.
calcFreeROBEntriesStale(r, iew) == r.robFree

calcFreeROBEntries(r, iew) == r.robFree - (r.inProgress - iew.dispatched)

blockThisCycle(r) ==
    IF r.blocking THEN [block(r) EXCEPT !.unblock = FALSE] ELSE r

renameInsts(r, iew, program, squashed) ==
    LET fromSkid == r.status = "Unblocking"
        q == IF fromSkid THEN r.skid ELSE r.insts
        free == calcFreeROBEntries(r, iew)
        n == IF free < Len(q) THEN free ELSE Len(q)
        alone == r.emptyROB /\ r.inProgress = 0
        marked == IF ~r.serNext THEN r
                  ELSE IF alone THEN [r EXCEPT !.serNext = FALSE]
                  ELSE [r EXCEPT !.before = @ \cup {Head(q)}]
        x == FoldLeft(LAMBDA y, i : renameOne(y, program, squashed),
                      [r |-> [marked EXCEPT !.blocking = n < Len(q)],
                       q |-> q, n |-> n, stop |-> FALSE],
                      [i \in 1..n |-> i])
        Left(y) == [y.r EXCEPT !.insts = IF fromSkid THEN @ ELSE y.q,
                               !.skid = IF fromSkid THEN y.q ELSE @,
                               !.inProgress = @ + Len(y.r.out),
                               !.wrote = @ \/ y.r.out # <<>>,
                               !.blocking = @ \/ y.n # 0]
    IN  IF q = <<>> THEN r
        ELSE IF free <= 0 THEN block([r EXCEPT !.blocking = TRUE])
        ELSE blockThisCycle(Left(x))

\* The rest of a cycle that renames from the skid buffer.
afterSkid(r, valid) ==
    LET kept == IF valid THEN skidInsert(r) ELSE r
    IN  [unblock(kept) EXCEPT !.changed = @ \/ r.blocking]

rename(r, iew, decoded, program, squashed) ==
    LET valid == \E i \in DOMAIN decoded : decoded[i] \notin squashed
        done == renameInsts(r, iew, program, squashed)
    IN  CASE r.status = "SerializeStall" /\ r.resumeSer ->
                [block([r EXCEPT !.resumeSer = FALSE]) EXCEPT !.unblock = FALSE]
          [] r.status = "Running" -> done
          [] r.status = "Unblocking" -> afterSkid(done, valid)
          [] OTHER -> r

-----------------------------------------------------------------------------
readFreeEntries(r, commit) ==
    IF commit.usedROB
    THEN [r EXCEPT !.robFree = commit.freeROB, !.emptyROB = commit.emptyROB]
    ELSE r

readStallSignals(r, iew) ==
    [r EXCEPT !.stall = (@ \/ iew.block) /\ ~iew.unblock]

\* A plausible slip: instructions still on their way do not keep the stall up.
checkStallEmptyROB(r, iew) ==
    \/ r.stall
    \/ calcFreeROBEntries(r, iew) <= 0
    \/ r.status = "SerializeStall" /\ ~r.emptyROB

checkStall(r, iew) ==
    \/ r.stall
    \/ calcFreeROBEntries(r, iew) <= 0
    \/ r.status = "SerializeStall" /\ (~r.emptyROB \/ r.inProgress # 0)

\* A plausible slip: the instruction goes to the back of the skid buffer.
endSerializeAtBack(r) ==
    LET s == unblock([r EXCEPT !.status = "Unblocking"])
        t == [s EXCEPT !.before = @ \ {r.serInst}, !.serInst = None]
    IN  IF s.skid # <<>> THEN [t EXCEPT !.skid = Append(@, r.serInst)]
        ELSE [t EXCEPT !.insts = <<r.serInst>> \o @]

\* The end of a serialize stall: the instruction goes to the front again.
endSerialize(r) ==
    LET s == unblock([r EXCEPT !.status = "Unblocking"])
        t == [s EXCEPT !.before = @ \ {r.serInst}, !.serInst = None]
    IN  IF s.skid # <<>> THEN [t EXCEPT !.skid = <<r.serInst>> \o @]
        ELSE [t EXCEPT !.insts = <<r.serInst>> \o @]

checkSignalsAndUpdate(r, commit, iew) ==
    LET read == readStallSignals(readFreeEntries(r, commit), iew)
        s == IF commit.robSquashing THEN read
             ELSE [read EXCEPT !.free = @ \o r.freeing, !.freeing = <<>>]
        t == [s EXCEPT !.changed = TRUE]
    IN  IF commit.squash THEN squash([read EXCEPT !.changed = TRUE], commit.done)
        ELSE IF checkStall(s, iew)
        THEN block([s EXCEPT !.changed = @ \/ s.status \notin {"Blocked", "SerializeStall"}])
        ELSE CASE s.status = "Blocked" -> unblock([t EXCEPT !.status = "Unblocking"])
               [] s.status = "Squashing" /\ s.resumeSer ->
                     [t EXCEPT !.status = "SerializeStall"]
               [] s.status = "Squashing" /\ ~s.resumeSer ->
                     [s EXCEPT !.status = "Running"]
               [] s.status = "SerializeStall" -> endSerialize(t)
               [] OTHER -> s

\* Rename has something to do of its own only while it empties the skid buffer.
updateStatus(r) ==
    [r EXCEPT !.active = IF r.changed THEN r.status = "Unblocking" ELSE @]

tick(r, decoded, commit, iew, program, squashed) ==
    LET start == [r EXCEPT !.insts = @ \o decoded, !.out = <<>>, !.block = FALSE,
                           !.unblock = FALSE, !.blocking = FALSE,
                           !.changed = FALSE, !.wrote = FALSE]
        Freed(s) == IF commit.done # 0 /\ ~commit.squash /\ s.status # "Squashing"
                    THEN removeFromHistory(s, commit.done) ELSE s
        done == rename(checkSignalsAndUpdate(start, commit, iew), iew, decoded,
                       program, squashed)
    IN  [Freed(updateStatus(done)) EXCEPT !.inProgress = @ - iew.dispatched]
=============================================================================
