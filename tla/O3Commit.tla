------------------------------ MODULE O3Commit ------------------------------
(***************************************************************************)
(* The commit stage and the reorder buffer of the out-of-order CPU for one *)
(* thread (cpu/o3/commit.cc, cpu/o3/rob.cc): a record c that one cycle     *)
(* turns into the next.                                                    *)
(*                                                                         *)
(*   status, rob, squashIt,  commitStatus, instList, squashIt (a position, *)
(*   squashTo                0 for the end: done squashing), squashedSeqNum*)
(*   youngest, last          youngestSeqNum, lastCommitedSeqNum            *)
(*   map                     the commit rename map                         *)
(*   changed, checkEmpty     changedROBNumEntries, checkEmptyROB           *)
(*   squashed, canCommit,    the bits Squashed and CanCommit and the fault *)
(*   faulted                 of the instructions                           *)
(*   info                    commitInfo of the current cycle               *)
(*   committed               history: what has committed                   *)
(***************************************************************************)
EXTENDS Integers, Sequences, FiniteSets, SequencesExt

CONSTANTS None, NumEntries, CommitWidth, SquashWidth

NoInfo == [squash |-> FALSE, robSquashing |-> FALSE, done |-> 0,
           usedROB |-> FALSE, freeROB |-> 0, emptyROB |-> FALSE]

Reset(map) ==
    [status |-> "Running", rob |-> <<>>, squashIt |-> 0, squashTo |-> 0,
     youngest |-> 0, last |-> 0, map |-> map,
     changed |-> FALSE, checkEmpty |-> FALSE,
     squashed |-> {}, canCommit |-> {}, faulted |-> {},
     info |-> NoInfo, committed |-> {}]

-----------------------------------------------------------------------------
\* ROB::doSquash(): at most SquashWidth instructions per cycle, from squashIt
\* towards the head.
doSquash(c) ==
    LET hit == {i \in 1..c.squashIt : /\ i > c.squashIt - SquashWidth
                                      /\ c.rob[i].sn > c.squashTo}
        sns == {c.rob[i].sn : i \in hit}
        next == c.squashIt - Cardinality(hit)
        done == next = 0 \/ c.rob[next].sn <= c.squashTo
    IN  [c EXCEPT !.squashed = @ \cup sns, !.canCommit = @ \cup sns,
                  !.squashIt = IF done THEN 0 ELSE next]

\* ROB::squash() with the signals that both callers raise.
squash(c, sn) ==
    LET s == [c EXCEPT !.info.done = sn, !.info.squash = TRUE,
                       !.info.robSquashing = TRUE, !.changed = TRUE,
                       !.status = "ROBSquashing"]
    IN  IF c.rob = <<>> THEN s
        ELSE doSquash([s EXCEPT !.squashTo = sn, !.squashIt = Len(c.rob)])

squashAll(c) ==
    squash([c EXCEPT !.youngest = c.last],
           IF c.rob = <<>> THEN c.last ELSE Head(c.rob).sn - 1)

\* A plausible slip: a squash that an older one has overtaken still counts.
squashFromIEWAny(c, sq) ==
    LET sn == IF sq.include THEN sq.sn - 1 ELSE sq.sn
    IN  IF sq.sn # None /\ c.status # "TrapPending"
        THEN squash([c EXCEPT !.youngest = sn], sn) ELSE c

\* A squash from IEW: sq is the instruction and whether it goes as well.
squashFromIEW(c, sq) ==
    LET sn == IF sq.include THEN sq.sn - 1 ELSE sq.sn
    IN  IF sq.sn # None /\ c.status # "TrapPending" /\ sq.sn <= c.youngest
        THEN squash([c EXCEPT !.youngest = sn], sn) ELSE c

-----------------------------------------------------------------------------
getInsts(c, renamed) ==
    LET Valid(i) == i.sn \notin c.squashed /\ c.status # "TrapPending"
        new == SelectSeq(renamed, Valid)
    IN  IF new = <<>> THEN c
        ELSE [c EXCEPT !.rob = @ \o new, !.youngest = Last(new).sn, !.changed = TRUE]

\* commitHead(): y.n instructions have committed in this cycle; y.stores says
\* that IEW has stores to write back.
commitHead(y, inst) ==
    LET c == y.c
        sn == Head(c.rob).sn
    IN  IF sn \in c.faulted
        THEN IF y.n > 0 \/ y.stores THEN [y EXCEPT !.stop = TRUE]
             ELSE [y EXCEPT !.c.status = "TrapPending", !.stop = TRUE]
        ELSE [y EXCEPT !.n = @ + 1, !.stop = inst.kind = "squashAfter",
                       !.c = [c EXCEPT !.rob = Tail(@), !.last = sn,
                                !.map = IF inst.dest = None THEN @
                                        ELSE [@ EXCEPT ![inst.dest] = Head(c.rob).reg],
                                !.info.done = sn, !.committed = @ \cup {sn},
                                !.status = IF inst.kind = "squashAfter"
                                           THEN "SquashAfterPending" ELSE @,
                                !.changed = TRUE]]

commitOne(y, program) ==
    LET c == y.c
        sn == Head(c.rob).sn
    IN  IF y.stop \/ y.n = CommitWidth \/ c.rob = <<>> THEN y
        ELSE IF sn \notin c.canCommit THEN [y EXCEPT !.stop = TRUE]
        ELSE IF sn \in c.squashed
             THEN [y EXCEPT !.c.rob = Tail(@), !.c.changed = TRUE]
        ELSE commitHead(y, program[sn])

commitInsts(c, stores, program) ==
    IF c.status # "Running" THEN c
    ELSE FoldLeft(LAMBDA y, i : commitOne(y, program),
                  [c |-> c, n |-> 0, stop |-> FALSE, stores |-> stores],
                  [i \in DOMAIN c.rob |-> i]).c

\* A plausible slip: a buffer that empties while stores are outstanding is not
\* looked at again.
reportOnce(c, stores) ==
    LET empty == c.rob = <<>> /\ c.changed /\ ~stores
    IN  [c EXCEPT !.info.usedROB = c.changed,
                  !.info.emptyROB = empty,
                  !.info.freeROB = IF c.changed THEN NumEntries - Len(c.rob) ELSE 0,
                  !.changed = FALSE]

\* The end of commit(): what the other stages hear about the free entries.
report(c, stores) ==
    LET check == c.rob = <<>> /\ (c.checkEmpty \/ c.changed)
        empty == check /\ ~stores
    IN  [c EXCEPT !.info.usedROB = c.changed \/ empty,
                  !.info.emptyROB = empty,
                  !.info.freeROB = IF c.changed \/ empty THEN NumEntries - Len(c.rob) ELSE 0,
                  !.checkEmpty = (@ \/ check) /\ ~empty,
                  !.changed = FALSE]

commit(c, sq, renamed, trap, stores, program) ==
    LET s == IF trap \/ c.status = "SquashAfterPending" THEN squashAll(c)
             ELSE c
        t == squashFromIEW(s, sq)
    IN  report(IF t.status = "ROBSquashing" THEN t
               ELSE commitInsts(getInsts(t, renamed), stores, program), stores)

tick(c, fromIEW, renamed, trap, stores, program) ==
    LET start == [c EXCEPT !.info = NoInfo]
        s == IF c.status # "ROBSquashing" THEN start
             ELSE IF c.squashIt = 0 THEN [start EXCEPT !.status = "Running"]
             ELSE [doSquash(start) EXCEPT !.info.robSquashing = TRUE]
        t == commit(s, fromIEW.squash, renamed, trap, stores, program)
    IN  [t EXCEPT !.canCommit = @ \cup (fromIEW.done \ t.squashed)]
=============================================================================
