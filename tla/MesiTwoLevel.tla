----------------------------- MODULE MesiTwoLevel -----------------------------
(***************************************************************************)
(* The MESI_Two_Level protocol of Ruby for one cache line: the L1 caches,  *)
(* an L2 bank, the directory with its memory, and a DMA controller, with   *)
(* one action per input port of a controller.                              *)
(*                                                                         *)
(* Messages are a set: the buffers of configs/ruby/MESI_Two_Level.py are   *)
(* not ordered and the latencies of the enqueue statements differ, so any  *)
(* message may overtake any other.  A message that is stalled waits for    *)
(* wakeUpBuffers.  Lines that compete for the same cache set are present   *)
(* as the victims they choose.                                             *)
(***************************************************************************)
EXTENDS MesiMessages, FiniteSets

CONSTANTS
  L1s,      \* the L1 cache controllers, one per processor
  Setups    \* the systems considered: what processors and DMA devices ask for
            \* and which lines, by their dirty bit, L2 chooses as victims

\* The caches are finitely many and none is another machine.
ASSUME L1Assumption == IsFiniteSet(L1s) /\ L1s \cap {"L2", "Dir", "Mem", "DMA"} = {}

\* A setup gives each cache the accesses its processor makes, the DMA engine its
\* requests, and the L2 the blocks, clean or dirty, that are replaced.
ASSUME SetupAssumption ==
  Setups \subseteq [ops : [L1s -> SUBSET {"Load", "Ifetch", "Store", "Load_Linked",
                                          "Locked_RMW_Read", "Locked_RMW_Write"}],
                    dma : SUBSET {"DMA_READ", "DMA_WRITE"}, victims : SUBSET BOOLEAN]

VARIABLES l1, l2, dir, dma, mem, net, panic, setup

vars == <<l1, l2, dir, dma, mem, net, panic, setup>>

L1 == INSTANCE MesiL1
L2 == INSTANCE MesiL2
D == INSTANCE MesiDir

Init ==
  /\ l1 = [c \in L1s |-> L1!Idle]
  /\ l2 = L2!Absent
  /\ dir = "I"
  /\ dma = "READY"
  /\ mem = TRUE
  /\ net = {}
  /\ panic = FALSE
  /\ setup \in Setups

-----------------------------------------------------------------------------
\* Mutant of Rank: the ports of requests have the rank of those of responses.
RankTied(m) ==
  IF m.type \in {"UNBLOCK", "EXCLUSIVE_UNBLOCK"} \/ m.src = "Mem" THEN 2 ELSE 1

\* The rank of the in_port a message arrives at, that of the lock timer's, and that
\* of the port at work: the mandatory queue, of rank 0, uses up no message either,
\* but wakes nobody.
Rank(m) ==
  CASE m.dst \in L1s -> IF m.type \in {"INV", "GETX", "UPGRADE", "GETS", "GET_INSTR"}
                        THEN 1 ELSE 2
    [] m.dst = "L2" -> CASE m.type \in {"UNBLOCK", "EXCLUSIVE_UNBLOCK"} -> 2
                         [] m.type \in {"GETS", "GET_INSTR", "GETX", "UPGRADE", "PUTX"} -> 0
                         [] OTHER -> 1
    [] m.dst = "Dir" -> CASE m.src = "Mem" -> 2
                          [] m.type \in {"FETCH", "DMA_READ", "DMA_WRITE"} -> 0
                          [] OTHER -> 1
    [] OTHER -> 0

LockTimerRank == 4

AtWork(used) == IF used = {} THEN LockTimerRank ELSE Rank(CHOOSE m \in used : TRUE)

\* wakeUpBuffers of controller d while the port of this rank is at work: what waits
\* in the ports of lower rank is looked at again.
WakeUp(n, d, rank) ==
  {[m EXCEPT !.stalled = @ /\ ~(m.dst = d /\ Rank(m) < rank)] : m \in n}

\* The messages after d has used up those in used with outcome r.
Pass(d, used, r) ==
  LET rest == net \ used
  IN  (IF r.wake THEN WakeUp(rest, d, AtWork(used)) ELSE rest) \cup r.out

\* stall_and_wait.
StallMsg(m) == (net \ {m}) \cup {[m EXCEPT !.stalled = TRUE]}

\* A new value is written: every other block is out of date.
OldMsgs(n) == {[m EXCEPT !.fresh = FALSE] : m \in n}
OldL1(c) == [l1[c] EXCEPT !.fresh = FALSE]
OldL2 == [l2 EXCEPT !.fresh = FALSE]

Ready(d, src, types) ==
  {m \in net : ~panic /\ m.dst = d /\ m.src = src /\ m.type \in types /\ ~m.stalled}

\* What is left of an entry once nothing reads the rest of it.
Settle(e) ==
  LET a == IF e.st \in {"IM", "SM"} THEN e ELSE [e EXCEPT !.pendingAcks = 0]
      b == IF e.st \in {"S", "E", "M", "SM", "M_I", "LLSC_E", "LLSC_M"} THEN a
           ELSE [a EXCEPT !.fresh = FALSE, !.dirty = FALSE]
  IN  IF e.st = "I" THEN [b EXCEPT !.icache = FALSE] ELSE b

\* doTransition of an L1 controller that takes a transition.
L1Go(c, used, r) ==
  LET wrote == l1[c].op \in {"Store", "Locked_RMW_Write"} /\ r.e.op = None
      woken == r.wake /\ AtWork(used) > 0
      e == [Settle(r.e) EXCEPT !.stalled = @ /\ ~woken /\ r.e.op # None]
      n == Pass(c, used, r)
  IN  /\ l1' = [d \in L1s |-> IF d = c THEN e ELSE IF wrote THEN OldL1(d) ELSE l1[d]]
      /\ net' = IF wrote THEN OldMsgs(n) ELSE n
      /\ l2' = IF wrote THEN OldL2 ELSE l2
      /\ mem' = (mem /\ ~wrote)
      /\ UNCHANGED <<dir, dma, panic, setup>>

L2Go(used, r) ==
  /\ l2' = r.e
  /\ net' = Pass("L2", used, r)
  /\ UNCHANGED <<l1, dir, dma, mem, panic, setup>>

\* Once the directory has queued the block of a DMA write for memory, that is
\* the value of the line.
DirGo(used, r) ==
  LET wrote == r.e \in {"ID_W", "M_DWRI"}
      rest == Pass("Dir", used, [r EXCEPT !.out = {}])
  IN  /\ dir' = r.e
      /\ net' = (IF wrote THEN OldMsgs(rest) ELSE rest) \cup r.out
      /\ l1' = IF wrote THEN [c \in L1s |-> OldL1(c)] ELSE l1
      /\ l2' = IF wrote THEN OldL2 ELSE l2
      /\ mem' = (mem /\ ~wrote)
      /\ UNCHANGED <<dma, panic, setup>>

StallGo(m) ==
  /\ net' = StallMsg(m)
  /\ UNCHANGED <<l1, l2, dir, dma, mem, panic, setup>>

\* doTransition finds no transition: panic("Invalid transition ...").
Panic ==
  /\ panic' = TRUE
  /\ UNCHANGED <<l1, l2, dir, dma, mem, net, setup>>

-----------------------------------------------------------------------------
\* While a line is locked by a read-modify-write the sequencer takes nothing but its
\* write, which is issued at no other time.
makeRequest(c, op) == l1[c].blocked <=> op = "Locked_RMW_Write"

\* The sequencer puts an access into the mandatory queue.  It has at most one
\* for a line with the controller.
CpuRequest(c) ==
  /\ ~panic /\ l1[c].op = None
  /\ \E op \in setup.ops[c] :
       /\ makeRequest(c, op)
       /\ l1' = [l1 EXCEPT ![c].op = op, ![c].queued = TRUE]
  /\ UNCHANGED <<l2, dir, dma, mem, net, panic, setup>>

\* mandatoryQueue_in.
L1Mandatory(c) ==
  LET r == L1!Mandatory(l1[c], c)
  IN  /\ ~panic /\ l1[c].queued /\ ~l1[c].stalled
      /\ IF r.kind = "go" THEN L1Go(c, {}, r)
         ELSE /\ l1' = [l1 EXCEPT ![c].stalled = TRUE]
              /\ UNCHANGED <<l2, dir, dma, mem, net, panic, setup>>

\* mandatoryQueue_in: the line is the victim of an access to another one.  The
\* processor makes none between the halves of a read-modify-write.
L1Replacement(c) ==
  /\ ~panic /\ l1[c].st \in {"S", "E", "M"} /\ ~l1[c].blocked
  /\ L1Go(c, {}, L1!Replacement(l1[c], c))

\* requestL1Network_in.  Here and in the next one a message for a blocked line is
\* delayed (block_on).
L1Request(c) ==
  /\ ~l1[c].blocked
  /\ \E m \in Ready(c, "L2", {"INV", "GETX", "UPGRADE", "GETS", "GET_INSTR"}) :
       LET r == L1!Request(l1[c], c, m)
       IN  CASE r.kind = "go" -> L1Go(c, {m}, r) [] r.kind = "stall" -> StallGo(m)
             [] OTHER -> Panic

\* responseL1Network_in.
L1Response(c) ==
  /\ ~l1[c].blocked
  /\ \E src \in L1s \cup {"L2"} : \E m \in Ready(c, src, {"DATA", "DATA_EXCLUSIVE", "ACK", "WB_ACK"}) :
       LET r == L1!Response(l1[c], c, m, src \in L1s)
       IN  IF r.kind = "go" THEN L1Go(c, {m}, r) ELSE Panic

\* llscLockTimerTable_in.
L1Timeout(c) ==
  /\ ~panic /\ l1[c].st \in L1!Locked
  /\ L1Go(c, {}, L1!Timeout(l1[c]))

\* L1unblockNetwork_in.
L2Unblock(c) ==
  \E m \in Ready("L2", c, {"UNBLOCK", "EXCLUSIVE_UNBLOCK"}) :
     LET r == L2!Unblock(l2, m)
     IN  IF r.kind = "go" THEN L2Go({m}, r) ELSE Panic

\* responseL2Network_in.  A recycled MEM_Inv is looked at again later.
L2Response(src) ==
  \E m \in Ready("L2", src, {"DATA", "ACK", "MEMORY_DATA", "MEMORY_ACK", "INV"}) :
     LET r == L2!Response(l2, m)
     IN  /\ r.kind # "stall"
         /\ IF r.kind = "go" THEN L2Go({m}, r) ELSE Panic

\* L1RequestL2Network_in.
L2Request(c) ==
  \E m \in Ready("L2", c, {"GETS", "GET_INSTR", "GETX", "UPGRADE", "PUTX"}) :
     LET r == L2!Request(l2, m)
     IN  CASE r.kind = "go" -> L2Go({m}, r) [] r.kind = "stall" -> StallGo(m) [] OTHER -> Panic

\* L1RequestL2Network_in: the line is the victim of a request for another one.
L2Replacement ==
  /\ ~panic /\ l2.st \in {"SS", "M", "MT"}
  /\ l2.dirty \in setup.victims
  /\ L2Go({}, L2!Replacement(l2))

\* requestNetwork_in.  A recycled DMA request is looked at again later.
DirRequest(src) ==
  \E m \in Ready("Dir", src, {"FETCH", "DMA_READ", "DMA_WRITE"}) :
     LET r == D!Request(dir, m)
     IN  /\ m.type = "FETCH" \/ r.kind # "stall"
         /\ CASE r.kind = "go" -> DirGo({m}, r) [] r.kind = "stall" -> StallGo(m) [] OTHER -> Panic

\* responseNetwork_in.
DirResponse ==
  \E m \in Ready("Dir", "L2", {"MEMORY_DATA", "ACK"}) :
     LET r == D!Response(dir, m)
     IN  IF r.kind = "go" THEN DirGo({m}, r) ELSE Panic

\* memQueue_in.
DirMemory ==
  \E m \in Ready("Dir", "Mem", {"MEMORY_READ", "MEMORY_WB"}) :
     LET r == D!Memory(dir, m)
     IN  IF r.kind = "go" THEN DirGo({m}, r) ELSE Panic

\* The answer of memory to a request.
recvTimingResp(m) ==
  [m EXCEPT !.src = "Mem", !.dst = "Dir", !.fresh = (m.type = "MEMORY_READ" /\ mem)]

\* serviceMemoryQueue: the memory controller gets a request, serves it and answers.
Memory ==
  \E m \in Ready("Mem", "Dir", {"MEMORY_READ", "MEMORY_WB"}) :
     /\ mem' = IF m.type = "MEMORY_WB" THEN m.fresh ELSE mem
     /\ net' = (net \ {m}) \cup {recvTimingResp(m)}
     /\ UNCHANGED <<l1, l2, dir, dma, panic, setup>>

\* dmaRequestQueue_in: ReadRequest, WriteRequest; a busy controller stalls.
DmaRequest ==
  /\ ~panic /\ dma = "READY"
  /\ \E type \in setup.dma :
       /\ dma' = IF type = "DMA_READ" THEN "BUSY_RD" ELSE "BUSY_WR"
       /\ net' = net \cup {Control(type, "DMA", "Dir")}
  /\ UNCHANGED <<l1, l2, dir, mem, panic, setup>>

\* dmaResponseQueue_in: Data, Ack.
DmaResponse ==
  \E m \in Ready("DMA", "Dir", {"DATA", "ACK"}) :
     IF dma = IF m.type = "DATA" THEN "BUSY_RD" ELSE "BUSY_WR"
     THEN /\ dma' = "READY"
          /\ net' = net \ {m}
          /\ UNCHANGED <<l1, l2, dir, mem, panic, setup>>
     ELSE Panic

Next ==
  \/ \E c \in L1s : \/ CpuRequest(c) \/ L1Mandatory(c) \/ L1Replacement(c)
                    \/ L1Request(c) \/ L1Response(c) \/ L1Timeout(c)
                    \/ L2Unblock(c) \/ L2Request(c)
  \/ \E src \in L1s \cup {"Dir"} : L2Response(src)
  \/ L2Replacement
  \/ \E src \in {"L2", "DMA"} : DirRequest(src)
  \/ DirResponse \/ DirMemory \/ Memory \/ DmaRequest \/ DmaResponse

\* Ports are polled on every wake-up, memory answers, a lock times out, a processor
\* ends the read-modify-write it has begun.  What was delayed or
\* stalled is looked at again before anything younger (reanalyzeMessages) and a
\* port of higher rank first, so a request cannot be overtaken for ever.
Served(P(_), c, d) == P(c) /\ \A m \in net' : m.dst = d /\ m \notin net => ~m.stalled

Fairness ==
  /\ \A c \in L1s :
       /\ WF_vars(L1Mandatory(c)) /\ WF_vars(L1Response(c)) /\ WF_vars(L1Timeout(c))
       /\ WF_vars(L2Unblock(c)) /\ WF_vars(l1[c].blocked /\ CpuRequest(c))
       /\ SF_vars(Served(L1Request, c, c))
       /\ SF_vars(Served(L2Request, c, "L2"))
  /\ \A src \in L1s \cup {"Dir"} : WF_vars(L2Response(src))
  /\ SF_vars(Served(DirRequest, "L2", "Dir"))
  /\ WF_vars(DirResponse) /\ WF_vars(DirMemory) /\ WF_vars(Memory) /\ WF_vars(DmaResponse)

Spec == Init /\ [][Next]_vars /\ Fairness

-----------------------------------------------------------------------------
Readable == {"S", "E", "M", "LLSC_E", "LLSC_M"}

\* Whatever the order of messages, a controller has a transition for the event
\* in the state it is in: doTransition never panics with "Invalid transition".
NoInvalidTransition == ~panic

\* While one L1 cache may write the line, no other may read it: the acks of an
\* invalidation are all in before a store hits, races with replacements included.
SingleWriter ==
  \A c, d \in L1s : c # d /\ l1[c].st \in Readable \ {"S"} => l1[d].st \notin Readable

\* What can be read is what was written last: in an L1 cache with permission, in
\* L2 when no L1 cache owns the line, in memory when the directory has it.  What
\* the first half of a locked read-modify-write has read is that still, and no one
\* else's, when the second half writes (blockOnQueue).
CopiesAreCurrent ==
  /\ \A c \in L1s : /\ l1[c].st \in Readable => l1[c].fresh
                    /\ l1[c].blocked => l1[c].st \in Readable \ {"S"}
  /\ l2.st \in {"SS", "M"} => l2.fresh
  /\ dir = "I" => mem

\* The block a DMA read is answered with is the last one written.
DmaReadsCurrent ==
  [][\A m \in net' : m.dst = "DMA" /\ m.type = "DATA" /\ dma' = dma
        /\ ~(\E o \in net : o.dst = "DMA") => m.fresh]_vars

\* An invalidation that the owner only acknowledges has lost nothing: as the
\* comment of the transition has it, "L1 never changed Dirty data".
OwnerAcksUnchanged ==
  l2.st = "MT_I" /\ (\E m \in net : m.dst = "L2" /\ m.type = "ACK") => l2.fresh

\* Every access of a processor completes, whatever the others do.
AccessesComplete == \A c \in L1s : []<>(l1[c].op = None)
=============================================================================
