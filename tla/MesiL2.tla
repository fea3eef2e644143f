-------------------------------- MODULE MesiL2 -------------------------------
(***************************************************************************)
(* The shared, inclusive L2 bank of MESI_Two_Level                         *)
(* (mem/ruby/protocol/MESI_Two_Level-L2cache.sm) for one line.  Its state  *)
(* is a record:                                                            *)
(*   st                  the state of the TBE or the entry                 *)
(*   fresh, dirty        the block, in the entry or (NoEntry) in the TBE   *)
(*   sharers, exclusive  of the entry: which L1 caches have the line       *)
(*   getS, getX          L1_GetS_IDs and L1_GetX_ID of the TBE             *)
(*   pendingAcks         of the TBE                                        *)
(***************************************************************************)
EXTENDS MesiMessages, FiniteSets

Absent == [st |-> "NP", fresh |-> FALSE, dirty |-> FALSE, sharers |-> {}, exclusive |-> None,
           getS |-> {}, getX |-> None, pendingAcks |-> 0]

NoEntry == {"NP", "M_I", "MT_I", "MCT_I", "I_I", "S_I"}

\* The block to each of the caches ids, with the number of acks to expect.
SendData(e, type, ids, acks) ==
  {[Block(type, "L2", c, e.fresh, FALSE) EXCEPT !.acks = acks] : c \in ids}

SendInv(e, ids, requestor) == {Forward("INV", "L2", c, requestor) : c \in ids}

SendToMemory(e) == {Block("MEMORY_DATA", "L2", "Dir", e.fresh, e.dirty)}
SendCleanToMemory == {Control("ACK", "L2", "Dir")}

\* Unblock and Exclusive_Unblock.
Unblock(e, m) ==
  LET shared == [e EXCEPT !.sharers = @ \cup {m.src}]
  IN  CASE m.type = "EXCLUSIVE_UNBLOCK" /\ e.st \in {"SS_MB", "MT_MB"} ->
             GoAndWake([e EXCEPT !.st = "MT", !.sharers = {m.src}, !.exclusive = m.src], {})
        [] m.type = "UNBLOCK" /\ e.st = "MT_IIB" -> Go([shared EXCEPT !.st = "MT_IB"], {})
        [] m.type = "UNBLOCK" /\ e.st = "MT_SB" -> GoAndWake([shared EXCEPT !.st = "SS"], {})
        [] OTHER -> Invalid

\* The line leaves L2: i_allocateTBE and rr_deallocateL2CacheBlock.
Evict(e, st) ==
  [e EXCEPT !.st = st, !.pendingAcks = Cardinality(e.sharers), !.sharers = {}, !.exclusive = None]

\* L2_Replacement, MEM_Inv (keep) and L2_Replacement_clean of a line at rest.
Replace(e, keep) ==
  CASE e.st = "SS" -> Go(Evict(e, IF keep THEN "S_I" ELSE "I_I"), SendInv(e, e.sharers, "L2"))
    [] e.st = "M" -> Go(Evict(e, "M_I"), IF keep THEN SendToMemory(e) ELSE SendCleanToMemory)
    [] e.st = "MT" -> Go(Evict(e, IF keep THEN "MT_I" ELSE "MCT_I"),
                         SendInv(e, e.sharers, "L2"))
    [] OTHER -> Stall

\* A line chosen as the victim of another one.
Replacement(e) == Replace(e, e.dirty)

\* WB_Data and WB_Data_clean: the block from the L1 cache that had it.
WriteBack(e, m) ==
  LET w == [e EXCEPT !.fresh = m.fresh, !.dirty = @ \/ m.dirty]
      tbe == [e EXCEPT !.st = "M_I", !.fresh = m.fresh, !.dirty = m.dirty]
  IN  CASE e.st = "MT_IIB" -> Go([w EXCEPT !.st = "MT_SB"], {})
        [] e.st = "MT_IB" -> GoAndWake([w EXCEPT !.st = "SS"], {})
        [] e.st \in {"MT_I", "MCT_I"} /\ m.dirty -> Go(tbe, SendToMemory(tbe))
        [] e.st = "MCT_I" /\ ~m.dirty -> Go([e EXCEPT !.st = "M_I"], SendCleanToMemory)
        [] e.st = "MT_I" /\ ~m.dirty -> Go([e EXCEPT !.st = "M_I"], SendToMemory(e))
        [] OTHER -> Invalid

\* Ack and Ack_all of an invalidation.
InvAck(e, m) ==
  LET all == e.pendingAcks = m.acks
      done == [e EXCEPT !.st = "M_I", !.pendingAcks = 0]
  IN  CASE e.st \in {"I_I", "S_I"} /\ ~all -> Go([e EXCEPT !.pendingAcks = @ - m.acks], {})
        [] e.st \in {"I_I", "MCT_I"} /\ all -> Go(done, SendCleanToMemory)
        [] e.st \in {"S_I", "MT_I"} /\ all -> Go(done, SendToMemory(e))
        [] OTHER -> Invalid

\* Mem_Data.
MemoryData(e, m) ==
  LET w == [e EXCEPT !.fresh = m.fresh, !.dirty = @ \/ m.dirty, !.getS = {}, !.getX = None,
                     !.pendingAcks = 0]
  IN  CASE e.st = "ISS" -> Go([w EXCEPT !.st = "MT_MB"], SendData(w, "DATA_EXCLUSIVE", e.getS, 0))
        [] e.st = "IS" -> GoAndWake([w EXCEPT !.st = "SS"], SendData(w, "DATA", e.getS, 0))
        [] e.st = "IM" -> Go([w EXCEPT !.st = "MT_MB"], SendData(w, "DATA", {e.getX}, 0))
        [] OTHER -> Invalid

\* MEM_Inv.  The transitions of a line at rest leave the message in the buffer
\* for the next look at it, which drops it; both are one step here.  A stall is
\* a recycle.
MemoryInv(e) == IF e.st \in NoEntry THEN Go(e, {}) ELSE Replace(e, TRUE)

Response(e, m) ==
  CASE m.type = "DATA" -> WriteBack(e, m)
    [] m.type = "ACK" -> InvAck(e, m)
    [] m.type = "MEMORY_DATA" -> MemoryData(e, m)
    [] m.type = "MEMORY_ACK" /\ e.st = "M_I" -> GoAndWake(Absent, {})
    [] m.type = "INV" -> MemoryInv(e)
    [] OTHER -> Invalid

\* Mutant of WriteBackRequest: a line whose owner is being changed takes it.
WriteBackRequestUnblocked(e, m) ==
  LET ack == {Control("WB_ACK", "L2", m.src)}
      w == IF m.dirty THEN [e EXCEPT !.fresh = m.fresh, !.dirty = TRUE] ELSE e
  IN  CASE e.st = "MT" /\ m.src \in e.sharers -> Go([w EXCEPT !.st = "M", !.sharers = {}], ack)
        [] OTHER -> Go(e, ack)

\* L1_PUTX and L1_PUTX_old.
WriteBackRequest(e, m) ==
  LET ack == {Control("WB_ACK", "L2", m.src)}
      w == IF m.dirty THEN [e EXCEPT !.fresh = m.fresh, !.dirty = TRUE] ELSE e
  IN  CASE e.st = "MT" /\ m.src \in e.sharers -> Go([w EXCEPT !.st = "M", !.sharers = {}], ack)
        [] e.st \in {"SS_MB", "MT_MB", "MT_IIB", "MT_I", "MCT_I"} -> Stall
        [] OTHER -> Go(e, ack)

\* L1_GETS and L1_GET_INSTR.
ReadRequest(e, m) ==
  LET c == m.src
      instr == m.type = "GET_INSTR"
      shared == [e EXCEPT !.sharers = @ \cup {c}]
      recorded == [shared EXCEPT !.getS = @ \cup {c}]
  IN  CASE e.st = "NP" -> Go([recorded EXCEPT !.st = IF instr THEN "IS" ELSE "ISS"],
                             {Control("FETCH", "L2", "Dir")})
        [] e.st \in {"IS", "ISS"} -> Go([recorded EXCEPT !.st = "IS"], {})
        [] e.st = "SS" -> Go(shared, SendData(e, "DATA", {c}, 0))
        [] e.st = "M" /\ instr -> Go([shared EXCEPT !.st = "SS"], SendData(e, "DATA", {c}, 0))
        [] e.st = "M" /\ ~instr -> Go([e EXCEPT !.st = "MT_MB"],
                                      SendData(e, "DATA_EXCLUSIVE", {c}, 0))
        [] e.st = "MT" -> Go([e EXCEPT !.st = "MT_IIB"],
                             {Forward(m.type, "L2", e.exclusive, c)})
        [] OTHER -> Stall

\* L1_GETX and L1_UPGRADE; an UPGRADE from a cache that is no sharer is a GETX.
WriteRequest(e, m) ==
  LET c == m.src
      others == e.sharers \ {c}
      upgrade == m.type = "UPGRADE" /\ c \in e.sharers
      inv == SendInv(e, others, c)
  IN  CASE e.st = "NP" -> Go([e EXCEPT !.st = "IM", !.getX = c], {Control("FETCH", "L2", "Dir")})
        [] e.st \in {"IS", "ISS", "IM", "M", "MT"} /\ upgrade -> Invalid
        [] e.st = "SS" /\ upgrade ->
             Go([e EXCEPT !.st = "SS_MB"],
                inv \cup {Acks("ACK", "L2", c, 1 - Cardinality(e.sharers))})
        [] e.st = "SS" /\ ~upgrade ->
             Go([e EXCEPT !.st = "SS_MB"],
                inv \cup SendData(e, "DATA", {c}, 0 - Cardinality(others)))
        [] e.st = "M" /\ ~upgrade -> Go([e EXCEPT !.st = "MT_MB"], SendData(e, "DATA", {c}, 0))
        [] e.st = "MT" /\ ~upgrade ->
             Go([e EXCEPT !.st = "MT_MB"], {Forward(m.type, "L2", e.exclusive, c)})
        [] OTHER -> Stall

Request(e, m) ==
  CASE m.type = "PUTX" -> WriteBackRequest(e, m)
    [] m.type \in {"GETS", "GET_INSTR"} -> ReadRequest(e, m)
    [] OTHER -> WriteRequest(e, m)
=============================================================================
