-------------------------------- MODULE MesiL1 -------------------------------
(***************************************************************************)
(* The L1 cache controller of MESI_Two_Level                               *)
(* (mem/ruby/protocol/MESI_Two_Level-L1cache.sm) for one line.  Its state  *)
(* is a record:                                                            *)
(*   st              the state of the TBE or the entry; NP is I here       *)
(*   fresh, dirty    the block, in the entry or (M_I, SINK_WB_ACK) the TBE *)
(*   icache          the entry is in L1Icache, not in L1Dcache             *)
(*   pendingAcks     of the TBE                                            *)
(*   op              what the processor waits for, or None; isLoadLinked   *)
(*   queued          op is still in the mandatory queue ...                *)
(*   stalled         ... and stalled there                                 *)
(*   blocked         the line is in m_block_map: locked by the first half  *)
(*                   of a read-modify-write (Sequencer::writeCallback)     *)
(* Prefetches (enable_prefetch is false by default) and the profile and    *)
(* replacement-policy actions are left out.                                *)
(***************************************************************************)
EXTENDS MesiMessages

Idle == [st |-> "I", fresh |-> FALSE, dirty |-> FALSE, icache |-> FALSE, pendingAcks |-> 0,
         op |-> None, queued |-> FALSE, stalled |-> FALSE, blocked |-> FALSE]

Locked == {"LLSC_E", "LLSC_M"}
Resident == {"S", "E", "M"} \cup Locked

\* Allocates entry and TBE and issues a request to L2.
Miss(e, c, st, request) ==
  Go([e EXCEPT !.st = st, !.icache = (e.op = "Ifetch"), !.pendingAcks = 0, !.queued = FALSE],
     {Control(request, c, "L2")})

\* Whether the line is blocked after a store: the read of a locked read-modify-write
\* is a store to the protocol and blocks the line, the write unblocks it.
writeCallback(e) ==
  (e.blocked \/ e.op = "Locked_RMW_Read") /\ e.op # "Locked_RMW_Write"

\* Tells the sequencer that the access is complete.  The read of a locked
\* read-modify-write leaves the block as it is.
Hit(e, st) == [e EXCEPT !.st = st, !.op = None, !.queued = FALSE]
StoreHit(e, st) ==
  [Hit(e, st) EXCEPT !.dirty = TRUE,
                     !.fresh = @ \/ e.op # "Locked_RMW_Read",
                     !.blocked = writeCallback(e)]

\* L1_Replacement.
Replacement(e, c) ==
  CASE e.st \in {"I", "S"} -> Go([e EXCEPT !.st = "I"], {})
    [] e.st \in {"E", "M"} ->
         Go([e EXCEPT !.st = "M_I"], {Block("PUTX", c, "L2", e.fresh, e.dirty)})
    [] OTHER -> Stall

\* Load, Ifetch, Load_Linked and, for all other accesses, Store from the mandatory
\* queue.  A line in the wrong one of the two caches is replaced first.
Mandatory(e, c) ==
  IF e.st \in Resident /\ e.icache # (e.op = "Ifetch") THEN Replacement(e, c)
  ELSE CASE e.st = "I" -> CASE e.op = "Load" -> Miss(e, c, "IS", "GETS")
                            [] e.op = "Ifetch" -> Miss(e, c, "IS", "GET_INSTR")
                            [] OTHER -> Miss(e, c, "IM", "GETX")
         [] e.st = "S" -> IF e.op \in {"Load", "Ifetch"} THEN Go(Hit(e, "S"), {})
                          ELSE Miss(e, c, "SM", "UPGRADE")
         [] e.st \in {"E", "M"} \cup Locked ->
              CASE e.op \in {"Load", "Ifetch"} -> Go(Hit(e, e.st), {})
                [] e.op = "Load_Linked" ->
                     Go(Hit(e, CASE e.st = "E" -> "LLSC_E" [] e.st = "M" -> "LLSC_M"
                                 [] OTHER -> e.st), {})
                [] OTHER -> Go(StoreHit(e, IF e.st \in Locked THEN "LLSC_M" ELSE "M"), {})
         [] OTHER -> Stall

\* Mutant of Invalidate: M gives up its block without sending it.
InvalidateDropsData(e, c, m) ==
  LET ack == Acks("ACK", c, m.requestor, 1)
      Ack(st) == Go([e EXCEPT !.st = st], {ack})
  IN  CASE e.st \in {"I", "S", "E", "M"} -> Ack("I")
        [] e.st \in {"IS", "IS_I"} -> Ack("IS_I")
        [] e.st \in {"IM", "SM"} -> Ack("IM")
        [] e.st = "SINK_WB_ACK" -> Ack("SINK_WB_ACK")
        [] e.st = "M_I" -> Go([e EXCEPT !.st = "SINK_WB_ACK"],
                              {Block("DATA", c, "L2", e.fresh, e.dirty)})
        [] OTHER -> Stall

\* Inv.
Invalidate(e, c, m) ==
  LET ack == Acks("ACK", c, m.requestor, 1)
      data == Block("DATA", c, "L2", e.fresh, e.dirty)
      Ack(st) == Go([e EXCEPT !.st = st], {ack})
  IN  CASE e.st \in {"I", "S", "E"} -> Ack("I")
        [] e.st \in {"IS", "IS_I"} -> Ack("IS_I")
        [] e.st \in {"IM", "SM"} -> Ack("IM")
        [] e.st = "SINK_WB_ACK" -> Ack("SINK_WB_ACK")
        [] e.st = "M" -> Go([e EXCEPT !.st = "I"], {data})
        [] e.st = "M_I" -> Go([e EXCEPT !.st = "SINK_WB_ACK"], {data})
        [] OTHER -> Stall

\* Fwd_GETX (also for UPGRADE), Fwd_GETS and Fwd_GET_INSTR.
Forwarded(e, c, m) ==
  LET exclusive == m.type \in {"GETX", "UPGRADE"}
      out == {Block("DATA", c, d, e.fresh, e.dirty) :
                d \in {m.requestor} \cup IF exclusive THEN {} ELSE {"L2"}}
  IN  CASE e.st \in {"E", "M"} -> Go([e EXCEPT !.st = IF exclusive THEN "I" ELSE "S"], out)
        [] e.st = "M_I" -> Go([e EXCEPT !.st = "SINK_WB_ACK"], out)
        [] e.st \in Locked -> Stall
        [] OTHER -> Invalid

Request(e, c, m) == IF m.type = "INV" THEN Invalidate(e, c, m) ELSE Forwarded(e, c, m)

\* The last data or ack of a GETX or UPGRADE: the store hits, or the line is
\* locked for a load-linked.
Exclusive(e, c) ==
  GoAndWake(IF e.op = "Load_Linked" THEN Hit(e, "LLSC_E") ELSE StoreHit(e, "M"),
            {Control("EXCLUSIVE_UNBLOCK", c, "L2")})

\* Mutant of Response: data with acks outstanding completes the store.
ResponseEarly(e, c, m, fromL1) ==
  LET w == [e EXCEPT !.fresh = m.fresh, !.dirty = m.dirty]
      all == e.pendingAcks = m.acks
      read == e.st \in {"IS", "IS_I"}
  IN  CASE m.type = "DATA_EXCLUSIVE" /\ read ->
             GoAndWake(Hit(w, "E"), {Control("EXCLUSIVE_UNBLOCK", c, "L2")})
        [] m.type = "DATA" /\ read /\ (fromL1 \/ all) ->
             GoAndWake(Hit(w, IF e.st = "IS" THEN "S" ELSE "I"),
                       IF fromL1 THEN {Control("UNBLOCK", c, "L2")} ELSE {})
        [] m.type = "DATA" /\ e.st = "IM" -> Exclusive(w, c)
        [] m.type = "ACK" /\ e.st = "SM" /\ all -> Exclusive(e, c)
        [] m.type = "ACK" /\ ~(e.st = "SM" /\ all) -> Go([e EXCEPT !.pendingAcks = @ - m.acks], {})
        [] m.type = "WB_ACK" /\ e.st \in {"M_I", "SINK_WB_ACK"} ->
             GoAndWake([e EXCEPT !.st = "I"], {})
        [] OTHER -> Invalid

\* Data_Exclusive; DataS_fromL1 and Data_all_Acks of a read; Data_all_Acks and
\* Data of a write; Ack_all and Ack; WB_Ack.
Response(e, c, m, fromL1) ==
  LET w == [e EXCEPT !.fresh = m.fresh, !.dirty = m.dirty]
      all == e.pendingAcks = m.acks
      read == e.st \in {"IS", "IS_I"}
  IN  CASE m.type = "DATA_EXCLUSIVE" /\ read ->
             GoAndWake(Hit(w, "E"), {Control("EXCLUSIVE_UNBLOCK", c, "L2")})
        [] m.type = "DATA" /\ read /\ (fromL1 \/ all) ->
             GoAndWake(Hit(w, IF e.st = "IS" THEN "S" ELSE "I"),
                       IF fromL1 THEN {Control("UNBLOCK", c, "L2")} ELSE {})
        [] m.type = "DATA" /\ e.st = "IM" /\ all -> Exclusive(w, c)
        [] m.type = "DATA" /\ e.st = "IM" /\ ~all ->
             Go([w EXCEPT !.st = "SM", !.pendingAcks = @ - m.acks], {})
        [] m.type = "ACK" /\ e.st = "SM" /\ all -> Exclusive(e, c)
        [] m.type = "ACK" /\ e.st \in {"IM", "SM"} /\ ~all ->
             Go([e EXCEPT !.pendingAcks = @ - m.acks], {})
        [] m.type = "WB_ACK" /\ e.st \in {"M_I", "SINK_WB_ACK"} ->
             GoAndWake([e EXCEPT !.st = "I"], {})
        [] OTHER -> Invalid

\* LLSC_Timeout.
Timeout(e) == GoAndWake([e EXCEPT !.st = IF e.st = "LLSC_E" THEN "E" ELSE "M"], {})
=============================================================================
