------------------------------- MODULE MesiDir -------------------------------
(***************************************************************************)
(* The directory of MESI_Two_Level                                         *)
(* (mem/ruby/protocol/MESI_Two_Level-dir.sm) for one line.  Its entry is   *)
(* the state alone: the owner of a line in M is the one L2 bank, and the   *)
(* requestor kept in a TBE is the one DMA controller.  A DMA access covers *)
(* the whole line.                                                         *)
(***************************************************************************)
EXTENDS MesiMessages

\* qf_queueMemoryFetchRequest(DMA).
Read(requestor) == {Forward("MEMORY_READ", "Dir", "Mem", requestor)}

\* qw_queueMemoryWBRequest: a block to memory, acknowledged to requestor.
Write(fresh, requestor) ==
  {[Block("MEMORY_WB", "Dir", "Mem", fresh, FALSE) EXCEPT !.requestor = requestor]}

\* inv_sendCacheInvalidate.
InvL2 == {Control("INV", "Dir", "L2")}

\* Fetch, DMA_READ and DMA_WRITE.  The stall of a DMA request is a recycle.  A
\* Fetch of a line that an L2 bank owns invalidates the owner and stays, stalled.
Request(e, m) ==
  CASE m.type = "FETCH" /\ e = "I" -> Go("IM", Read("L2"))
    [] m.type = "FETCH" /\ e = "M" -> Go("M", InvL2 \cup {[m EXCEPT !.stalled = TRUE]})
    [] m.type = "FETCH" /\ e \in {"M_DRD", "M_DWR"} -> Invalid
    [] m.type = "DMA_READ" /\ e = "I" -> Go("ID", Read("DMA"))
    [] m.type = "DMA_WRITE" /\ e = "I" -> Go("ID_W", Write(TRUE, "Dir"))
    [] m.type = "DMA_READ" /\ e = "M" -> Go("M_DRD", InvL2)
    [] m.type = "DMA_WRITE" /\ e = "M" -> Go("M_DWR", InvL2)
    [] OTHER -> Stall

\* Mutant of Response: a DMA read gets the block of the TBE, not of the message.
ResponseSendsTBE(e, m) ==
  LET data == m.type = "MEMORY_DATA"
  IN  CASE data /\ e = "M" -> Go("MI", Write(m.fresh, "L2"))
        [] data /\ e = "M_DRD" ->
             Go("M_DRDI", Write(m.fresh, "L2") \cup {Block("DATA", "Dir", "DMA", FALSE, FALSE)})
        [] data /\ e = "M_DWR" -> Go("M_DWRI", Write(TRUE, "L2"))
        [] ~data /\ e = "M" -> GoAndWake("I", {Control("MEMORY_ACK", "Dir", "L2")})
        [] OTHER -> Invalid

\* Data and CleanReplacement.  (Data in a state that waits for memory stalls the
\* request port, which is not where the message is.)
Response(e, m) ==
  LET data == m.type = "MEMORY_DATA"
  IN  CASE data /\ e = "M" -> Go("MI", Write(m.fresh, "L2"))
        [] data /\ e = "M_DRD" ->
             Go("M_DRDI", Write(m.fresh, "L2") \cup {Block("DATA", "Dir", "DMA", m.fresh, FALSE)})
        [] data /\ e = "M_DWR" -> Go("M_DWRI", Write(TRUE, "L2"))
        [] ~data /\ e = "M" -> GoAndWake("I", {Control("MEMORY_ACK", "Dir", "L2")})
        [] OTHER -> Invalid

\* Mutant of Memory: the end of a DMA access wakes up nobody.
MemoryNoWake(e, m) ==
  LET read == m.type = "MEMORY_READ"
      ackL2 == Control("MEMORY_ACK", "Dir", "L2")
      ackDMA == Control("ACK", "Dir", "DMA")
  IN  CASE read /\ e = "IM" -> GoAndWake("M", {Block("MEMORY_DATA", "Dir", "L2", m.fresh, FALSE)})
        [] read /\ e = "ID" -> Go("I", {Block("DATA", "Dir", "DMA", m.fresh, FALSE)})
        [] ~read /\ e \in {"MI", "M_DRDI"} -> GoAndWake("I", {ackL2})
        [] ~read /\ e = "ID_W" -> Go("I", {ackDMA})
        [] ~read /\ e = "M_DWRI" -> GoAndWake("I", {ackL2, ackDMA})
        [] OTHER -> Invalid

\* Memory_Data and Memory_Ack.
Memory(e, m) ==
  LET read == m.type = "MEMORY_READ"
      ackL2 == Control("MEMORY_ACK", "Dir", "L2")
      ackDMA == Control("ACK", "Dir", "DMA")
  IN  CASE read /\ e = "IM" -> GoAndWake("M", {Block("MEMORY_DATA", "Dir", "L2", m.fresh, FALSE)})
        [] read /\ e = "ID" -> GoAndWake("I", {Block("DATA", "Dir", "DMA", m.fresh, FALSE)})
        [] ~read /\ e \in {"MI", "M_DRDI"} -> GoAndWake("I", {ackL2})
        [] ~read /\ e = "ID_W" -> GoAndWake("I", {ackDMA})
        [] ~read /\ e = "M_DWRI" -> GoAndWake("I", {ackL2, ackDMA})
        [] OTHER -> Invalid
=============================================================================
