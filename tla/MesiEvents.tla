------------------------------ MODULE MesiEvents ------------------------------
(***************************************************************************)
(* What the transitions of MESI_Two_Level-L1cache.sm and -L2cache.sm do to *)
(* the permissions on the block, as relations between the state before and *)
(* after and the headers of the messages taken and sent. Blocks, stalls,   *)
(* wakeups and the directory behind the L2 are left out. An L1 goes from   *)
(* state s with d acknowledgements pending to state t with n pending; the  *)
(* L2 goes from line k to line l; m is the message taken, out those sent.  *)
(***************************************************************************)
EXTENDS MesiMessages, FiniteSets

\* The states that the models of the two machines use.
L1States == {"I", "S", "E", "M", "LLSC_E", "LLSC_M", "IS", "IS_I", "IM", "SM", "M_I", "SINK_WB_ACK"}
L2States == {"NP", "SS", "M", "MT", "M_I", "MT_I", "MCT_I", "I_I", "S_I", "ISS", "IS", "IM",
             "SS_MB", "MT_MB", "MT_IIB", "MT_IB", "MT_SB"}

\* Requests for a readable and for a writable copy, as an L1 sends them and as
\* the L2 forwards them; the L1 states in which each is outstanding, and those
\* that may write; the L2 states that wait for an EXCLUSIVE_UNBLOCK, that
\* collect the acknowledgements of an eviction, that wait for the owner's
\* block to evict it, and that wait for an owner to serve a reader.
Reading == {"GETS", "GET_INSTR"}
Writing == {"GETX", "UPGRADE"}
ReadStates == {"IS", "IS_I"}
WriteStates == {"IM", "SM"}
Owning == {"E", "M", "LLSC_E", "LLSC_M"}
Blocked == {"SS_MB", "MT_MB"}
Collected == {"I_I", "S_I"}
Recalled == {"MT_I", "MCT_I"}
Handing == {"MT_IIB", "MT_IB", "MT_SB"}

\* The header of a message as the machines' out_ports fill it in, and those of
\* the replies with data and of the invalidations to a set of caches.
Head(type, src, dst, requestor, acks) ==
  [type |-> type, src |-> src, dst |-> dst, requestor |-> requestor, acks |-> acks]

Datas(type, ids, n) == {Head(type, "L2", c, None, n) : c \in ids}
Invs(ids, requestor) == {Head("INV", "L2", c, requestor, 0) : c \in ids}

-------------------------------------------------------------------------------
\* The events of an L1 cache c that take no message: a hit, the end of a
\* load-linked or the silent replacement of a shared copy; a write back; a
\* miss, with a new TBE.
L1Settles(s, t, out) ==
  /\ out = {}
  /\ \/ t = s /\ s \notin WriteStates
     \/ s = "S" /\ t = "I"
     \/ s \in Owning /\ t \in Owning

L1PutsBack(c, s, t, out) ==
  s \in {"E", "M"} /\ t = "M_I" /\ out = {Head("PUTX", c, "L2", None, 0)}

L1Misses(c, s, t, n, out) ==
  \E q \in Reading \cup Writing :
    /\ out = {Head(q, c, "L2", None, 0)}
    /\ \/ s = "I" /\ q \in Reading /\ t = "IS"
       \/ s = "I" /\ q = "GETX" /\ t = "IM" /\ n = 0
       \/ s = "S" /\ q = "UPGRADE" /\ t = "SM" /\ n = 0

L1Alone(c, s, t, n, out) ==
  L1Settles(s, t, out) \/ L1PutsBack(c, s, t, out) \/ L1Misses(c, s, t, n, out)

\* Inv: an acknowledgement to the requestor, or the block to the L2.
L1Acknowledges(c, s, d, t, n, m, out) ==
  /\ m.type = "INV" /\ out = {Head("ACK", c, m.requestor, None, 1)}
  /\ \/ s \in {"I", "S", "E"} /\ t = "I"
     \/ s \in ReadStates /\ t = "IS_I"
     \/ s \in WriteStates /\ t = "IM" /\ n = d
     \/ s = "SINK_WB_ACK" /\ t = "SINK_WB_ACK"

L1GivesBack(c, s, t, m, out) ==
  /\ m.type = "INV" /\ out = {Head("DATA", c, "L2", None, 0)}
  /\ \/ s = "M" /\ t = "I"
     \/ s = "M_I" /\ t = "SINK_WB_ACK"

\* Fwd_GETX, Fwd_GETS and Fwd_GET_INSTR: the block to the requestor, and to
\* the L2 too when it is only to be shared.
L1HandsOver(c, s, t, m, out) ==
  \/ /\ m.type \in Writing /\ out = {Head("DATA", c, m.requestor, None, 0)}
     /\ \/ s \in {"E", "M"} /\ t = "I"
        \/ s = "M_I" /\ t = "SINK_WB_ACK"
  \/ /\ m.type \in Reading
     /\ out = {Head("DATA", c, m.requestor, None, 0), Head("DATA", c, "L2", None, 0)}
     /\ \/ s \in {"E", "M"} /\ t = "S"
        \/ s = "M_I" /\ t = "SINK_WB_ACK"

\* The data a reader waits for; the data and acknowledgements a writer waits
\* for, the last one and one before it; the end of a write back.
L1Fills(c, s, t, m, out) ==
  \/ /\ m.type = "DATA_EXCLUSIVE" /\ out = {Head("EXCLUSIVE_UNBLOCK", c, "L2", None, 0)}
     /\ s \in ReadStates /\ t = "E"
  \/ /\ m.type = "DATA"
     /\ out = IF m.src = "L2" THEN {} ELSE {Head("UNBLOCK", c, "L2", None, 0)}
     /\ \/ s = "IS" /\ t = "S"
        \/ s = "IS_I" /\ t = "I"

L1Collects(c, s, d, t, n, m, out) ==
  \/ /\ \/ s = "IM" /\ m.type = "DATA"
        \/ s = "SM" /\ m.type = "ACK"
     /\ d = m.acks /\ t \in {"M", "LLSC_E"}
     /\ out = {Head("EXCLUSIVE_UNBLOCK", c, "L2", None, 0)}
  \/ /\ \/ s = "IM" /\ m.type = "DATA" /\ t = "SM"
        \/ s \in WriteStates /\ m.type = "ACK" /\ t = s
     /\ d # m.acks /\ n = d - m.acks /\ out = {}

L1PutsDone(s, t, m, out) ==
  m.type = "WB_ACK" /\ s \in {"M_I", "SINK_WB_ACK"} /\ t = "I" /\ out = {}

L1Takes(c, s, d, t, n, m, out) ==
  /\ m.dst = c
  /\ \/ L1Acknowledges(c, s, d, t, n, m, out)
     \/ L1GivesBack(c, s, t, m, out)
     \/ L1HandsOver(c, s, t, m, out)
     \/ L1Fills(c, s, t, m, out)
     \/ L1Collects(c, s, d, t, n, m, out)
     \/ L1PutsDone(s, t, m, out)

\* An event of L1 cache c that takes the messages in use.
L1Event(c, s, d, t, n, use, out) ==
  \/ use = {} /\ L1Alone(c, s, t, n, out)
  \/ \E m \in use : use = {m} /\ L1Takes(c, s, d, t, n, m, out)

-------------------------------------------------------------------------------
\* A line with the given fields, and a line that only changes its state.
Holds(l, st, sharers, exclusive, getS, getX, acks) ==
  /\ l.st = st /\ l.sharers = sharers /\ l.exclusive = exclusive
  /\ l.getS = getS /\ l.getX = getX /\ l.pendingAcks = acks

Becomes(k, l, st) == Holds(l, st, k.sharers, k.exclusive, k.getS, k.getX, k.pendingAcks)

\* Exclusive_Unblock and Unblock.
L2Unblocks(k, l, m, out) ==
  /\ out = {}
  /\ \/ /\ m.type = "EXCLUSIVE_UNBLOCK" /\ k.st \in Blocked
        /\ Holds(l, "MT", {m.src}, m.src, k.getS, k.getX, k.pendingAcks)
     \/ /\ m.type = "UNBLOCK"
        /\ \/ k.st = "MT_IIB" /\ l.st = "MT_IB"
           \/ k.st = "MT_SB" /\ l.st = "SS"
        /\ Holds(l, l.st, k.sharers \cup {m.src}, k.exclusive, k.getS, k.getX, k.pendingAcks)

\* WB_Data and WB_Data_clean; Ack and Ack_all of an eviction.
L2TakesData(k, l, m, out) ==
  /\ m.type = "DATA" /\ out = {} /\ Becomes(k, l, l.st)
  /\ \/ k.st = "MT_IIB" /\ l.st = "MT_SB"
     \/ k.st = "MT_IB" /\ l.st = "SS"
     \/ k.st \in Recalled /\ l.st = "M_I"

L2TakesAck(k, l, m, out) ==
  /\ m.type = "ACK" /\ out = {}
  /\ \/ /\ k.st \in Collected /\ k.pendingAcks # m.acks
        /\ Holds(l, k.st, k.sharers, k.exclusive, k.getS, k.getX, k.pendingAcks - m.acks)
     \/ /\ k.st \in Collected \cup Recalled /\ k.pendingAcks = m.acks
        /\ Holds(l, "M_I", k.sharers, k.exclusive, k.getS, k.getX, 0)

\* L1_PUTX, and L1_PUTX_old of a cache that is no longer the owner.
L2Puts(k, l, m, out) ==
  /\ m.type = "PUTX" /\ out = {Head("WB_ACK", "L2", m.src, None, 0)}
  /\ \/ /\ k.st = "MT" /\ m.src \in k.sharers
        /\ Holds(l, "M", {}, k.exclusive, k.getS, k.getX, k.pendingAcks)
     \/ /\ k.st \notin Blocked \cup Recalled \cup {"MT_IIB"}
        /\ k.st = "MT" => m.src \notin k.sharers
        /\ Becomes(k, l, k.st)

\* L1_GETS and L1_GET_INSTR: recorded while memory is read, answered shared or
\* exclusive, or forwarded to the owner.
L2Reads(k, l, m, out) ==
  /\ m.type \in Reading
  /\ \/ /\ \/ k.st = "NP" /\ l.st \in {"IS", "ISS"}
           \/ k.st \in {"IS", "ISS"} /\ l.st = "IS"
        /\ Holds(l, l.st, k.sharers \cup {m.src}, k.exclusive, k.getS \cup {m.src}, k.getX,
                 k.pendingAcks)
        /\ out = {}
     \/ /\ k.st \in {"SS", "M"} /\ out = Datas("DATA", {m.src}, 0)
        /\ Holds(l, "SS", k.sharers \cup {m.src}, k.exclusive, k.getS, k.getX, k.pendingAcks)
     \/ k.st = "M" /\ Becomes(k, l, "MT_MB") /\ out = Datas("DATA_EXCLUSIVE", {m.src}, 0)
     \/ k.st = "MT" /\ Becomes(k, l, "MT_IIB") /\ out = {Head(m.type, "L2", k.exclusive, m.src, 0)}

\* L1_GETX and L1_UPGRADE: recorded while memory is read, answered with the
\* number of sharers that are invalidated, answered alone, or forwarded to the
\* owner.
L2Writes(k, l, m, out) ==
  /\ m.type \in Writing
  /\ \/ /\ k.st = "NP" /\ out = {}
        /\ Holds(l, "IM", k.sharers, k.exclusive, k.getS, m.src, k.pendingAcks)
     \/ /\ k.st = "SS" /\ Becomes(k, l, "SS_MB")
        /\ \E t \in {"DATA", "ACK"} :
             out = Invs(k.sharers \ {m.src}, m.src)
                     \cup Datas(t, {m.src}, 0 - Cardinality(k.sharers \ {m.src}))
     \/ k.st = "M" /\ Becomes(k, l, "MT_MB") /\ out = Datas("DATA", {m.src}, 0)
     \/ k.st = "MT" /\ Becomes(k, l, "MT_MB") /\ out = {Head(m.type, "L2", k.exclusive, m.src, 0)}

L2Takes(k, l, m, out) ==
  /\ m.dst = "L2"
  /\ \/ L2Unblocks(k, l, m, out)
     \/ L2TakesData(k, l, m, out)
     \/ L2TakesAck(k, l, m, out)
     \/ L2Puts(k, l, m, out)
     \/ L2Reads(k, l, m, out)
     \/ L2Writes(k, l, m, out)

\* The events of the L2 that take no message of an L1: Mem_Data answers the
\* requests recorded, L2_Replacement and MEM_Inv invalidate the copies on
\* record, Mem_Ack ends an eviction.
L2Fills(k, l, out) ==
  \/ /\ k.st = "ISS" /\ out = Datas("DATA_EXCLUSIVE", k.getS, 0)
     /\ Holds(l, "MT_MB", k.sharers, k.exclusive, {}, None, 0)
  \/ /\ k.st = "IS" /\ out = Datas("DATA", k.getS, 0)
     /\ Holds(l, "SS", k.sharers, k.exclusive, {}, None, 0)
  \/ /\ k.st = "IM" /\ out = Datas("DATA", {k.getX}, 0)
     /\ Holds(l, "MT_MB", k.sharers, k.exclusive, {}, None, 0)

L2Evicts(k, l, out) ==
  /\ Holds(l, l.st, {}, None, k.getS, k.getX, Cardinality(k.sharers))
  /\ \/ k.st = "SS" /\ l.st \in Collected /\ out = Invs(k.sharers, "L2")
     \/ k.st = "MT" /\ l.st \in Recalled /\ out = Invs(k.sharers, "L2")
     \/ k.st = "M" /\ l.st = "M_I" /\ out = {}

L2Drops(k, l, out) == k.st = "M_I" /\ Holds(l, "NP", {}, None, {}, None, 0) /\ out = {}

L2Alone(k, l, out) == L2Fills(k, l, out) \/ L2Evicts(k, l, out) \/ L2Drops(k, l, out)

\* An event of the L2 that takes the messages of an L1 in use.
L2Event(k, l, use, out) ==
  \/ use = {} /\ L2Alone(k, l, out)
  \/ \E m \in use : use = {m} /\ L2Takes(k, l, m, out)
===============================================================================
