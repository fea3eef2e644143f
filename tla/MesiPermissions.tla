---------------------------- MODULE MesiPermissions ----------------------------
(***************************************************************************)
(* The permission protocol inside MESI_Two_Level: which cache may read and *)
(* which may write the block. Its state is what MesiTwoLevel shows of the  *)
(* L1 caches (st), of the acknowledgements their TBEs count (due), of the  *)
(* L2 line (bank) and of the messages between them (wire, a set of         *)
(* headers); its steps are the events of MesiEvents, one at a time. The    *)
(* invariant relates the four variables: every permission of an L1 is on   *)
(* record at the L2 or accounted for by a message under way.               *)
(* MesiPermissionsProofs shows that every event keeps it, and              *)
(* MesiTwoLevelProofs that MesiTwoLevel implements this protocol.          *)
(***************************************************************************)
EXTENDS MesiEvents

CONSTANT L1s

VARIABLES st, due, bank, wire

\* The caches can be counted: what the invariants and the proofs use of
\* Cardinality, stated so that no theory of finite sets is needed while the
\* events are checked. It holds of every finite set of caches.
Countable ==
  /\ Cardinality({}) = 0
  /\ \A S \in SUBSET L1s :
       /\ Cardinality(S) \in Nat
       /\ Cardinality(S) = 0 => S = {}
       /\ \A x \in S : Cardinality(S \ {x}) = Cardinality(S) - 1

Caches == "L2" \notin L1s /\ Countable

\* The part of the L2 line that permissions depend on.
Bank == [st : L2States, sharers : SUBSET L1s, exclusive : L1s \cup {None}, getS : SUBSET L1s,
         getX : L1s \cup {None}, pendingAcks : Int]

\* The caches and the L2 hold nothing and nothing is under way.
Init ==
  /\ st = [c \in L1s |-> "I"] /\ due = [c \in L1s |-> 0]
  /\ bank = [st |-> "NP", sharers |-> {}, exclusive |-> None, getS |-> {}, getX |-> None,
             pendingAcks |-> 0]
  /\ wire = {}

\* Cache c makes a transition, or the L2 does. The messages taken are those no
\* longer under way, the messages sent those that were not.
L1Moves(c) ==
  /\ L1Event(c, st[c], due[c], st'[c], due'[c], wire \ wire', wire' \ wire)
  /\ due'[c] \in Int
  /\ st' = [st EXCEPT ![c] = st'[c]] /\ due' = [due EXCEPT ![c] = due'[c]]
  /\ bank' = bank

L2Moves ==
  /\ L2Event(bank, bank', wire \ wire', wire' \ wire)
  /\ bank' \in Bank /\ st' = st /\ due' = due

Next == L2Moves \/ \E c \in L1s : L1Moves(c)

view == <<st, due, bank, wire>>

Spec == Init /\ [][Next]_view

--------------------------------------------------------------------------------
\* The invariant.

Types == st \in [L1s -> L1States] /\ due \in [L1s -> Int] /\ bank \in Bank

\* Who sends what to whom: the messages that the out_ports of the two machines
\* produce, with the acknowledgement counts they carry.
WellFormed ==
  \A h \in wire :
    \/ h.type \in Reading \cup Writing /\ h.src \in L1s /\ h.dst = "L2"
    \/ h.type \in Reading \cup Writing /\ h.src = "L2" /\ h.dst \in L1s /\ h.requestor \in L1s
    \/ h.type = "INV" /\ h.src = "L2" /\ h.dst \in L1s /\ h.requestor \in L1s \cup {"L2"}
                      /\ h.requestor # h.dst
    \/ h.type = "ACK" /\ h.src \in L1s /\ h.dst \in L1s \cup {"L2"} /\ h.acks = 1 /\ h.src # h.dst
    \/ h.type \in {"ACK", "DATA"} /\ h.src = "L2" /\ h.dst \in L1s /\ h.acks \in Int
    \/ h.type = "DATA" /\ h.src \in L1s /\ h.dst \in L1s \cup {"L2"} /\ h.acks = 0
    \/ h.type = "DATA_EXCLUSIVE" /\ h.src = "L2" /\ h.dst \in L1s
    \/ h.type \in {"UNBLOCK", "EXCLUSIVE_UNBLOCK", "PUTX"} /\ h.src \in L1s /\ h.dst = "L2"
    \/ h.type = "WB_ACK" /\ h.src = "L2" /\ h.dst \in L1s

\* The request of cache c on its way, forwarded or answered, and the request
\* the L2 has recorded in L2_GetS_IDs or L2_GetX_ID while memory is read.
Asks(h, c) ==
  \/ h.type \in Reading \cup Writing /\ (h.src = c \/ (h.src = "L2" /\ h.requestor = c))
  \/ h.type \in {"DATA", "DATA_EXCLUSIVE"} /\ h.dst = c
  \/ h.type = "ACK" /\ h.src = "L2" /\ h.dst = c

ReadRecorded(c) == bank.st \in {"IS", "ISS"} /\ c \in bank.getS
WriteRecorded(c) == bank.st = "IM" /\ c = bank.getX

\* A cache has one request or one answer under way, in one place.
OneAnswer ==
  \A c \in L1s : \A h \in wire : Asks(h, c) =>
     ~ReadRecorded(c) /\ ~WriteRecorded(c) /\ \A g \in wire : Asks(g, c) => g = h

\* What is under way for a cache fits the state it waits in.
Asking ==
  \A c \in L1s :
    /\ \A h \in wire : Asks(h, c) =>
         /\ h.type \in Reading \cup {"DATA_EXCLUSIVE"} => st[c] \in ReadStates
         /\ h.type \in Writing \cup {"ACK"} => st[c] \in WriteStates
         /\ h.type = "DATA" => st[c] \in ReadStates \cup WriteStates
    /\ ReadRecorded(c) => st[c] \in ReadStates
    /\ WriteRecorded(c) => st[c] \in WriteStates

\* Cache c has been given its turn to write and collects its data and its
\* acknowledgements; the three stages of a turn, between the L2 blocking the
\* line for c and c unblocking it.
Collecting(c) ==
  /\ st[c] \in WriteStates /\ ~WriteRecorded(c)
  /\ \A h \in wire : ~(h.type \in Writing /\ h.src = c)

Unblocking(c) == \E h \in wire : h.type = "EXCLUSIVE_UNBLOCK" /\ h.src = c

Turn(c) ==
  \/ Collecting(c)
  \/ Unblocking(c)
  \/ \E h \in wire : h.type = "DATA_EXCLUSIVE" /\ h.dst = c

\* The L2 gives one cache at a time the turn to own the line, and is blocked
\* while it does.
OneTurn ==
  \A c \in L1s : Turn(c) => bank.st \in Blocked /\ \A d \in L1s : Turn(d) => c = d

\* Cache d still has to acknowledge to c: the invalidation or the
\* acknowledgement is under way.
Owes(h, d, c) ==
  \/ h.type = "INV" /\ h.dst = d /\ h.requestor = c
  \/ h.type = "ACK" /\ h.src = d /\ h.dst = c

Debtors(c) == {d \in L1s : \E h \in wire : Owes(h, d, c)}

Reply(h, c) == h.type \in {"DATA", "ACK"} /\ h.src = "L2" /\ h.dst = c

\* The pendingAcks of a writer's TBE are the acknowledgements still to come:
\* the debtors before the reply, which carries minus their number, has been
\* counted, and after it.
Counts ==
  \A c \in L1s : st[c] \in WriteStates =>
    /\ ~Collecting(c) => due[c] = 0
    /\ Collecting(c) =>
        /\ \A h \in wire : Reply(h, c) => due[c] = Cardinality(Debtors(c)) + h.acks /\ due[c] <= 0
        /\ (\A h \in wire : ~Reply(h, c)) => due[c] = Cardinality(Debtors(c))

\* An invalidation belongs to the eviction or to the write in progress, and a
\* cache has at most one of them to answer.
Invalidations ==
  \A h \in wire :
    /\ h.type = "INV" => IF h.requestor = "L2" THEN bank.st \in Collected \cup Recalled
                         ELSE bank.st = "SS_MB" /\ Collecting(h.requestor)
    /\ h.type = "ACK" /\ h.src # "L2" =>
          IF h.dst = "L2" THEN bank.st \in Collected \cup Recalled
          ELSE bank.st = "SS_MB" /\ Collecting(h.dst)
    /\ \A g \in wire :
        /\ h.type = "INV" /\ g.type = "INV" /\ h.dst = g.dst => g = h
        /\ h.type = "ACK" /\ g.type = "ACK" /\ h.src # "L2" /\ h.src = g.src => g = h
        /\ ~(h.type = "INV" /\ g.type = "ACK" /\ h.dst = g.src)

\* The pendingAcks of the L2's TBE during an eviction of shared copies.
L2Counts == bank.st \in Collected => bank.pendingAcks = Cardinality(Debtors("L2"))

\* An eviction of an owned line waits for a single message: the invalidation
\* of the owner or the answer to it.
Recall(h) == h.type = "INV" \/ (h.type \in {"ACK", "DATA"} /\ h.dst = "L2")

OneRecall == bank.st \in Recalled => \A g, h \in wire : Recall(g) /\ Recall(h) => g = h

\* An owner serves a reader: the forwarded request, then the owner's data to
\* the reader and to the L2, then the reader's UNBLOCK.
Hand(h) ==
  \/ h.type \in Reading /\ h.src = "L2"
  \/ h.type = "DATA" /\ h.src \in L1s /\ h.dst \in L1s
  \/ h.type = "UNBLOCK"

HandOver ==
  \A h \in wire :
    /\ h.type \in Reading /\ h.src = "L2" =>
         /\ bank.st = "MT_IIB" /\ bank.sharers = {h.dst}
         /\ \A g \in wire : ~(g.type = "DATA" /\ g.dst = "L2")
    /\ h.type = "UNBLOCK" => bank.st \in {"MT_IIB", "MT_SB"} /\ st[h.src] # "M_I"
    /\ h.type = "DATA" /\ h.dst = "L2" => bank.st \in {"MT_IIB", "MT_IB"} \cup Recalled
    /\ h.type = "DATA" /\ h.src \in L1s /\ h.dst \in L1s =>
         IF st[h.dst] \in ReadStates THEN bank.st \in {"MT_IIB", "MT_SB"}
         ELSE bank.st = "MT_MB"
    /\ h.type \in Writing /\ h.src = "L2" => bank.st = "MT_MB"
    /\ \A g \in wire :
         /\ bank.st \in Handing /\ Hand(g) /\ Hand(h) => g = h
         /\ g.type = "DATA" /\ h.type = "DATA" /\ g.dst = "L2" /\ h.dst = "L2" => g = h
         /\ g.type \in Writing /\ h.type \in Writing /\ g.src = "L2" /\ h.src = "L2" => g = h

\* A write back: the PUTX under way, then its WB_ACK. Once the L2 has taken
\* the PUTX of a cache still in M_I, it no longer lists that cache and asks it
\* for nothing.
Put(c) == \E h \in wire : h.type = "PUTX" /\ h.src = c

WritingBack ==
  /\ \A h \in wire :
       /\ h.type = "PUTX" => st[h.src] \in {"M_I", "SINK_WB_ACK"}
       /\ h.type = "WB_ACK" => st[h.dst] \in {"M_I", "SINK_WB_ACK"} /\ ~Put(h.dst)
       /\ \A g \in wire :
            /\ h.type = "PUTX" /\ g.type = "PUTX" /\ h.src = g.src => g = h
            /\ h.type = "WB_ACK" /\ g.type = "WB_ACK" /\ h.dst = g.dst => g = h
  /\ \A c \in L1s : st[c] = "M_I" /\ ~Put(c) =>
       /\ c \notin bank.sharers
       /\ \A g \in wire : ~(g.type \in Reading \cup Writing \cup {"INV"} /\ g.dst = c)

\* Cache c may write, or is giving the only copy back.
Owns(c) == st[c] \in {"E", "M", "LLSC_E", "LLSC_M"} \/ (st[c] = "M_I" /\ Put(c))

\* Only the new owner unblocks the line.
Unblocks ==
  \A h \in wire : h.type = "EXCLUSIVE_UNBLOCK" =>
    Owns(h.src) /\ \A g \in wire : g.type = "EXCLUSIVE_UNBLOCK" => g = h

\* A cache that owns the line is the one the L2 has on record, or is about to
\* be recorded, or is being asked to give the line up.
Owned ==
  \A c \in L1s : Owns(c) =>
    \/ bank.st = "MT" /\ bank.exclusive = c
    \/ Unblocking(c)
    \/ \E h \in wire : h.src = "L2" /\ h.dst = c /\ h.type \in Reading \cup Writing
    \/ bank.st \in Recalled /\ \E h \in wire : h.type = "INV" /\ h.dst = c

\* Cache c may read and not write, or will when the data on its way arrives.
Shares(c) == st[c] = "S" \/ (st[c] = "IS" /\ \E h \in wire : h.type = "DATA" /\ h.dst = c)

\* A sharer is on record at the L2, or is being invalidated, or is about to be
\* recorded.
Shared ==
  \A c \in L1s : Shares(c) =>
    \/ bank.st \in Handing \cup {"SS"} /\ c \in bank.sharers
    \/ \E h \in wire : h.type = "INV" /\ h.dst = c
    \/ bank.st \in Handing /\ \E h \in wire : \/ h.type = "UNBLOCK" /\ h.src = c
                                              \/ h.type = "DATA" /\ h.src \in L1s /\ h.dst = c

\* The fields of the L2 line fit its state.
Directory ==
  /\ bank.st = "MT" => bank.exclusive \in L1s /\ bank.sharers = {bank.exclusive}
  /\ bank.st \in {"NP", "M", "IM", "M_I"} \cup Collected \cup Recalled => bank.sharers = {}
  /\ bank.st \in {"IS", "ISS"} => bank.getS \subseteq bank.sharers
  /\ bank.st \notin {"IS", "ISS"} => bank.getS = {}
  /\ bank.st = "ISS" => \A c, d \in bank.getS : c = d
  /\ bank.st = "IM" => bank.getX \in L1s

\* The inductive invariant of the protocol.
Coherent ==
  /\ Types /\ WellFormed /\ OneAnswer /\ Asking /\ OneTurn /\ Counts /\ Invalidations
  /\ L2Counts /\ OneRecall /\ HandOver /\ WritingBack /\ Unblocks /\ Owned /\ Shared
  /\ Directory

Safe == Caches /\ Coherent

\* What the protocol is for: while one cache may write the block, no other may
\* read or write it.
Exclusive ==
  \A c, d \in L1s : c # d /\ st[c] \in Owning => st[d] \notin Owning \cup {"S"}

\* Two lines that agree on permissions, and the shape of a step of an L1 cache
\* and of a step of the L2: the messages in use are consumed and those in out
\* are sent.
Same(a, b) ==
  /\ a.st = b.st /\ a.sharers = b.sharers /\ a.exclusive = b.exclusive
  /\ a.getS = b.getS /\ a.getX = b.getX /\ a.pendingAcks = b.pendingAcks

L1Step(c, s, n, use, out) ==
  /\ st' = [st EXCEPT ![c] = s] /\ due' = [due EXCEPT ![c] = n]
  /\ bank' \in Bank /\ Same(bank', [bank EXCEPT !.st = bank.st]) /\ wire' = (wire \ use) \cup out

L2Step(k, use, out) ==
  /\ st' = st /\ due' = due
  /\ bank' \in Bank /\ Same(bank', k) /\ wire' = (wire \ use) \cup out
================================================================================
