------------------------- MODULE MesiPermissionsProofs -------------------------
(***************************************************************************)
(* Every event of the protocol keeps the invariant of MesiPermissions. An  *)
(* event is what one transition of MESI_Two_Level-L1cache.sm or            *)
(* -L2cache.sm does to the permissions: the new state, the message it      *)
(* takes off the network and the messages it sends. Each lemma also says   *)
(* that what the event sends was not under way already, so that a set of   *)
(* messages is a faithful picture of the network. The events of the L1     *)
(* come first, then those of the L2.                                       *)
(***************************************************************************)
EXTENDS MesiPermissions, TLAPS

\* The caches that owe an acknowledgement to x are caches, and can be counted.
LEMMA DebtorsFinite ==
  ASSUME Countable, NEW x PROVE Debtors(x) \in SUBSET L1s /\ Cardinality(Debtors(x)) \in Nat
<1>1. Debtors(x) \in SUBSET L1s
  BY DEF Debtors
<1> QED
  BY <1>1 DEF Countable

\* No acknowledgements to come means no debtors.
LEMMA CountZero == ASSUME Countable, NEW S \in SUBSET L1s, Cardinality(S) = 0 PROVE S = {}
  BY DEF Countable

\* One acknowledgement received is one debtor less.
LEMMA CountLess ==
  ASSUME Countable, NEW S \in SUBSET L1s, NEW x \in S
  PROVE  Cardinality(S \ {x}) = Cardinality(S) - 1
  BY Zenon DEF Countable

\* When one acknowledgement is to come, its sender is the only debtor left.
LEMMA CountOne ==
  ASSUME Countable, NEW S \in SUBSET L1s, Cardinality(S) = 1, NEW x \in S PROVE S = {x}
<1>1. S \ {x} \in SUBSET L1s /\ Cardinality(S \ {x}) = 0
  BY CountLess
<1>2. S \ {x} = {}
  BY <1>1, CountZero
<1> QED
  BY <1>2

\* Nobody owes an acknowledgement to a cache that is not collecting.
LEMMA NoDebtors ==
  ASSUME Safe, NEW x \in L1s, ~Collecting(x) PROVE Debtors(x) = {} /\ Cardinality(Debtors(x)) = 0
<1>1. Debtors(x) = {}
  BY DEF Safe, Caches, Coherent, Invalidations, Debtors, Owes
<1> QED
  BY <1>1 DEF Safe, Caches, Countable

\* The count that d_sendDataToRequestor and ts_sendInvAckToUpgrader put in their reply is
\* minus the number of sharers invalidated, so that it cancels the acknowledgements.
LEMMA Negative ==
  ASSUME NEW n \in Nat, NEW k, k = 0 - n PROVE k \in Int /\ k <= 0 /\ n + k = 0
  OBVIOUS

\* A step that changes nothing the invariant reads keeps it.
LEMMA Untouched ==
  ASSUME Safe, st' = st, due' = due, bank' = bank, wire' = wire
  PROVE  Safe'
<1>0. Caches /\ Coherent
  BY DEF Safe
<1>1. Types' /\ WellFormed' /\ OneAnswer' /\ Asking' /\ Directory' /\ OneRecall'
  BY <1>0 DEF Coherent, Types, WellFormed, OneAnswer, Asking, Asks, ReadRecorded, WriteRecorded,
     Directory, OneRecall, Recall
<1>2. OneTurn' /\ Counts' /\ Invalidations' /\ L2Counts'
  <2>1. \A x : Debtors(x)' = Debtors(x) /\ (Collecting(x)' <=> Collecting(x))
    BY DEF Debtors, Owes, Collecting, WriteRecorded
  <2> QED
    BY <1>0, <2>1 DEF Coherent, OneTurn, Turn, Unblocking, Counts, Reply, Invalidations, L2Counts
<1>3. HandOver' /\ WritingBack' /\ Unblocks' /\ Owned' /\ Shared'
  BY <1>0 DEF Coherent, HandOver, Hand, WritingBack, Put, Unblocks, Owns, Owned, Unblocking, Shared,
     Shares
<1> QED
  BY <1>0, <1>1, <1>2, <1>3 DEF Safe, Caches, Coherent

\* A set of caches has a size, and taking a cache out makes it smaller by one.
LEMMA Counted ==
  ASSUME Countable, NEW S \in SUBSET L1s
  PROVE  /\ Cardinality(S) \in Nat
         /\ \A x \in S : Cardinality(S \ {x}) = Cardinality(S) - 1
  BY DEF Countable

\* The invariant excludes a cache that may write beside another that may read: the
\* directory of the L2 has one turn and one owner.
LEMMA OneWriter ==
  ASSUME Safe, NEW c \in L1s, NEW d \in L1s, c # d,
         st[c] \in {"E", "M", "LLSC_E", "LLSC_M"}, st[d] \in {"S", "E", "M", "LLSC_E", "LLSC_M"}
  PROVE  FALSE
<1>0. Caches /\ Coherent
  BY DEF Safe
<1> USE <1>0 DEF Caches, Coherent, Reading, Writing, WriteStates, ReadStates, Blocked, Collected,
             Recalled, Handing
<1> DEFINE Forwarded(x) == \E h \in wire : h.src = "L2" /\ h.dst = x /\ h.type \in Reading \cup Writing
           Invalidated(x) == \E h \in wire : h.type = "INV" /\ h.dst = x
<1>1. \A x \in L1s : st[x] \in {"E", "M", "LLSC_E", "LLSC_M"} =>
        \/ bank.st = "MT" /\ bank.exclusive = x
        \/ Unblocking(x) \/ Forwarded(x) \/ (bank.st \in Recalled /\ Invalidated(x))
  BY DEF Owned, Owns
<1>2. st[d] = "S" =>
        \/ bank.st \in Handing \cup {"SS"} /\ d \in bank.sharers
        \/ Invalidated(d)
        \/ bank.st \in Handing /\ \E h \in wire : Hand(h) /\ h.src # "L2"
  BY DEF Shared, Shares, Hand, WellFormed
<1>3. \A x \in L1s : Unblocking(x) => bank.st \in Blocked /\ \A y \in L1s : Turn(y) => x = y
  BY DEF OneTurn, Turn
<1>4. \A x \in L1s : Invalidated(x) =>
        \/ bank.st \in Collected \cup Recalled
        \/ bank.st = "SS_MB" /\ \E q \in L1s : Turn(q) /\ st[q] \in WriteStates
  BY DEF Invalidations, WellFormed, Turn, Collecting
<1>5. \A x \in L1s : Forwarded(x) =>
        \/ bank.st = "MT_IIB" /\ bank.sharers = {x}
        \/ bank.st = "MT_MB" /\ \E q \in L1s : Turn(q) /\ st[q] \in WriteStates
  <2>1. SUFFICES ASSUME NEW x \in L1s, NEW h \in wire, h.src = "L2", h.dst = x, h.type \in Writing
                 PROVE  bank.st = "MT_MB" /\ \E q \in L1s : Turn(q) /\ st[q] \in WriteStates
    BY DEF HandOver
  <2>2. h.requestor \in L1s /\ Asks(h, h.requestor) /\ bank.st = "MT_MB"
    BY <2>1 DEF WellFormed, Asks, HandOver
  <2>3. st[h.requestor] \in WriteStates /\ ~WriteRecorded(h.requestor)
    BY <2>1, <2>2 DEF Asking, OneAnswer
  <2>4. \A g \in wire : ~(g.type \in Writing /\ g.src = h.requestor)
    BY <2>1, <2>2 DEF OneAnswer, Asks
  <2> QED
    BY <2>2, <2>3, <2>4 DEF Turn, Collecting
<1>6. Forwarded(c) => ~Forwarded(d)
  BY <1>5 DEF HandOver
<1>7. bank.st \in Recalled /\ Invalidated(c) => ~Invalidated(d)
  BY DEF OneRecall, Recall
<1>8. Forwarded(c) /\ bank.st = "MT_IIB" => \A h \in wire : Hand(h) => h.src = "L2"
  BY <1>5 DEF HandOver, Hand
<1>9. st[c] \notin WriteStates /\ st[d] \notin WriteStates
  OBVIOUS
<1>10. Turn(d) => ~Unblocking(c)
  BY <1>3
<1>11. Unblocking(d) => Turn(d)
  BY DEF Turn
<1> HIDE DEF Forwarded, Invalidated, Coherent
<1> QED
  BY <1>1, <1>2, <1>3, <1>4, <1>5, <1>6, <1>7, <1>8, <1>9, <1>10, <1>11

\* All caches invalid, no block at the L2 and no message under way is a safe state: the
\* state in which the controllers start.
LEMMA Starts ==
  ASSUME Caches, st = [c \in L1s |-> "I"], due = [c \in L1s |-> 0], wire = {}, bank \in Bank,
         bank.st = "NP", bank.sharers = {}, bank.getS = {}
  PROVE  Safe
<1> USE DEF Caches, Reading, Writing, ReadStates, WriteStates, Blocked, Collected, Recalled, Handing
<1>1. Types /\ WellFormed /\ OneAnswer /\ Asking /\ Directory /\ OneRecall
  BY DEF Types, WellFormed, OneAnswer, Asking, ReadRecorded, WriteRecorded, Directory, OneRecall,
     L1States
<1>2. OneTurn /\ Counts /\ Invalidations /\ L2Counts
  BY DEF OneTurn, Turn, Collecting, Unblocking, Counts, Invalidations, L2Counts
<1>3. HandOver /\ WritingBack /\ Unblocks /\ Owned /\ Shared
  BY DEF HandOver, WritingBack, Unblocks, Owned, Owns, Shared, Shares
<1> QED
  BY <1>1, <1>2, <1>3 DEF Safe, Coherent
\* Hits, LL/SC timeouts and the silent drop of a shared copy (L1cache.sm, transitions on
\* Load, Ifetch, Store and LLSC_Timeout, and L1_Replacement in S).
LEMMA Settle ==
  ASSUME Safe, NEW c \in L1s, NEW s,
         \/ s = st[c] /\ s \notin WriteStates
         \/ st[c] = "S" /\ s = "I"
         \/ st[c] \in {"E", "M", "LLSC_E", "LLSC_M"} /\ s \in {"E", "M", "LLSC_E", "LLSC_M"},
         NEW n \in Int,
         L1Step(c, s, n, {}, {})
  PROVE  Safe'
<1>0. Caches /\ Coherent
  BY DEF Safe
<1> USE <1>0 DEF Caches, Coherent, Reading, Writing, ReadStates, WriteStates, Blocked,
      Collected, Recalled, Handing, L1Step, L2Step, Same, Head, L1States, L2States, Bank, Types,
      WellFormed
<1>d. \A x \in L1s \cup {"L2"} : Debtors(x)' = Debtors(x)
  BY DEF Debtors, Owes
<1>1. Types' /\ WellFormed' /\ OneAnswer' /\ Asking' /\ Directory' /\ OneRecall'
  BY DEF OneAnswer, Asking, Asks, ReadRecorded, WriteRecorded, Directory, OneRecall, Recall
<1>2. OneTurn' /\ Counts' /\ Invalidations' /\ L2Counts'
  BY <1>d DEF OneTurn, Turn, Collecting, Unblocking, WriteRecorded, Counts, Reply,
     Invalidations, L2Counts
<1>3. HandOver'
  BY DEF HandOver, Hand
<1>4. WritingBack' /\ Unblocks' /\ Owned' /\ Shared'
  BY DEF WritingBack, Put, Unblocks, Owns, Owned, Unblocking, Shared, Shares
<1> HIDE DEF Types, WellFormed, L1Step, L2Step, Head
<1> QED
  BY <1>1, <1>2, <1>3, <1>4 DEF Safe

\* A miss or an upgrade in an L1: a_issueGETS, ai_issueGETINSTR, b_issueGETX,
\* c_issueUPGRADE.
LEMMA Miss ==
  ASSUME Safe, NEW c \in L1s, NEW s, NEW t, NEW n \in Int,
         \/ st[c] = "I" /\ t \in Reading /\ s = "IS"
         \/ st[c] = "I" /\ t = "GETX" /\ s = "IM" /\ n = 0
         \/ st[c] = "S" /\ t = "UPGRADE" /\ s = "SM" /\ n = 0,
         L1Step(c, s, n, {}, {Head(t, c, "L2", None, 0)})
  PROVE  Safe' /\ (wire \ {}) \cap {Head(t, c, "L2", None, 0)} = {}
<1>0. Caches /\ Coherent
  BY DEF Safe
<1> USE <1>0 DEF Caches, Coherent, Reading, Writing, ReadStates, WriteStates, Blocked,
      Collected, Recalled, Handing, L1Step, L2Step, Same, Head, L1States, L2States, Bank, Types,
      WellFormed
<1>w. Head(t, c, "L2", None, 0) \in wire'
  OBVIOUS
<1>v. st'[c] = s
  OBVIOUS
<1>a. ~Collecting(c)'
  <2> HIDE DEF L1Step
  <2> QED BY <1>v, <1>w DEF Collecting
<1>b. \A d \in L1s \ {c} : Collecting(d)' <=> Collecting(d)
  BY DEF Collecting, WriteRecorded
<1>d. \A x \in L1s \cup {"L2"} : Debtors(x)' = Debtors(x)
  BY DEF Debtors, Owes
<1>1. (wire \ {}) \cap {Head(t, c, "L2", None, 0)} = {}
  BY DEF OneAnswer, Asking, Asks, ReadRecorded, WriteRecorded
<1>2. Types' /\ WellFormed' /\ OneAnswer' /\ Asking' /\ Directory' /\ OneRecall'
  BY DEF OneAnswer, Asking, Asks, ReadRecorded, WriteRecorded, Directory, OneRecall, Recall
<1>3. OneTurn' /\ Counts' /\ Invalidations' /\ L2Counts'
  BY <1>a, <1>b, <1>d DEF OneTurn, Turn, Unblocking, Counts, Reply, Invalidations, Collecting,
     WriteRecorded, L2Counts
<1>4. HandOver'
  BY DEF HandOver, Hand, Asking, Asks
<1>5. WritingBack' /\ Unblocks' /\ Owned' /\ Shared'
  BY DEF WritingBack, Put, Unblocks, Owns, Owned, Unblocking, Shared, Shares, Asking, Asks
<1> HIDE DEF Types, WellFormed, L1Step, L2Step, Head
<1> QED
  BY <1>1, <1>2, <1>3, <1>4, <1>5 DEF Safe

\* An L1 replaces a block it owns: g_issuePUTX and state M_I.
LEMMA PutBack ==
  ASSUME Safe, NEW c \in L1s, st[c] \in {"E", "M"}, NEW n \in Int,
         L1Step(c, "M_I", n, {}, {Head("PUTX", c, "L2", None, 0)})
  PROVE  Safe' /\ (wire \ {}) \cap {Head("PUTX", c, "L2", None, 0)} = {}
<1>0. Caches /\ Coherent
  BY DEF Safe
<1> USE <1>0 DEF Caches, Coherent, Reading, Writing, ReadStates, WriteStates, Blocked,
      Collected, Recalled, Handing, L1Step, L2Step, Same, Head, L1States, L2States, Bank, Types,
      WellFormed
<1>w. Head("PUTX", c, "L2", None, 0) \in wire'
  OBVIOUS
<1>v. Put(c)'
  <2> HIDE DEF L1Step
  <2> QED BY <1>w DEF Put
<1>p. Put(c)' /\ \A d \in L1s : Put(d) => Put(d)'
  BY <1>v DEF Put
<1>d. \A x \in L1s \cup {"L2"} : Debtors(x)' = Debtors(x)
  BY DEF Debtors, Owes
<1>1. (wire \ {}) \cap {Head("PUTX", c, "L2", None, 0)} = {}
  BY DEF OneAnswer, Asking, Asks, ReadRecorded, WriteRecorded, WritingBack
<1>2. Types' /\ WellFormed' /\ OneAnswer' /\ Asking' /\ Directory' /\ OneRecall'
  BY DEF OneAnswer, Asking, Asks, ReadRecorded, WriteRecorded, Directory, OneRecall, Recall
<1>3. OneTurn' /\ Counts' /\ Invalidations' /\ L2Counts'
  BY <1>d DEF OneTurn, Turn, Collecting, Unblocking, WriteRecorded, Counts, Reply,
     Invalidations, L2Counts
<1>4. HandOver'
  BY DEF HandOver, Hand, Owned, Owns, Put, Unblocking, OneTurn, Turn
<1>5. WritingBack' /\ Unblocks' /\ Owned' /\ Shared'
  BY <1>p DEF WritingBack, Put, Unblocks, Owns, Owned, Unblocking, Shared, Shares
<1> HIDE DEF Types, WellFormed, L1Step, L2Step, Head
<1> QED
  BY <1>1, <1>2, <1>3, <1>4, <1>5 DEF Safe

\* An L1 answers an invalidation: fi_sendInvAck, from every state in which it has no block
\* to give back.
LEMMA Acknowledge ==
  ASSUME Safe, NEW c \in L1s, NEW m \in wire, m.type = "INV", m.dst = c, NEW s, NEW n \in Int,
         \/ st[c] \in {"I", "S", "E"} /\ s = "I"
         \/ st[c] \in ReadStates /\ s = "IS_I"
         \/ st[c] \in WriteStates /\ s = "IM" /\ n = due[c]
         \/ st[c] = "SINK_WB_ACK" /\ s = "SINK_WB_ACK",
         L1Step(c, s, n, {m}, {Head("ACK", c, m.requestor, None, 1)})
  PROVE  Safe' /\ (wire \ {m}) \cap {Head("ACK", c, m.requestor, None, 1)} = {}
<1>0. Caches /\ Coherent
  BY DEF Safe
<1> USE <1>0 DEF Caches, Coherent, Reading, Writing, ReadStates, WriteStates, Blocked,
      Collected, Recalled, Handing, L1Step, L2Step, Same, Head, L1States, L2States, Bank, Types,
      WellFormed
<1>u. ~Unblocking(c)
  BY DEF OneTurn, Turn, Unblocking, Invalidations
<1>o. \A d \in L1s, x \in L1s \cup {"L2"} :
         Owes(Head("ACK", c, m.requestor, None, 1), d, x) <=> Owes(m, d, x)
  BY DEF Owes
<1>d. \A x \in L1s \cup {"L2"} : Debtors(x)' = Debtors(x)
  BY <1>o DEF Debtors
<1>1. (wire \ {m}) \cap {Head("ACK", c, m.requestor, None, 1)} = {}
  BY DEF OneAnswer, Asking, Asks, ReadRecorded, WriteRecorded, Invalidations
<1>2. Types' /\ WellFormed' /\ OneAnswer' /\ Asking' /\ Directory' /\ OneRecall'
  BY DEF OneAnswer, Asking, Asks, ReadRecorded, WriteRecorded, Directory, OneRecall, Recall
<1>3. OneTurn' /\ Counts' /\ Invalidations' /\ L2Counts'
  BY <1>d DEF OneTurn, Turn, Collecting, Unblocking, WriteRecorded, Counts, Reply,
     Invalidations, L2Counts
<1>4. HandOver'
  BY DEF HandOver, Hand
<1>5. WritingBack' /\ Unblocks' /\ Owned' /\ Shared'
  BY <1>u DEF WritingBack, Put, Unblocks, Owns, Unblocking, Owned, Shared, Shares
<1> HIDE DEF Types, WellFormed, L1Step, L2Step, Head
<1> QED
  BY <1>1, <1>2, <1>3, <1>4, <1>5 DEF Safe

\* The owner of a block the L2 evicts sends it back: f_sendDataToL2,
\* ft_sendDataToL2_fromTBE.
LEMMA InvOwner ==
  ASSUME Safe, NEW c \in L1s, NEW m \in wire, m.type = "INV", m.dst = c, NEW s,
         \/ st[c] = "M" /\ s = "I"
         \/ st[c] = "M_I" /\ s = "SINK_WB_ACK",
         NEW n \in Int,
         L1Step(c, s, n, {m}, {Head("DATA", c, "L2", None, 0)})
  PROVE  Safe' /\ (wire \ {m}) \cap {Head("DATA", c, "L2", None, 0)} = {}
<1>0. Caches /\ Coherent
  BY DEF Safe
<1> USE <1>0 DEF Caches, Coherent, Reading, Writing, ReadStates, WriteStates, Blocked,
      Collected, Recalled, Handing, L1Step, L2Step, Same, Head, L1States, L2States, Bank, Types,
      WellFormed
<1>u. ~Unblocking(c)
  BY DEF OneTurn, Turn, Unblocking, Invalidations
<1>p. Owns(c)
  BY DEF Owns, WritingBack
<1>o. bank.st \in Recalled /\ m.requestor = "L2"
  BY <1>u, <1>p DEF Owned, Unblocking, Invalidations, HandOver
<1>d. \A x \in L1s : Debtors(x)' = Debtors(x)
  BY <1>o DEF Debtors, Owes
<1>1. (wire \ {m}) \cap {Head("DATA", c, "L2", None, 0)} = {}
  BY <1>o DEF OneAnswer, Asking, Asks, ReadRecorded, WriteRecorded, OneRecall, Recall
<1>2. Types' /\ WellFormed' /\ OneAnswer' /\ Asking' /\ Directory' /\ OneRecall'
  BY DEF OneAnswer, Asking, Asks, ReadRecorded, WriteRecorded, Directory, OneRecall, Recall
<1>3. OneTurn' /\ Counts' /\ Invalidations' /\ L2Counts'
  BY <1>d, <1>o DEF OneTurn, Turn, Collecting, Unblocking, WriteRecorded, Counts, Reply,
     Invalidations, L2Counts
<1>4. HandOver'
  BY <1>o DEF HandOver, Hand, OneRecall, Recall
<1>5. WritingBack' /\ Unblocks' /\ Owned' /\ Shared'
  BY <1>u DEF WritingBack, Put, Unblocks, Owns, Unblocking, Owned, Shared, Shares
<1> HIDE DEF Types, WellFormed, L1Step, L2Step, Head
<1> QED
  BY <1>1, <1>2, <1>3, <1>4, <1>5 DEF Safe

\* The owner hands the block over to a writer: d_sendDataToRequestor,
\* dt_sendDataToRequestor_fromTBE on Fwd_GETX.
LEMMA FwdWrite ==
  ASSUME Safe, NEW c \in L1s, NEW m \in wire, m.type \in Writing, m.dst = c, NEW s,
         \/ st[c] \in {"E", "M"} /\ s = "I"
         \/ st[c] = "M_I" /\ s = "SINK_WB_ACK",
         NEW n \in Int,
         L1Step(c, s, n, {m}, {Head("DATA", c, m.requestor, None, 0)})
  PROVE  Safe' /\ (wire \ {m}) \cap {Head("DATA", c, m.requestor, None, 0)} = {}
<1>0. Caches /\ Coherent
  BY DEF Safe
<1> USE <1>0 DEF Caches, Coherent, Reading, Writing, ReadStates, WriteStates, Blocked,
      Collected, Recalled, Handing, L1Step, L2Step, Same, Head, L1States, L2States, Bank, Types,
      WellFormed
<1>r. bank.st = "MT_MB" /\ Collecting(m.requestor) /\ m.requestor # c
  BY DEF HandOver, Collecting, OneAnswer, Asking, Asks
<1>u. ~Unblocking(c)
  BY <1>r DEF OneTurn, Turn
<1>d. \A x \in L1s \cup {"L2"} : Debtors(x)' = Debtors(x)
  BY DEF Debtors, Owes
<1>1. (wire \ {m}) \cap {Head("DATA", c, m.requestor, None, 0)} = {}
  BY DEF OneAnswer, Asking, Asks, ReadRecorded, WriteRecorded
<1>2. Types' /\ WellFormed' /\ OneAnswer' /\ Asking' /\ Directory' /\ OneRecall'
  BY DEF OneAnswer, Asking, Asks, ReadRecorded, WriteRecorded, Directory, OneRecall, Recall
<1>3. OneTurn' /\ Counts' /\ Invalidations' /\ L2Counts'
  BY <1>d DEF OneTurn, Turn, Collecting, Unblocking, WriteRecorded, Counts, Reply,
     Invalidations, L2Counts
<1>4. HandOver'
  BY <1>r DEF HandOver, Hand, Collecting
<1>5. WritingBack' /\ Unblocks' /\ Owned' /\ Shared'
  BY <1>u, <1>r DEF WritingBack, Put, Unblocks, Owns, Unblocking, Owned, Shared, Shares,
     Collecting
<1> HIDE DEF Types, WellFormed, L1Step, L2Step, Head
<1> QED
  BY <1>1, <1>2, <1>3, <1>4, <1>5 DEF Safe

\* The owner shares the block with a reader and the L2: d_sendDataToRequestor with
\* d2_sendDataToL2, on Fwd_GETS and Fwd_GET_INSTR.
LEMMA FwdRead ==
  ASSUME Safe, NEW c \in L1s, NEW m \in wire, m.type \in Reading, m.dst = c, NEW s,
         \/ st[c] \in {"E", "M"} /\ s = "S"
         \/ st[c] = "M_I" /\ s = "SINK_WB_ACK",
         NEW n \in Int,
         L1Step(c, s, n, {m}, {Head("DATA", c, m.requestor, None, 0), Head("DATA", c, "L2",
                None, 0)})
  PROVE  Safe' /\ (wire \ {m}) \cap {Head("DATA", c, m.requestor, None, 0), Head("DATA", c,
         "L2", None, 0)} = {}
<1>0. Caches /\ Coherent
  BY DEF Safe
<1> USE <1>0 DEF Caches, Coherent, Reading, Writing, ReadStates, WriteStates, Blocked,
      Collected, Recalled, Handing, L1Step, L2Step, Same, Head, L1States, L2States, Bank, Types,
      WellFormed
<1>r. /\ bank.st = "MT_IIB" /\ bank.sharers = {c} /\ m.requestor # c
      /\ st[m.requestor] \in ReadStates
  BY DEF HandOver, Asking, Asks
<1>u. ~Unblocking(c)
  BY <1>r DEF OneTurn, Turn
<1>d. \A x \in L1s \cup {"L2"} : Debtors(x)' = Debtors(x)
  BY DEF Debtors, Owes
<1>1. (wire \ {m}) \cap {Head("DATA", c, m.requestor, None, 0), Head("DATA", c, "L2", None, 0)}
     = {}
  BY <1>r DEF OneAnswer, Asking, Asks, ReadRecorded, WriteRecorded, HandOver
<1>2. Types' /\ WellFormed' /\ OneAnswer' /\ Asking' /\ Directory' /\ OneRecall'
  BY <1>r DEF OneAnswer, Asking, Asks, ReadRecorded, WriteRecorded, Directory, OneRecall, Recall
<1>3. OneTurn' /\ Counts' /\ Invalidations' /\ L2Counts'
  BY <1>d DEF OneTurn, Turn, Collecting, Unblocking, WriteRecorded, Counts, Reply,
     Invalidations, L2Counts
<1>4. HandOver'
  BY <1>r DEF HandOver, Hand
<1>5. WritingBack' /\ Unblocks' /\ Owned' /\ Shared'
  BY <1>u, <1>r DEF WritingBack, Put, Unblocks, Owns, Unblocking, Owned, Shared, Shares
<1> HIDE DEF Types, WellFormed, L1Step, L2Step, Head
<1> QED
  BY <1>1, <1>2, <1>3, <1>4, <1>5 DEF Safe

\* A reader is given an exclusive copy and unblocks the L2: Data_Exclusive,
\* jj_sendExclusiveUnblock.
LEMMA DataExclusive ==
  ASSUME Safe, NEW c \in L1s, NEW m \in wire, m.type = "DATA_EXCLUSIVE", m.dst = c, st[c] \in
         ReadStates, NEW n \in Int,
         L1Step(c, "E", n, {m}, {Head("EXCLUSIVE_UNBLOCK", c, "L2", None, 0)})
  PROVE  Safe' /\ (wire \ {m}) \cap {Head("EXCLUSIVE_UNBLOCK", c, "L2", None, 0)} = {}
<1>0. Caches /\ Coherent
  BY DEF Safe
<1> USE <1>0 DEF Caches, Coherent, Reading, Writing, ReadStates, WriteStates, Blocked,
      Collected, Recalled, Handing, L1Step, L2Step, Same, Head, L1States, L2States, Bank, Types,
      WellFormed
<1>w. Head("EXCLUSIVE_UNBLOCK", c, "L2", None, 0) \in wire'
  OBVIOUS
<1>v. Unblocking(c)'
  <2> HIDE DEF L1Step
  <2> QED BY <1>w DEF Unblocking
<1>x. \A d \in L1s : Unblocking(d) => Unblocking(d)'
  BY DEF Unblocking
<1>u. \A d \in L1s : ~Unblocking(d)
  BY DEF OneTurn, Turn, Unblocking, Unblocks, Owns
<1>d. \A x \in L1s \cup {"L2"} : Debtors(x)' = Debtors(x)
  BY DEF Debtors, Owes
<1>1. (wire \ {m}) \cap {Head("EXCLUSIVE_UNBLOCK", c, "L2", None, 0)} = {}
  BY <1>u DEF OneAnswer, Asking, Asks, ReadRecorded, WriteRecorded, Unblocking
<1>2. Types' /\ WellFormed' /\ OneAnswer' /\ Asking' /\ Directory' /\ OneRecall'
  BY DEF OneAnswer, Asking, Asks, ReadRecorded, WriteRecorded, Directory, OneRecall, Recall
<1>3. OneTurn' /\ Counts' /\ Invalidations' /\ L2Counts'
  BY <1>d DEF OneTurn, Turn, Collecting, Unblocking, WriteRecorded, Counts, Reply,
     Invalidations, L2Counts
<1>4. HandOver'
  BY DEF HandOver, Hand, OneAnswer, Asks
<1>5. WritingBack' /\ Unblocks' /\ Owned' /\ Shared'
  BY <1>u, <1>v, <1>x DEF WritingBack, Put, Unblocks, Owns, Unblocking, Owned, Shared, Shares
<1> HIDE DEF Types, WellFormed, L1Step, L2Step, Head
<1> QED
  BY <1>1, <1>2, <1>3, <1>4, <1>5 DEF Safe

\* A reader is given a shared copy, by the L2 or by the owner (then j_sendUnblock tells
\* the L2).
LEMMA ReadData ==
  ASSUME Safe, NEW c \in L1s, NEW m \in wire, m.type = "DATA", m.dst = c, NEW s,
         \/ st[c] = "IS" /\ s = "S"
         \/ st[c] = "IS_I" /\ s = "I",
         NEW n \in Int, NEW out, out = IF m.src = "L2" THEN {} ELSE {Head("UNBLOCK", c, "L2",
         None, 0)},
         L1Step(c, s, n, {m}, out)
  PROVE  Safe' /\ (wire \ {m}) \cap out = {}
<1>0. Caches /\ Coherent
  BY DEF Safe
<1> USE <1>0 DEF Caches, Coherent, Reading, Writing, ReadStates, WriteStates, Blocked,
      Collected, Recalled, Handing, L1Step, L2Step, Same, Head, L1States, L2States, Bank, Types,
      WellFormed
<1>d. \A x \in L1s \cup {"L2"} : Debtors(x)' = Debtors(x)
  BY DEF Debtors, Owes
<1>1. (wire \ {m}) \cap out = {}
  BY DEF OneAnswer, Asking, Asks, ReadRecorded, WriteRecorded, HandOver, Hand
<1>2. Types' /\ WellFormed' /\ OneAnswer' /\ Asking' /\ Directory' /\ OneRecall'
  BY DEF OneAnswer, Asking, Asks, ReadRecorded, WriteRecorded, Directory, OneRecall, Recall
<1>3. OneTurn' /\ Counts' /\ Invalidations' /\ L2Counts'
  BY <1>d DEF OneTurn, Turn, Collecting, Unblocking, WriteRecorded, Counts, Reply,
     Invalidations, L2Counts
<1>4. HandOver'
  BY DEF HandOver, Hand, OneAnswer, Asks
<1>5. WritingBack' /\ Unblocks' /\ Owned'
  BY DEF WritingBack, Put, Unblocks, Owns, Owned, Unblocking
<1>6. Shared'
  <2> DEFINE u == Head("UNBLOCK", c, "L2", None, 0)
  <2>1. m.src # "L2" => u \in wire' /\ u.type = "UNBLOCK" /\ u.src = c /\ bank'.st \in Handing
    BY DEF HandOver
  <2>2. \A d \in L1s \ {c}, h \in wire : h.dst = d => h \in wire'
    OBVIOUS
  <2>3. m.src = "L2" => \A h \in wire : ~(h.type = "DATA" /\ h.src \in L1s /\ h.dst = c)
    BY DEF OneAnswer, Asks
  <2>4. \A h \in wire : h.type # "DATA" => h \in wire'
    OBVIOUS
  <2> HIDE DEF u
  <2> QED
    BY <2>1, <2>2, <2>3, <2>4 DEF Shared, Shares
<1> HIDE DEF Types, WellFormed, L1Step, L2Step, Head
<1> QED
  BY <1>1, <1>2, <1>3, <1>4, <1>5, <1>6 DEF Safe

\* The last message a writer waits for arrives, and it owns the block: Data_all_Acks,
\* Ack_all.
LEMMA Complete ==
  ASSUME Safe, NEW c \in L1s, NEW m \in wire, m.type \in {"DATA", "ACK"}, m.dst = c,
         \/ st[c] = "IM" /\ m.type = "DATA"
         \/ st[c] = "SM" /\ m.type = "ACK",
         due[c] = m.acks, NEW s \in {"M", "LLSC_E"}, NEW n \in Int,
         L1Step(c, s, n, {m}, {Head("EXCLUSIVE_UNBLOCK", c, "L2", None, 0)})
  PROVE  Safe' /\ (wire \ {m}) \cap {Head("EXCLUSIVE_UNBLOCK", c, "L2", None, 0)} = {}
<1>0. Caches /\ Coherent
  BY DEF Safe
<1> USE <1>0 DEF Caches, Coherent, Reading, Writing, ReadStates, WriteStates, Blocked,
      Collected, Recalled, Handing, L1Step, L2Step, Same, Head, L1States, L2States, Bank, Types,
      WellFormed
<1>w. Head("EXCLUSIVE_UNBLOCK", c, "L2", None, 0) \in wire'
  OBVIOUS
<1>v. Unblocking(c)'
  <2> HIDE DEF L1Step
  <2> QED BY <1>w DEF Unblocking
<1>x. \A d \in L1s : Unblocking(d) => Unblocking(d)'
  BY DEF Unblocking
<1>c. Collecting(c) /\ (m.src # "L2" /\ m.type = "ACK" => bank.st = "SS_MB")
  BY DEF Collecting, OneAnswer, Asks, Invalidations
<1>u. \A d \in L1s : Turn(d) => d = c
  BY <1>c DEF OneTurn, Turn
<1>k. \A d \in L1s : ~Unblocking(d)
  BY <1>u DEF Turn, Unblocking, Unblocks, Owns
<1> DEFINE Paid == \A h \in wire \ {m} :
                     ~Asks(h, c) /\ ~(h.type = "INV" /\ h.requestor = c) /\ ~(h.type = "ACK" /\ h.dst = c)
<1>e. Paid
  <2>1. CASE Reply(m, c)
    <3>1. Cardinality(Debtors(c)) = 0
      BY <1>c, <2>1, DebtorsFinite DEF Counts, Reply
    <3>2. Debtors(c) = {}
      BY <3>1, DebtorsFinite, CountZero
    <3> QED
      BY <2>1, <3>2 DEF Debtors, Owes, Reply, OneAnswer, Asks
  <2>2. CASE m.src \in L1s /\ m.type = "DATA"
    BY <2>2 DEF HandOver, Invalidations, OneAnswer, Asks
  <2>3. CASE m.src \in L1s /\ m.type = "ACK"
    <3>1. \A h \in wire : ~Reply(h, c)
      BY <1>c, <2>3 DEF Counts
    <3>2. Cardinality(Debtors(c)) = 1 /\ m.src \in Debtors(c)
      BY <1>c, <2>3, <3>1 DEF Counts, Debtors, Owes
    <3>3. Debtors(c) = {m.src}
      BY <3>2, DebtorsFinite, CountOne
    <3>4. \A h \in wire \ {m} : ~(h.type = "INV" /\ h.requestor = c) /\ ~(h.type = "ACK" /\ h.dst = c)
      BY <2>3, <3>1, <3>3 DEF Debtors, Owes, Invalidations, Reply
    <3> QED
      BY <1>c, <2>3, <3>1, <3>4 DEF Collecting, HandOver, Asks, Asking, Reply
  <2> QED
    BY <2>1, <2>2, <2>3 DEF Reply
<1>b. ~Collecting(c)' /\ \A d \in L1s \ {c} : Collecting(d)' <=> Collecting(d)
  BY DEF Collecting, WriteRecorded
<1>d. \A x \in (L1s \cup {"L2"}) \ {c} : Debtors(x)' = Debtors(x)
  BY DEF Debtors, Owes
<1>1. (wire \ {m}) \cap {Head("EXCLUSIVE_UNBLOCK", c, "L2", None, 0)} = {}
  BY <1>k DEF OneAnswer, Asking, Asks, ReadRecorded, WriteRecorded, Unblocking
<1>2. Types' /\ WellFormed' /\ OneAnswer' /\ Asking' /\ Directory' /\ OneRecall'
  BY <1>c, <1>e DEF OneAnswer, Asking, Asks, ReadRecorded, WriteRecorded, Collecting, Directory,
     OneRecall, Recall
<1>3. OneTurn' /\ Counts' /\ Invalidations' /\ L2Counts'
  BY <1>b, <1>u, <1>c, <1>k, <1>d, <1>e DEF OneTurn, Turn, Unblocking, Counts, Reply,
     Invalidations, L2Counts
<1>4. HandOver'
  BY DEF HandOver, Hand
<1>5. WritingBack' /\ Unblocks' /\ Owned' /\ Shared'
  BY <1>k, <1>v, <1>x DEF WritingBack, Put, Unblocks, Owns, Unblocking, Owned, Shared, Shares
<1> HIDE DEF Types, WellFormed, L1Step, L2Step, Head
<1> QED
  BY <1>1, <1>2, <1>3, <1>4, <1>5 DEF Safe

\* A writer receives its data or an acknowledgement and still waits for others: Data, Ack,
\* q_updateAckCount.
LEMMA More ==
  ASSUME Safe, NEW c \in L1s, NEW m \in wire, m.type \in {"DATA", "ACK"}, m.dst = c, NEW s,
         \/ st[c] = "IM" /\ m.type = "DATA" /\ s = "SM"
         \/ st[c] \in WriteStates /\ m.type = "ACK" /\ s = st[c],
         due[c] # m.acks,
         L1Step(c, s, due[c] - m.acks, {m}, {})
  PROVE  Safe'
<1>0. Caches /\ Coherent
  BY DEF Safe
<1> USE <1>0 DEF Caches, Coherent, Reading, Writing, ReadStates, WriteStates, Blocked,
      Collected, Recalled, Handing, L1Step, L2Step, Same, Head, L1States, L2States, Bank, Types,
      WellFormed
<1>c. Collecting(c) /\ Collecting(c)' /\ \A d \in L1s \ {c} : Collecting(d)' <=> Collecting(d)
  BY DEF Collecting, OneAnswer, Asks, Invalidations, WriteRecorded
<1>g. m.type = "DATA" => m.src = "L2"
  <2> SUFFICES ASSUME m.type = "DATA", m.src # "L2" PROVE FALSE
    OBVIOUS
  <2>1. m.acks = 0 /\ bank.st = "MT_MB"
    BY DEF HandOver
  <2>2. Debtors(c) = {}
    BY <2>1 DEF Debtors, Owes, Invalidations
  <2>3. \A h \in wire : ~Reply(h, c)
    BY DEF Reply, OneAnswer, Asks
  <2>4. Cardinality(Debtors(c)) = 0
    BY <2>2 DEF Countable
  <2> QED
    BY <1>c, <2>1, <2>3, <2>4 DEF Counts
<1>d. \A x \in (L1s \cup {"L2"}) \ {c} : Debtors(x)' = Debtors(x)
  BY DEF Debtors, Owes
<1>e. \/ Reply(m, c) /\ Debtors(c)' = Debtors(c)
      \/ m.src \in Debtors(c) /\ Debtors(c)' = Debtors(c) \ {m.src} /\ m.acks = 1 /\ m.src # "L2"
  BY <1>g DEF Debtors, Owes, Reply, Invalidations
<1>f. \/ Reply(m, c) /\ Debtors(c)' = Debtors(c)
      \/ m.src # "L2" /\ m.acks = 1 /\ Cardinality(Debtors(c)') = Cardinality(Debtors(c)) - 1
  BY <1>e, DebtorsFinite, CountLess
<1>1. Types' /\ WellFormed' /\ OneAnswer' /\ Asking' /\ Directory' /\ OneRecall'
  BY DEF OneAnswer, Asking, Asks, ReadRecorded, WriteRecorded, Directory, OneRecall, Recall
<1>2. OneTurn' /\ Invalidations' /\ L2Counts'
  BY <1>d DEF OneTurn, Turn, Collecting, Unblocking, WriteRecorded, Invalidations, L2Counts
<1>3. Counts'
  <2>1. ASSUME NEW h \in wire', Reply(h, c)
        PROVE  due'[c] = Cardinality(Debtors(c)') + h.acks /\ due'[c] <= 0
    <3>1. h \in wire /\ m.src # "L2"
      BY <2>1 DEF Reply, OneAnswer, Asks
    <3>2. due[c] = Cardinality(Debtors(c)) + h.acks /\ due[c] <= 0 /\ h.acks \in Int
      BY <1>c, <2>1, <3>1 DEF Counts, Reply
    <3> QED
      BY <1>f, <3>1, <3>2, DebtorsFinite DEF Reply
  <2>2. ASSUME \A h \in wire' : ~Reply(h, c)
        PROVE  due'[c] = Cardinality(Debtors(c)')
    <3>1. CASE Reply(m, c)
      BY <1>c, <1>f, <3>1, DebtorsFinite DEF Counts, Reply
    <3>2. CASE ~Reply(m, c)
      <4>1. due[c] = Cardinality(Debtors(c))
        BY <1>c, <2>2, <3>2 DEF Counts
      <4> QED
        BY <1>f, <3>2, <4>1, DebtorsFinite
    <3> QED
      BY <3>1, <3>2
  <2>3. \A d \in L1s \ {c}, h \in wire : Reply(h, d) <=> h \in wire' /\ Reply(h, d)
    BY DEF Reply
  <2> QED
    BY <1>c, <1>d, <2>1, <2>2, <2>3 DEF Counts
<1>4. HandOver'
  BY DEF HandOver, Hand
<1>5. WritingBack' /\ Unblocks' /\ Owned' /\ Shared'
  BY DEF WritingBack, Put, Unblocks, Owns, Owned, Unblocking, Shared, Shares
<1> HIDE DEF Types, WellFormed, L1Step, L2Step, Head
<1> QED
  BY <1>1, <1>2, <1>3, <1>4, <1>5 DEF Safe

\* The WB_ACK ends a write back: M_I and SINK_WB_ACK to I.
LEMMA PutDone ==
  ASSUME Safe, NEW c \in L1s, NEW m \in wire, m.type = "WB_ACK", m.dst = c, st[c] \in {"M_I",
         "SINK_WB_ACK"}, NEW n \in Int,
         L1Step(c, "I", n, {m}, {})
  PROVE  Safe'
<1>0. Caches /\ Coherent
  BY DEF Safe
<1> USE <1>0 DEF Caches, Coherent, Reading, Writing, ReadStates, WriteStates, Blocked,
      Collected, Recalled, Handing, L1Step, L2Step, Same, Head, L1States, L2States, Bank, Types,
      WellFormed
<1>d. \A x \in L1s \cup {"L2"} : Debtors(x)' = Debtors(x)
  BY DEF Debtors, Owes
<1>1. Types' /\ WellFormed' /\ OneAnswer' /\ Asking' /\ Directory' /\ OneRecall'
  BY DEF OneAnswer, Asking, Asks, ReadRecorded, WriteRecorded, Directory, OneRecall, Recall
<1>2. OneTurn' /\ Counts' /\ Invalidations' /\ L2Counts'
  BY <1>d DEF OneTurn, Turn, Collecting, Unblocking, WriteRecorded, Counts, Reply,
     Invalidations, L2Counts
<1>3. HandOver'
  BY DEF HandOver, Hand
<1>4. WritingBack' /\ Unblocks' /\ Owned' /\ Shared'
  BY DEF WritingBack, Put, Unblocks, Owns, Owned, Unblocking, Shared, Shares
<1> HIDE DEF Types, WellFormed, L1Step, L2Step, Head
<1> QED
  BY <1>1, <1>2, <1>3, <1>4 DEF Safe

\* The L2 records the new owner: Exclusive_Unblock, mmu_markExclusiveFromUnblock.
LEMMA ExclusiveUnblock ==
  ASSUME Safe, NEW c \in L1s, NEW m \in wire, m.type = "EXCLUSIVE_UNBLOCK", m.src = c, m.dst =
         "L2", bank.st \in Blocked,
         L2Step([bank EXCEPT !.st = "MT", !.sharers = {c}, !.exclusive = c], {m}, {})
  PROVE  Safe'
<1>0. Caches /\ Coherent
  BY DEF Safe
<1> USE <1>0 DEF Caches, Coherent, Reading, Writing, ReadStates, WriteStates, Blocked,
      Collected, Recalled, Handing, L1Step, L2Step, Same, Head, L1States, L2States, Bank, Types,
      WellFormed
<1>o. Owns(c) /\ Turn(c)
  BY DEF Unblocks, Turn, Unblocking
<1>t. \A d \in L1s : Turn(d) => d = c
  BY <1>o DEF OneTurn
<1>s. \A d \in L1s : ~Collecting(d)
  BY <1>o, <1>t DEF Turn, Collecting, Owns
<1>i. \A h \in wire : h.type # "INV" /\ (h.type = "ACK" => h.src = "L2")
  BY <1>s DEF Invalidations
<1>j. \A h \in wire :
        (h.type \in Writing => h.src # "L2") /\ (h.type = "DATA" => h.src = "L2")
  <2>1. \A h \in wire, d \in L1s : Asks(h, d) /\ st[d] \in WriteStates => h.type \in Writing /\ h.src = d
    BY <1>s DEF Collecting, OneAnswer, Asks
  <2> QED
    BY <2>1 DEF Asks, Asking, HandOver
<1>d. \A x \in L1s \cup {"L2"} : Debtors(x)' = Debtors(x)
  BY DEF Debtors, Owes
<1>1. Types' /\ WellFormed' /\ OneAnswer' /\ Asking' /\ Directory' /\ OneRecall'
  BY DEF OneAnswer, Asking, Asks, ReadRecorded, WriteRecorded, Directory, OneRecall, Recall
<1>2. OneTurn' /\ Counts' /\ Invalidations' /\ L2Counts'
  BY <1>o, <1>t, <1>s, <1>d, <1>i DEF OneTurn, Turn, Collecting, Unblocking, WriteRecorded,
     Unblocks, Asking, Asks, Owns, Counts, Reply, Invalidations, L2Counts
<1>3. HandOver'
  <2>1. \A h \in wire :
          /\ h.type \in Reading \cup Writing => h.src # "L2"
          /\ h.type = "DATA" => h.src \notin L1s /\ h.dst # "L2"
          /\ h.type # "UNBLOCK"
    BY <1>j DEF HandOver
  <2>2. wire' \subseteq wire /\ bank'.st = "MT"
    OBVIOUS
  <2> HIDE DEF L2Step, Coherent
  <2> QED
    BY <2>1, <2>2 DEF HandOver
<1>4. WritingBack' /\ Unblocks' /\ Owned' /\ Shared'
  BY <1>o DEF WritingBack, Put, Owns, Unblocks, Owned, Unblocking, Shared, Shares
<1> HIDE DEF Types, WellFormed, L1Step, L2Step, Head
<1> QED
  BY <1>1, <1>2, <1>3, <1>4 DEF Safe

\* The L2 records the reader an owner has served: Unblock in MT_IIB and MT_SB,
\* nnu_addSharerFromUnblock.
LEMMA Unblocked ==
  ASSUME Safe, NEW c \in L1s, NEW m \in wire, m.type = "UNBLOCK", m.src = c, m.dst = "L2", NEW
         s,
         \/ bank.st = "MT_IIB" /\ s = "MT_IB"
         \/ bank.st = "MT_SB" /\ s = "SS",
         L2Step([bank EXCEPT !.st = s, !.sharers = bank.sharers \cup {c}], {m}, {})
  PROVE  Safe'
<1>0. Caches /\ Coherent
  BY DEF Safe
<1> USE <1>0 DEF Caches, Coherent, Reading, Writing, ReadStates, WriteStates, Blocked,
      Collected, Recalled, Handing, L1Step, L2Step, Same, Head, L1States, L2States, Bank, Types,
      WellFormed
<1>d. \A x \in L1s \cup {"L2"} : Debtors(x)' = Debtors(x)
  BY DEF Debtors, Owes
<1>1. Types' /\ WellFormed' /\ OneAnswer' /\ Asking' /\ Directory' /\ OneRecall'
  BY DEF OneAnswer, Asking, Asks, ReadRecorded, WriteRecorded, Directory, OneRecall, Recall
<1>2. OneTurn' /\ Counts' /\ Invalidations' /\ L2Counts'
  BY <1>d DEF OneTurn, Turn, Collecting, Unblocking, WriteRecorded, Counts, Reply,
     Invalidations, L2Counts
<1>3. HandOver'
  BY DEF HandOver, Hand
<1>4. WritingBack' /\ Unblocks' /\ Owned' /\ Shared'
  BY DEF WritingBack, Put, HandOver, Unblocks, Owns, Owned, Unblocking, Shared, Shares, Hand
<1> HIDE DEF Types, WellFormed, L1Step, L2Step, Head
<1> QED
  BY <1>1, <1>2, <1>3, <1>4 DEF Safe

\* The L2 receives the data of an owner that serves a reader: WB_Data in MT_IIB and MT_IB.
LEMMA OwnersData ==
  ASSUME Safe, NEW c \in L1s, NEW m \in wire, m.type = "DATA", m.src = c, m.dst = "L2", NEW s,
         \/ bank.st = "MT_IIB" /\ s = "MT_SB"
         \/ bank.st = "MT_IB" /\ s = "SS",
         L2Step([bank EXCEPT !.st = s], {m}, {})
  PROVE  Safe'
<1>0. Caches /\ Coherent
  BY DEF Safe
<1> USE <1>0 DEF Caches, Coherent, Reading, Writing, ReadStates, WriteStates, Blocked,
      Collected, Recalled, Handing, L1Step, L2Step, Same, Head, L1States, L2States, Bank, Types,
      WellFormed
<1>d. \A x \in L1s \cup {"L2"} : Debtors(x)' = Debtors(x)
  BY DEF Debtors, Owes
<1>1. Types' /\ WellFormed' /\ OneAnswer' /\ Asking' /\ Directory' /\ OneRecall'
  BY DEF OneAnswer, Asking, Asks, ReadRecorded, WriteRecorded, Directory, OneRecall, Recall
<1>2. OneTurn' /\ Counts' /\ Invalidations' /\ L2Counts'
  BY <1>d DEF OneTurn, Turn, Collecting, Unblocking, WriteRecorded, Counts, Reply,
     Invalidations, L2Counts
<1>3. HandOver'
  BY DEF HandOver, Hand
<1>4. WritingBack' /\ Unblocks' /\ Owned' /\ Shared'
  BY DEF WritingBack, Put, Unblocks, Owns, Owned, Unblocking, Shared, Shares, HandOver
<1> HIDE DEF Types, WellFormed, L1Step, L2Step, Head
<1> QED
  BY <1>1, <1>2, <1>3, <1>4 DEF Safe

\* The last answer to an eviction arrives and the block goes to memory: WB_Data,
\* WB_Data_clean, Ack_all.
LEMMA Evicted ==
  ASSUME Safe, NEW c \in L1s, NEW m \in wire, m.type \in {"DATA", "ACK"}, m.src = c, m.dst =
         "L2",
         \/ bank.st \in Recalled
         \/ bank.st \in Collected /\ m.type = "ACK" /\ bank.pendingAcks = m.acks,
         NEW n \in Int,
         L2Step([bank EXCEPT !.st = "M_I", !.pendingAcks = n], {m}, {})
  PROVE  Safe'
<1>0. Caches /\ Coherent
  BY DEF Safe
<1> USE <1>0 DEF Caches, Coherent, Reading, Writing, ReadStates, WriteStates, Blocked,
      Collected, Recalled, Handing, L1Step, L2Step, Same, Head, L1States, L2States, Bank, Types,
      WellFormed
<1>i. \A h \in wire \ {m} : h.type # "INV" /\ (h.type = "ACK" => h.src = "L2")
  <2>1. CASE bank.st \in Recalled
    BY <2>1 DEF OneRecall, Recall, Invalidations
  <2>2. CASE bank.st \in Collected /\ bank.pendingAcks = m.acks /\ m.type = "ACK"
    <3>1. m.src \in Debtors("L2") /\ Cardinality(Debtors("L2")) = 1
      BY <2>2 DEF Debtors, Owes, L2Counts
    <3>2. Debtors("L2") = {m.src}
      BY <3>1, DebtorsFinite, CountOne
    <3> QED
      BY <2>2, <3>2 DEF Debtors, Owes, Invalidations
  <2> QED
    BY <2>1, <2>2
<1>d. \A x \in L1s : Debtors(x)' = Debtors(x)
  BY DEF Debtors, Owes
<1>1. Types' /\ WellFormed' /\ OneAnswer' /\ Asking' /\ Directory' /\ OneRecall'
  BY DEF OneAnswer, Asking, Asks, ReadRecorded, WriteRecorded, Directory, OneRecall, Recall
<1>2. OneTurn' /\ Counts' /\ Invalidations' /\ L2Counts'
  BY <1>d, <1>i DEF OneTurn, Turn, Collecting, Unblocking, WriteRecorded, Counts, Reply,
     Invalidations, L2Counts
<1>3. HandOver'
  BY DEF HandOver, Hand, OneRecall, Recall
<1>4. WritingBack' /\ Unblocks' /\ Owned' /\ Shared'
  BY DEF WritingBack, Put, Unblocks, Owns, Owned, Unblocking, OneRecall, Recall, Shared, Shares
<1> HIDE DEF Types, WellFormed, L1Step, L2Step, Head
<1> QED
  BY <1>1, <1>2, <1>3, <1>4 DEF Safe

\* One of several acknowledgements of an eviction arrives: Ack in I_I and S_I,
\* q_updateAck.
LEMMA InvAckMore ==
  ASSUME Safe, NEW c \in L1s, NEW m \in wire, m.type = "ACK", m.src = c, m.dst = "L2", bank.st
         \in Collected, bank.pendingAcks # m.acks,
         L2Step([bank EXCEPT !.pendingAcks = bank.pendingAcks - m.acks], {m}, {})
  PROVE  Safe'
<1>0. Caches /\ Coherent
  BY DEF Safe
<1> USE <1>0 DEF Caches, Coherent, Reading, Writing, ReadStates, WriteStates, Blocked,
      Collected, Recalled, Handing, L1Step, L2Step, Same, Head, L1States, L2States, Bank, Types,
      WellFormed
<1>e. m.src \in Debtors("L2") /\ Debtors("L2")' = Debtors("L2") \ {m.src} /\ m.acks = 1
  BY DEF Debtors, Owes, Invalidations
<1>f. Cardinality(Debtors("L2")') = Cardinality(Debtors("L2")) - 1
  BY <1>e, DebtorsFinite, CountLess
<1>d. \A x \in L1s : Debtors(x)' = Debtors(x)
  BY DEF Debtors, Owes
<1>1. Types' /\ WellFormed' /\ OneAnswer' /\ Asking' /\ Directory' /\ OneRecall'
  BY DEF OneAnswer, Asking, Asks, ReadRecorded, WriteRecorded, Directory, OneRecall, Recall
<1>2. OneTurn' /\ Counts' /\ Invalidations' /\ L2Counts'
  BY <1>d, <1>e, <1>f DEF OneTurn, Turn, Collecting, Unblocking, WriteRecorded, Counts, Reply,
     Invalidations, L2Counts
<1>3. HandOver'
  BY DEF HandOver, Hand
<1>4. WritingBack' /\ Unblocks' /\ Owned' /\ Shared'
  BY DEF WritingBack, Put, Unblocks, Owns, Owned, Unblocking, Shared, Shares
<1> HIDE DEF Types, WellFormed, L1Step, L2Step, Head
<1> QED
  BY <1>1, <1>2, <1>3, <1>4 DEF Safe

\* Memory's block answers the readers recorded in L2_GetS_IDs:
\* ex_sendExclusiveDataToGetSRequestors in ISS, e_sendDataToGetSRequestors in IS.
LEMMA Fill ==
  ASSUME Safe, NEW s, NEW t,
         \/ bank.st = "ISS" /\ s = "MT_MB" /\ t = "DATA_EXCLUSIVE"
         \/ bank.st = "IS" /\ s = "SS" /\ t = "DATA",
         NEW n \in Int,
         L2Step([bank EXCEPT !.st = s, !.getS = {}, !.getX = None, !.pendingAcks = n], {},
                {Head(t, "L2", c, None, 0) : c \in bank.getS})
  PROVE  Safe' /\ (wire \ {}) \cap {Head(t, "L2", c, None, 0) : c \in bank.getS} = {}
<1>0. Caches /\ Coherent
  BY DEF Safe
<1> USE <1>0 DEF Caches, Coherent, Reading, Writing, ReadStates, WriteStates, Blocked,
      Collected, Recalled, Handing, L1Step, L2Step, Same, Head, L1States, L2States, Bank, Types,
      WellFormed
<1>d. \A x \in L1s \cup {"L2"} : Debtors(x)' = Debtors(x)
  BY DEF Debtors, Owes
<1>1. (wire \ {}) \cap {Head(t, "L2", c, None, 0) : c \in bank.getS} = {}
  BY DEF OneAnswer, Asking, Asks, ReadRecorded, WriteRecorded
<1>2. Types' /\ WellFormed' /\ OneAnswer' /\ Asking' /\ Directory' /\ OneRecall'
  BY DEF OneAnswer, Asking, Asks, ReadRecorded, WriteRecorded, Directory, OneRecall, Recall
<1>3. OneTurn' /\ Counts' /\ Invalidations' /\ L2Counts'
  BY <1>d DEF OneTurn, Turn, Collecting, Unblocking, WriteRecorded, Directory, Counts, Reply,
     Asking, ReadRecorded, Invalidations, L2Counts
<1>4. HandOver'
  BY DEF HandOver, Hand
<1>5. WritingBack' /\ Unblocks' /\ Owned' /\ Shared'
  BY DEF WritingBack, Put, Unblocks, Owns, Owned, Unblocking, Shared, Shares, Directory
<1> HIDE DEF Types, WellFormed, L1Step, L2Step, Head
<1> QED
  BY <1>1, <1>2, <1>3, <1>4, <1>5 DEF Safe

\* Memory's block answers the writer recorded in L2_GetX_ID: ee_sendDataToGetXRequestor in
\* IM.
LEMMA FillWriter ==
  ASSUME Safe, bank.st = "IM", NEW n \in Int,
         L2Step([bank EXCEPT !.st = "MT_MB", !.getS = {}, !.getX = None, !.pendingAcks = n], {},
                {Head("DATA", "L2", bank.getX, None, 0)})
  PROVE  Safe' /\ (wire \ {}) \cap {Head("DATA", "L2", bank.getX, None, 0)} = {}
<1>0. Caches /\ Coherent
  BY DEF Safe
<1> USE <1>0 DEF Caches, Coherent, Reading, Writing, ReadStates, WriteStates, Blocked,
      Collected, Recalled, Handing, L1Step, L2Step, Same, Head, L1States, L2States, Bank, Types,
      WellFormed
<1>c. /\ bank.getX \in L1s /\ ~Collecting(bank.getX) /\ st[bank.getX] \in WriteStates
      /\ \A h \in wire : ~Asks(h, bank.getX)
  BY DEF Directory, Collecting, WriteRecorded, Asking, OneAnswer
<1>z. Cardinality(Debtors(bank.getX)) = 0
  BY <1>c, NoDebtors
<1>s. \A d \in L1s : d # bank.getX => (Collecting(d)' <=> Collecting(d))
  BY DEF Collecting, WriteRecorded
<1>d. \A x \in L1s \cup {"L2"} : Debtors(x)' = Debtors(x)
  BY DEF Debtors, Owes
<1>1. (wire \ {}) \cap {Head("DATA", "L2", bank.getX, None, 0)} = {}
  BY DEF OneAnswer, Asking, Asks, ReadRecorded, WriteRecorded
<1>2. Types' /\ WellFormed' /\ OneAnswer' /\ Asking' /\ Directory' /\ OneRecall'
  BY <1>c DEF OneAnswer, Asking, Asks, ReadRecorded, WriteRecorded, Directory, OneRecall, Recall
<1>3. OneTurn' /\ Counts' /\ Invalidations' /\ L2Counts'
  BY <1>d, <1>c, <1>z, <1>s DEF OneTurn, Turn, Collecting, Unblocking, WriteRecorded, Counts,
     Reply, Asks, Invalidations, L2Counts
<1>4. HandOver'
  BY <1>c DEF HandOver, Hand
<1>5. WritingBack' /\ Unblocks' /\ Owned' /\ Shared'
  BY <1>c DEF WritingBack, Put, Unblocks, Owns, Owned, Unblocking, Shared, Shares
<1> HIDE DEF Types, WellFormed, L1Step, L2Step, Head
<1> QED
  BY <1>1, <1>2, <1>3, <1>4, <1>5 DEF Safe

\* Memory acknowledges the evicted block and the line is free: Mem_Ack in M_I.
LEMMA Gone ==
  ASSUME Safe, bank.st = "M_I",
         L2Step([bank EXCEPT !.st = "NP", !.sharers = {}, !.exclusive = None, !.getS = {},
                !.getX = None, !.pendingAcks = 0], {}, {})
  PROVE  Safe'
<1>0. Caches /\ Coherent
  BY DEF Safe
<1> USE <1>0 DEF Caches, Coherent, Reading, Writing, ReadStates, WriteStates, Blocked,
      Collected, Recalled, Handing, L1Step, L2Step, Same, Head, L1States, L2States, Bank, Types,
      WellFormed
<1>d. \A x \in L1s \cup {"L2"} : Debtors(x)' = Debtors(x)
  BY DEF Debtors, Owes
<1>1. Types' /\ WellFormed' /\ OneAnswer' /\ Asking' /\ Directory' /\ OneRecall'
  BY DEF OneAnswer, Asking, Asks, ReadRecorded, WriteRecorded, Directory, OneRecall, Recall
<1>2. OneTurn' /\ Counts' /\ Invalidations' /\ L2Counts'
  BY <1>d DEF OneTurn, Turn, Collecting, Unblocking, WriteRecorded, Counts, Reply,
     Invalidations, L2Counts
<1>3. HandOver'
  BY DEF HandOver, Hand
<1>4. WritingBack' /\ Unblocks' /\ Owned' /\ Shared'
  BY DEF WritingBack, Put, Unblocks, Owns, Owned, Unblocking, Shared, Shares
<1> HIDE DEF Types, WellFormed, L1Step, L2Step, Head
<1> QED
  BY <1>1, <1>2, <1>3, <1>4 DEF Safe

\* The L2 evicts a block that L1s hold and invalidates them: f_sendInvToSharers on
\* L2_Replacement in SS and MT.
LEMMA Evict ==
  ASSUME Safe, NEW s, NEW n \in Int,
         \/ bank.st = "SS" /\ s \in Collected /\ n = Cardinality(bank.sharers)
         \/ bank.st = "MT" /\ s \in Recalled,
         L2Step([bank EXCEPT !.st = s, !.pendingAcks = n, !.sharers = {}, !.exclusive = None],
                {}, {Head("INV", "L2", d, "L2", 0) : d \in bank.sharers})
  PROVE  Safe' /\ (wire \ {}) \cap {Head("INV", "L2", d, "L2", 0) : d \in bank.sharers} = {}
<1>0. Caches /\ Coherent
  BY DEF Safe
<1> USE <1>0 DEF Caches, Coherent, Reading, Writing, ReadStates, WriteStates, Blocked,
      Collected, Recalled, Handing, L1Step, L2Step, Same, Head, L1States, L2States, Bank, Types,
      WellFormed
<1>w. \A d \in bank.sharers : Head("INV", "L2", d, "L2", 0) \in wire'
  <2> HIDE DEF Coherent, Head
  <2> QED OBVIOUS
<1>v. ASSUME NEW d \in bank.sharers
      PROVE  \E h \in wire' : h.type = "INV" /\ h.dst = d /\ h.requestor = "L2"
  <2>1. Head("INV", "L2", d, "L2", 0) \in wire'
    BY <1>w
  <2> HIDE DEF L2Step
  <2> QED BY <2>1
<1>e. Debtors("L2")' = bank.sharers
  BY <1>v DEF Debtors, Owes, Invalidations
<1>d. \A x \in L1s : Debtors(x)' = Debtors(x)
  BY DEF Debtors, Owes
<1>1. (wire \ {}) \cap {Head("INV", "L2", d, "L2", 0) : d \in bank.sharers} = {}
  BY DEF OneAnswer, Asking, Asks, ReadRecorded, WriteRecorded, Invalidations
<1>2. Types' /\ WellFormed' /\ OneAnswer' /\ Asking' /\ Directory' /\ OneRecall'
  BY DEF OneAnswer, Asking, Asks, ReadRecorded, WriteRecorded, Directory, OneRecall, Recall,
     Invalidations, HandOver
<1>3. OneTurn' /\ Counts' /\ Invalidations' /\ L2Counts'
  BY <1>d, <1>e DEF OneTurn, Turn, Collecting, Unblocking, WriteRecorded, Counts, Reply,
     Invalidations, L2Counts
<1>4. HandOver'
  BY DEF HandOver, Hand
<1>5. WritingBack' /\ Unblocks'
  BY DEF WritingBack, Put, Unblocks, Owns
<1>6. Owned'
  BY <1>v DEF Owned, Owns, Put, Unblocking, Directory
<1>7. Shared'
  BY <1>v DEF Shared, Shares
<1> HIDE DEF Types, WellFormed, L1Step, L2Step, Head
<1> QED
  BY <1>1, <1>2, <1>3, <1>4, <1>5, <1>6, <1>7 DEF Safe

\* The L2 evicts a block no L1 holds: L2_Replacement in M.
LEMMA EvictIdle ==
  ASSUME Safe, bank.st = "M", NEW n \in Int,
         L2Step([bank EXCEPT !.st = "M_I", !.pendingAcks = n, !.sharers = {}, !.exclusive =
                None], {}, {})
  PROVE  Safe'
<1>0. Caches /\ Coherent
  BY DEF Safe
<1> USE <1>0 DEF Caches, Coherent, Reading, Writing, ReadStates, WriteStates, Blocked,
      Collected, Recalled, Handing, L1Step, L2Step, Same, Head, L1States, L2States, Bank, Types,
      WellFormed
<1>d. \A x \in L1s \cup {"L2"} : Debtors(x)' = Debtors(x)
  BY DEF Debtors, Owes
<1>1. Types' /\ WellFormed' /\ OneAnswer' /\ Asking' /\ Directory' /\ OneRecall'
  BY DEF OneAnswer, Asking, Asks, ReadRecorded, WriteRecorded, Directory, OneRecall, Recall
<1>2. OneTurn' /\ Counts' /\ Invalidations' /\ L2Counts'
  BY <1>d DEF OneTurn, Turn, Collecting, Unblocking, WriteRecorded, Counts, Reply,
     Invalidations, L2Counts
<1>3. HandOver'
  BY DEF HandOver, Hand
<1>4. WritingBack' /\ Unblocks' /\ Owned' /\ Shared'
  BY DEF WritingBack, Put, Unblocks, Owns, Owned, Unblocking, Shared, Shares
<1> HIDE DEF Types, WellFormed, L1Step, L2Step, Head
<1> QED
  BY <1>1, <1>2, <1>3, <1>4 DEF Safe

\* The owner's write back reaches the L2 in MT: L1_PUTX, ll_clearSharers, t_sendWBAck.
LEMMA PutByOwner ==
  ASSUME Safe, NEW c \in L1s, NEW m \in wire, m.type = "PUTX", m.src = c, m.dst = "L2", bank.st
         = "MT", c \in bank.sharers,
         L2Step([bank EXCEPT !.st = "M", !.sharers = {}], {m}, {Head("WB_ACK", "L2", c, None,
                0)})
  PROVE  Safe' /\ (wire \ {m}) \cap {Head("WB_ACK", "L2", c, None, 0)} = {}
<1>0. Caches /\ Coherent
  BY DEF Safe
<1> USE <1>0 DEF Caches, Coherent, Reading, Writing, ReadStates, WriteStates, Blocked,
      Collected, Recalled, Handing, L1Step, L2Step, Same, Head, L1States, L2States, Bank, Types,
      WellFormed
<1>p. ~Put(c)' /\ Put(c) /\ \A d \in L1s \ {c} : Put(d)' <=> Put(d)
  BY DEF Put, WritingBack
<1>b. \A h \in wire : h.type # "INV" /\ ~(h.type \in Reading \cup Writing /\ h.src = "L2") /\ h.type # "EXCLUSIVE_UNBLOCK"
  BY DEF Invalidations, HandOver, OneTurn, Turn, Unblocking
<1>d. \A x \in L1s \cup {"L2"} : Debtors(x)' = Debtors(x)
  BY DEF Debtors, Owes
<1>1. (wire \ {m}) \cap {Head("WB_ACK", "L2", c, None, 0)} = {}
  BY DEF OneAnswer, Asking, Asks, ReadRecorded, WriteRecorded, WritingBack, Put
<1>2. Types' /\ WellFormed' /\ OneAnswer' /\ Asking' /\ Directory' /\ OneRecall'
  BY DEF OneAnswer, Asking, Asks, ReadRecorded, WriteRecorded, Directory, OneRecall, Recall
<1>3. OneTurn' /\ Counts' /\ Invalidations' /\ L2Counts'
  BY <1>d DEF OneTurn, Turn, Collecting, Unblocking, WriteRecorded, Counts, Reply,
     Invalidations, L2Counts
<1>4. HandOver'
  BY DEF HandOver, Hand
<1>5. WritingBack' /\ Unblocks' /\ Shared'
  BY <1>p, <1>b DEF WritingBack, Put, Unblocks, Owns, Shared, Shares
<1>6. Owned'
  <2>1. \A d \in L1s : ~Owns(d)'
    BY <1>p, <1>b DEF Owned, Owns, Unblocking, Directory, WritingBack
  <2> QED
    BY <2>1 DEF Owned
<1> HIDE DEF Types, WellFormed, L1Step, L2Step, Head
<1> QED
  BY <1>1, <1>2, <1>3, <1>4, <1>5, <1>6 DEF Safe

\* A write back that another request has overtaken is only acknowledged: L1_PUTX_old,
\* t_sendWBAck.
LEMMA PutLate ==
  ASSUME Safe, NEW c \in L1s, NEW m \in wire, m.type = "PUTX", m.src = c, m.dst = "L2", bank.st
         = "MT" => c \notin bank.sharers, bank.st \notin Blocked \cup Recalled \cup {"MT_IIB"},
         L2Step([bank EXCEPT !.st = bank.st], {m}, {Head("WB_ACK", "L2", c, None, 0)})
  PROVE  Safe' /\ (wire \ {m}) \cap {Head("WB_ACK", "L2", c, None, 0)} = {}
<1>0. Caches /\ Coherent
  BY DEF Safe
<1> USE <1>0 DEF Caches, Coherent, Reading, Writing, ReadStates, WriteStates, Blocked,
      Collected, Recalled, Handing, L1Step, L2Step, Same, Head, L1States, L2States, Bank, Types,
      WellFormed
<1>p. ~Put(c)' /\ Put(c) /\ \A d \in L1s \ {c} : Put(d)' <=> Put(d)
  BY DEF Put, WritingBack
<1>s. st[c] = "SINK_WB_ACK"
  BY DEF WritingBack, Owned, Owns, Put, Directory, OneTurn, Turn, Unblocking, HandOver
<1>d. \A x \in L1s \cup {"L2"} : Debtors(x)' = Debtors(x)
  BY DEF Debtors, Owes
<1>1. (wire \ {m}) \cap {Head("WB_ACK", "L2", c, None, 0)} = {}
  BY DEF OneAnswer, Asking, Asks, ReadRecorded, WriteRecorded, WritingBack, Put
<1>2. Types' /\ WellFormed' /\ OneAnswer' /\ Asking' /\ Directory' /\ OneRecall'
  BY DEF OneAnswer, Asking, Asks, ReadRecorded, WriteRecorded, Directory, OneRecall, Recall
<1>3. OneTurn' /\ Counts' /\ Invalidations' /\ L2Counts'
  BY <1>d DEF OneTurn, Turn, Collecting, Unblocking, WriteRecorded, Counts, Reply,
     Invalidations, L2Counts
<1>4. HandOver'
  BY DEF HandOver, Hand
<1>5. WritingBack' /\ Unblocks' /\ Owned' /\ Shared'
  BY <1>p, <1>s DEF WritingBack, Put, Unblocks, Owns, Owned, Unblocking, Shared, Shares
<1> HIDE DEF Types, WellFormed, L1Step, L2Step, Head
<1> QED
  BY <1>1, <1>2, <1>3, <1>4, <1>5 DEF Safe

\* A read of a block the L2 does not have is recorded while memory is read: L1_GETS in NP,
\* ISS and IS, ss_recordGetSL1ID, nn_addSharer.
LEMMA Requested ==
  ASSUME Safe, NEW c \in L1s, NEW m \in wire, m.type \in Reading, m.src = c, m.dst = "L2", NEW
         s,
         \/ bank.st = "NP" /\ s \in {"IS", "ISS"}
         \/ bank.st \in {"IS", "ISS"} /\ s = "IS",
         L2Step([bank EXCEPT !.st = s, !.sharers = bank.sharers \cup {c}, !.getS = bank.getS
                \cup {c}], {m}, {})
  PROVE  Safe'
<1>0. Caches /\ Coherent
  BY DEF Safe
<1> USE <1>0 DEF Caches, Coherent, Reading, Writing, ReadStates, WriteStates, Blocked,
      Collected, Recalled, Handing, L1Step, L2Step, Same, Head, L1States, L2States, Bank, Types,
      WellFormed
<1>d. \A x \in L1s \cup {"L2"} : Debtors(x)' = Debtors(x)
  BY DEF Debtors, Owes
<1>1. Types' /\ WellFormed' /\ OneAnswer' /\ Asking' /\ Directory' /\ OneRecall'
  BY DEF OneAnswer, Asking, Asks, ReadRecorded, WriteRecorded, Directory, OneRecall, Recall
<1>2. OneTurn' /\ Counts' /\ Invalidations' /\ L2Counts'
  BY <1>d DEF OneTurn, Turn, Collecting, Unblocking, WriteRecorded, Counts, Reply,
     Invalidations, L2Counts
<1>3. HandOver'
  BY DEF HandOver, Hand
<1>4. WritingBack' /\ Unblocks' /\ Owned' /\ Shared'
  BY DEF WritingBack, Put, Asking, Asks, Unblocks, Owns, Owned, Unblocking, Shared, Shares
<1> HIDE DEF Types, WellFormed, L1Step, L2Step, Head
<1> QED
  BY <1>1, <1>2, <1>3, <1>4 DEF Safe

\* The L2 serves a reader a shared copy: ds_sendSharedDataToRequestor in SS and, for an
\* instruction fetch, d_sendDataToRequestor in M, with nn_addSharer.
LEMMA ReadShared ==
  ASSUME Safe, NEW c \in L1s, NEW m \in wire, m.type \in Reading, m.src = c, m.dst = "L2",
         bank.st \in {"SS", "M"},
         L2Step([bank EXCEPT !.st = "SS", !.sharers = bank.sharers \cup {c}], {m}, {Head("DATA",
                "L2", c, None, 0)})
  PROVE  Safe' /\ (wire \ {m}) \cap {Head("DATA", "L2", c, None, 0)} = {}
<1>0. Caches /\ Coherent
  BY DEF Safe
<1> USE <1>0 DEF Caches, Coherent, Reading, Writing, ReadStates, WriteStates, Blocked,
      Collected, Recalled, Handing, L1Step, L2Step, Same, Head, L1States, L2States, Bank, Types,
      WellFormed
<1>d. \A x \in L1s \cup {"L2"} : Debtors(x)' = Debtors(x)
  BY DEF Debtors, Owes
<1>1. (wire \ {m}) \cap {Head("DATA", "L2", c, None, 0)} = {}
  BY DEF OneAnswer, Asking, Asks, ReadRecorded, WriteRecorded
<1>2. Types' /\ WellFormed' /\ OneAnswer' /\ Asking' /\ Directory' /\ OneRecall'
  BY DEF OneAnswer, Asking, Asks, ReadRecorded, WriteRecorded, Directory, OneRecall, Recall
<1>3. OneTurn' /\ Counts' /\ Invalidations' /\ L2Counts'
  BY <1>d DEF OneTurn, Turn, Collecting, Unblocking, WriteRecorded, Counts, Reply, Asking, Asks,
     Invalidations, L2Counts
<1>4. HandOver'
  BY DEF HandOver, Hand
<1>5. WritingBack' /\ Unblocks' /\ Owned' /\ Shared'
  BY DEF WritingBack, Put, Asking, Asks, Unblocks, Owns, Owned, Unblocking, Shared, Shares
<1> HIDE DEF Types, WellFormed, L1Step, L2Step, Head
<1> QED
  BY <1>1, <1>2, <1>3, <1>4, <1>5 DEF Safe

\* The L2 serves a reader an exclusive copy and blocks: dd_sendExclusiveDataToRequestor in
\* M, to MT_MB.
LEMMA ReadIdle ==
  ASSUME Safe, NEW c \in L1s, NEW m \in wire, m.type \in Reading, m.src = c, m.dst = "L2",
         bank.st = "M",
         L2Step([bank EXCEPT !.st = "MT_MB"], {m}, {Head("DATA_EXCLUSIVE", "L2", c, None, 0)})
  PROVE  Safe' /\ (wire \ {m}) \cap {Head("DATA_EXCLUSIVE", "L2", c, None, 0)} = {}
<1>0. Caches /\ Coherent
  BY DEF Safe
<1> USE <1>0 DEF Caches, Coherent, Reading, Writing, ReadStates, WriteStates, Blocked,
      Collected, Recalled, Handing, L1Step, L2Step, Same, Head, L1States, L2States, Bank, Types,
      WellFormed
<1>d. \A x \in L1s \cup {"L2"} : Debtors(x)' = Debtors(x)
  BY DEF Debtors, Owes
<1>1. (wire \ {m}) \cap {Head("DATA_EXCLUSIVE", "L2", c, None, 0)} = {}
  BY DEF OneAnswer, Asking, Asks, ReadRecorded, WriteRecorded
<1>2. Types' /\ WellFormed' /\ OneAnswer' /\ Asking' /\ Directory' /\ OneRecall'
  BY DEF OneAnswer, Asking, Asks, ReadRecorded, WriteRecorded, Directory, OneRecall, Recall
<1>3. OneTurn' /\ Counts' /\ Invalidations' /\ L2Counts'
  BY <1>d DEF OneTurn, Turn, Collecting, Unblocking, WriteRecorded, Counts, Reply,
     Invalidations, L2Counts
<1>4. HandOver'
  BY DEF HandOver, Hand
<1>5. WritingBack' /\ Unblocks' /\ Owned' /\ Shared'
  BY DEF WritingBack, Put, Unblocks, Owns, Owned, Unblocking, Shared, Shares
<1> HIDE DEF Types, WellFormed, L1Step, L2Step, Head
<1> QED
  BY <1>1, <1>2, <1>3, <1>4, <1>5 DEF Safe

\* The L2 forwards a read to the owner: b_forwardRequestToExclusive in MT, to MT_IIB.
LEMMA ReadOwned ==
  ASSUME Safe, NEW c \in L1s, NEW m \in wire, m.type \in Reading, m.src = c, m.dst = "L2",
         bank.st = "MT",
         L2Step([bank EXCEPT !.st = "MT_IIB"], {m}, {Head(m.type, "L2", bank.exclusive, c, 0)})
  PROVE  Safe' /\ (wire \ {m}) \cap {Head(m.type, "L2", bank.exclusive, c, 0)} = {}
<1>0. Caches /\ Coherent
  BY DEF Safe
<1> USE <1>0 DEF Caches, Coherent, Reading, Writing, ReadStates, WriteStates, Blocked,
      Collected, Recalled, Handing, L1Step, L2Step, Same, Head, L1States, L2States, Bank, Types,
      WellFormed
<1>w. Head(m.type, "L2", bank.exclusive, c, 0) \in wire'
  OBVIOUS
<1>v. \E h \in wire' : h.src = "L2" /\ h.dst = bank.exclusive /\ h.type \in Reading \cup Writing
  <2> HIDE DEF L2Step
  <2> QED BY <1>w
<1>d. \A x \in L1s \cup {"L2"} : Debtors(x)' = Debtors(x)
  BY DEF Debtors, Owes
<1>1. (wire \ {m}) \cap {Head(m.type, "L2", bank.exclusive, c, 0)} = {}
  BY DEF OneAnswer, Asking, Asks, ReadRecorded, WriteRecorded
<1>2. Types' /\ WellFormed' /\ OneAnswer' /\ Asking' /\ Directory' /\ OneRecall'
  BY DEF Directory, OneAnswer, Asking, Asks, ReadRecorded, WriteRecorded, OneRecall, Recall
<1>3. OneTurn' /\ Counts' /\ Invalidations' /\ L2Counts'
  BY <1>d DEF OneTurn, Turn, Collecting, Unblocking, WriteRecorded, Counts, Reply,
     Invalidations, L2Counts
<1>4. HandOver'
  BY DEF HandOver, Hand, Directory
<1>5. WritingBack' /\ Unblocks' /\ Owned' /\ Shared'
  BY <1>v DEF WritingBack, Put, Directory, Unblocks, Owns, Owned, Unblocking, Shared, Shares
<1> HIDE DEF Types, WellFormed, L1Step, L2Step, Head
<1> QED
  BY <1>1, <1>2, <1>3, <1>4, <1>5 DEF Safe

\* A write of a block the L2 does not have is recorded while memory is read: L1_GETX in
\* NP, xx_recordGetXL1ID.
LEMMA WriteAbsent ==
  ASSUME Safe, NEW c \in L1s, NEW m \in wire, m.type \in Writing, m.src = c, m.dst = "L2",
         bank.st = "NP",
         L2Step([bank EXCEPT !.st = "IM", !.getX = c], {m}, {})
  PROVE  Safe'
<1>0. Caches /\ Coherent
  BY DEF Safe
<1> USE <1>0 DEF Caches, Coherent, Reading, Writing, ReadStates, WriteStates, Blocked,
      Collected, Recalled, Handing, L1Step, L2Step, Same, Head, L1States, L2States, Bank, Types,
      WellFormed
<1>d. \A x \in L1s \cup {"L2"} : Debtors(x)' = Debtors(x)
  BY DEF Debtors, Owes
<1>1. Types' /\ WellFormed' /\ OneAnswer' /\ Asking' /\ Directory' /\ OneRecall'
  BY DEF OneAnswer, Asking, Asks, ReadRecorded, WriteRecorded, Directory, OneRecall, Recall
<1>2. OneTurn' /\ Counts' /\ Invalidations' /\ L2Counts'
  BY <1>d DEF OneTurn, Turn, Collecting, Unblocking, WriteRecorded, Counts, Reply,
     Invalidations, L2Counts
<1>3. HandOver'
  BY DEF HandOver, Hand
<1>4. WritingBack' /\ Unblocks' /\ Owned' /\ Shared'
  BY DEF WritingBack, Put, Unblocks, Owns, Owned, Unblocking, Shared, Shares
<1> HIDE DEF Types, WellFormed, L1Step, L2Step, Head
<1> QED
  BY <1>1, <1>2, <1>3, <1>4 DEF Safe

\* The L2 invalidates the other sharers for a writer and tells it how many answers to
\* expect: fwm_sendFwdInvToSharersMinusRequestor with d_sendDataToRequestor or
\* ts_sendInvAckToUpgrader, in SS.
LEMMA WriteShared ==
  ASSUME Safe, NEW c \in L1s, NEW m \in wire, m.type \in Writing, m.src = c, m.dst = "L2",
         bank.st = "SS", NEW t \in {"DATA", "ACK"}, NEW k, k = 0 - Cardinality(bank.sharers \
         {c}),
         L2Step([bank EXCEPT !.st = "SS_MB"], {m}, {Head("INV", "L2", d, c, 0) : d \in
                bank.sharers \ {c}} \cup {Head(t, "L2", c, None, k)})
  PROVE  Safe' /\ (wire \ {m}) \cap ({Head("INV", "L2", d, c, 0) : d \in bank.sharers \ {c}}
         \cup {Head(t, "L2", c, None, k)}) = {}
<1>0. Caches /\ Coherent
  BY DEF Safe
<1> USE <1>0 DEF Caches, Coherent, Reading, Writing, ReadStates, WriteStates, Blocked,
      Collected, Recalled, Handing, L1Step, L2Step, Same, Head, L1States, L2States, Bank, Types,
      WellFormed
<1>f. Cardinality(bank.sharers \ {c}) \in Nat
  <2>1. bank.sharers \ {c} \in SUBSET L1s
    OBVIOUS
  <2> QED
    BY <2>1, Counted
<1>k. k \in Int /\ k <= 0 /\ Cardinality(bank.sharers \ {c}) + k = 0
  BY <1>f, Negative, Zenon
<1>i. \A h \in wire : h.type # "INV" /\ (h.type = "ACK" => h.src = "L2")
  BY DEF Invalidations
<1>c. Collecting(c)' /\ ~Collecting(c) /\ st[c] \in WriteStates
  BY DEF Collecting, WriteRecorded, OneAnswer, Asks, Asking
<1>s. \A d \in L1s \ {c} : ~Collecting(d)' /\ ~Collecting(d)
  BY DEF Collecting, WriteRecorded, OneTurn, Turn
<1>w. \A d \in bank.sharers \ {c} : Head("INV", "L2", d, c, 0) \in wire'
  <2> HIDE DEF Coherent, Head
  <2> QED OBVIOUS
<1>v. ASSUME NEW d \in bank.sharers \ {c}
      PROVE  \E h \in wire' : h.type = "INV" /\ h.dst = d /\ h.requestor = c
  <2>1. Head("INV", "L2", d, c, 0) \in wire'
    BY <1>w
  <2> HIDE DEF L2Step
  <2> QED BY <2>1
<1>x. \E h \in wire' : Reply(h, c)
  <2>1. Head(t, "L2", c, None, k) \in wire'
    OBVIOUS
  <2> HIDE DEF L2Step
  <2> QED BY <2>1 DEF Reply
<1>e. Debtors(c)' = bank.sharers \ {c}
  BY <1>v, <1>i DEF Debtors, Owes
<1>a. /\ \A h \in wire' : h \in wire \ {m} \/ h = Head(t, "L2", c, None, k) \/ h.type = "INV"
      /\ \A h \in wire \ {m} : ~Asks(h, c)
  BY DEF OneAnswer, Asks
<1>1. (wire \ {m}) \cap ({Head("INV", "L2", d, c, 0) : d \in bank.sharers \ {c}} \cup {Head(t,
     "L2", c, None, k)}) = {}
  BY <1>i DEF OneAnswer, Asking, Asks, ReadRecorded, WriteRecorded
<1>2. Types' /\ Asking' /\ Directory' /\ OneRecall'
  BY DEF Asking, OneAnswer, Asks, ReadRecorded, WriteRecorded, Directory, OneRecall, Recall
<1>3. WellFormed'
  BY <1>k
<1>4. OneAnswer'
  <2>1. bank'.st = "SS_MB" /\ wire \ {m} \subseteq wire
    OBVIOUS
  <2> HIDE DEF L2Step
  <2> QED
    BY <1>a, <2>1 DEF OneAnswer, Asks, ReadRecorded, WriteRecorded
<1>5. OneTurn' /\ Invalidations' /\ L2Counts'
  BY <1>c, <1>i DEF OneTurn, Turn, Collecting, Unblocking, WriteRecorded, Invalidations,
     L2Counts
<1>6. Counts'
  <2>1. \A d \in L1s : st[d] \in WriteStates => due[d] = 0
    BY <1>c, <1>s DEF Counts
  <2>2. \A h \in wire' : Reply(h, c) => h.acks = k
    <3>1. Head(t, "L2", c, None, k).acks = k
      OBVIOUS
    <3> HIDE DEF L2Step, Coherent, Head
    <3> QED BY <1>a, <3>1, Zenon DEF Reply, Asks
  <2>3. due' = due /\ st' = st
    OBVIOUS
  <2> HIDE DEF L2Step, Coherent
  <2>4. due[c] = 0
    BY <1>c, <2>1
  <2> QED
    <3>1. Cardinality(Debtors(c)') + k = 0
      BY <1>e, <1>k
    <3>2. \A h \in wire' : Reply(h, c) => due'[c] = Cardinality(Debtors(c)') + h.acks
      BY <2>2, <2>3, <2>4, <3>1, Zenon
    <3>3. due'[c] <= 0
      BY <2>3, <2>4
    <3> QED
      BY <1>c, <1>s, <1>x, <2>1, <2>3, <3>2, <3>3 DEF Counts
<1>7. HandOver'
  BY DEF HandOver, Hand
<1>8. WritingBack' /\ Unblocks' /\ Owned' /\ Shared'
  BY <1>c, <1>v DEF WritingBack, Put, Unblocks, Owns, Owned, Unblocking, Shared, Shares
<1> HIDE DEF Types, WellFormed, L1Step, L2Step, Head
<1> QED
  BY <1>1, <1>2, <1>3, <1>4, <1>5, <1>6, <1>7, <1>8 DEF Safe

\* The L2 serves a writer the block no L1 holds: d_sendDataToRequestor in M.
LEMMA WriteIdle ==
  ASSUME Safe, NEW c \in L1s, NEW m \in wire, m.type \in Writing, m.src = c, m.dst = "L2",
         bank.st = "M",
         L2Step([bank EXCEPT !.st = "MT_MB"], {m}, {Head("DATA", "L2", c, None, 0)})
  PROVE  Safe' /\ (wire \ {m}) \cap {Head("DATA", "L2", c, None, 0)} = {}
<1>0. Caches /\ Coherent
  BY DEF Safe
<1> USE <1>0 DEF Caches, Coherent, Reading, Writing, ReadStates, WriteStates, Blocked,
      Collected, Recalled, Handing, L1Step, L2Step, Same, Head, L1States, L2States, Bank, Types,
      WellFormed
<1>c. Collecting(c)' /\ ~Collecting(c) /\ st[c] \in WriteStates
  BY DEF Collecting, WriteRecorded, OneAnswer, Asks, Asking
<1>s. \A d \in L1s \ {c} : ~Collecting(d)' /\ ~Collecting(d)
  BY DEF Collecting, WriteRecorded, OneTurn, Turn
<1>z. Cardinality(Debtors(c)) = 0
  BY <1>c, NoDebtors
<1>r. \A h \in wire : ~Reply(h, c)
  BY DEF Reply, OneAnswer, Asks
<1>d. \A x \in L1s \cup {"L2"} : Debtors(x)' = Debtors(x)
  BY DEF Debtors, Owes
<1>1. (wire \ {m}) \cap {Head("DATA", "L2", c, None, 0)} = {}
  BY DEF OneAnswer, Asking, Asks, ReadRecorded, WriteRecorded
<1>2. Types' /\ WellFormed' /\ OneAnswer' /\ Asking' /\ Directory' /\ OneRecall'
  BY DEF OneAnswer, Asking, Asks, ReadRecorded, WriteRecorded, Directory, OneRecall, Recall
<1>3. OneTurn' /\ Counts' /\ Invalidations' /\ L2Counts'
  BY <1>d, <1>c, <1>s, <1>z DEF OneTurn, Turn, Collecting, Unblocking, WriteRecorded, Counts,
     Reply, OneAnswer, Asks, Invalidations, L2Counts
<1>4. HandOver'
  BY DEF HandOver, Hand
<1>5. WritingBack' /\ Unblocks' /\ Owned' /\ Shared'
  BY <1>c DEF WritingBack, Put, Unblocks, Owns, Owned, Unblocking, Shared, Shares
<1> HIDE DEF Types, WellFormed, L1Step, L2Step, Head
<1> QED
  BY <1>1, <1>2, <1>3, <1>4, <1>5 DEF Safe

\* The L2 forwards a write to the owner: b_forwardRequestToExclusive in MT, to MT_MB.
LEMMA WriteOwned ==
  ASSUME Safe, NEW c \in L1s, NEW m \in wire, m.type \in Writing, m.src = c, m.dst = "L2",
         bank.st = "MT",
         L2Step([bank EXCEPT !.st = "MT_MB"], {m}, {Head(m.type, "L2", bank.exclusive, c, 0)})
  PROVE  Safe' /\ (wire \ {m}) \cap {Head(m.type, "L2", bank.exclusive, c, 0)} = {}
<1>0. Caches /\ Coherent
  BY DEF Safe
<1> USE <1>0 DEF Caches, Coherent, Reading, Writing, ReadStates, WriteStates, Blocked,
      Collected, Recalled, Handing, L1Step, L2Step, Same, Head, L1States, L2States, Bank, Types,
      WellFormed
<1>w. Head(m.type, "L2", bank.exclusive, c, 0) \in wire'
  OBVIOUS
<1>v. \E h \in wire' : h.src = "L2" /\ h.dst = bank.exclusive /\ h.type \in Reading \cup Writing
  <2> HIDE DEF L2Step
  <2> QED BY <1>w
<1>c. Collecting(c)' /\ ~Collecting(c) /\ st[c] \in WriteStates
  BY DEF Collecting, WriteRecorded, OneAnswer, Asks, Asking
<1>s. \A d \in L1s \ {c} : ~Collecting(d)' /\ ~Collecting(d)
  BY DEF Collecting, WriteRecorded, OneTurn, Turn
<1>z. Cardinality(Debtors(c)) = 0
  BY <1>c, NoDebtors
<1>r. \A h \in wire : ~Reply(h, c)
  BY DEF Reply, OneAnswer, Asks
<1>d. \A x \in L1s \cup {"L2"} : Debtors(x)' = Debtors(x)
  BY DEF Debtors, Owes
<1>1. (wire \ {m}) \cap {Head(m.type, "L2", bank.exclusive, c, 0)} = {}
  BY DEF OneAnswer, Asking, Asks, ReadRecorded, WriteRecorded
<1>2. Types' /\ WellFormed' /\ OneAnswer' /\ Asking' /\ Directory' /\ OneRecall'
  BY DEF Directory, OneAnswer, Asking, Asks, ReadRecorded, WriteRecorded, OneRecall, Recall
<1>3. OneTurn' /\ Counts' /\ Invalidations' /\ L2Counts'
  BY <1>d, <1>c, <1>s, <1>z, <1>r DEF OneTurn, Turn, Collecting, Unblocking, WriteRecorded,
     Counts, Reply, Invalidations, L2Counts
<1>4. HandOver'
  BY DEF HandOver, Hand
<1>5. WritingBack' /\ Unblocks' /\ Owned' /\ Shared'
  BY <1>v DEF WritingBack, Put, Directory, Unblocks, Owns, Owned, Unblocking, Shared, Shares
<1> HIDE DEF Types, WellFormed, L1Step, L2Step, Head
<1> QED
  BY <1>1, <1>2, <1>3, <1>4, <1>5 DEF Safe

--------------------------------------------------------------------------------
\* The events together.

\* Every event of an L1 cache keeps the invariant and sends nothing that is under way.
LEMMA L1Kept ==
  ASSUME Safe, NEW c \in L1s, NEW s, NEW n \in Int, NEW use \in SUBSET wire, NEW out,
         L1Event(c, st[c], due[c], s, n, use, out), L1Step(c, s, n, use, out)
  PROVE  Safe' /\ (wire \ use) \cap out = {}
<1>1. CASE use = {} /\ L1Alone(c, st[c], s, n, out)
  <2>1. CASE L1Settles(st[c], s, out)
    BY <1>1, <2>1, Settle DEF L1Settles, Owning
  <2>2. CASE L1PutsBack(c, st[c], s, out)
    BY <1>1, <2>2, PutBack DEF L1PutsBack
  <2>3. CASE L1Misses(c, st[c], s, n, out)
    <3>1. PICK q : /\ out = {Head(q, c, "L2", None, 0)}
                   /\ \/ st[c] = "I" /\ q \in Reading /\ s = "IS"
                      \/ st[c] = "I" /\ q = "GETX" /\ s = "IM" /\ n = 0
                      \/ st[c] = "S" /\ q = "UPGRADE" /\ s = "SM" /\ n = 0
      BY <2>3, Zenon DEF L1Misses
    <3> QED
      BY <1>1, <3>1, Miss
  <2> QED
    BY <1>1, <2>1, <2>2, <2>3 DEF L1Alone
<1>2. ASSUME NEW m \in use, use = {m}, L1Takes(c, st[c], due[c], s, n, m, out)
      PROVE  Safe' /\ (wire \ use) \cap out = {}
  <2>0. m \in wire /\ m.dst = c /\ L1Step(c, s, n, {m}, out)
    BY <1>2 DEF L1Takes
  <2>1. CASE L1Acknowledges(c, st[c], due[c], s, n, m, out)
    BY <1>2, <2>0, <2>1, Acknowledge DEF L1Acknowledges
  <2>2. CASE L1GivesBack(c, st[c], s, m, out)
    BY <1>2, <2>0, <2>2, InvOwner DEF L1GivesBack
  <2>3. CASE L1HandsOver(c, st[c], s, m, out) /\ m.type \in Writing
    BY <1>2, <2>0, <2>3, FwdWrite DEF L1HandsOver, Reading, Writing
  <2>4. CASE L1HandsOver(c, st[c], s, m, out) /\ m.type \in Reading
    BY <1>2, <2>0, <2>4, FwdRead DEF L1HandsOver, Reading, Writing
  <2>5. CASE L1Fills(c, st[c], s, m, out) /\ m.type = "DATA_EXCLUSIVE"
    BY <1>2, <2>0, <2>5, DataExclusive DEF L1Fills
  <2>6. CASE L1Fills(c, st[c], s, m, out) /\ m.type = "DATA"
    BY <1>2, <2>0, <2>6, ReadData DEF L1Fills
  <2>7. CASE L1Collects(c, st[c], due[c], s, n, m, out) /\ due[c] = m.acks
    BY <1>2, <2>0, <2>7, Complete DEF L1Collects
  <2>8. CASE L1Collects(c, st[c], due[c], s, n, m, out) /\ due[c] # m.acks
    BY <1>2, <2>0, <2>8, More DEF L1Collects
  <2>9. CASE L1PutsDone(st[c], s, m, out)
    BY <1>2, <2>0, <2>9, PutDone DEF L1PutsDone
  <2> QED
    BY <1>2, <2>1, <2>2, <2>3, <2>4, <2>5, <2>6, <2>7, <2>8, <2>9, Zenon
       DEF L1Takes, L1HandsOver, L1Fills
<1> QED
  BY <1>1, <1>2 DEF L1Event

\* What is under way to the L2 comes from an L1.
LEMMA ToL2 ==
  ASSUME Safe, NEW m \in wire, m.dst = "L2" PROVE m.src \in L1s
  BY DEF Safe, Caches, Coherent, WellFormed

\* The L2 taking an unblock, the owner's data or an acknowledgement keeps the invariant.
LEMMA L2UnblocksKept ==
  ASSUME Safe, NEW m \in wire, m.dst = "L2", NEW out,
         L2Unblocks(bank, bank', m, out) \/ L2TakesData(bank, bank', m, out)
         \/ L2TakesAck(bank, bank', m, out),
         L2Step(bank', {m}, out)
  PROVE  Safe' /\ (wire \ {m}) \cap out = {}
<1> DEFINE c == m.src
<1>0. c \in L1s /\ bank \in Bank /\ 0 \in Int
  BY ToL2 DEF Safe, Coherent, Types
<1>1. CASE L2Unblocks(bank, bank', m, out) /\ m.type = "EXCLUSIVE_UNBLOCK"
  <2>1. L2Step([bank EXCEPT !.st = "MT", !.sharers = {c}, !.exclusive = c], {m}, {}) /\ out = {}
    BY <1>0, <1>1 DEF L2Unblocks, L2Step, Same, Holds, Becomes, Bank
  <2> QED
    BY <1>0, <1>1, <2>1, ExclusiveUnblock, Zenon DEF L2Unblocks
<1>2. CASE L2Unblocks(bank, bank', m, out) /\ m.type = "UNBLOCK"
  <2>1. /\ L2Step([bank EXCEPT !.st = bank'.st, !.sharers = bank.sharers \cup {c}], {m},
                {})
        /\ out = {}
    BY <1>0, <1>2 DEF L2Unblocks, Holds, L2Step, Same, Holds, Becomes, Bank
  <2> QED
    BY <1>0, <1>2, <2>1, Unblocked, Zenon DEF L2Unblocks, Holds
<1>3. CASE L2TakesData(bank, bank', m, out) /\ bank.st \notin Recalled
  <2>1. L2Step([bank EXCEPT !.st = bank'.st], {m}, {}) /\ out = {}
    BY <1>0, <1>3 DEF L2TakesData, Recalled, L2Step, Same, Holds, Becomes, Bank
  <2> QED
    BY <1>0, <1>3, <2>1, OwnersData, Zenon DEF L2TakesData, Recalled
<1>4. CASE L2TakesData(bank, bank', m, out) /\ bank.st \in Recalled
  <2>1. L2Step([bank EXCEPT !.st = "M_I", !.pendingAcks = bank.pendingAcks], {m}, {}) /\ out = {}
    BY <1>0, <1>4 DEF L2TakesData, Recalled, Bank, L2Step, Same, Holds, Becomes, Bank
  <2> QED
    BY <1>0, <1>4, <2>1, Evicted, Zenon DEF L2TakesData, Recalled, Bank
<1>5. CASE L2TakesAck(bank, bank', m, out) /\ bank.pendingAcks # m.acks
  <2>1. L2Step([bank EXCEPT !.pendingAcks = bank.pendingAcks - m.acks], {m}, {}) /\ out = {}
    BY <1>0, <1>5 DEF L2TakesAck, L2Step, Same, Holds, Becomes, Bank
  <2> QED
    BY <1>0, <1>5, <2>1, InvAckMore, Zenon DEF L2TakesAck
<1>6. CASE L2TakesAck(bank, bank', m, out) /\ bank.pendingAcks = m.acks
  <2>1. L2Step([bank EXCEPT !.st = "M_I", !.pendingAcks = 0], {m}, {}) /\ out = {}
    BY <1>0, <1>6 DEF L2TakesAck, L2Step, Same, Holds, Becomes, Bank
  <2> QED
    BY <1>0, <1>6, <2>1, Evicted, Zenon DEF L2TakesAck
<1> QED
  BY <1>1, <1>2, <1>3, <1>4, <1>5, <1>6, Zenon DEF L2Unblocks

\* The L2 taking a write back or a request for a readable copy keeps the invariant.
LEMMA L2PutsKept ==
  ASSUME Safe, NEW m \in wire, m.dst = "L2", NEW out,
         L2Puts(bank, bank', m, out) \/ L2Reads(bank, bank', m, out),
         L2Step(bank', {m}, out)
  PROVE  Safe' /\ (wire \ {m}) \cap out = {}
<1> DEFINE c == m.src
<1>0. c \in L1s /\ bank \in Bank /\ 0 \in Int
  BY ToL2 DEF Safe, Coherent, Types
<1>1. CASE L2Puts(bank, bank', m, out) /\ bank.st = "MT" /\ c \in bank.sharers
  <2>1. /\ L2Step([bank EXCEPT !.st = "M", !.sharers = {}], {m},
                {Head("WB_ACK", "L2", c, None, 0)})
        /\ out = {Head("WB_ACK", "L2", c, None, 0)}
    BY <1>0, <1>1 DEF L2Puts, L2Step, Same, Holds, Becomes, Bank
  <2> QED
    BY <1>0, <1>1, <2>1, PutByOwner, Zenon DEF L2Puts
<1>2. CASE L2Puts(bank, bank', m, out) /\ ~(bank.st = "MT" /\ c \in bank.sharers)
  <2>1. /\ L2Step([bank EXCEPT !.st = bank.st], {m},
                {Head("WB_ACK", "L2", c, None, 0)})
        /\ out = {Head("WB_ACK", "L2", c, None, 0)}
    BY <1>0, <1>2 DEF L2Puts, L2Step, Same, Holds, Becomes, Bank
  <2> QED
    BY <1>0, <1>2, <2>1, PutLate, Zenon DEF L2Puts
<1>3. CASE L2Reads(bank, bank', m, out) /\ bank'.st \in {"IS", "ISS"}
  <2>1. /\ L2Step([bank EXCEPT !.st = bank'.st, !.sharers = bank.sharers \cup {c}, !.getS = bank.getS \cup {c}], {m},
                {})
        /\ out = {}
    BY <1>0, <1>3 DEF L2Reads, Holds, Becomes, L2Step, Same, Holds, Becomes, Bank
  <2> QED
    BY <1>0, <1>3, <2>1, Requested, Zenon DEF L2Reads, Holds, Becomes
<1>4. CASE L2Reads(bank, bank', m, out) /\ bank'.st = "SS"
  <2>1. /\ L2Step([bank EXCEPT !.st = "SS", !.sharers = bank.sharers \cup {c}], {m},
                {Head("DATA", "L2", c, None, 0)})
        /\ out = {Head("DATA", "L2", c, None, 0)}
    BY <1>0, <1>4 DEF L2Reads, Holds, Becomes, Datas, L2Step, Same, Holds, Becomes, Bank
  <2> QED
    BY <1>0, <1>4, <2>1, ReadShared, Zenon DEF L2Reads, Holds, Becomes, Datas
<1>5. CASE L2Reads(bank, bank', m, out) /\ bank'.st = "MT_MB"
  <2>1. /\ L2Step([bank EXCEPT !.st = "MT_MB"], {m},
                {Head("DATA_EXCLUSIVE", "L2", c, None, 0)})
        /\ out = {Head("DATA_EXCLUSIVE", "L2", c, None, 0)}
    BY <1>0, <1>5 DEF L2Reads, Holds, Becomes, Datas, L2Step, Same, Holds, Becomes, Bank
  <2> QED
    BY <1>0, <1>5, <2>1, ReadIdle, Zenon DEF L2Reads, Holds, Becomes, Datas
<1>6. CASE L2Reads(bank, bank', m, out) /\ bank.st = "MT"
  <2>1. /\ L2Step([bank EXCEPT !.st = "MT_IIB"], {m},
                {Head(m.type, "L2", bank.exclusive, c, 0)})
        /\ out = {Head(m.type, "L2", bank.exclusive, c, 0)}
    BY <1>0, <1>6 DEF L2Reads, L2Step, Same, Holds, Becomes, Bank
  <2> QED
    BY <1>0, <1>6, <2>1, ReadOwned, Zenon DEF L2Reads
<1> QED
  BY <1>1, <1>2, <1>3, <1>4, <1>5, <1>6, Zenon DEF L2Reads, Holds, Becomes

\* The L2 taking a request for a writable copy keeps the invariant.
LEMMA L2WritesKept ==
  ASSUME Safe, NEW m \in wire, m.dst = "L2", NEW out, L2Writes(bank, bank', m, out),
         L2Step(bank', {m}, out)
  PROVE  Safe' /\ (wire \ {m}) \cap out = {}
<1> DEFINE c == m.src
<1>0. c \in L1s /\ bank \in Bank /\ 0 \in Int
  BY ToL2 DEF Safe, Coherent, Types
<1>1. CASE L2Writes(bank, bank', m, out) /\ bank.st = "NP"
  <2>1. L2Step([bank EXCEPT !.st = "IM", !.getX = c], {m}, {}) /\ out = {}
    BY <1>0, <1>1 DEF L2Writes, L2Step, Same, Holds, Becomes, Bank
  <2> QED
    BY <1>0, <1>1, <2>1, WriteAbsent, Zenon DEF L2Writes
<1>2. CASE L2Writes(bank, bank', m, out) /\ bank.st = "SS"
  <2>0. PICK t, n :
             /\ t \in {"DATA", "ACK"}
             /\ n = 0 - Cardinality(bank.sharers \ {c})
             /\ out = {Head("INV", "L2", d, c, 0) : d \in bank.sharers \ {c}}
                       \cup {Head(t, "L2", c, None, n)}
    BY <1>2 DEF L2Writes, Invs, Datas
  <2>1. /\ L2Step([bank EXCEPT !.st = "SS_MB"], {m},
                {Head("INV", "L2", d, c, 0) : d \in bank.sharers \ {c}}
                   \cup {Head(t, "L2", c, None, n)})
        /\ out = {Head("INV", "L2", d, c, 0) : d \in bank.sharers \ {c}}
                   \cup {Head(t, "L2", c, None, n)}
    BY <1>0, <1>2, <2>0 DEF L2Writes, L2Step, Same, Holds, Becomes, Bank
  <2> QED
    <3>1. m.type \in Writing
      BY <1>2 DEF L2Writes
    <3> QED
      BY <1>0, <1>2, <2>0, <2>1, <3>1, WriteShared, Zenon
<1>3. CASE L2Writes(bank, bank', m, out) /\ bank.st = "M"
  <2>1. /\ L2Step([bank EXCEPT !.st = "MT_MB"], {m},
                {Head("DATA", "L2", c, None, 0)})
        /\ out = {Head("DATA", "L2", c, None, 0)}
    BY <1>0, <1>3 DEF L2Writes, Datas, L2Step, Same, Holds, Becomes, Bank
  <2> QED
    BY <1>0, <1>3, <2>1, WriteIdle, Zenon DEF L2Writes, Datas
<1>4. CASE L2Writes(bank, bank', m, out) /\ bank.st = "MT"
  <2>1. /\ L2Step([bank EXCEPT !.st = "MT_MB"], {m},
                {Head(m.type, "L2", bank.exclusive, c, 0)})
        /\ out = {Head(m.type, "L2", bank.exclusive, c, 0)}
    BY <1>0, <1>4 DEF L2Writes, L2Step, Same, Holds, Becomes, Bank
  <2> QED
    BY <1>0, <1>4, <2>1, WriteOwned, Zenon DEF L2Writes
<1> QED
  BY <1>1, <1>2, <1>3, <1>4, Zenon DEF L2Writes

\* The L2 taking no message of an L1 keeps the invariant.
LEMMA L2AloneKept ==
  ASSUME Safe, NEW out, L2Alone(bank, bank', out), L2Step(bank', {}, out)
  PROVE  Safe' /\ (wire \ {}) \cap out = {}
<1>0. bank \in Bank /\ Cardinality(bank.sharers) \in Int /\ 0 \in Int
  BY DEF Safe, Caches, Countable, Coherent, Types, Bank
<1>1. CASE L2Fills(bank, bank', out) /\ bank.st # "IM"
  <2>1. PICK t : /\ \/ bank.st = "ISS" /\ bank'.st = "MT_MB" /\ t = "DATA_EXCLUSIVE"
                    \/ bank.st = "IS" /\ bank'.st = "SS" /\ t = "DATA"
                 /\ out = {Head(t, "L2", c, None, 0) : c \in bank.getS}
    BY <1>1 DEF L2Fills, Datas, Holds
  <2>2. L2Step([bank EXCEPT !.st = bank'.st, !.getS = {}, !.getX = None, !.pendingAcks = 0], {},
               {Head(t, "L2", c, None, 0) : c \in bank.getS})
    BY <1>0, <1>1, <2>1 DEF L2Fills, L2Step, Same, Holds, Bank
  <2>3. Safe' /\ (wire \ {}) \cap {Head(t, "L2", c, None, 0) : c \in bank.getS} = {}
    <3> HIDE DEF L2Step
    <3>1. CASE bank.st = "ISS"
      BY <1>0, <2>1, <2>2, <3>1, Fill, ZenonT(30)
    <3>2. CASE bank.st = "IS"
      BY <1>0, <2>1, <2>2, <3>2, Fill, ZenonT(30)
    <3> QED
      BY <2>1, <3>1, <3>2, Zenon
  <2> QED
    BY <2>1, <2>3
<1>2. CASE L2Fills(bank, bank', out) /\ bank.st = "IM"
  <2>1. /\ L2Step([bank EXCEPT !.st = "MT_MB", !.getS = {}, !.getX = None, !.pendingAcks = 0], {},
                  {Head("DATA", "L2", bank.getX, None, 0)})
        /\ out = {Head("DATA", "L2", bank.getX, None, 0)}
    BY <1>0, <1>2 DEF L2Fills, Datas, L2Step, Same, Holds, Bank
  <2> QED
    BY <1>0, <1>2, <2>1, FillWriter, Zenon
<1>3. CASE L2Evicts(bank, bank', out) /\ bank.st # "M"
  <2> DEFINE n == Cardinality(bank.sharers)
  <2>1. L2Step([bank EXCEPT !.st = bank'.st, !.pendingAcks = n, !.sharers = {}, !.exclusive = None],
               {}, out)
    BY <1>0, <1>3 DEF L2Evicts, L2Step, Same, Holds, Bank
  <2>2. /\ out = {Head("INV", "L2", d, "L2", 0) : d \in bank.sharers}
        /\ \/ bank.st = "SS" /\ bank'.st \in Collected
           \/ bank.st = "MT" /\ bank'.st \in Recalled
    BY <1>3 DEF L2Evicts, Invs
  <2> QED
    BY <1>0, <2>1, <2>2, Evict, Zenon
<1>4. CASE L2Evicts(bank, bank', out) /\ bank.st = "M"
  <2> DEFINE n == Cardinality(bank.sharers)
  <2>1. L2Step([bank EXCEPT !.st = "M_I", !.pendingAcks = n, !.sharers = {}, !.exclusive = None],
               {}, {}) /\ out = {}
    BY <1>0, <1>4 DEF L2Evicts, L2Step, Same, Holds, Bank
  <2> QED
    BY <1>0, <1>4, <2>1, EvictIdle, Zenon
<1>5. CASE L2Drops(bank, bank', out)
  <2>1. L2Step([bank EXCEPT !.st = "NP", !.sharers = {}, !.exclusive = None, !.getS = {},
                            !.getX = None, !.pendingAcks = 0], {}, {}) /\ out = {}
    BY <1>0, <1>5 DEF L2Drops, L2Step, Same, Holds, Bank
  <2> QED
    BY <1>5, <2>1, Gone, Zenon DEF L2Drops
<1> QED
  BY <1>1, <1>2, <1>3, <1>4, <1>5 DEF L2Alone

\* Every event of the L2 keeps the invariant and sends nothing that is under way.
LEMMA L2Kept ==
  ASSUME Safe, NEW use \in SUBSET wire, NEW out, L2Event(bank, bank', use, out),
         L2Step(bank', use, out)
  PROVE  Safe' /\ (wire \ use) \cap out = {}
<1>1. CASE use = {} /\ L2Alone(bank, bank', out)
  BY <1>1, L2AloneKept
<1>2. ASSUME NEW m \in use, use = {m}, L2Takes(bank, bank', m, out)
      PROVE  Safe' /\ (wire \ use) \cap out = {}
  BY <1>2, L2UnblocksKept, L2PutsKept, L2WritesKept, Zenon DEF L2Takes
<1> QED
  BY <1>1, <1>2 DEF L2Event

\* An event takes no message that it sends.
LEMMA Disjoint ==
  ASSUME Safe, NEW use \in SUBSET wire, NEW out,
         \/ \E c \in L1s : \E s, n : L1Event(c, st[c], due[c], s, n, use, out)
         \/ \E l : L2Event(bank, l, use, out)
  PROVE  use \cap out = {}
<1>1. ASSUME NEW c \in L1s, NEW s, NEW n, NEW m \in use,
             L1Takes(c, st[c], due[c], s, n, m, out)
      PROVE  m \notin out
  BY <1>1 DEF L1Takes, L1Acknowledges, L1GivesBack, L1HandsOver, L1Fills, L1Collects, L1PutsDone,
     Head, Reading, Writing
<1>2. ASSUME NEW l, NEW m \in use, L2Takes(bank, l, m, out)
      PROVE  m \notin out
  <2>1. m.src \in L1s /\ "L2" \notin L1s
    BY <1>2, ToL2, Zenon DEF L2Takes, Safe, Caches
  <2>2. \A h \in out : h.src = "L2"
    <3>1. CASE \/ L2Unblocks(bank, l, m, out) \/ L2TakesData(bank, l, m, out)
               \/ L2TakesAck(bank, l, m, out)
      BY <3>1, Zenon DEF L2Unblocks, L2TakesData, L2TakesAck
    <3>2. CASE L2Puts(bank, l, m, out)
      BY <3>2 DEF L2Puts, Head
    <3>3. CASE L2Reads(bank, l, m, out)
      BY <3>3 DEF L2Reads, Datas, Head
    <3>4. CASE L2Writes(bank, l, m, out)
      BY <3>4 DEF L2Writes, Datas, Invs, Head
    <3> QED
      BY <1>2, <3>1, <3>2, <3>3, <3>4, Zenon DEF L2Takes
  <2> QED
    BY <2>1, <2>2
<1> QED
  BY <1>1, <1>2 DEF L1Event, L2Event

\* So an event of an L1 on a state the invariant holds in is a step of the protocol.
LEMMA L1Moved ==
  ASSUME Safe, NEW c \in L1s, NEW s, NEW n \in Int, NEW use \in SUBSET wire, NEW out,
         L1Event(c, st[c], due[c], s, n, use, out), L1Step(c, s, n, use, out), bank' = bank
  PROVE  Safe' /\ (wire \ use) \cap out = {} /\ L1Moves(c)
<1>1. Safe' /\ (wire \ use) \cap out = {}
  BY L1Kept
<1>2. use \cap out = {}
  BY Disjoint, Zenon
<1>3. wire \ wire' = use /\ wire' \ wire = out
  BY <1>1, <1>2 DEF L1Step
<1>4. st'[c] = s /\ due'[c] = n /\ st' = [st EXCEPT ![c] = s] /\ due' = [due EXCEPT ![c] = n]
  BY DEF L1Step, Safe, Coherent, Types
<1> QED
  BY <1>1, <1>3, <1>4 DEF L1Moves

\* And so is an event of the L2.
LEMMA L2Moved ==
  ASSUME Safe, NEW use \in SUBSET wire, NEW out, L2Event(bank, bank', use, out),
         L2Step(bank', use, out)
  PROVE  Safe' /\ (wire \ use) \cap out = {} /\ L2Moves
<1>1. Safe' /\ (wire \ use) \cap out = {}
  BY L2Kept
<1>2. use \cap out = {}
  BY Disjoint, Zenon
<1>3. wire \ wire' = use /\ wire' \ wire = out
  BY <1>1, <1>2 DEF L2Step
<1> QED
  BY <1>1, <1>3 DEF L2Moves, L2Step

\* A step of the protocol keeps the invariant.
LEMMA NextKept ==
  ASSUME Safe, [Next]_view
  PROVE  Safe'
<1> DEFINE use == wire \ wire'
           out == wire' \ wire
<1>0. use \in SUBSET wire /\ wire' = (wire \ use) \cup out /\ bank \in Bank
  BY DEF Safe, Coherent, Types
<1>1. ASSUME NEW c \in L1s, L1Moves(c)
      PROVE  Safe'
  <2>1. L1Event(c, st[c], due[c], st'[c], due'[c], use, out) /\ due'[c] \in Int
    BY <1>1 DEF L1Moves
  <2>2. L1Step(c, st'[c], due'[c], use, out)
    BY <1>0, <1>1 DEF L1Moves, L1Step, Same, Bank
  <2> HIDE DEF use, out
  <2> QED
    BY <1>0, <2>1, <2>2, L1Kept
<1>2. CASE L2Moves
  <2>1. L2Event(bank, bank', use, out)
    BY <1>2 DEF L2Moves
  <2>2. L2Step(bank', use, out)
    BY <1>0, <1>2 DEF L2Moves, L2Step, Same
  <2> HIDE DEF use, out
  <2> QED
    BY <1>0, <2>1, <2>2, L2Kept
<1>3. CASE UNCHANGED view
  BY <1>3, Untouched DEF view
<1> QED
  BY <1>1, <1>2, <1>3 DEF Next

\* Nothing is held and nothing is under way at first, and the invariant holds.
LEMMA InitKept ==
  ASSUME Caches, Init
  PROVE  Safe
  BY Starts DEF Init, Bank, L2States

\* The protocol keeps its invariant, for every set of caches that can be counted.
THEOREM PermissionsKept == ASSUME Caches PROVE Spec => []Safe
<1>1. Init => Safe
  BY InitKept
<1>2. Safe /\ [Next]_view => Safe'
  BY NextKept
<1> QED
  BY <1>1, <1>2, PTL DEF Spec

\* No two caches disagree: while one may write the block no other may read or write it.
THEOREM PermissionsExclusive == ASSUME Caches PROVE Spec => []Exclusive
<1>1. Safe => Exclusive
  BY OneWriter DEF Exclusive, Owning
<1> QED
  BY <1>1, PermissionsKept, PTL

================================================================================
