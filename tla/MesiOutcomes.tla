------------------------------ MODULE MesiOutcomes ------------------------------
(***************************************************************************)
(* What the transitions of the L1, of the L2 and of the directory of       *)
(* MesiTwoLevel can result in, for every state and every message of their  *)
(* types: the new entry or line and the messages sent have their types,    *)
(* and each result that a permission depends on is one event of            *)
(* MesiEvents. MesiTwoLevelProofs puts these facts together.               *)
(***************************************************************************)
EXTENDS MesiTwoLevel, MesiEvents, TLAPS

--------------------------------------------------------------------------------
\* Messages, their headers and the types of the state.

\* The machines, the message types of RequestMsg, ResponseMsg and the memory messages, and
\* a message between two machines.
End == L1s \cup {"L2", "Dir", "Mem", "DMA"}

Kinds == {"GETS", "GET_INSTR", "GETX", "UPGRADE", "PUTX", "INV", "ACK", "DATA", "DATA_EXCLUSIVE",
          "UNBLOCK", "EXCLUSIVE_UNBLOCK", "WB_ACK", "FETCH", "MEMORY_DATA", "MEMORY_ACK",
          "MEMORY_READ", "MEMORY_WB", "DMA_READ", "DMA_WRITE"}

Message ==
  {m \in [type : Kinds, src : End, dst : End, requestor : End \cup {None}, fresh : BOOLEAN,
          dirty : BOOLEAN, acks : Int, stalled : BOOLEAN] :
     m.src = "Dir" /\ m.dst = "L2" => m.type \in {"MEMORY_DATA", "MEMORY_ACK", "INV"}}

\* Messages that an L1 sends or receives; the header is what a transition reads of them,
\* the block aside.
Local(m) == m.src \in L1s \/ m.dst \in L1s

Header(m) == [type |-> m.type, src |-> m.src, dst |-> m.dst, requestor |-> m.requestor,
              acks |-> m.acks]
Headers(n) == {Header(m) : m \in {o \in n : Local(o)}}

\* Two messages of an L1 that agree on the header are one message: only a block could tell
\* them apart, and none is sent twice.
DistinctIn(n) == \A x, y \in n : Local(x) /\ Header(x) = Header(y) => x = y

\* wakeUpBuffers() puts the stalled messages of a machine back in its queues: their
\* headers do not change.
LEMMA WakeNet ==
  ASSUME NEW n \in SUBSET Message, NEW d, NEW k
  PROVE  /\ WakeUp(n, d, k) \in SUBSET Message /\ Headers(WakeUp(n, d, k)) = Headers(n)
         /\ DistinctIn(n) => DistinctIn(WakeUp(n, d, k))
<1> DEFINE f(m) == [m EXCEPT !.stalled = @ /\ ~(m.dst = d /\ Rank(m) < k)]
<1>1. \A m \in n : f(m) \in Message /\ Header(f(m)) = Header(m) /\ (Local(f(m)) <=> Local(m))
  BY Zenon DEF Message, Header, Local
<1>2. WakeUp(n, d, k) = {f(m) : m \in n}
  BY DEF WakeUp
<1> HIDE DEF f
<1>3. WakeUp(n, d, k) \in SUBSET Message
  BY <1>1, <1>2
<1>4. Headers(WakeUp(n, d, k)) \subseteq Headers(n)
  BY <1>1, <1>2 DEF Headers
<1>5. Headers(n) \subseteq Headers(WakeUp(n, d, k))
  BY <1>1, <1>2 DEF Headers
<1>6. DistinctIn(n) => DistinctIn(WakeUp(n, d, k))
  BY <1>1, <1>2 DEF DistinctIn
<1> QED
  BY <1>3, <1>4, <1>5, <1>6

\* A store makes the blocks under way out of date and changes no header.
LEMMA OldNet ==
  ASSUME NEW n \in SUBSET Message
  PROVE  /\ OldMsgs(n) \in SUBSET Message /\ Headers(OldMsgs(n)) = Headers(n)
         /\ DistinctIn(n) => DistinctIn(OldMsgs(n))
<1> DEFINE f(m) == [m EXCEPT !.fresh = FALSE]
<1>1. \A m \in n : f(m) \in Message /\ Header(f(m)) = Header(m) /\ (Local(f(m)) <=> Local(m))
  BY Zenon DEF Message, Header, Local
<1>2. OldMsgs(n) = {f(m) : m \in n}
  BY DEF OldMsgs
<1> HIDE DEF f
<1>3. OldMsgs(n) \in SUBSET Message
  BY <1>1, <1>2
<1>4. Headers(OldMsgs(n)) \subseteq Headers(n)
  BY <1>1, <1>2 DEF Headers
<1>5. Headers(n) \subseteq Headers(OldMsgs(n))
  BY <1>1, <1>2 DEF Headers
<1>6. DistinctIn(n) => DistinctIn(OldMsgs(n))
  BY <1>1, <1>2 DEF DistinctIn
<1> QED
  BY <1>3, <1>4, <1>5, <1>6

\* What a set of messages adds to the headers under way when it is sent.
LEMMA Sent ==
  ASSUME NEW a, NEW b
  PROVE  /\ Headers(a \cup b) = Headers(a) \cup Headers(b)
         /\ DistinctIn(a) /\ DistinctIn(b) /\ Headers(a) \cap Headers(b) = {}
               => DistinctIn(a \cup b)
<1>1. Headers(a \cup b) = Headers(a) \cup Headers(b)
  BY DEF Headers
<1>2. \A x \in a : Local(x) => Header(x) \in Headers(a)
  BY DEF Headers
<1>3. \A x \in b : Local(x) => Header(x) \in Headers(b)
  BY DEF Headers
<1>4. \A x, y : Header(x) = Header(y) => (Local(x) <=> Local(y))
  BY DEF Header, Local
<1> QED
  BY <1>1, <1>2, <1>3, <1>4 DEF DistinctIn

\* What a message takes away from the headers under way when it is popped.
LEMMA Taken ==
  ASSUME NEW n, DistinctIn(n), NEW m \in n
  PROVE  /\ Headers(n \ {m}) = Headers(n) \ Headers({m}) /\ DistinctIn(n \ {m})
         /\ Headers({m}) = IF Local(m) THEN {Header(m)} ELSE {}
<1>1. Headers({m}) = IF Local(m) THEN {Header(m)} ELSE {}
  BY DEF Headers
<1>2. \A x \in n : Local(x) /\ Local(m) /\ Header(x) = Header(m) => x = m
  BY DEF DistinctIn
<1>3. Headers(n \ {m}) = Headers(n) \ Headers({m})
  BY <1>1, <1>2 DEF Headers
<1> QED
  BY <1>1, <1>3 DEF DistinctIn

\* The types of a cache entry of MESI_Two_Level-L1cache.sm with its TBE, and of the L2
\* line with its TBE.
Ops == {"Load", "Ifetch", "Store", "Load_Linked", "Locked_RMW_Read", "Locked_RMW_Write"}
Entry == [st : L1States, fresh : BOOLEAN, dirty : BOOLEAN, icache : BOOLEAN, pendingAcks : Int,
          op : Ops \cup {None}, queued : BOOLEAN, stalled : BOOLEAN, blocked : BOOLEAN]
Line == [st : L2States, fresh : BOOLEAN, dirty : BOOLEAN, sharers : SUBSET L1s,
         exclusive : L1s \cup {None}, getS : SUBSET L1s, getX : L1s \cup {None},
         pendingAcks : Int]

\* The type invariant of the parts of the state that the proof reads.
TypeOK ==
  /\ l1 \in [L1s -> Entry] /\ l2 \in Line /\ net \in SUBSET Message /\ mem \in BOOLEAN
  /\ setup \in Setups

\* What every L1 step ends with, forgetting the fields nothing reads any more and waking
\* the stalled request, keeps the state of an entry, and the TBE's count of a cache that
\* waits to write.
LEMMA Settled ==
  ASSUME NEW e \in Entry
  PROVE  /\ Settle(e) \in Entry /\ Settle(e).st = e.st
         /\ e.st \in {"IM", "SM"} => Settle(e).pendingAcks = e.pendingAcks
<1> DEFINE a == IF e.st \in {"IM", "SM"} THEN e ELSE [e EXCEPT !.pendingAcks = 0]
<1> DEFINE b == IF e.st \in {"S", "E", "M", "SM", "M_I", "LLSC_E", "LLSC_M"} THEN a
                ELSE [a EXCEPT !.fresh = FALSE, !.dirty = FALSE]
<1>1. a \in Entry /\ a.st = e.st /\ (e.st \in {"IM", "SM"} => a.pendingAcks = e.pendingAcks)
  BY DEF Entry
<1> HIDE DEF a
<1>2. b \in Entry /\ b.st = e.st /\ b.pendingAcks = a.pendingAcks
  BY <1>1, Zenon DEF Entry
<1> HIDE DEF b
<1>3. [b EXCEPT !.icache = FALSE] \in Entry /\ [b EXCEPT !.icache = FALSE].st = b.st
      /\ [b EXCEPT !.icache = FALSE].pendingAcks = b.pendingAcks
  BY <1>2, Zenon DEF Entry
<1>4. Settle(e) = IF e.st = "I" THEN [b EXCEPT !.icache = FALSE] ELSE b
  BY DEF Settle, a, b
<1> QED
  BY <1>1, <1>2, <1>3, <1>4

\* A set of messages with the given headers.
Sends(out, heads) == out \in SUBSET Message /\ DistinctIn(out) /\ Headers(out) = heads

\* A transition without an out_port sends nothing.
LEMMA SendsNothing == Sends({}, {})
  BY DEF Sends, DistinctIn, Headers

\* A message that an L1 sends or receives is one header.
LEMMA SendsOne ==
  ASSUME NEW x \in Message, Local(x)
  PROVE  Sends({x}, {Header(x)})
  BY DEF Sends, DistinctIn, Headers

\* The fields of a message.
LEMMA MessageFields ==
  ASSUME NEW m \in Message
  PROVE  /\ \A x \in BOOLEAN :
              /\ [m EXCEPT !.fresh = x] \in Message /\ Header([m EXCEPT !.fresh = x]) = Header(m)
              /\ [m EXCEPT !.dirty = x] \in Message /\ Header([m EXCEPT !.dirty = x]) = Header(m)
              /\ [m EXCEPT !.stalled = x] \in Message
              /\ Header([m EXCEPT !.stalled = x]) = Header(m)
         /\ \A x \in Int :
              /\ [m EXCEPT !.acks = x] \in Message
              /\ Header([m EXCEPT !.acks = x]) = Head(m.type, m.src, m.dst, m.requestor, x)
         /\ \A x \in End \cup {None} :
              /\ [m EXCEPT !.requestor = x] \in Message
              /\ Header([m EXCEPT !.requestor = x]) = Head(m.type, m.src, m.dst, x, m.acks)
  BY DEF Message, Header, Head

\* The messages built by the constructors of MesiMessages are messages with the header one
\* expects.
LEMMA Composed ==
  ASSUME NEW t \in Kinds, NEW s \in L1s \cup {"L2"}, NEW d \in End
  PROVE  /\ Control(t, s, d) \in Message /\ Header(Control(t, s, d)) = Head(t, s, d, None, 0)
         /\ \A n \in Int : /\ Acks(t, s, d, n) \in Message
                           /\ Header(Acks(t, s, d, n)) = Head(t, s, d, None, n)
         /\ \A q \in End : /\ Forward(t, s, d, q) \in Message
                           /\ Header(Forward(t, s, d, q)) = Head(t, s, d, q, 0)
         /\ \A f, b \in BOOLEAN : /\ Block(t, s, d, f, b) \in Message
                                  /\ Header(Block(t, s, d, f, b)) = Head(t, s, d, None, 0)
<1> SUFFICES ASSUME NEW f \in BOOLEAN, NEW b \in BOOLEAN, NEW n \in Int, NEW q \in End
             PROVE  /\ Control(t, s, d) \in Message
                    /\ Header(Control(t, s, d)) = Head(t, s, d, None, 0)
                    /\ Acks(t, s, d, n) \in Message
                    /\ Header(Acks(t, s, d, n)) = Head(t, s, d, None, n)
                    /\ Forward(t, s, d, q) \in Message
                    /\ Header(Forward(t, s, d, q)) = Head(t, s, d, q, 0)
                    /\ Block(t, s, d, f, b) \in Message
                    /\ Header(Block(t, s, d, f, b)) = Head(t, s, d, None, 0)
  <2>1. 0 \in Int /\ "L2" \in End /\ TRUE \in BOOLEAN
    BY DEF End
  <2> QED
    BY <2>1, Zenon
<1> DEFINE m == Control(t, s, d)
           w == [m EXCEPT !.fresh = f]
<1>1. m \in Message /\ Header(m) = Head(t, s, d, None, 0)
  BY L1Assumption DEF Control, Message, End, Header, Head
<1>2. m.type = t /\ m.src = s /\ m.dst = d /\ m.requestor = None /\ m.acks = 0
  BY DEF Control
<1> HIDE DEF m
<1>3. Acks(t, s, d, n) = [m EXCEPT !.acks = n] /\ Forward(t, s, d, q) = [m EXCEPT !.requestor = q]
      /\ Block(t, s, d, f, b) = [w EXCEPT !.dirty = b]
  BY DEF Acks, Forward, Block, m
<1>4. w \in Message /\ Header(w) = Header(m)
  BY <1>1, MessageFields, Zenon
<1> HIDE DEF w
<1>5. [w EXCEPT !.dirty = b] \in Message /\ Header([w EXCEPT !.dirty = b]) = Header(w)
  BY <1>4, MessageFields, Zenon
<1>6. [m EXCEPT !.acks = n] \in Message
      /\ Header([m EXCEPT !.acks = n]) = Head(t, s, d, None, n)
  BY <1>1, <1>2, MessageFields
<1>7. [m EXCEPT !.requestor = q] \in Message
      /\ Header([m EXCEPT !.requestor = q]) = Head(t, s, d, q, 0)
  BY <1>1, <1>2, MessageFields
<1> QED
  BY <1>1, <1>3, <1>4, <1>5, <1>6, <1>7 DEF m

\* The three machines build their messages with the same constructors.
LEMMA SameMessages ==
  ASSUME NEW t, NEW s, NEW d
  PROVE  /\ L1!Control(t, s, d) = Control(t, s, d) /\ L2!Control(t, s, d) = Control(t, s, d)
         /\ \A n : L1!Acks(t, s, d, n) = Acks(t, s, d, n) /\ L2!Acks(t, s, d, n) = Acks(t, s, d, n)
         /\ \A q : L2!Forward(t, s, d, q) = Forward(t, s, d, q)
         /\ \A f, b : /\ L1!Block(t, s, d, f, b) = Block(t, s, d, f, b)
                      /\ L2!Block(t, s, d, f, b) = Block(t, s, d, f, b)
  BY DEF L1!Control, L2!Control, Control, L1!Acks, L2!Acks, Acks, L2!Forward, Forward, L1!Block,
         L2!Block, Block

\* A message to or from an L1 counts, one between the L2, the directory, memory and the
\* DMA engine does not.
LEMMA Locals ==
  ASSUME NEW t, NEW s, NEW d, s \in L1s \/ d \in L1s
  PROVE  /\ Local(Control(t, s, d)) /\ \A n : Local(Acks(t, s, d, n))
         /\ \A q : Local(Forward(t, s, d, q)) /\ \A f, b : Local(Block(t, s, d, f, b))
  BY DEF Local, Control, Acks, Forward, Block

\* A step takes one message off the network or none.
Used(used) == used = {} \/ \E m \in net : used = {m}

\* A step that takes the message in used and sends out leaves these headers under way,
\* with or without a wakeup of stalled messages.
LEMMA PassNet ==
  ASSUME net \in SUBSET Message, DistinctIn(net), NEW d, NEW used,
         Used(used),
         NEW r, NEW heads, Sends(r.out, heads)
  PROVE  /\ Pass(d, used, r) \in SUBSET Message
         /\ Headers(Pass(d, used, r)) = (Headers(net) \ Headers(used)) \cup heads
         /\ (Headers(net) \ Headers(used)) \cap heads = {} => DistinctIn(Pass(d, used, r))
<1> DEFINE rest == net \ used
           woken == IF r.wake THEN WakeUp(rest, d, AtWork(used)) ELSE rest
<1>1. rest \in SUBSET Message /\ DistinctIn(rest) /\ Headers(rest) = Headers(net) \ Headers(used)
  <2>1. CASE used = {}
    BY <2>1 DEF Headers
  <2>2. CASE \E m \in net : used = {m}
    BY <2>2, Taken, Zenon
  <2> QED
    BY <2>1, <2>2 DEF Used
<1>2. woken \in SUBSET Message /\ DistinctIn(woken) /\ Headers(woken) = Headers(rest)
  BY <1>1, WakeNet
<1>3. Pass(d, used, r) = woken \cup r.out
  BY DEF Pass
<1> HIDE DEF rest, woken
<1>4. /\ Headers(woken \cup r.out) = Headers(woken) \cup Headers(r.out)
      /\ DistinctIn(woken) /\ DistinctIn(r.out) /\ Headers(woken) \cap Headers(r.out) = {}
            => DistinctIn(woken \cup r.out)
  BY Sent
<1> QED
  BY <1>1, <1>2, <1>3, <1>4, Zenon DEF Sends

--------------------------------------------------------------------------------
\* What the transitions of an L1 cache do: every result that goes through has one of the
\* outcomes named here.

\* A hit leaves the entry in the state the transition names.
LEMMA Hits ==
  ASSUME NEW e \in Entry, NEW s \in L1States
  PROVE  /\ L1!Hit(e, s) \in Entry /\ L1!Hit(e, s).st = s
         /\ L1!StoreHit(e, s) \in Entry /\ L1!StoreHit(e, s).st = s
<1> DEFINE h == L1!Hit(e, s)
<1>1. h \in Entry /\ h.st = s
  <2>1. h = [[[e EXCEPT !.st = s] EXCEPT !.op = None] EXCEPT !.queued = FALSE]
    BY DEF L1!Hit
  <2>2. [e EXCEPT !.st = s] \in Entry /\ [e EXCEPT !.st = s].st = s
    BY DEF Entry
  <2> DEFINE a == [e EXCEPT !.st = s]
  <2> HIDE DEF a
  <2>3. [[a EXCEPT !.op = None] EXCEPT !.queued = FALSE] \in Entry
        /\ [[a EXCEPT !.op = None] EXCEPT !.queued = FALSE].st = s
    BY <2>2, Zenon DEF Entry, a
  <2> QED
    BY <2>1, <2>3 DEF a
<1> HIDE DEF h
<1> DEFINE f == h.fresh \/ e.op # "Locked_RMW_Read"
           b == L1!writeCallback(e)
<1>2. L1!StoreHit(e, s) = [[[h EXCEPT !.dirty = TRUE] EXCEPT !.fresh = f] EXCEPT !.blocked = b]
  BY DEF L1!StoreHit, h
<1>3. f \in BOOLEAN /\ b \in BOOLEAN
  BY DEF L1!writeCallback
<1> HIDE DEF f, b
<1>4. [h EXCEPT !.dirty = TRUE] \in Entry /\ [h EXCEPT !.dirty = TRUE].st = s
  BY <1>1, Zenon DEF Entry
<1> DEFINE g == [h EXCEPT !.dirty = TRUE]
<1> HIDE DEF g
<1>5. [[g EXCEPT !.fresh = f] EXCEPT !.blocked = b] \in Entry
      /\ [[g EXCEPT !.fresh = f] EXCEPT !.blocked = b].st = s
  BY <1>3, <1>4, Zenon DEF Entry, g
<1> QED
  BY <1>1, <1>2, <1>5 DEF g, h

\* The messages an L1 sends have one header each.
LEMMA L1Sends ==
  ASSUME NEW t \in Kinds, NEW c \in L1s, NEW d \in End
  PROVE  /\ Sends({L1!Control(t, c, d)}, {Head(t, c, d, None, 0)})
         /\ Sends({L1!Acks(t, c, d, 1)}, {Head(t, c, d, None, 1)})
         /\ \A f, b \in BOOLEAN : Sends({L1!Block(t, c, d, f, b)}, {Head(t, c, d, None, 0)})
<1> SUFFICES ASSUME NEW f \in BOOLEAN, NEW b \in BOOLEAN
             PROVE  /\ Sends({L1!Control(t, c, d)}, {Head(t, c, d, None, 0)})
                    /\ Sends({L1!Acks(t, c, d, 1)}, {Head(t, c, d, None, 1)})
                    /\ Sends({L1!Block(t, c, d, f, b)}, {Head(t, c, d, None, 0)})
  BY Zenon
<1> DEFINE x == L1!Control(t, c, d)
           y == L1!Acks(t, c, d, 1)
           z == L1!Block(t, c, d, f, b)
<1>1. x = Control(t, c, d) /\ y = Acks(t, c, d, 1) /\ z = Block(t, c, d, f, b)
  BY SameMessages, Zenon
<1>2. 1 \in Int /\ None \in End \cup {None}
  OBVIOUS
<1> HIDE DEF x, y, z
<1>3. /\ x \in Message /\ Header(x) = Head(t, c, d, None, 0)
      /\ y \in Message /\ Header(y) = Head(t, c, d, None, 1)
      /\ z \in Message /\ Header(z) = Head(t, c, d, None, 0)
  BY <1>1, <1>2, Composed
<1>4. Local(x) /\ Local(y) /\ Local(z)
  BY <1>1, Locals, Zenon
<1> QED
  BY <1>3, <1>4, SendsOne DEF x, y, z

\* A result r of a step of cache c with entry e that takes no message is an event of
\* MesiEvents on the headers it sends, and so is one that takes message m.
SoundEntry(r) == r.e \in Entry /\ Sends(r.out, Headers(r.out))

Alone(e, c, r) ==
  SoundEntry(r) /\ L1Alone(c, e.st, r.e.st, r.e.pendingAcks, Headers(r.out))

Takes(e, c, m, r) ==
  SoundEntry(r) /\ L1Takes(c, e.st, e.pendingAcks, r.e.st, r.e.pendingAcks, m, Headers(r.out))

\* L1_Replacement drops a shared block and writes an owned one back.
LEMMA ReplacementOutcome ==
  ASSUME NEW e \in Entry, NEW c \in L1s, e.st \in {"S", "E", "M"}
  PROVE  LET r == L1!Replacement(e, c) IN
         r.kind = "go" /\ Alone(e, c, r)
<1> DEFINE r == L1!Replacement(e, c)
           out == {L1!Block("PUTX", c, "L2", e.fresh, e.dirty)}
<1>1. e.fresh \in BOOLEAN /\ e.dirty \in BOOLEAN
  BY DEF Entry
<1>2. Sends(out, {Head("PUTX", c, "L2", None, 0)})
  <2>1. "L2" \in End /\ "PUTX" \in Kinds
    BY DEF End, Kinds
  <2> QED
    BY <1>1, <2>1, L1Sends, Zenon
<1>3. /\ [e EXCEPT !.st = "I"] \in Entry /\ [e EXCEPT !.st = "I"].st = "I"
      /\ [e EXCEPT !.st = "M_I"] \in Entry /\ [e EXCEPT !.st = "M_I"].st = "M_I"
  BY DEF Entry, L1States
<1> HIDE DEF out
<1>4. \/ e.st = "S" /\ r = L1!Go([e EXCEPT !.st = "I"], {})
      \/ e.st \in {"E", "M"} /\ r = L1!Go([e EXCEPT !.st = "M_I"], out)
  BY DEF L1!Replacement, out
<1> HIDE DEF r
<1>5. CASE e.st = "S" /\ r = L1!Go([e EXCEPT !.st = "I"], {})
  <2>1. r.kind = "go" /\ r.e = [e EXCEPT !.st = "I"] /\ r.out = {}
    BY <1>5 DEF L1!Go
  <2> QED
    BY <1>3, <1>5, <2>1, SendsNothing, Zenon DEF Alone, SoundEntry, L1Alone, L1Settles, Owning,
       WriteStates, Sends, r
<1>6. CASE e.st \in {"E", "M"} /\ r = L1!Go([e EXCEPT !.st = "M_I"], out)
  <2>1. r.kind = "go" /\ r.e = [e EXCEPT !.st = "M_I"] /\ r.out = out
    BY <1>6 DEF L1!Go
  <2> QED
    BY <1>2, <1>3, <1>6, <2>1, Zenon DEF Alone, SoundEntry, L1Alone, L1PutsBack, Sends, r
<1> QED
  BY <1>4, <1>5, <1>6

\* A miss sends the request of its state with a new TBE.
LEMMA MissOutcome ==
  ASSUME NEW e \in Entry, NEW c \in L1s, NEW s, NEW t,
         \/ e.st = "I" /\ t \in {"GETS", "GET_INSTR"} /\ s = "IS"
         \/ e.st = "I" /\ t = "GETX" /\ s = "IM"
         \/ e.st = "S" /\ t = "UPGRADE" /\ s = "SM"
  PROVE  L1!Miss(e, c, s, t).kind = "go" /\ Alone(e, c, L1!Miss(e, c, s, t))
<1> DEFINE r == L1!Miss(e, c, s, t)
           a == [[e EXCEPT !.st = s] EXCEPT !.icache = (e.op = "Ifetch")]
           b == [a EXCEPT !.pendingAcks = 0]
           w == [b EXCEPT !.queued = FALSE]
<1>1. s \in L1States /\ t \in Kinds /\ "L2" \in End
  BY DEF L1States, Kinds, End
<1>2. a \in Entry /\ a.st = s
  BY <1>1, Zenon DEF Entry
<1>3. r = L1!Go(w, {L1!Control(t, c, "L2")})
  BY DEF L1!Miss
<1> HIDE DEF a
<1>4. b \in Entry /\ b.st = s /\ b.pendingAcks = 0
  BY <1>2 DEF Entry
<1> HIDE DEF b
<1>5. w \in Entry /\ w.st = s /\ w.pendingAcks = 0
  BY <1>4, Zenon DEF Entry
<1> HIDE DEF w, r
<1>6. r.kind = "go" /\ r.e = w /\ r.out = {L1!Control(t, c, "L2")}
  BY <1>3 DEF L1!Go
<1>7. Sends(r.out, {Head(t, c, "L2", None, 0)})
  BY <1>1, <1>6, L1Sends, Zenon
<1>8. Alone(e, c, r)
  BY <1>1, <1>5, <1>6, <1>7, Zenon DEF Alone, SoundEntry, L1Alone, L1Misses, Reading, Writing, Sends
<1> QED
  BY <1>6, <1>8 DEF r

\* The request of the CPU at the head of the mandatory queue hits, misses, or first
\* replaces the block in the wrong L1.
LEMMA MandatoryOutcome ==
  ASSUME NEW e \in Entry, NEW c \in L1s, L1!Mandatory(e, c).kind = "go"
  PROVE  LET r == L1!Mandatory(e, c) IN Alone(e, c, r)
<1> DEFINE r == L1!Mandatory(e, c)
           wrong == e.st \in L1!Resident /\ e.icache # (e.op = "Ifetch")
<1>1. CASE wrong
  <2>1. r = L1!Replacement(e, c)
    BY <1>1 DEF L1!Mandatory
  <2>2. e.st \in {"S", "E", "M"}
    BY <1>1, <2>1 DEF L1!Resident, L1!Locked, L1!Replacement, L1!Stall
  <2> QED
    BY <2>1, <2>2, ReplacementOutcome
<1>2. CASE ~wrong /\ e.st = "I"
  <2>1. \/ r = L1!Miss(e, c, "IS", "GETS") \/ r = L1!Miss(e, c, "IS", "GET_INSTR")
        \/ r = L1!Miss(e, c, "IM", "GETX")
    BY <1>2 DEF L1!Mandatory, L1!Locked
  <2> HIDE DEF r
  <2> QED
    BY <1>2, <2>1, MissOutcome DEF r
<1>3. CASE ~wrong /\ e.st = "S"
  <2>1. r = L1!Go(L1!Hit(e, "S"), {}) \/ r = L1!Miss(e, c, "SM", "UPGRADE")
    BY <1>3 DEF L1!Mandatory, L1!Locked
  <2> HIDE DEF r
  <2>2. CASE r = L1!Go(L1!Hit(e, "S"), {})
    <3>1. L1!Hit(e, "S") \in Entry /\ L1!Hit(e, "S").st = "S"
      BY Hits DEF L1States
    <3>2. r.e = L1!Hit(e, "S") /\ r.out = {}
      BY <2>2 DEF L1!Go
    <3> QED
      BY <1>3, <3>1, <3>2, SendsNothing DEF Alone, SoundEntry, L1Alone, L1Settles, Owning,
         WriteStates, Sends, r
  <2>3. CASE r = L1!Miss(e, c, "SM", "UPGRADE")
    BY <1>3, <2>3, MissOutcome, Zenon DEF r
  <2> QED
    BY <2>1, <2>2, <2>3
<1>4. CASE ~wrong /\ e.st \in Owning
  <2>1. PICK s \in Owning : r = L1!Go(L1!Hit(e, s), {}) \/ r = L1!Go(L1!StoreHit(e, s), {})
    BY <1>4 DEF L1!Mandatory, L1!Locked, Owning
  <2>2. s \in L1States
    BY DEF Owning, L1States
  <2> HIDE DEF r
  <2>3. r.e \in Entry /\ r.e.st = s /\ r.out = {}
    BY <2>1, <2>2, Hits DEF L1!Go
  <2> QED
    BY <1>4, <2>3, SendsNothing, Zenon DEF Alone, SoundEntry, L1Alone, L1Settles, Owning,
       WriteStates,
       Sends, r
<1>5. CASE ~wrong /\ e.st \notin {"I", "S"} \cup Owning
  <2>1. r = L1!Stall
    BY <1>5 DEF L1!Mandatory, L1!Locked, Owning
  <2>2. r.kind = "stall"
    BY <2>1 DEF L1!Stall
  <2> QED
    BY <2>2
<1> HIDE DEF r, wrong
<1> QED
  BY <1>1, <1>2, <1>3, <1>4, <1>5, Zenon DEF r

\* An L1 that takes an Inv acknowledges it or gives its block back.
LEMMA InvalidateOutcome ==
  ASSUME NEW e \in Entry, NEW c \in L1s, NEW m, m.type = "INV", m.dst = c,
         m.requestor \in End, L1!Invalidate(e, c, m).kind = "go"
  PROVE  LET r == L1!Invalidate(e, c, m) IN
         Takes(e, c, m, r)
<1> DEFINE r == L1!Invalidate(e, c, m)
           ack == {L1!Acks("ACK", c, m.requestor, 1)}
           data == {L1!Block("DATA", c, "L2", e.fresh, e.dirty)}
           Acked(s) == \/ e.st \in {"I", "S", "E"} /\ s = "I"
                       \/ e.st \in {"IS", "IS_I"} /\ s = "IS_I"
                       \/ e.st \in {"IM", "SM"} /\ s = "IM"
                       \/ e.st = "SINK_WB_ACK" /\ s = "SINK_WB_ACK"
           Given(s) == \/ e.st = "M" /\ s = "I"
                       \/ e.st = "M_I" /\ s = "SINK_WB_ACK"
<1>1. "L2" \in End /\ "ACK" \in Kinds /\ "DATA" \in Kinds
  BY DEF End, Kinds
<1>2. e.fresh \in BOOLEAN /\ e.dirty \in BOOLEAN
  BY DEF Entry
<1>3. Sends(ack, {Head("ACK", c, m.requestor, None, 1)})
  BY <1>1, L1Sends, Zenon
<1>4. Sends(data, {Head("DATA", c, "L2", None, 0)})
  BY <1>1, <1>2, L1Sends, Zenon
<1>5. \A s \in L1States : /\ [e EXCEPT !.st = s] \in Entry /\ [e EXCEPT !.st = s].st = s
                          /\ [e EXCEPT !.st = s].pendingAcks = e.pendingAcks
  BY DEF Entry
<1>6. PICK s \in L1States : \/ r = L1!Go([e EXCEPT !.st = s], ack) /\ Acked(s)
                            \/ r = L1!Go([e EXCEPT !.st = s], data) /\ Given(s)
  <2>1. \/ e.st \in {"I", "S", "E"} /\ r = L1!Go([e EXCEPT !.st = "I"], ack)
        \/ e.st \in {"IS", "IS_I"} /\ r = L1!Go([e EXCEPT !.st = "IS_I"], ack)
        \/ e.st \in {"IM", "SM"} /\ r = L1!Go([e EXCEPT !.st = "IM"], ack)
        \/ e.st = "SINK_WB_ACK" /\ r = L1!Go([e EXCEPT !.st = "SINK_WB_ACK"], ack)
        \/ e.st = "M" /\ r = L1!Go([e EXCEPT !.st = "I"], data)
        \/ e.st = "M_I" /\ r = L1!Go([e EXCEPT !.st = "SINK_WB_ACK"], data)
    BY DEF L1!Invalidate, L1!Stall
  <2> HIDE DEF r, ack, data
  <2> QED
    BY <2>1 DEF L1States
<1> HIDE DEF r, ack, data
<1>7. CASE r = L1!Go([e EXCEPT !.st = s], ack) /\ Acked(s)
  <2>1. r.e = [e EXCEPT !.st = s] /\ r.out = ack
    BY <1>7 DEF L1!Go
  <2> QED
    BY <1>3, <1>5, <1>7, <2>1, Zenon DEF Takes, SoundEntry, L1Takes, L1Acknowledges, ReadStates,
       WriteStates, Sends, r
<1>8. CASE r = L1!Go([e EXCEPT !.st = s], data) /\ Given(s)
  <2>1. r.e = [e EXCEPT !.st = s] /\ r.out = data
    BY <1>8 DEF L1!Go
  <2> QED
    BY <1>4, <1>5, <1>8, <2>1, Zenon DEF Takes, SoundEntry, L1Takes, L1GivesBack, Sends, r
<1> QED
  BY <1>6, <1>7, <1>8

\* The owner that takes a forwarded request sends the requestor its block, and to the L2
\* too when it is only to be shared.
LEMMA ForwardedOutcome ==
  ASSUME NEW e \in Entry, NEW c \in L1s, NEW m, m.type \in Reading \cup Writing,
         m.dst = c, m.requestor \in L1s, L1!Forwarded(e, c, m).kind = "go"
  PROVE  Takes(e, c, m, L1!Forwarded(e, c, m))
<1> DEFINE r == L1!Forwarded(e, c, m)
           x == L1!Block("DATA", c, m.requestor, e.fresh, e.dirty)
           y == L1!Block("DATA", c, "L2", e.fresh, e.dirty)
           hx == Head("DATA", c, m.requestor, None, 0)
           hy == Head("DATA", c, "L2", None, 0)
           writing == m.type \in {"GETX", "UPGRADE"}
<1>1. "L2" \in End /\ m.requestor \in End /\ "DATA" \in Kinds
  BY DEF End, Kinds
<1>2. e.fresh \in BOOLEAN /\ e.dirty \in BOOLEAN
  BY DEF Entry
<1>3. Sends({x}, {hx}) /\ Sends({y}, {hy})
  BY <1>1, <1>2, L1Sends, Zenon
<1>4. hx # hy
  BY L1Assumption DEF Head
<1> HIDE DEF hx, hy
<1>5. Sends({x, y}, {hx, hy})
  <2>1. {x} \cup {y} = {x, y} /\ {hx} \cup {hy} = {hx, hy} /\ {hx} \cap {hy} = {}
    BY <1>4
  <2> HIDE DEF x, y
  <2>2. /\ Headers({x} \cup {y}) = Headers({x}) \cup Headers({y})
        /\ DistinctIn({x}) /\ DistinctIn({y}) /\ Headers({x}) \cap Headers({y}) = {}
              => DistinctIn({x} \cup {y})
    BY Sent, Zenon
  <2> QED
    BY <1>3, <2>1, <2>2, Zenon DEF Sends
<1>6. \A s \in L1States : [e EXCEPT !.st = s] \in Entry /\ [e EXCEPT !.st = s].st = s
  BY DEF Entry
<1>7. PICK s \in L1States, out \in {{x}, {x, y}} :
        /\ r = L1!Go([e EXCEPT !.st = s], out)
        /\ out = IF writing THEN {x} ELSE {x, y}
        /\ \/ e.st \in {"E", "M"} /\ s = IF writing THEN "I" ELSE "S"
           \/ e.st = "M_I" /\ s = "SINK_WB_ACK"
  <2> DEFINE out == IF writing THEN {x} ELSE {x, y}
  <2>1. out = {L1!Block("DATA", c, d, e.fresh, e.dirty) :
                 d \in {m.requestor} \cup IF writing THEN {} ELSE {"L2"}}
    OBVIOUS
  <2>2. \/ e.st \in {"E", "M"} /\ r = L1!Go([e EXCEPT !.st = IF writing THEN "I" ELSE "S"], out)
        \/ e.st = "M_I" /\ r = L1!Go([e EXCEPT !.st = "SINK_WB_ACK"], out)
    BY <2>1 DEF L1!Forwarded, L1!Stall, L1!Invalid, L1!Locked
  <2> HIDE DEF r, x, y
  <2> QED
    BY <2>2 DEF L1States
<1> HIDE DEF r, x, y
<1>8. r.e = [e EXCEPT !.st = s] /\ r.out = out
  BY <1>7 DEF L1!Go
<1>9. r.e \in Entry /\ r.e.st = s
  BY <1>6, <1>8
<1>10. CASE writing
  <2>1. Sends(r.out, {hx})
    BY <1>3, <1>7, <1>8, <1>10, Zenon
  <2> QED
    BY <1>7, <1>9, <1>10, <2>1, Zenon DEF Takes, SoundEntry, L1Takes, L1HandsOver, Writing, Reading,
       Sends, r, hx
<1>11. CASE ~writing
  <2>1. Sends(r.out, {hx, hy})
    BY <1>5, <1>7, <1>8, <1>11, Zenon
  <2> QED
    BY <1>7, <1>9, <1>11, <2>1, Zenon DEF Takes, SoundEntry, L1Takes, L1HandsOver, Writing,
       Reading, Sends, r, hx, hy
<1> QED
  BY <1>10, <1>11

\* A writer that has everything owns the block and unblocks the L2.
LEMMA ExclusiveOutcome ==
  ASSUME NEW e \in Entry, NEW c \in L1s
  PROVE  LET r == L1!Exclusive(e, c) IN
         /\ r.e \in Entry /\ r.e.st \in {"M", "LLSC_E"}
         /\ Sends(r.out, {Head("EXCLUSIVE_UNBLOCK", c, "L2", None, 0)})
<1> DEFINE r == L1!Exclusive(e, c)
           out == {L1!Control("EXCLUSIVE_UNBLOCK", c, "L2")}
<1>1. Sends(out, {Head("EXCLUSIVE_UNBLOCK", c, "L2", None, 0)})
  BY L1Sends, Zenon DEF Kinds, End
<1>2. {"M", "LLSC_E"} \subseteq L1States
  BY DEF L1States
<1>3. /\ L1!Hit(e, "LLSC_E") \in Entry /\ L1!Hit(e, "LLSC_E").st = "LLSC_E"
      /\ L1!StoreHit(e, "M") \in Entry /\ L1!StoreHit(e, "M").st = "M"
  BY <1>2, Hits
<1> HIDE DEF out
<1>4. r.out = out /\ (r.e = L1!Hit(e, "LLSC_E") \/ r.e = L1!StoreHit(e, "M"))
  BY DEF L1!Exclusive, L1!GoAndWake, out
<1> HIDE DEF r
<1> QED
  BY <1>1, <1>3, <1>4 DEF r

\* Every response an L1 takes has one of these outcomes.
LEMMA ResponseOutcome ==
  ASSUME NEW e \in Entry, NEW c \in L1s, NEW m \in Message, m.dst = c,
         NEW fromL1, fromL1 <=> m.src # "L2", L1!Response(e, c, m, fromL1).kind = "go"
  PROVE  LET r == L1!Response(e, c, m, fromL1) IN
         Takes(e, c, m, r)
<1> DEFINE r == L1!Response(e, c, m, fromL1)
           w == [e EXCEPT !.fresh = m.fresh, !.dirty = m.dirty]
           all == e.pendingAcks = m.acks
           read == e.st \in {"IS", "IS_I"}
           unblock(t) == {L1!Control(t, c, "L2")}
           more == [[w EXCEPT !.st = "SM"] EXCEPT !.pendingAcks = w.pendingAcks - m.acks]
           less == [e EXCEPT !.pendingAcks = e.pendingAcks - m.acks]
<1>1. w \in Entry /\ w.st = e.st /\ w.pendingAcks = e.pendingAcks
  BY Zenon DEF Entry, Message
<1>2. m.acks \in Int /\ e.pendingAcks \in Int
  BY DEF Message, Entry
<1>3. \A t \in {"UNBLOCK", "EXCLUSIVE_UNBLOCK"} : Sends(unblock(t), {Head(t, c, "L2", None, 0)})
  BY L1Sends, Zenon DEF Kinds, End
<1>4. \/ m.type = "DATA_EXCLUSIVE" /\ read
         /\ r = L1!GoAndWake(L1!Hit(w, "E"), unblock("EXCLUSIVE_UNBLOCK"))
      \/ m.type = "DATA" /\ read
         /\ r = L1!GoAndWake(L1!Hit(w, IF e.st = "IS" THEN "S" ELSE "I"),
                             IF fromL1 THEN unblock("UNBLOCK") ELSE {})
      \/ m.type = "DATA" /\ e.st = "IM" /\ all /\ r = L1!Exclusive(w, c)
      \/ m.type = "DATA" /\ e.st = "IM" /\ ~all /\ r = L1!Go(more, {})
      \/ m.type = "ACK" /\ e.st = "SM" /\ all /\ r = L1!Exclusive(e, c)
      \/ m.type = "ACK" /\ e.st \in {"IM", "SM"} /\ ~all /\ r = L1!Go(less, {})
      \/ m.type = "WB_ACK" /\ e.st \in {"M_I", "SINK_WB_ACK"}
         /\ r = L1!GoAndWake([e EXCEPT !.st = "I"], {})
  BY DEF L1!Response, L1!Invalid
<1> HIDE DEF w, unblock, more, less, r
<1>5. CASE m.type = "DATA_EXCLUSIVE" /\ read
           /\ r = L1!GoAndWake(L1!Hit(w, "E"), unblock("EXCLUSIVE_UNBLOCK"))
  <2>1. r.e = L1!Hit(w, "E") /\ r.out = unblock("EXCLUSIVE_UNBLOCK")
    BY <1>5 DEF L1!GoAndWake
  <2>2. r.e \in Entry /\ r.e.st = "E"
    BY <1>1, <2>1, Hits DEF L1States
  <2> QED
    BY <1>3, <1>5, <2>1, <2>2, Zenon DEF Takes, SoundEntry, L1Takes, L1Fills, ReadStates, Sends, r
<1>6. CASE m.type = "DATA" /\ read
           /\ r = L1!GoAndWake(L1!Hit(w, IF e.st = "IS" THEN "S" ELSE "I"),
                               IF fromL1 THEN unblock("UNBLOCK") ELSE {})
  <2> DEFINE s == IF e.st = "IS" THEN "S" ELSE "I"
  <2>1. r.e = L1!Hit(w, s) /\ r.out = IF fromL1 THEN unblock("UNBLOCK") ELSE {}
    BY <1>6 DEF L1!GoAndWake
  <2>2. s \in L1States
    BY DEF L1States
  <2> HIDE DEF s
  <2>3. r.e \in Entry /\ r.e.st = s
    BY <1>1, <2>1, <2>2, Hits
  <2>4. Sends(r.out, IF fromL1 THEN {Head("UNBLOCK", c, "L2", None, 0)} ELSE {})
    BY <1>3, <2>1, SendsNothing
  <2> QED
    BY <1>6, <2>3, <2>4, Zenon DEF Takes, SoundEntry, L1Takes, L1Fills, ReadStates, Sends, r, s
<1>7. CASE m.type = "DATA" /\ e.st = "IM" /\ all /\ r = L1!Exclusive(w, c)
  BY <1>1, <1>7, ExclusiveOutcome, Zenon DEF Takes, SoundEntry, L1Takes, L1Collects,
     WriteStates, Sends, r
<1>8. CASE m.type = "DATA" /\ e.st = "IM" /\ ~all /\ r = L1!Go(more, {})
  <2> DEFINE a == [w EXCEPT !.st = "SM"]
  <2>1. a \in Entry /\ a.st = "SM"
    BY <1>1 DEF Entry, L1States
  <2>2. more = [a EXCEPT !.pendingAcks = e.pendingAcks - m.acks]
    BY <1>1 DEF more
  <2> HIDE DEF a
  <2>3. more \in Entry /\ more.st = "SM" /\ more.pendingAcks = e.pendingAcks - m.acks
    BY <1>2, <2>1, <2>2 DEF Entry
  <2>4. r.e = more /\ r.out = {}
    BY <1>8 DEF L1!Go
  <2> QED
    BY <1>8, <2>3, <2>4, SendsNothing DEF Takes, SoundEntry, L1Takes, L1Collects, WriteStates,
       Sends, r
<1>9. CASE m.type = "ACK" /\ e.st = "SM" /\ all /\ r = L1!Exclusive(e, c)
  BY <1>9, ExclusiveOutcome, Zenon DEF Takes, SoundEntry, L1Takes, L1Collects, WriteStates, Sends, r
<1>10. CASE m.type = "ACK" /\ e.st \in {"IM", "SM"} /\ ~all /\ r = L1!Go(less, {})
  <2>1. less \in Entry /\ less.st = e.st /\ less.pendingAcks = e.pendingAcks - m.acks
    BY <1>2 DEF Entry, less
  <2>2. r.e = less /\ r.out = {}
    BY <1>10 DEF L1!Go
  <2> QED
    BY <1>10, <2>1, <2>2, SendsNothing, Zenon DEF Takes, SoundEntry, L1Takes, L1Collects,
       WriteStates,
       Sends, r
<1>11. CASE m.type = "WB_ACK" /\ e.st \in {"M_I", "SINK_WB_ACK"}
            /\ r = L1!GoAndWake([e EXCEPT !.st = "I"], {})
  <2>1. [e EXCEPT !.st = "I"] \in Entry /\ [e EXCEPT !.st = "I"].st = "I"
    BY DEF Entry, L1States
  <2>2. r.e = [e EXCEPT !.st = "I"] /\ r.out = {}
    BY <1>11 DEF L1!GoAndWake
  <2> QED
    BY <1>11, <2>1, <2>2, SendsNothing, Zenon DEF Takes, SoundEntry, L1Takes, L1PutsDone, Sends, r
<1> QED
  BY <1>4, <1>5, <1>6, <1>7, <1>8, <1>9, <1>10, <1>11 DEF r

\* LLSC_Timeout unlocks the block and keeps the permission.
LEMMA TimeoutOutcome ==
  ASSUME NEW e \in Entry, NEW c, e.st \in L1!Locked
  PROVE  Alone(e, c, L1!Timeout(e))
<1> DEFINE r == L1!Timeout(e)
           s == IF e.st = "LLSC_E" THEN "E" ELSE "M"
<1>1. r.e = [e EXCEPT !.st = s] /\ r.out = {}
  BY DEF L1!Timeout, L1!GoAndWake
<1>2. s \in L1States /\ s \in Owning /\ e.st \in Owning
  BY DEF L1States, Owning, L1!Locked
<1> HIDE DEF s
<1>3. [e EXCEPT !.st = s] \in Entry /\ [e EXCEPT !.st = s].st = s
  BY <1>2 DEF Entry
<1> QED
  BY <1>1, <1>2, <1>3, SendsNothing, Zenon DEF Alone, SoundEntry, L1Alone, L1Settles, Owning,
     WriteStates, Sends

--------------------------------------------------------------------------------
\* What the transitions of the L2 do: the line they leave and the headers they send.

\* An L2 line with the given permissions.
LineHas(w, st, sharers, exclusive, getS, getX, acks) ==
  w \in Line /\ Holds(w, st, sharers, exclusive, getS, getX, acks)

\* Assigning one field of the L2 line changes that field.
LEMMA LineSet ==
  ASSUME NEW e \in Line
  PROVE  /\ LineHas(e, e.st, e.sharers, e.exclusive, e.getS, e.getX, e.pendingAcks)
         /\ \A x \in L2States : LineHas([e EXCEPT !.st = x], x, e.sharers, e.exclusive, e.getS,
                                        e.getX, e.pendingAcks)
         /\ \A x \in SUBSET L1s :
              /\ LineHas([e EXCEPT !.sharers = x], e.st, x, e.exclusive, e.getS, e.getX,
                         e.pendingAcks)
              /\ LineHas([e EXCEPT !.getS = x], e.st, e.sharers, e.exclusive, x, e.getX,
                         e.pendingAcks)
         /\ \A x \in L1s \cup {None} :
              /\ LineHas([e EXCEPT !.exclusive = x], e.st, e.sharers, x, e.getS, e.getX,
                         e.pendingAcks)
              /\ LineHas([e EXCEPT !.getX = x], e.st, e.sharers, e.exclusive, e.getS, x,
                         e.pendingAcks)
         /\ \A x \in Int : LineHas([e EXCEPT !.pendingAcks = x], e.st, e.sharers, e.exclusive,
                                   e.getS, e.getX, x)
  BY DEF LineHas, Holds, Line

\* Writing the L2's block (m_writeDataToCache) changes no permission.
LEMMA BlockSet ==
  ASSUME NEW e \in Line, NEW f \in BOOLEAN, NEW b \in BOOLEAN
  PROVE  LET w == [e EXCEPT !.fresh = f, !.dirty = b] IN
         LineHas(w, e.st, e.sharers, e.exclusive, e.getS, e.getX, e.pendingAcks)
  BY Zenon DEF LineHas, Holds, Line

\* What the L2 sends to the directory concerns no L1.
LEMMA SendsAway ==
  ASSUME NEW t \in Kinds, NEW f \in BOOLEAN, NEW b \in BOOLEAN
  PROVE  /\ Sends({L2!Control(t, "L2", "Dir")}, {})
         /\ Sends({L2!Block(t, "L2", "Dir", f, b)}, {})
<1> DEFINE x == L2!Control(t, "L2", "Dir")
           y == L2!Block(t, "L2", "Dir", f, b)
<1>1. x = Control(t, "L2", "Dir") /\ y = Block(t, "L2", "Dir", f, b)
  BY SameMessages, Zenon
<1>2. 0 \in Int /\ None \in End \cup {None} /\ "Dir" \in End /\ "L2" \in L1s \cup {"L2"}
  BY DEF End
<1> HIDE DEF x, y
<1>3. x \in Message /\ y \in Message
  BY <1>1, <1>2, Composed, Zenon
<1>4. ~Local(x) /\ ~Local(y)
  BY <1>1, L1Assumption DEF Local, Control, Block
<1> QED
  BY <1>3, <1>4 DEF Sends, DistinctIn, Headers, x, y

\* The L2 sends one reply to each of the caches recorded (e_sendDataToGetSRequestors and
\* its siblings).
LEMMA DataSent ==
  ASSUME NEW e \in Line, NEW t \in Kinds, NEW ids \in SUBSET L1s, NEW n \in Int
  PROVE  Sends(L2!SendData(e, t, ids, n), Datas(t, ids, n))
<1> DEFINE Msg(c) == [L2!Block(t, "L2", c, e.fresh, FALSE) EXCEPT !.acks = n]
           h(c) == Head(t, "L2", c, None, n)
           out == {Msg(c) : c \in ids}
<1>1. ASSUME NEW c \in ids
      PROVE  Msg(c) \in Message /\ Local(Msg(c)) /\ Header(Msg(c)) = h(c)
  <2> DEFINE b == L2!Block(t, "L2", c, e.fresh, FALSE)
  <2>1. b = Block(t, "L2", c, e.fresh, FALSE)
    BY SameMessages, Zenon
  <2>2. c \in End /\ "L2" \in L1s \cup {"L2"} /\ None \in End \cup {None} /\ e.fresh \in BOOLEAN
        /\ FALSE \in BOOLEAN
    BY DEF End, Line
  <2>3. Block(t, "L2", c, e.fresh, FALSE) \in Message
    BY <2>2, Composed, Zenon
  <2>4. b.type = t /\ b.src = "L2" /\ b.dst = c /\ b.requestor = None
    BY <2>1, Zenon DEF Block, Control
  <2> HIDE DEF b
  <2>5. [b EXCEPT !.acks = n] \in Message /\ Header([b EXCEPT !.acks = n]) = h(c)
    <3>1. b \in Message
      BY <2>1, <2>3, Zenon
    <3>2. [b EXCEPT !.acks = n] \in Message
          /\ Header([b EXCEPT !.acks = n]) = Head(b.type, b.src, b.dst, b.requestor, n)
      BY <3>1, MessageFields, Zenon
    <3> QED
      BY <2>4, <3>2
  <2>6. [b EXCEPT !.acks = n].dst = c
    BY <2>1, <2>3, <2>4, Zenon DEF Message
  <2> QED
    BY <2>5, <2>6, Zenon DEF Local, b
<1>2. L2!SendData(e, t, ids, n) = out
  BY DEF L2!SendData
<1>3. \A c, d \in ids : h(c) = h(d) => c = d
  BY DEF Head
<1> HIDE DEF Msg, h
<1>4. out \in SUBSET Message
  BY <1>1
<1>5. DistinctIn(out)
  BY <1>1, <1>3 DEF DistinctIn
<1>6. Headers(out) = {h(c) : c \in ids}
  BY <1>1 DEF Headers
<1> QED
  BY <1>2, <1>4, <1>5, <1>6, Zenon DEF Sends, h, Datas

\* The L2 sends one invalidation to each sharer (f_sendInvToSharers,
\* fwm_sendFwdInvToSharersMinusRequestor).
LEMMA InvSent ==
  ASSUME NEW e, NEW ids \in SUBSET L1s, NEW q \in End
  PROVE  Sends(L2!SendInv(e, ids, q), Invs(ids, q))
<1> DEFINE Msg(c) == L2!Forward("INV", "L2", c, q)
           h(c) == Head("INV", "L2", c, q, 0)
           out == {Msg(c) : c \in ids}
<1>1. ASSUME NEW c \in ids
      PROVE  Msg(c) \in Message /\ Local(Msg(c)) /\ Header(Msg(c)) = h(c)
  <2>1. Msg(c) = Forward("INV", "L2", c, q)
    BY SameMessages, Zenon
  <2>2. c \in End /\ "L2" \in L1s \cup {"L2"} /\ q \in End \cup {None} /\ FALSE \in BOOLEAN
        /\ 0 \in Int /\ "INV" \in Kinds
    BY DEF End, Kinds
  <2>3. Forward("INV", "L2", c, q) \in Message /\ Header(Forward("INV", "L2", c, q)) = h(c)
    <3> HIDE DEF Msg
    <3> QED
      BY <2>2, Composed, Zenon
  <2>4. Local(Msg(c))
    BY <2>1, Locals, Zenon
  <2> QED
    BY <2>1, <2>3, <2>4
<1>2. L2!SendInv(e, ids, q) = out
  BY DEF L2!SendInv
<1>3. \A c, d \in ids : h(c) = h(d) => c = d
  BY DEF Head
<1> HIDE DEF Msg, h
<1>4. out \in SUBSET Message
  BY <1>1
<1>5. DistinctIn(out)
  BY <1>1, <1>3 DEF DistinctIn
<1>6. Headers(out) = {h(c) : c \in ids}
  BY <1>1 DEF Headers
<1> QED
  BY <1>2, <1>4, <1>5, <1>6, Zenon DEF Sends, h, Invs

\* The messages the L2 sends to one cache have one header each.
LEMMA L2SendsOne ==
  ASSUME NEW t \in Kinds, NEW c \in L1s, NEW n \in Int, NEW q \in L1s
  PROVE  /\ Sends({L2!Control(t, "L2", c)}, {Head(t, "L2", c, None, 0)})
         /\ Sends({L2!Acks(t, "L2", c, n)}, {Head(t, "L2", c, None, n)})
         /\ Sends({L2!Forward(t, "L2", c, q)}, {Head(t, "L2", c, q, 0)})
<1> DEFINE x == L2!Control(t, "L2", c)
           y == L2!Acks(t, "L2", c, n)
           z == L2!Forward(t, "L2", c, q)
<1>1. x = Control(t, "L2", c) /\ y = Acks(t, "L2", c, n) /\ z = Forward(t, "L2", c, q)
  BY SameMessages, Zenon
<1>2. q \in End /\ c \in End /\ "L2" \in L1s \cup {"L2"} /\ FALSE \in BOOLEAN
  BY DEF End
<1> HIDE DEF x, y, z
<1>3. /\ x \in Message /\ Header(x) = Head(t, "L2", c, None, 0)
      /\ y \in Message /\ Header(y) = Head(t, "L2", c, None, n)
      /\ z \in Message /\ Header(z) = Head(t, "L2", c, q, 0)
  <2>1. Control(t, "L2", c) \in Message /\ Header(Control(t, "L2", c)) = Head(t, "L2", c, None, 0)
    BY <1>2, Composed, Zenon
  <2>2. Acks(t, "L2", c, n) \in Message /\ Header(Acks(t, "L2", c, n)) = Head(t, "L2", c, None, n)
    BY <1>2, Composed, Zenon
  <2>3. Forward(t, "L2", c, q) \in Message
        /\ Header(Forward(t, "L2", c, q)) = Head(t, "L2", c, q, 0)
    BY <1>2, Composed, Zenon
  <2> QED
    BY <1>1, <2>1, <2>2, <2>3, Zenon
<1>4. Local(x) /\ Local(y) /\ Local(z)
  BY <1>1, Locals, Zenon
<1> QED
  BY <1>3, <1>4, SendsOne DEF x, y, z

\* Assigning several fields of the L2 line, as its transitions do.
LEMMA LineSets ==
  ASSUME NEW e \in Line, NEW s \in L2States, NEW S \in SUBSET L1s, NEW x \in L1s \cup {None},
         NEW n \in Int
  PROVE  /\ LineHas([e EXCEPT !.st = s, !.sharers = S, !.exclusive = x], s, S, x, e.getS, e.getX,
                    e.pendingAcks)
         /\ LineHas([e EXCEPT !.st = s, !.pendingAcks = n, !.sharers = S, !.exclusive = x], s, S, x,
                    e.getS, e.getX, n)
         /\ LineHas([e EXCEPT !.st = s, !.pendingAcks = n], s, e.sharers, e.exclusive, e.getS,
                    e.getX, n)
         /\ LineHas([e EXCEPT !.st = s, !.getX = x], s, e.sharers, e.exclusive, e.getS, x,
                    e.pendingAcks)
         /\ LineHas([e EXCEPT !.st = s, !.sharers = S], s, S, e.exclusive, e.getS, e.getX,
                    e.pendingAcks)
<1>1. LineHas([e EXCEPT !.st = s, !.sharers = S, !.exclusive = x], s, S, x, e.getS, e.getX,
              e.pendingAcks)
  BY Zenon DEF LineHas, Holds, Line
<1>2. LineHas([e EXCEPT !.st = s, !.pendingAcks = n, !.sharers = S, !.exclusive = x], s, S, x,
              e.getS, e.getX, n)
  BY Zenon DEF LineHas, Holds, Line
<1>3. LineHas([e EXCEPT !.st = s, !.pendingAcks = n], s, e.sharers, e.exclusive, e.getS, e.getX, n)
  BY Zenon DEF LineHas, Holds, Line
<1>4. LineHas([e EXCEPT !.st = s, !.getX = x], s, e.sharers, e.exclusive, e.getS, x,
              e.pendingAcks)
  BY Zenon DEF LineHas, Holds, Line
<1>5. LineHas([e EXCEPT !.st = s, !.sharers = S], s, S, e.exclusive, e.getS, e.getX,
              e.pendingAcks)
  BY Zenon DEF LineHas, Holds, Line
<1> QED
  BY <1>1, <1>2, <1>3, <1>4, <1>5

\* Writing the L2's block together with the state or with the TBE's fields.
LEMMA BlockSets ==
  ASSUME NEW e \in Line, NEW f \in BOOLEAN, NEW b \in BOOLEAN, NEW s \in L2States, NEW n \in Int
  PROVE  /\ LineHas([e EXCEPT !.st = s, !.fresh = f, !.dirty = b], s, e.sharers, e.exclusive,
                    e.getS, e.getX, e.pendingAcks)
         /\ LineHas([e EXCEPT !.fresh = f, !.dirty = b, !.getS = {}, !.getX = None,
                              !.pendingAcks = n], e.st, e.sharers, e.exclusive, {}, None, n)
<1>1. LineHas([e EXCEPT !.st = s, !.fresh = f, !.dirty = b], s, e.sharers, e.exclusive,
              e.getS, e.getX, e.pendingAcks)
  BY Zenon DEF LineHas, Holds, Line
<1>2. LineHas([e EXCEPT !.fresh = f, !.dirty = b, !.getS = {}, !.getX = None, !.pendingAcks = n],
              e.st, e.sharers, e.exclusive, {}, None, n)
  BY Zenon DEF LineHas, Holds, Line
<1> QED
  BY <1>1, <1>2

\* The result r of a transition of the L2 leaves a line with the given permissions and
\* sends the given headers.
Leads(r, st, sharers, exclusive, getS, getX, acks, heads) ==
  LineHas(r.e, st, sharers, exclusive, getS, getX, acks) /\ Sends(r.out, heads)

\* The result of a transition of the L2 is an event of MesiEvents on the line it leaves and
\* on the headers it sends.
SoundLine(r) == r.e \in Line /\ Sends(r.out, Headers(r.out))

\* A transition of the L2 that goes through, with or without kd_wakeUpDependents.
LEMMA GoLeads ==
  ASSUME NEW w, NEW out, NEW st, NEW sharers, NEW exclusive, NEW getS, NEW getX, NEW acks,
         NEW heads, LineHas(w, st, sharers, exclusive, getS, getX, acks), Sends(out, heads)
  PROVE  /\ Leads(L2!Go(w, out), st, sharers, exclusive, getS, getX, acks, heads)
         /\ Leads(L2!GoAndWake(w, out), st, sharers, exclusive, getS, getX, acks, heads)
<1>1. L2!Go(w, out).e = w /\ L2!Go(w, out).out = out
      /\ L2!GoAndWake(w, out).e = w /\ L2!GoAndWake(w, out).out = out
  BY DEF L2!Go, L2!GoAndWake
<1> QED
  BY <1>1 DEF Leads

\* A stalled request and an undefined transition are not steps that go through.
LEMMA Kinded == L2!Stall.kind # "go" /\ L2!Invalid.kind # "go"
  BY Zenon DEF L2!Stall, L2!Invalid

\* Unblock and Exclusive_Unblock record the cache that sent them.
LEMMA UnblockOutcome ==
  ASSUME NEW e \in Line, NEW m, m.src \in L1s, NEW r, r = L2!Unblock(e, m), r.kind = "go"
  PROVE  SoundLine(r) /\ L2Unblocks(e, r.e, m, Headers(r.out))
<1> SUFFICES \/ /\ m.type = "EXCLUSIVE_UNBLOCK" /\ e.st \in {"SS_MB", "MT_MB"}
                /\ Leads(r, "MT", {m.src}, m.src, e.getS, e.getX, e.pendingAcks, {})
             \/ /\ m.type = "UNBLOCK" /\ e.st = "MT_IIB"
                /\ Leads(r, "MT_IB", e.sharers \cup {m.src}, e.exclusive, e.getS, e.getX,
                         e.pendingAcks, {})
             \/ /\ m.type = "UNBLOCK" /\ e.st = "MT_SB"
                /\ Leads(r, "SS", e.sharers \cup {m.src}, e.exclusive, e.getS, e.getX,
                         e.pendingAcks, {})
  BY DEF SoundLine, Leads, LineHas, Sends, Holds, L2Unblocks, Blocked
<1> DEFINE owned == [e EXCEPT !.st = "MT", !.sharers = {m.src}, !.exclusive = m.src]
           shared == [e EXCEPT !.sharers = @ \cup {m.src}]
           half == [shared EXCEPT !.st = "MT_IB"]
           done == [shared EXCEPT !.st = "SS"]
<1>0. "MT" \in L2States /\ "MT_IB" \in L2States /\ "SS" \in L2States /\ {m.src} \in SUBSET L1s
      /\ m.src \in L1s \cup {None} /\ e.pendingAcks \in Int /\ e.sharers \cup {m.src} \in SUBSET L1s
  BY DEF L2States, Line
<1>1. LineHas(owned, "MT", {m.src}, m.src, e.getS, e.getX, e.pendingAcks)
  BY <1>0, LineSets, Zenon
<1>2. LineHas(shared, e.st, e.sharers \cup {m.src}, e.exclusive, e.getS, e.getX, e.pendingAcks)
  BY <1>0, LineSet, Zenon
<1>3. \/ m.type = "EXCLUSIVE_UNBLOCK" /\ e.st \in {"SS_MB", "MT_MB"} /\ r = L2!GoAndWake(owned, {})
      \/ m.type = "UNBLOCK" /\ e.st = "MT_IIB" /\ r = L2!Go(half, {})
      \/ m.type = "UNBLOCK" /\ e.st = "MT_SB" /\ r = L2!GoAndWake(done, {})
  BY Kinded DEF L2!Unblock
<1> HIDE DEF owned, shared
<1>4. /\ LineHas(half, "MT_IB", e.sharers \cup {m.src}, e.exclusive, e.getS, e.getX, e.pendingAcks)
      /\ LineHas(done, "SS", e.sharers \cup {m.src}, e.exclusive, e.getS, e.getX, e.pendingAcks)
  BY <1>0, <1>2, LineSet DEF LineHas, Holds
<1> HIDE DEF half, done
<1> QED
  BY <1>1, <1>3, <1>4, GoLeads, SendsNothing

\* An evicted block goes to the directory (c_exclusiveReplacement and its siblings).
LEMMA ToMemory ==
  ASSUME NEW e \in Line
  PROVE  Sends(L2!SendToMemory(e), {}) /\ Sends(L2!SendCleanToMemory, {})
<1>1. e.fresh \in BOOLEAN /\ e.dirty \in BOOLEAN /\ "MEMORY_DATA" \in Kinds /\ "ACK" \in Kinds
      /\ FALSE \in BOOLEAN
  BY DEF Line, Kinds
<1>2. Sends({L2!Control("ACK", "L2", "Dir")}, {})
  BY <1>1, SendsAway, Zenon
<1>3. Sends({L2!Block("MEMORY_DATA", "L2", "Dir", e.fresh, e.dirty)}, {})
  BY <1>1, SendsAway, Zenon
<1> QED
  BY <1>2, <1>3 DEF L2!SendToMemory, L2!SendCleanToMemory

\* WB_Data ends one half of an owner's service to a reader, or an eviction of an owned
\* block.
LEMMA WriteBackOutcome ==
  ASSUME NEW e \in Line, NEW m \in Message, m.type = "DATA",
         NEW r, r = L2!WriteBack(e, m), r.kind = "go"
  PROVE  SoundLine(r) /\ L2TakesData(e, r.e, m, Headers(r.out))
<1> SUFFICES \/ /\ e.st = "MT_IIB"
                /\ Leads(r, "MT_SB", e.sharers, e.exclusive, e.getS, e.getX, e.pendingAcks, {})
             \/ /\ e.st = "MT_IB"
                /\ Leads(r, "SS", e.sharers, e.exclusive, e.getS, e.getX, e.pendingAcks, {})
             \/ /\ e.st \in {"MT_I", "MCT_I"}
                /\ Leads(r, "M_I", e.sharers, e.exclusive, e.getS, e.getX, e.pendingAcks, {})
  BY DEF SoundLine, Leads, LineHas, Sends, Holds, L2TakesData, Becomes, Recalled
<1> DEFINE w == [e EXCEPT !.fresh = m.fresh, !.dirty = @ \/ m.dirty]
           tbe == [e EXCEPT !.st = "M_I", !.fresh = m.fresh, !.dirty = m.dirty]
           left == [e EXCEPT !.st = "M_I"]
           sent == [w EXCEPT !.st = "MT_SB"]
           done == [w EXCEPT !.st = "SS"]
<1>0. "M_I" \in L2States /\ "MT_SB" \in L2States /\ "SS" \in L2States
      /\ m.fresh \in BOOLEAN /\ m.dirty \in BOOLEAN /\ (e.dirty \/ m.dirty) \in BOOLEAN
      /\ 0 \in Int
  BY DEF L2States, Line, Message
<1>1. LineHas(w, e.st, e.sharers, e.exclusive, e.getS, e.getX, e.pendingAcks)
  BY <1>0, BlockSet, Zenon
<1>2. LineHas(tbe, "M_I", e.sharers, e.exclusive, e.getS, e.getX, e.pendingAcks)
  BY <1>0, BlockSets, Zenon
<1>3. LineHas(left, "M_I", e.sharers, e.exclusive, e.getS, e.getX, e.pendingAcks)
  BY <1>0, LineSet, Zenon
<1>4. \/ e.st = "MT_IIB" /\ r = L2!Go(sent, {})
      \/ e.st = "MT_IB" /\ r = L2!GoAndWake(done, {})
      \/ e.st \in {"MT_I", "MCT_I"} /\ r = L2!Go(tbe, L2!SendToMemory(tbe))
      \/ e.st \in {"MT_I", "MCT_I"} /\ r = L2!Go(left, L2!SendCleanToMemory)
      \/ e.st \in {"MT_I", "MCT_I"} /\ r = L2!Go(left, L2!SendToMemory(e))
  BY Kinded DEF L2!WriteBack
<1> HIDE DEF w, tbe, left
<1>5. /\ LineHas(sent, "MT_SB", e.sharers, e.exclusive, e.getS, e.getX, e.pendingAcks)
      /\ LineHas(done, "SS", e.sharers, e.exclusive, e.getS, e.getX, e.pendingAcks)
  BY <1>0, <1>1, LineSet DEF LineHas, Holds
<1> HIDE DEF sent, done
<1>6. Sends(L2!SendToMemory(e), {}) /\ Sends(L2!SendToMemory(tbe), {})
      /\ Sends(L2!SendCleanToMemory, {})
  BY <1>2, ToMemory, Zenon DEF LineHas, Holds
<1> QED
  BY <1>2, <1>3, <1>4, <1>5, <1>6, GoLeads, SendsNothing, Zenon

\* Ack and Ack_all: the L2 counts the acknowledgements of an eviction and goes on with the
\* last one.
LEMMA InvAckOutcome ==
  ASSUME NEW e \in Line, NEW m \in Message, m.type = "ACK",
         NEW r, r = L2!InvAck(e, m), r.kind = "go"
  PROVE  SoundLine(r) /\ L2TakesAck(e, r.e, m, Headers(r.out))
<1> SUFFICES \/ /\ e.st \in {"I_I", "S_I"} /\ e.pendingAcks # m.acks
                /\ Leads(r, e.st, e.sharers, e.exclusive, e.getS, e.getX, e.pendingAcks - m.acks, {})
             \/ /\ e.st \in {"I_I", "S_I", "MT_I", "MCT_I"} /\ e.pendingAcks = m.acks
                /\ Leads(r, "M_I", e.sharers, e.exclusive, e.getS, e.getX, 0, {})
  BY DEF SoundLine, Leads, LineHas, Sends, Holds, L2TakesAck, Collected, Recalled
<1> DEFINE fewer == [e EXCEPT !.pendingAcks = @ - m.acks]
           done == [e EXCEPT !.st = "M_I", !.pendingAcks = 0]
<1>0. "M_I" \in L2States /\ 0 \in Int /\ e.pendingAcks - m.acks \in Int /\ e.exclusive \in L1s \cup {None}
      /\ e.sharers \in SUBSET L1s
  BY DEF L2States, Line, Message
<1>1. LineHas(fewer, e.st, e.sharers, e.exclusive, e.getS, e.getX, e.pendingAcks - m.acks)
  BY <1>0, LineSet
<1>2. LineHas(done, "M_I", e.sharers, e.exclusive, e.getS, e.getX, 0)
  BY <1>0, LineSets, Zenon
<1>3. \/ e.st \in {"I_I", "S_I"} /\ e.pendingAcks # m.acks /\ r = L2!Go(fewer, {})
      \/ /\ e.st \in {"I_I", "S_I", "MT_I", "MCT_I"} /\ e.pendingAcks = m.acks
         /\ r = L2!Go(done, L2!SendCleanToMemory)
      \/ /\ e.st \in {"I_I", "S_I", "MT_I", "MCT_I"} /\ e.pendingAcks = m.acks
         /\ r = L2!Go(done, L2!SendToMemory(e))
  BY Kinded, Zenon DEF L2!InvAck
<1> HIDE DEF fewer, done
<1> QED
  BY <1>1, <1>2, <1>3, ToMemory, GoLeads, SendsNothing, Zenon

\* Mem_Data answers the requests recorded while memory was read.
LEMMA MemoryDataOutcome ==
  ASSUME NEW e \in Line, e.st = "IM" => e.getX \in L1s, NEW m \in Message,
         NEW r, r = L2!MemoryData(e, m), r.kind = "go"
  PROVE  SoundLine(r) /\ L2Fills(e, r.e, Headers(r.out))
<1> SUFFICES \/ /\ e.st = "ISS"
                /\ Leads(r, "MT_MB", e.sharers, e.exclusive, {}, None, 0,
                         Datas("DATA_EXCLUSIVE", e.getS, 0))
             \/ /\ e.st = "IS"
                /\ Leads(r, "SS", e.sharers, e.exclusive, {}, None, 0,
                         Datas("DATA", e.getS, 0))
             \/ /\ e.st = "IM"
                /\ Leads(r, "MT_MB", e.sharers, e.exclusive, {}, None, 0,
                         Datas("DATA", {e.getX}, 0))
  BY DEF SoundLine, Leads, LineHas, Sends, Holds, L2Fills
<1> DEFINE w == [e EXCEPT !.fresh = m.fresh, !.dirty = @ \/ m.dirty, !.getS = {}, !.getX = None,
                          !.pendingAcks = 0]
           owned == [w EXCEPT !.st = "MT_MB"]
           shared == [w EXCEPT !.st = "SS"]
<1>0. "MT_MB" \in L2States /\ "SS" \in L2States /\ 0 \in Int
      /\ m.fresh \in BOOLEAN /\ m.dirty \in BOOLEAN /\ (e.dirty \/ m.dirty) \in BOOLEAN
      /\ e.getS \in SUBSET L1s /\ "DATA" \in Kinds /\ "DATA_EXCLUSIVE" \in Kinds
      /\ (e.st = "IM" => {e.getX} \in SUBSET L1s)
  BY DEF L2States, Line, Message, Kinds
<1>1. LineHas(w, e.st, e.sharers, e.exclusive, {}, None, 0)
  BY <1>0, BlockSets, Zenon
<1>2. \/ e.st = "ISS" /\ r = L2!Go(owned, L2!SendData(w, "DATA_EXCLUSIVE", e.getS, 0))
      \/ e.st = "IS" /\ r = L2!GoAndWake(shared, L2!SendData(w, "DATA", e.getS, 0))
      \/ e.st = "IM" /\ r = L2!Go(owned, L2!SendData(w, "DATA", {e.getX}, 0))
  BY Kinded DEF L2!MemoryData
<1> HIDE DEF w
<1>3. /\ LineHas(owned, "MT_MB", e.sharers, e.exclusive, {}, None, 0)
      /\ LineHas(shared, "SS", e.sharers, e.exclusive, {}, None, 0)
  BY <1>0, <1>1, LineSet DEF LineHas, Holds
<1> HIDE DEF owned, shared
<1>4. w \in Line
  BY <1>1, Zenon DEF LineHas, Holds
<1>5. CASE e.st = "ISS"
  BY <1>0, <1>2, <1>3, <1>4, <1>5, DataSent, GoLeads, Zenon
<1>6. CASE e.st = "IS"
  BY <1>0, <1>2, <1>3, <1>4, <1>6, DataSent, GoLeads, Zenon
<1>7. CASE e.st = "IM"
  BY <1>0, <1>2, <1>3, <1>4, <1>7, DataSent, GoLeads, Zenon
<1> QED
  BY <1>2, <1>5, <1>6, <1>7

\* Mem_Ack ends an eviction.
LEMMA GoneOutcome ==
  ASSUME NEW e, e.st = "M_I", NEW r, r = L2!GoAndWake(L2!Absent, {})
  PROVE  SoundLine(r) /\ L2Drops(e, r.e, Headers(r.out))
<1>1. LineHas(L2!Absent, "NP", {}, None, {}, None, 0)
  BY DEF L2!Absent, LineHas, Holds, Line, L2States
<1>2. r.e = L2!Absent /\ r.out = {}
  BY DEF L2!GoAndWake
<1> QED
  BY <1>1, <1>2, SendsNothing, Zenon DEF SoundLine, L2Drops, Sends, LineHas

\* The number of sharers is the same number in every module.
LEMMA L2Counting == ASSUME NEW S PROVE L2!Cardinality(S) = Cardinality(S)
  BY DEF L2!Cardinality, Cardinality

\* Two sets of messages with different headers are sent together.
LEMMA SendsBoth ==
  ASSUME NEW a, NEW b, NEW x, NEW y, Sends(a, x), Sends(b, y), x \cap y = {}
  PROVE  Sends(a \cup b, x \cup y)
<1>1. /\ Headers(a \cup b) = Headers(a) \cup Headers(b)
      /\ DistinctIn(a) /\ DistinctIn(b) /\ Headers(a) \cap Headers(b) = {} => DistinctIn(a \cup b)
  BY Sent, Zenon
<1> QED
  BY <1>1 DEF Sends

\* L2_Replacement and MEM_Inv invalidate the copies an L2 line has on record and evict it.
LEMMA ReplaceOutcome ==
  ASSUME NEW e \in Line, Cardinality(e.sharers) \in Nat, NEW keep,
         NEW r, r = L2!Replace(e, keep), r.kind = "go"
  PROVE  SoundLine(r) /\ L2Evicts(e, r.e, Headers(r.out))
<1> SUFFICES \/ /\ e.st = "SS"
                /\ \E s \in {"S_I", "I_I"} :
                     Leads(r, s, {}, None, e.getS, e.getX, Cardinality(e.sharers),
                           Invs(e.sharers, "L2"))
             \/ /\ e.st = "MT"
                /\ \E s \in {"MT_I", "MCT_I"} :
                     Leads(r, s, {}, None, e.getS, e.getX, Cardinality(e.sharers),
                           Invs(e.sharers, "L2"))
             \/ /\ e.st = "M"
                /\ Leads(r, "M_I", {}, None, e.getS, e.getX, Cardinality(e.sharers), {})
  BY DEF SoundLine, Leads, LineHas, Sends, Holds, L2Evicts, Collected, Recalled
<1>0. /\ {} \in SUBSET L1s /\ None \in L1s \cup {None} /\ Cardinality(e.sharers) \in Int
      /\ \A s \in {"S_I", "I_I", "MT_I", "MCT_I", "M_I"} : s \in L2States
  BY DEF L2States
<1>1. \A s \in {"S_I", "I_I", "MT_I", "MCT_I", "M_I"} :
        LineHas(L2!Evict(e, s), s, {}, None, e.getS, e.getX, Cardinality(e.sharers))
  <2> TAKE s \in {"S_I", "I_I", "MT_I", "MCT_I", "M_I"}
  <2> DEFINE n == Cardinality(e.sharers)
             S == {}
  <2>1. L2!Evict(e, s) = [e EXCEPT !.st = s, !.pendingAcks = n, !.sharers = S, !.exclusive = None]
    BY L2Counting, Zenon DEF L2!Evict
  <2>2. n \in Int /\ S \in SUBSET L1s /\ s \in L2States
    BY <1>0
  <2> HIDE DEF n, S
  <2>3. LineHas([e EXCEPT !.st = s, !.pendingAcks = n, !.sharers = S, !.exclusive = None], s, S,
                None, e.getS, e.getX, n)
    BY <1>0, <2>2, LineSets, Zenon
  <2> QED
    BY <2>1, <2>3, Zenon DEF n, S
<1>2. \/ e.st = "SS" /\ \E s \in {"S_I", "I_I"} :
                          r = L2!Go(L2!Evict(e, s), L2!SendInv(e, e.sharers, "L2"))
      \/ e.st = "MT" /\ \E s \in {"MT_I", "MCT_I"} :
                          r = L2!Go(L2!Evict(e, s), L2!SendInv(e, e.sharers, "L2"))
      \/ e.st = "M" /\ \/ r = L2!Go(L2!Evict(e, "M_I"), L2!SendToMemory(e))
                       \/ r = L2!Go(L2!Evict(e, "M_I"), L2!SendCleanToMemory)
  BY Kinded DEF L2!Replace
<1>3. Sends(L2!SendInv(e, e.sharers, "L2"), Invs(e.sharers, "L2"))
  BY InvSent, Zenon DEF Line, End
<1>4. CASE e.st = "SS"
  BY <1>1, <1>2, <1>3, <1>4, GoLeads
<1>5. CASE e.st = "MT"
  BY <1>1, <1>2, <1>3, <1>5, GoLeads, Zenon
<1>6. CASE e.st = "M"
  BY <1>1, <1>2, <1>6, ToMemory, GoLeads, Zenon
<1> QED
  BY <1>2, <1>4, <1>5, <1>6, Zenon

\* L1_PUTX of the owner takes the block back, any other is acknowledged only.
LEMMA PutOutcome ==
  ASSUME NEW e \in Line, NEW m \in Message, m.src \in L1s, m.type = "PUTX",
         NEW r, r = L2!WriteBackRequest(e, m), r.kind = "go"
  PROVE  SoundLine(r) /\ L2Puts(e, r.e, m, Headers(r.out))
<1> SUFFICES \/ /\ e.st = "MT" /\ m.src \in e.sharers
                /\ Leads(r, "M", {}, e.exclusive, e.getS, e.getX, e.pendingAcks,
                         {Head("WB_ACK", "L2", m.src, None, 0)})
             \/ /\ e.st \notin {"SS_MB", "MT_MB", "MT_IIB", "MT_I", "MCT_I"}
                /\ e.st = "MT" => m.src \notin e.sharers
                /\ Leads(r, e.st, e.sharers, e.exclusive, e.getS, e.getX, e.pendingAcks,
                         {Head("WB_ACK", "L2", m.src, None, 0)})
  BY DEF SoundLine, Leads, LineHas, Sends, Holds, L2Puts, Becomes, Blocked, Recalled
<1> DEFINE ack == {L2!Control("WB_ACK", "L2", m.src)}
           w == IF m.dirty THEN [e EXCEPT !.fresh = m.fresh, !.dirty = TRUE] ELSE e
           put == [w EXCEPT !.st = "M", !.sharers = {}]
<1>0. "M" \in L2States /\ m.fresh \in BOOLEAN /\ TRUE \in BOOLEAN /\ {} \in SUBSET L1s
      /\ "WB_ACK" \in Kinds /\ 0 \in Int /\ None \in L1s \cup {None}
  BY DEF L2States, Message, Kinds
<1>1. LineHas(w, e.st, e.sharers, e.exclusive, e.getS, e.getX, e.pendingAcks)
  <2>1. LineHas([e EXCEPT !.fresh = m.fresh, !.dirty = TRUE], e.st, e.sharers, e.exclusive, e.getS,
                e.getX, e.pendingAcks)
    BY <1>0, BlockSet, Zenon
  <2> QED
    BY <2>1, LineSet
<1>2. Sends(ack, {Head("WB_ACK", "L2", m.src, None, 0)})
  BY <1>0, L2SendsOne, Zenon
<1>3. \/ e.st = "MT" /\ m.src \in e.sharers /\ r = L2!Go(put, ack)
      \/ /\ e.st \notin {"SS_MB", "MT_MB", "MT_IIB", "MT_I", "MCT_I"}
         /\ e.st = "MT" => m.src \notin e.sharers
         /\ r = L2!Go(e, ack)
  BY Kinded DEF L2!WriteBackRequest
<1> HIDE DEF w, ack
<1>4. LineHas(put, "M", {}, e.exclusive, e.getS, e.getX, e.pendingAcks)
  <2>1. w \in Line /\ w.exclusive = e.exclusive /\ w.getS = e.getS /\ w.getX = e.getX
        /\ w.pendingAcks = e.pendingAcks
    BY <1>1 DEF LineHas, Holds
  <2>2. LineHas(put, "M", {}, w.exclusive, w.getS, w.getX, w.pendingAcks)
    BY <1>0, <2>1, LineSets, Zenon
  <2> QED
    BY <2>1, <2>2, Zenon
<1> HIDE DEF put
<1>5. LineHas(e, e.st, e.sharers, e.exclusive, e.getS, e.getX, e.pendingAcks)
  BY LineSet, Zenon
<1> QED
  BY <1>2, <1>3, <1>4, <1>5, GoLeads

\* L1_GETS and L1_GET_INSTR: recorded, served shared or exclusive, or forwarded to the
\* owner.
LEMMA ReadOutcome ==
  ASSUME NEW e \in Line, e.st = "MT" => e.exclusive \in L1s, NEW m \in Message, m.src \in L1s,
         m.type \in {"GETS", "GET_INSTR"}, NEW r, r = L2!ReadRequest(e, m), r.kind = "go"
  PROVE  SoundLine(r) /\ L2Reads(e, r.e, m, Headers(r.out))
<1> SUFFICES \/ \E s \in {"IS", "ISS"} :
                  /\ e.st = "NP" \/ (e.st \in {"IS", "ISS"} /\ s = "IS")
                  /\ Leads(r, s, e.sharers \cup {m.src}, e.exclusive, e.getS \cup {m.src}, e.getX,
                           e.pendingAcks, {})
             \/ /\ e.st \in {"SS", "M"}
                /\ Leads(r, "SS", e.sharers \cup {m.src}, e.exclusive, e.getS, e.getX, e.pendingAcks,
                         Datas("DATA", {m.src}, 0))
             \/ /\ e.st = "M"
                /\ Leads(r, "MT_MB", e.sharers, e.exclusive, e.getS, e.getX, e.pendingAcks,
                         Datas("DATA_EXCLUSIVE", {m.src}, 0))
             \/ /\ e.st = "MT"
                /\ Leads(r, "MT_IIB", e.sharers, e.exclusive, e.getS, e.getX, e.pendingAcks,
                         {Head(m.type, "L2", e.exclusive, m.src, 0)})
  BY DEF SoundLine, Leads, LineHas, Sends, Holds, L2Reads, Becomes, Reading
<1> DEFINE c == m.src
           shared == [e EXCEPT !.sharers = @ \cup {c}]
           recorded == [shared EXCEPT !.getS = @ \cup {c}]
           owned == [e EXCEPT !.st = "MT_MB"]
           fwd == [e EXCEPT !.st = "MT_IIB"]
           ask == {L2!Control("FETCH", "L2", "Dir")}
           Wait(s) == [recorded EXCEPT !.st = s]
           Share == [shared EXCEPT !.st = "SS"]
<1>0. "IS" \in L2States /\ "ISS" \in L2States /\ "SS" \in L2States /\ "MT_MB" \in L2States
      /\ "MT_IIB" \in L2States /\ e.sharers \cup {c} \in SUBSET L1s /\ e.getS \cup {c} \in SUBSET L1s
      /\ {c} \in SUBSET L1s /\ "DATA" \in Kinds /\ "DATA_EXCLUSIVE" \in Kinds /\ "FETCH" \in Kinds
      /\ 0 \in Int /\ m.type \in Kinds /\ FALSE \in BOOLEAN
  BY DEF L2States, Line, Message, Kinds
<1>1. /\ LineHas(shared, e.st, e.sharers \cup {c}, e.exclusive, e.getS, e.getX, e.pendingAcks)
      /\ LineHas(owned, "MT_MB", e.sharers, e.exclusive, e.getS, e.getX, e.pendingAcks)
      /\ LineHas(fwd, "MT_IIB", e.sharers, e.exclusive, e.getS, e.getX, e.pendingAcks)
  BY <1>0, LineSet, Zenon
<1>2. \/ e.st = "NP" /\ \E s \in {"IS", "ISS"} : r = L2!Go(Wait(s), ask)
      \/ e.st \in {"IS", "ISS"} /\ r = L2!Go(Wait("IS"), {})
      \/ e.st = "SS" /\ r = L2!Go(shared, L2!SendData(e, "DATA", {c}, 0))
      \/ e.st = "M" /\ r = L2!Go(Share, L2!SendData(e, "DATA", {c}, 0))
      \/ e.st = "M" /\ r = L2!Go(owned, L2!SendData(e, "DATA_EXCLUSIVE", {c}, 0))
      \/ e.st = "MT" /\ r = L2!Go(fwd, {L2!Forward(m.type, "L2", e.exclusive, c)})
  BY Kinded, Zenon DEF L2!ReadRequest
<1> HIDE DEF shared, owned, fwd
<1>3. /\ LineHas(recorded, e.st, e.sharers \cup {c}, e.exclusive, e.getS \cup {c}, e.getX,
                 e.pendingAcks)
      /\ LineHas(Share, "SS", e.sharers \cup {c}, e.exclusive, e.getS, e.getX, e.pendingAcks)
  <2>1. shared \in Line /\ shared.st = e.st /\ shared.sharers = e.sharers \cup {c}
        /\ shared.exclusive = e.exclusive /\ shared.getS = e.getS /\ shared.getX = e.getX
        /\ shared.pendingAcks = e.pendingAcks
    BY <1>1 DEF LineHas, Holds
  <2>2. /\ LineHas(recorded, shared.st, shared.sharers, shared.exclusive, e.getS \cup {c},
                   shared.getX, shared.pendingAcks)
        /\ LineHas(Share, "SS", shared.sharers, shared.exclusive, shared.getS, shared.getX,
                   shared.pendingAcks)
    BY <1>0, <2>1, LineSet, Zenon
  <2> QED
    BY <2>1, <2>2
<1> HIDE DEF recorded, Share
<1>4. \A s \in {"IS", "ISS"} :
        LineHas(Wait(s), s, e.sharers \cup {c}, e.exclusive, e.getS \cup {c}, e.getX, e.pendingAcks)
  BY <1>0, <1>3, LineSet DEF LineHas, Holds
<1>5. /\ Sends(ask, {})
      /\ Sends(L2!SendData(e, "DATA", {c}, 0), Datas("DATA", {c}, 0))
      /\ Sends(L2!SendData(e, "DATA_EXCLUSIVE", {c}, 0), Datas("DATA_EXCLUSIVE", {c}, 0))
  BY <1>0, SendsAway, DataSent, Zenon
<1>6. e.st = "MT" => Sends({L2!Forward(m.type, "L2", e.exclusive, c)},
                           {Head(m.type, "L2", e.exclusive, c, 0)})
  BY <1>0, L2SendsOne, Zenon
<1> HIDE DEF ask, Wait, c
<1>7. \A s \in {"IS", "ISS"} :
        /\ Leads(L2!Go(Wait(s), ask), s, e.sharers \cup {c}, e.exclusive, e.getS \cup {c}, e.getX,
                 e.pendingAcks, {})
        /\ Leads(L2!Go(Wait(s), {}), s, e.sharers \cup {c}, e.exclusive, e.getS \cup {c}, e.getX,
                 e.pendingAcks, {})
  BY <1>4, <1>5, GoLeads, SendsNothing, Zenon
<1>8. \A w \in {shared, Share} : e.st = "SS" \/ w = Share =>
        Leads(L2!Go(w, L2!SendData(e, "DATA", {c}, 0)), "SS", e.sharers \cup {c}, e.exclusive,
              e.getS, e.getX, e.pendingAcks, Datas("DATA", {c}, 0))
  BY <1>1, <1>3, <1>5, GoLeads, Zenon
<1>9. Leads(L2!Go(owned, L2!SendData(e, "DATA_EXCLUSIVE", {c}, 0)), "MT_MB", e.sharers, e.exclusive,
            e.getS, e.getX, e.pendingAcks, Datas("DATA_EXCLUSIVE", {c}, 0))
  BY <1>1, <1>5, GoLeads, Zenon
<1>10. e.st = "MT" =>
         Leads(L2!Go(fwd, {L2!Forward(m.type, "L2", e.exclusive, c)}), "MT_IIB", e.sharers,
               e.exclusive, e.getS, e.getX, e.pendingAcks, {Head(m.type, "L2", e.exclusive, c, 0)})
  BY <1>1, <1>6, GoLeads, Zenon
<1> QED
  BY <1>2, <1>7, <1>8, <1>9, <1>10, Zenon DEF c

\* L1_GETX and L1_UPGRADE: recorded, served with the invalidation of the other sharers,
\* served alone, or forwarded to the owner.
LEMMA WriteOutcome ==
  ASSUME NEW e \in Line, e.st = "MT" => e.exclusive \in L1s, NEW m \in Message, m.src \in L1s,
         m.type \in {"GETX", "UPGRADE"}, Cardinality(e.sharers \ {m.src}) \in Nat,
         Cardinality(e.sharers) \in Nat,
         m.src \in e.sharers => Cardinality(e.sharers \ {m.src}) = Cardinality(e.sharers) - 1,
         NEW r, r = L2!WriteRequest(e, m), r.kind = "go"
  PROVE  SoundLine(r) /\ L2Writes(e, r.e, m, Headers(r.out))
<1> SUFFICES \/ /\ e.st = "NP"
                /\ Leads(r, "IM", e.sharers, e.exclusive, e.getS, m.src, e.pendingAcks, {})
             \/ /\ e.st = "SS"
                /\ \E t \in {"DATA", "ACK"} :
                     Leads(r, "SS_MB", e.sharers, e.exclusive, e.getS, e.getX, e.pendingAcks,
                           Invs(e.sharers \ {m.src}, m.src)
                             \cup Datas(t, {m.src}, 0 - Cardinality(e.sharers \ {m.src})))
             \/ /\ e.st = "M"
                /\ Leads(r, "MT_MB", e.sharers, e.exclusive, e.getS, e.getX, e.pendingAcks,
                         Datas("DATA", {m.src}, 0))
             \/ /\ e.st = "MT"
                /\ Leads(r, "MT_MB", e.sharers, e.exclusive, e.getS, e.getX, e.pendingAcks,
                         {Head(m.type, "L2", e.exclusive, m.src, 0)})
  BY Zenon DEF SoundLine, Leads, LineHas, Sends, Holds, L2Writes, Becomes, Writing
<1> DEFINE c == m.src
           others == e.sharers \ {c}
           k == 0 - Cardinality(others)
           inv == L2!SendInv(e, others, c)
           ask == {L2!Control("FETCH", "L2", "Dir")}
           grant == {L2!Acks("ACK", "L2", c, k)}
           data == L2!SendData(e, "DATA", {c}, k)
           asked == [e EXCEPT !.st = "IM", !.getX = c]
           collected == [e EXCEPT !.st = "SS_MB"]
           owned == [e EXCEPT !.st = "MT_MB"]
<1>0. "IM" \in L2States /\ "SS_MB" \in L2States /\ "MT_MB" \in L2States /\ {c} \in SUBSET L1s
      /\ "DATA" \in Kinds /\ "ACK" \in Kinds /\ "FETCH" \in Kinds /\ 0 \in Int /\ m.type \in Kinds
      /\ FALSE \in BOOLEAN /\ k \in Int /\ c \in End /\ others \in SUBSET L1s
      /\ c \in L1s \cup {None} /\ e.sharers \in SUBSET L1s
  BY DEF L2States, Line, Message, Kinds, End
<1>1. LineHas(asked, "IM", e.sharers, e.exclusive, e.getS, c, e.pendingAcks)
  BY <1>0, LineSets, Zenon
<1>2. /\ LineHas(collected, "SS_MB", e.sharers, e.exclusive, e.getS, e.getX, e.pendingAcks)
      /\ LineHas(owned, "MT_MB", e.sharers, e.exclusive, e.getS, e.getX, e.pendingAcks)
  BY <1>0, LineSet
<1>3. c \in e.sharers => 1 - L2!Cardinality(e.sharers) = k
  <2>1. \A a \in Nat : \A b \in Nat : a = b - 1 => 1 - b = 0 - a
    OBVIOUS
  <2> QED
    BY <2>1, L2Counting
<1>4. 0 - L2!Cardinality(others) = k
  BY L2Counting
<1>5. \/ e.st = "NP" /\ r = L2!Go(asked, ask)
      \/ e.st = "SS" /\ (r = L2!Go(collected, inv \cup grant) \/ r = L2!Go(collected, inv \cup data))
      \/ e.st = "M" /\ r = L2!Go(owned, L2!SendData(e, "DATA", {c}, 0))
      \/ e.st = "MT" /\ r = L2!Go(owned, {L2!Forward(m.type, "L2", e.exclusive, c)})
  <2> HIDE DEF k
  <2> QED
    BY <1>3, <1>4, Kinded, Zenon DEF L2!WriteRequest
<1> HIDE DEF k, others, asked, collected, owned
<1>6. Sends(ask, {}) /\ Sends(inv, Invs(others, c)) /\ Sends(data, Datas("DATA", {c}, k))
      /\ Sends(L2!SendData(e, "DATA", {c}, 0), Datas("DATA", {c}, 0))
  BY <1>0, SendsAway, InvSent, DataSent, Zenon
<1>7. Sends(grant, Datas("ACK", {c}, k))
  <2>1. Sends(grant, {Head("ACK", "L2", c, None, k)})
    BY <1>0, L2SendsOne, Zenon
  <2>2. {Head("ACK", "L2", c, None, k)} = Datas("ACK", {c}, k)
    BY DEF Datas
  <2> QED
    BY <2>1, <2>2, Zenon
<1>8. e.st = "MT" => Sends({L2!Forward(m.type, "L2", e.exclusive, c)},
                           {Head(m.type, "L2", e.exclusive, c, 0)})
  BY <1>0, L2SendsOne, Zenon
<1> HIDE DEF ask, inv, data, grant
<1>9. \A t \in {"DATA", "ACK"} : Invs(others, c) \cap Datas(t, {c}, k) = {}
  BY DEF Invs, Datas, Head
<1>10. Sends(inv \cup grant, Invs(others, c) \cup Datas("ACK", {c}, k))
  BY <1>6, <1>7, <1>9, SendsBoth, Zenon
<1>11. Sends(inv \cup data, Invs(others, c) \cup Datas("DATA", {c}, k))
  BY <1>6, <1>9, SendsBoth, Zenon
<1> HIDE DEF c
<1>12. Leads(L2!Go(asked, ask), "IM", e.sharers, e.exclusive, e.getS, c, e.pendingAcks, {})
  BY <1>1, <1>6, GoLeads, Zenon
<1>13. /\ Leads(L2!Go(collected, inv \cup grant), "SS_MB", e.sharers, e.exclusive, e.getS, e.getX,
                e.pendingAcks, Invs(others, c) \cup Datas("ACK", {c}, k))
       /\ Leads(L2!Go(collected, inv \cup data), "SS_MB", e.sharers, e.exclusive, e.getS, e.getX,
                e.pendingAcks, Invs(others, c) \cup Datas("DATA", {c}, k))
  BY <1>2, <1>10, <1>11, GoLeads, Zenon
<1>14. Leads(L2!Go(owned, L2!SendData(e, "DATA", {c}, 0)), "MT_MB", e.sharers, e.exclusive, e.getS,
             e.getX, e.pendingAcks, Datas("DATA", {c}, 0))
  BY <1>2, <1>6, GoLeads, Zenon
<1>15. e.st = "MT" =>
         Leads(L2!Go(owned, {L2!Forward(m.type, "L2", e.exclusive, c)}), "MT_MB", e.sharers,
               e.exclusive, e.getS, e.getX, e.pendingAcks, {Head(m.type, "L2", e.exclusive, c, 0)})
  BY <1>2, <1>8, GoLeads, Zenon
<1> QED
  BY <1>5, <1>12, <1>13, <1>14, <1>15, Zenon DEF c, k, others

--------------------------------------------------------------------------------
\* What the directory does is out of sight of the L1 caches.

\* Messages that concern no L1 change no header when they are sent.
LEMMA AwaySent ==
  ASSUME NEW a \in SUBSET Message, NEW b, DistinctIn(a), Sends(b, {})
  PROVE  a \cup b \in SUBSET Message /\ DistinctIn(a \cup b) /\ Headers(a \cup b) = Headers(a)
<1>1. /\ Headers(a \cup b) = Headers(a) \cup Headers(b)
      /\ DistinctIn(a) /\ DistinctIn(b) /\ Headers(a) \cap Headers(b) = {} => DistinctIn(a \cup b)
  BY Sent
<1> QED
  BY <1>1 DEF Sends

\* Nor do they when they are taken.
LEMMA AwayTaken ==
  ASSUME NEW n, DistinctIn(n), NEW m \in n, ~Local(m)
  PROVE  Headers({m}) = {} /\ Headers(n \ {m}) = Headers(n) /\ DistinctIn(n \ {m})
<1>1. /\ Headers(n \ {m}) = Headers(n) \ Headers({m}) /\ DistinctIn(n \ {m})
      /\ Headers({m}) = IF Local(m) THEN {Header(m)} ELSE {}
  BY Taken, Zenon
<1> QED
  BY <1>1

\* What the directory sends concerns no L1.
LEMMA DirSends ==
  ASSUME NEW t \in Kinds, NEW d \in {"L2", "Mem", "DMA"}, NEW q \in End, NEW f \in BOOLEAN,
         d = "L2" => t \in {"MEMORY_DATA", "MEMORY_ACK", "INV"}
  PROVE  /\ Sends({D!Control(t, "Dir", d)}, {})
         /\ Sends({D!Forward(t, "Dir", d, q)}, {})
         /\ Sends({D!Block(t, "Dir", d, f, FALSE)}, {})
         /\ Sends({[D!Block(t, "Dir", d, f, FALSE) EXCEPT !.requestor = q]}, {})
<1> DEFINE x == D!Control(t, "Dir", d)
           y == [x EXCEPT !.fresh = f]
           z == [y EXCEPT !.dirty = FALSE]
           A(w) == w \in Message /\ ~Local(w)
<1>1. A(x)
  BY L1Assumption DEF D!Control, Message, End, Local
<1>2. D!Forward(t, "Dir", d, q) = [x EXCEPT !.requestor = q] /\ D!Block(t, "Dir", d, f, FALSE) = z
  BY DEF D!Forward, D!Block
<1> HIDE DEF x
<1>3. ASSUME NEW w, A(w)
      PROVE  A([w EXCEPT !.requestor = q]) /\ A([w EXCEPT !.fresh = f]) /\ A([w EXCEPT !.dirty = FALSE])
  <2>1. w \in Message /\ q \in End \cup {None} /\ f \in BOOLEAN /\ FALSE \in BOOLEAN /\ ~Local(w)
    BY <1>3
  <2>2. [w EXCEPT !.requestor = q] \in Message /\ [w EXCEPT !.fresh = f] \in Message
        /\ [w EXCEPT !.dirty = FALSE] \in Message
    BY <2>1, MessageFields, Zenon
  <2> QED
    BY <2>1, <2>2, Zenon DEF Local, Message
<1>4. ASSUME NEW w, A(w)
      PROVE  Sends({w}, {})
  BY <1>4 DEF Sends, DistinctIn, Headers
<1>5. A([x EXCEPT !.requestor = q]) /\ A(y)
  BY <1>1, <1>3, Zenon
<1> HIDE DEF y
<1>6. A(z)
  BY <1>3, <1>5, Zenon
<1> HIDE DEF z
<1>7. A([z EXCEPT !.requestor = q])
  BY <1>3, <1>6, Zenon
<1> HIDE DEF A
<1> QED
  BY <1>1, <1>2, <1>4, <1>5, <1>6, <1>7, Zenon DEF x

\* A transition whose messages concern no L1.
Plain(r) == Sends(r.out, {}) /\ [r EXCEPT !.out = {}].out = {}

\* A transition of the directory that goes through sends what it says.
LEMMA GoPlain ==
  ASSUME NEW e, NEW out, Sends(out, {})
  PROVE  Plain(D!Go(e, out)) /\ Plain(D!GoAndWake(e, out))
  BY DEF Plain, D!Go, D!GoAndWake

\* A message to the directory that stalls (z_stallAndWaitRequest) stays one that concerns
\* no L1.
LEMMA KeptSends ==
  ASSUME NEW m \in Message, ~Local(m)
  PROVE  Sends({[m EXCEPT !.stalled = TRUE]}, {})
<1> DEFINE w == [m EXCEPT !.stalled = TRUE]
<1>1. w \in Message /\ ~Local(w)
  BY Zenon DEF Message, Local
<1> HIDE DEF w
<1> QED
  BY <1>1, Zenon DEF w, Sends, DistinctIn, Headers

\* Every transition of MESI_Two_Level-dir.sm is of that kind.
LEMMA DirOutcome ==
  ASSUME NEW e, NEW m \in Message, ~Local(m)
  PROVE  /\ D!Request(e, m).kind = "go" => Plain(D!Request(e, m))
         /\ D!Response(e, m).kind = "go" => Plain(D!Response(e, m))
         /\ D!Memory(e, m).kind = "go" => Plain(D!Memory(e, m))
<1>0. m.fresh \in BOOLEAN /\ TRUE \in BOOLEAN /\ "L2" \in End /\ "DMA" \in End /\ "Dir" \in End
      /\ \A t \in {"MEMORY_READ", "MEMORY_WB", "INV", "DATA", "ACK", "MEMORY_DATA", "MEMORY_ACK"} :
           t \in Kinds
  BY DEF Message, End, Kinds
<1>1. D!Stall.kind # "go" /\ D!Invalid.kind # "go"
  BY DEF D!Stall, D!Invalid
<1>2. \A q \in {"L2", "DMA"} : Sends(D!Read(q), {})
  BY <1>0, DirSends, Zenon DEF D!Read
<1>3. \A q \in {"L2", "Dir"} : \A f \in BOOLEAN : Sends(D!Write(f, q), {})
  BY <1>0, DirSends, Zenon DEF D!Write
<1>4. Sends(D!InvL2, {}) /\ Sends({D!Control("MEMORY_ACK", "Dir", "L2")}, {})
      /\ Sends({D!Control("ACK", "Dir", "DMA")}, {})
  BY <1>0, DirSends, Zenon DEF D!InvL2
<1>5. Sends({D!Block("DATA", "Dir", "DMA", m.fresh, FALSE)}, {})
      /\ Sends({D!Block("MEMORY_DATA", "Dir", "L2", m.fresh, FALSE)}, {})
  BY <1>0, DirSends, Zenon
<1>6. ASSUME NEW a, NEW b, Sends(a, {}), Sends(b, {})
      PROVE  Sends(a \cup b, {})
  BY <1>6, SendsBoth
<1>7. D!Request(e, m).kind = "go" => Plain(D!Request(e, m))
  <2>0. Sends(D!InvL2 \cup {[m EXCEPT !.stalled = TRUE]}, {})
    <3>1. Sends({[m EXCEPT !.stalled = TRUE]}, {})
      BY KeptSends
    <3> QED
      BY <1>4, <1>6, <3>1
  <2>1. SUFFICES ASSUME D!Request(e, m).kind = "go"
                 PROVE  \E x, out : D!Request(e, m) = D!Go(x, out) /\ Sends(out, {})
    BY GoPlain
  <2> QED
    BY <1>0, <1>1, <1>2, <1>3, <1>4, <2>0, <2>1, Zenon DEF D!Request
<1>8. D!Response(e, m).kind = "go" => Plain(D!Response(e, m))
  <2>1. SUFFICES ASSUME D!Response(e, m).kind = "go"
                 PROVE  \E x, out : /\ \/ D!Response(e, m) = D!Go(x, out)
                                       \/ D!Response(e, m) = D!GoAndWake(x, out)
                                    /\ Sends(out, {})
    BY GoPlain
  <2>2. Sends(D!Write(m.fresh, "L2"), {}) /\ Sends(D!Write(TRUE, "L2"), {})
    BY <1>0, <1>3, Zenon
  <2>3. Sends(D!Write(m.fresh, "L2") \cup {D!Block("DATA", "Dir", "DMA", m.fresh, FALSE)}, {})
    BY <1>5, <1>6, <2>2, Zenon
  <2> QED
    BY <1>1, <1>4, <2>1, <2>2, <2>3, Zenon DEF D!Response
<1>9. D!Memory(e, m).kind = "go" => Plain(D!Memory(e, m))
  <2>1. SUFFICES ASSUME D!Memory(e, m).kind = "go"
                 PROVE  \E x, out : D!Memory(e, m) = D!GoAndWake(x, out) /\ Sends(out, {})
    BY GoPlain
  <2> DEFINE a == D!Control("MEMORY_ACK", "Dir", "L2")
             b == D!Control("ACK", "Dir", "DMA")
  <2>2. Sends({a, b}, {})
    <3>1. {a, b} = {a} \cup {b}
      OBVIOUS
    <3> QED
      BY <1>4, <1>6, <3>1
  <2> QED
    BY <1>1, <1>4, <1>5, <2>1, <2>2 DEF D!Memory
<1> QED
  BY <1>7, <1>8, <1>9, Zenon

--------------------------------------------------------------------------------
\* An event depends on the header of the message it takes, on what an L1 counts only while
\* it waits to write, and on the permissions of the L2 line.

\* An L1 reads nothing but the header of the message it takes.
LEMMA L1TakesHeader ==
  ASSUME NEW c, NEW s, NEW d, NEW t, NEW n, NEW m, NEW out, L1Takes(c, s, d, t, n, m, out)
  PROVE  L1Event(c, s, d, t, n, {Header(m)}, out)
<1> DEFINE h == Header(m)
<1>1. h.type = m.type /\ h.src = m.src /\ h.dst = m.dst /\ h.requestor = m.requestor
      /\ h.acks = m.acks
  BY DEF Header
<1> HIDE DEF h
<1>2. L1Takes(c, s, d, t, n, h, out)
  BY <1>1 DEF L1Takes, L1Acknowledges, L1GivesBack, L1HandsOver, L1Fills, L1Collects, L1PutsDone
<1>3. h \in {h}
  OBVIOUS
<1> QED
  BY <1>2, <1>3, Zenon DEF L1Event, h

\* pendingAcks of a TBE that is gone is not part of an event.
LEMMA L1CountsWriting ==
  ASSUME NEW c, NEW s, NEW d, NEW t, NEW n, NEW k, NEW use, NEW out,
         L1Event(c, s, d, t, n, use, out), t \in WriteStates => k = n
  PROVE  L1Event(c, s, d, t, k, use, out)
<1>1. L1Alone(c, s, t, n, out) => L1Alone(c, s, t, k, out)
  BY DEF L1Alone, L1Misses, WriteStates
<1>2. ASSUME NEW m, L1Takes(c, s, d, t, n, m, out)
      PROVE  L1Takes(c, s, d, t, k, m, out)
  BY <1>2 DEF L1Takes, L1Acknowledges, L1Collects, WriteStates
<1> QED
  BY <1>1, <1>2, Zenon DEF L1Event

\* Nor does the L2, the block aside.
LEMMA L2TakesHeader ==
  ASSUME NEW k, NEW l, NEW m, NEW out, L2Takes(k, l, m, out)
  PROVE  L2Event(k, l, {Header(m)}, out)
<1> DEFINE h == Header(m)
<1>1. h.type = m.type /\ h.src = m.src /\ h.dst = m.dst /\ h.acks = m.acks
  BY DEF Header
<1> HIDE DEF h
<1>2. L2Takes(k, l, h, out)
  BY <1>1, Zenon DEF L2Takes, L2Unblocks, L2TakesData, L2TakesAck, L2Puts, L2Reads, L2Writes
<1>3. h \in {h}
  OBVIOUS
<1> QED
  BY <1>2, <1>3, Zenon DEF L2Event, h

\* Two lines with the same permissions have the same events.
LEMMA L2ReadsPermissions ==
  ASSUME NEW k, NEW l, NEW use, NEW out, L2Event(k, l, use, out),
         NEW a, NEW b, Becomes(k, a, k.st), Becomes(l, b, l.st)
  PROVE  L2Event(a, b, use, out)
<1>0. /\ a.st = k.st /\ a.sharers = k.sharers /\ a.exclusive = k.exclusive
      /\ a.getS = k.getS /\ a.getX = k.getX /\ a.pendingAcks = k.pendingAcks
      /\ b.st = l.st /\ b.sharers = l.sharers /\ b.exclusive = l.exclusive
      /\ b.getS = l.getS /\ b.getX = l.getX /\ b.pendingAcks = l.pendingAcks
  BY Zenon DEF Becomes, Holds
<1>1. L2Alone(k, l, out) => L2Alone(a, b, out)
  BY <1>0, Zenon DEF L2Alone, L2Fills, L2Evicts, L2Drops, Holds
<1>2. ASSUME NEW m, L2Takes(k, l, m, out)
      PROVE  L2Takes(a, b, m, out)
  BY <1>0, <1>2, Zenon DEF L2Takes, L2Unblocks, L2TakesData, L2TakesAck, L2Puts, L2Reads, L2Writes,
     Holds, Becomes
<1> QED
  BY <1>1, <1>2, Zenon DEF L2Event

================================================================================
