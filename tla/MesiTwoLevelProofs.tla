-------------------------- MODULE MesiTwoLevelProofs --------------------------
(***************************************************************************)
(* The controllers of MesiTwoLevel implement the permission protocol of    *)
(* MesiPermissions, for every finite set of L1 caches and whatever         *)
(* requests, replacements and DMA accesses the setup allows; SingleWriter  *)
(* follows. First, with MesiOutcomes, that each action, seen in the        *)
(* permissions (states, dues, bank, wire), is one event of MesiEvents or   *)
(* none; then the invariant, with MesiPermissionsProofs, and the           *)
(* refinement.                                                             *)
(***************************************************************************)
EXTENDS MesiOutcomes

--------------------------------------------------------------------------------
\* Each action shows an event of MesiEvents, or none. What it shows is seen in the permissions:
\* the states of the L1s, the acknowledgements their TBEs count, the part of the L2 line that
\* permissions depend on and the headers of the messages of the L1s.
states == [c \in L1s |-> l1[c].st]
dues == [c \in L1s |-> l1[c].pendingAcks]
bank == [st |-> l2.st, sharers |-> l2.sharers, exclusive |-> l2.exclusive, getS |-> l2.getS,
         getX |-> l2.getX, pendingAcks |-> l2.pendingAcks]
wire == Headers(net)

\* What the actions need to know of the state: the types, messages told apart by their headers,
\* an owner and a writer on record, a requestor in what the L2 asks of an L1, no message of the
\* directory from an L1, and caches that can be counted.
Known ==
  /\ TypeOK /\ DistinctIn(net)
  /\ l2.st = "MT" => l2.exclusive \in L1s
  /\ l2.st = "IM" => l2.getX \in L1s
  /\ \A m \in net :
       /\ m.src = "L2" /\ m.dst \in L1s =>
            /\ m.type = "INV" => m.requestor \in End
            /\ m.type \in Reading \cup Writing => m.requestor \in L1s
       /\ m.src \in L1s /\ m.dst = "L2" => m.type \notin {"MEMORY_DATA", "MEMORY_ACK", "INV"}
  /\ \A T \in SUBSET L1s : /\ Cardinality(T) \in Nat
                           /\ \A x \in T : Cardinality(T \ {x}) = Cardinality(T) - 1

\* The headers in use are taken and those in out sent. Messages stay told apart if what is sent
\* was not under way.
Passes(use, out) ==
  /\ use \in SUBSET wire /\ wire' = (wire \ use) \cup out
  /\ (wire \ use) \cap out = {} => DistinctIn(net)'

\* A step shows an event of L1 cache c, an event of the L2, or nothing.
L1Shows(c, use, out) ==
  /\ L1Event(c, states[c], dues[c], states'[c], dues'[c], use, out) /\ dues'[c] \in Int
  /\ states' = [states EXCEPT ![c] = states'[c]] /\ dues' = [dues EXCEPT ![c] = dues'[c]]
  /\ bank' = bank /\ Passes(use, out)

L2Shows(use, out) ==
  /\ L2Event(bank, bank', use, out) /\ states' = states /\ dues' = dues /\ Passes(use, out)

Rests == states' = states /\ dues' = dues /\ bank' = bank /\ wire' = wire /\ DistinctIn(net)'

Shows ==
  /\ TypeOK'
  /\ \/ \E c \in L1s, use \in SUBSET wire : \E out : L1Shows(c, use, out)
     \/ \E use \in SUBSET wire : \E out : L2Shows(use, out)
     \/ Rests

\* A store elsewhere makes an L1's block out of date and changes nothing else of its entry.
LEMMA OldEntries ==
  ASSUME l1 \in [L1s -> Entry]
  PROVE  \A d \in L1s : OldL1(d) \in Entry /\ OldL1(d).st = l1[d].st
                       /\ OldL1(d).pendingAcks = l1[d].pendingAcks
<1> SUFFICES ASSUME NEW d \in L1s
             PROVE  OldL1(d) \in Entry /\ OldL1(d).st = l1[d].st
                    /\ OldL1(d).pendingAcks = l1[d].pendingAcks
  OBVIOUS
<1>1. l1[d] \in Entry
  OBVIOUS
<1> QED
  BY <1>1, Zenon DEF OldL1, Entry

\* A store that makes the L2's block out of date keeps what the line records.
LEMMA OldBank ==
  ASSUME l2 \in Line
  PROVE  /\ OldL2 \in Line
         /\ (l2' = OldL2 \/ l2' = l2) => bank' = bank
<1>1. OldL2 \in Line /\ OldL2.st = l2.st /\ OldL2.sharers = l2.sharers
      /\ OldL2.exclusive = l2.exclusive /\ OldL2.getS = l2.getS /\ OldL2.getX = l2.getX
      /\ OldL2.pendingAcks = l2.pendingAcks
  BY Zenon DEF OldL2, Line
<1> QED
  BY <1>1 DEF bank

\* The view shows the fields of the caches and of the line.
LEMMA Read ==
  ASSUME Known, NEW c \in L1s
  PROVE  l1[c] \in Entry /\ states[c] = l1[c].st /\ dues[c] = l1[c].pendingAcks
  BY DEF Known, TypeOK, states, dues

\* A transition of an L1 that is an event shows it.
LEMMA L1GoStep ==
  ASSUME Known, NEW c \in L1s, NEW used, Used(used), Headers(used) \in SUBSET wire,
         NEW r, SoundEntry(r), L1Go(c, used, r),
         L1Event(c, l1[c].st, l1[c].pendingAcks, r.e.st, r.e.pendingAcks, Headers(used),
                 Headers(r.out))
  PROVE  Shows
<1> DEFINE wrote == l1[c].op \in {"Store", "Locked_RMW_Write"} /\ r.e.op = None
           woken == r.wake /\ AtWork(used) > 0
           e == [Settle(r.e) EXCEPT !.stalled = @ /\ ~woken /\ r.e.op # None]
           n == Pass(c, used, r)
           use == Headers(used)
           heads == Headers(r.out)
<1>0. TypeOK /\ DistinctIn(net) /\ r.e \in Entry /\ Sends(r.out, heads)
  BY Zenon DEF Known, SoundEntry
<1>1. Settle(r.e) \in Entry /\ Settle(r.e).st = r.e.st
      /\ (r.e.st \in {"IM", "SM"} => Settle(r.e).pendingAcks = r.e.pendingAcks)
  BY <1>0, Settled
<1>2. e \in Entry /\ e.st = r.e.st /\ (r.e.st \in WriteStates => e.pendingAcks = r.e.pendingAcks)
      /\ e.pendingAcks \in Int
  BY <1>1, Zenon DEF Entry, WriteStates
<1>3. n \in SUBSET Message /\ Headers(n) = (wire \ use) \cup heads
      /\ ((wire \ use) \cap heads = {} => DistinctIn(n))
  <2>1. net \in SUBSET Message
    BY <1>0 DEF TypeOK
  <2> HIDE DEF wrote, e
  <2> QED
    BY <1>0, <2>1, PassNet DEF wire
<1>4. /\ l1' = [d \in L1s |-> IF d = c THEN e ELSE IF wrote THEN OldL1(d) ELSE l1[d]]
      /\ net' = IF wrote THEN OldMsgs(n) ELSE n
      /\ l2' = IF wrote THEN OldL2 ELSE l2
      /\ mem' = (mem /\ ~wrote) /\ setup' = setup
  BY Zenon DEF L1Go
<1> HIDE DEF wrote, e, n, use, heads
<1>5. net' \in SUBSET Message /\ wire' = (wire \ use) \cup heads
      /\ ((wire \ use) \cap heads = {} => DistinctIn(net'))
  BY <1>3, <1>4, OldNet, Zenon DEF wire
<1>6. \A d \in L1s : OldL1(d) \in Entry /\ OldL1(d).st = l1[d].st
                     /\ OldL1(d).pendingAcks = l1[d].pendingAcks
  BY <1>0, OldEntries, Zenon DEF TypeOK
<1>7. l1' \in [L1s -> Entry]
  BY <1>0, <1>2, <1>4, <1>6, Zenon DEF TypeOK
<1>8. states' = [states EXCEPT ![c] = r.e.st] /\ dues' = [dues EXCEPT ![c] = e.pendingAcks]
  <2>1. \A d \in L1s : l1'[d].st = (IF d = c THEN r.e.st ELSE l1[d].st)
                       /\ l1'[d].pendingAcks = (IF d = c THEN e.pendingAcks ELSE l1[d].pendingAcks)
    BY <1>2, <1>4, <1>6, Zenon
  <2> QED
    BY <2>1, Zenon DEF states, dues
<1>9. l2' \in Line /\ bank' = bank
  BY <1>0, <1>4, OldBank, Zenon DEF TypeOK
<1>10. TypeOK'
  BY <1>0, <1>4, <1>5, <1>7, <1>9, Zenon DEF TypeOK
<1>11. L1Event(c, states[c], dues[c], r.e.st, e.pendingAcks, use, heads)
  <2>1. L1Event(c, states[c], dues[c], r.e.st, r.e.pendingAcks, use, heads)
    BY Read, Zenon DEF use, heads
  <2> QED
    BY <1>2, <2>1, L1CountsWriting, Zenon
<1>12. states'[c] = r.e.st /\ dues'[c] = e.pendingAcks
  BY <1>8, Zenon DEF states, dues
<1>13. use \in SUBSET wire
  BY DEF use
<1>14. Passes(use, heads)
  BY <1>5, <1>13 DEF Passes
<1>15. L1Shows(c, use, heads)
  BY <1>2, <1>8, <1>9, <1>11, <1>12, <1>14, Zenon DEF L1Shows
<1> QED
  BY <1>10, <1>13, <1>15, Zenon DEF Shows

\* The same for a transition of the L2.
LEMMA L2GoStep ==
  ASSUME Known, NEW used, Used(used), Headers(used) \in SUBSET wire,
         NEW r, SoundLine(r), L2Go(used, r), L2Event(l2, r.e, Headers(used), Headers(r.out))
  PROVE  Shows
<1> DEFINE use == Headers(used)
           heads == Headers(r.out)
<1>0. TypeOK /\ DistinctIn(net) /\ r.e \in Line /\ Sends(r.out, heads)
  BY Zenon DEF Known, SoundLine
<1> HIDE DEF heads
<1>1. /\ net' \in SUBSET Message /\ wire' = (wire \ use) \cup heads
      /\ (wire \ use) \cap heads = {} => DistinctIn(net)'
  BY <1>0, PassNet DEF TypeOK, L2Go, wire
<1>2. TypeOK'
  BY <1>0, <1>1, Zenon DEF TypeOK, L2Go
<1> HIDE DEF use
<1>3. states' = states /\ dues' = dues
  BY DEF states, dues, L2Go
<1>4. L2Event(bank, bank', use, heads)
  <2>1. Becomes(l2, bank, l2.st) /\ Becomes(r.e, bank', r.e.st)
    BY DEF Becomes, Holds, bank, L2Go
  <2>2. L2Event(l2, r.e, use, heads)
    BY DEF use, heads
  <2> QED
    BY <2>1, <2>2, L2ReadsPermissions, Zenon
<1>5. use \in SUBSET wire
  BY DEF use
<1>6. Passes(use, heads)
  BY <1>1, <1>5, Zenon DEF Passes
<1>7. L2Shows(use, heads)
  BY <1>3, <1>4, <1>6, Zenon DEF L2Shows
<1> QED
  BY <1>2, <1>5, <1>7, Zenon DEF Shows

\* A step that takes no message takes no header.
LEMMA NoHeaders == Headers({}) = {} /\ Used({})
  BY Zenon DEF Headers, Used

\* A message to or from an L1 is under way with its header.
LEMMA Receive ==
  ASSUME Known, NEW m \in net, Local(m)
  PROVE  /\ m \in Message /\ Used({m}) /\ Headers({m}) = {Header(m)} /\ Header(m) \in wire
         /\ Header(m).type = m.type /\ Header(m).src = m.src /\ Header(m).requestor = m.requestor
<1>1. m \in Message /\ Headers({m}) = {Header(m)}
  BY Taken, Zenon DEF Known, TypeOK
<1>2. Header(m) \in wire /\ Used({m})
  BY Zenon DEF wire, Headers, Used
<1> QED
  BY <1>1, <1>2 DEF Header

\* A transition of an L1 with one of the results above shows its event.
LEMMA AloneStep ==
  ASSUME Known, NEW c \in L1s, NEW r, Alone(l1[c], c, r), L1Go(c, {}, r)
  PROVE  Shows
  BY L1GoStep, NoHeaders, Zenon DEF Alone, L1Event

\* The same of a transition on a message, which is taken from the network.
LEMMA TakesStep ==
  ASSUME Known, NEW c \in L1s, NEW m \in net, NEW r, Takes(l1[c], c, m, r), L1Go(c, {m}, r)
  PROVE  Shows
<1>1. SoundEntry(r)
      /\ L1Takes(c, l1[c].st, l1[c].pendingAcks, r.e.st, r.e.pendingAcks, m, Headers(r.out))
  BY Zenon DEF Takes
<1>2. Local(m)
  BY <1>1, Zenon DEF L1Takes, Local
<1>3. Used({m}) /\ Headers({m}) = {Header(m)} /\ Header(m) \in wire
  BY <1>2, Receive, Zenon
<1>4. L1Event(c, l1[c].st, l1[c].pendingAcks, r.e.st, r.e.pendingAcks, Headers({m}), Headers(r.out))
  BY <1>1, <1>3, L1TakesHeader
<1> QED
  BY <1>1, <1>3, <1>4, L1GoStep, Zenon

\* A transition of the L2 with one of the results above shows its event: one on a
\* message of an L1, and one on no message or on one of the directory.
LEMMA L2TakesStep ==
  ASSUME Known, NEW m \in net, m.src \in L1s, NEW r, SoundLine(r),
         L2Takes(l2, r.e, m, Headers(r.out)), L2Go({m}, r)
  PROVE  Shows
<1>1. Used({m}) /\ Headers({m}) = {Header(m)} /\ Header(m) \in wire
  BY Receive, Zenon DEF Local
<1>2. L2Event(l2, r.e, Headers({m}), Headers(r.out))
  BY <1>1, L2TakesHeader
<1> QED
  BY <1>1, <1>2, L2GoStep, Zenon

\* The same of the L2 on its own or on a message of the directory.
LEMMA L2AloneStep ==
  ASSUME Known, NEW used, Used(used), Headers(used) = {}, NEW r, SoundLine(r),
         L2Alone(l2, r.e, Headers(r.out)), L2Go(used, r)
  PROVE  Shows
  BY L2GoStep DEF L2Event

\* Stalling a message (stall_and_wait) shows an event or none.
LEMMA StallShows ==
  ASSUME Known, NEW m \in net, StallGo(m)
  PROVE  Shows
<1> DEFINE s == [m EXCEPT !.stalled = TRUE]
           rest == net \ {m}
<1>1. m \in Message /\ net \in SUBSET Message /\ DistinctIn(net)
  BY DEF Known, TypeOK
<1>2. s \in Message /\ Header(s) = Header(m) /\ (Local(s) <=> Local(m))
  <2>1. s \in Message /\ Header(s) = Header(m)
    BY <1>1, MessageFields, Zenon
  <2>2. s.src = m.src /\ s.dst = m.dst
    BY <1>1 DEF Message
  <2> QED
    BY <2>1, <2>2 DEF Local
<1>3. net' = rest \cup {s}
  BY DEF StallGo, StallMsg
<1> HIDE DEF s
<1>4. Headers({s}) = Headers({m}) /\ DistinctIn({s})
  BY <1>2, Zenon DEF Headers, DistinctIn
<1>5. Headers(rest) = wire \ Headers({m}) /\ DistinctIn(rest) /\ Headers({m}) \subseteq wire
  BY <1>1, Taken DEF wire, Headers
<1> HIDE DEF rest
<1>6. /\ Headers(rest \cup {s}) = Headers(rest) \cup Headers({s})
      /\ Headers(rest) \cap Headers({s}) = {} => DistinctIn(rest \cup {s})
  BY <1>4, <1>5, Sent, Zenon
<1>7. wire' = wire /\ DistinctIn(net)'
  BY <1>3, <1>4, <1>5, <1>6 DEF wire
<1>8. TypeOK' /\ states' = states /\ dues' = dues /\ bank' = bank
  <2>1. rest \cup {s} \in SUBSET Message
    BY <1>1, <1>2, Zenon DEF rest
  <2> QED
    BY <1>3, <2>1, Zenon DEF Known, TypeOK, states, dues, bank, StallGo
<1> QED
  BY <1>7, <1>8, Zenon DEF Shows, Rests

\* An undefined transition stops the model where it is.
LEMMA PanicShows ==
  ASSUME Known, Panic
  PROVE  Shows
<1>1. TypeOK' /\ DistinctIn(net)' /\ states' = states /\ dues' = dues /\ bank' = bank /\ wire' = wire
  BY Zenon DEF Known, TypeOK, states, dues, bank, wire, Panic
<1> QED
  BY <1>1, Zenon DEF Shows, Rests

\* A request of the CPU entering the mandatory queue shows an event or none.
LEMMA CpuRequestShows ==
  ASSUME Known, NEW c \in L1s, CpuRequest(c)
  PROVE  Shows
<1>1. PICK op \in setup.ops[c] : l1' = [l1 EXCEPT ![c].op = op, ![c].queued = TRUE]
  BY Zenon DEF CpuRequest
<1>2. op \in Ops
  BY SetupAssumption DEF Known, TypeOK, Ops
<1> DEFINE a == [l1[c] EXCEPT !.op = op]
           e == [a EXCEPT !.queued = TRUE]
<1>3. a \in Entry /\ a.st = l1[c].st /\ a.pendingAcks = l1[c].pendingAcks
  BY <1>2, Read DEF Entry
<1>4. l1' = [l1 EXCEPT ![c] = e]
  BY <1>1, Zenon DEF Known, TypeOK
<1> HIDE DEF a
<1>5. e \in Entry /\ e.st = l1[c].st /\ e.pendingAcks = l1[c].pendingAcks
  BY <1>3, Zenon DEF Entry
<1> HIDE DEF e
<1>6. l1' \in [L1s -> Entry] /\ states' = states /\ dues' = dues
  BY <1>4, <1>5, Zenon DEF Known, TypeOK, states, dues
<1>7. TypeOK' /\ DistinctIn(net)' /\ bank' = bank /\ wire' = wire
  BY <1>6 DEF Known, TypeOK, bank, wire, CpuRequest
<1> QED
  BY <1>6, <1>7 DEF Shows, Rests

\* The action L1Mandatory shows an event or none.
LEMMA L1MandatoryShows ==
  ASSUME Known, NEW c \in L1s, L1Mandatory(c)
  PROVE  Shows
<1> DEFINE r == L1!Mandatory(l1[c], c)
<1>1. CASE r.kind = "go"
  <2>1. L1Go(c, {}, r)
    BY <1>1, Zenon DEF L1Mandatory
  <2>2. Alone(l1[c], c, r)
    BY <1>1, Read, MandatoryOutcome, Zenon
  <2> HIDE DEF r
  <2> QED
    BY <2>1, <2>2, AloneStep, Zenon
<1>2. CASE r.kind # "go"
  <2> DEFINE e == [l1[c] EXCEPT !.stalled = TRUE]
  <2>1. l1' = [l1 EXCEPT ![c] = e] /\ UNCHANGED <<l2, dir, dma, mem, net, panic, setup>>
    BY <1>2 DEF L1Mandatory
  <2>2. e \in Entry /\ e.st = l1[c].st /\ e.pendingAcks = l1[c].pendingAcks
    BY Read, Zenon DEF Entry
  <2> HIDE DEF e
  <2>3. l1' \in [L1s -> Entry] /\ states' = states /\ dues' = dues
    BY <2>1, <2>2, Zenon DEF Known, TypeOK, states, dues
  <2>4. TypeOK' /\ DistinctIn(net)' /\ bank' = bank /\ wire' = wire
    BY <2>1, <2>3, Zenon DEF Known, TypeOK, bank, wire
  <2> QED
    BY <2>3, <2>4, Zenon DEF Shows, Rests
<1> QED
  BY <1>1, <1>2, Zenon

\* The action L1Replacement shows an event or none.
LEMMA L1ReplacementShows ==
  ASSUME Known, NEW c \in L1s, L1Replacement(c)
  PROVE  Shows
<1> DEFINE r == L1!Replacement(l1[c], c)
<1>1. Alone(l1[c], c, r)
  BY Read, ReplacementOutcome, Zenon DEF L1Replacement
<1>2. L1Go(c, {}, r)
  BY Zenon DEF L1Replacement
<1> HIDE DEF r
<1> QED
  BY <1>1, <1>2, AloneStep, Zenon

\* The action L1Timeout shows an event or none.
LEMMA L1TimeoutShows ==
  ASSUME Known, NEW c \in L1s, L1Timeout(c)
  PROVE  Shows
<1> DEFINE r == L1!Timeout(l1[c])
<1>1. Alone(l1[c], c, r)
  BY Read, TimeoutOutcome, Zenon DEF L1Timeout
<1>2. L1Go(c, {}, r)
  BY DEF L1Timeout
<1> HIDE DEF r
<1> QED
  BY <1>1, <1>2, AloneStep

\* The action L1Request (requestL1Network_in: Known, Fwd_GETX, Fwd_GETS, Fwd_GET_INSTR)
\* shows an event or none.
LEMMA L1RequestShows ==
  ASSUME Known, NEW c \in L1s, L1Request(c)
  PROVE  Shows
<1>1. PICK m \in net :
        /\ m.dst = c /\ m.src = "L2" /\ m.type \in {"INV", "GETX", "UPGRADE", "GETS", "GET_INSTR"}
        /\ LET r == L1!Request(l1[c], c, m)
           IN  CASE r.kind = "go" -> L1Go(c, {m}, r) [] r.kind = "stall" -> StallGo(m)
                 [] OTHER -> Panic
  BY Zenon DEF L1Request, Ready
<1> DEFINE r == L1!Request(l1[c], c, m)
<1>2. CASE r.kind = "go" /\ m.type = "INV"
  <2>1. r = L1!Invalidate(l1[c], c, m)
    BY <1>2 DEF L1!Request
  <2>2. L1Go(c, {m}, r)
    BY <1>1, <1>2
  <2>3. Takes(l1[c], c, m, r)
    BY <1>1, <1>2, <2>1, Read, InvalidateOutcome DEF Known
  <2> HIDE DEF r
  <2> QED
    BY <1>1, <1>2, <2>2, <2>3, TakesStep
<1>3. CASE r.kind = "go" /\ m.type # "INV"
  <2>1. r = L1!Forwarded(l1[c], c, m)
    BY <1>3 DEF L1!Request
  <2>2. L1Go(c, {m}, r)
    BY <1>1, <1>3, Zenon
  <2>3. Takes(l1[c], c, m, r)
    BY <1>1, <1>3, <2>1, Read, ForwardedOutcome DEF Known, Reading, Writing
  <2> HIDE DEF r
  <2> QED
    BY <1>1, <1>3, <2>2, <2>3, TakesStep, Zenon
<1>4. CASE r.kind # "go"
  <2>1. StallGo(m) \/ Panic
    BY <1>1, <1>4, Zenon
  <2> QED
    BY <2>1, StallShows, PanicShows, Zenon
<1> QED
  BY <1>2, <1>3, <1>4, Zenon

\* The action L1Response (responseL1Network_in) shows an event or none.
LEMMA L1ResponseShows ==
  ASSUME Known, NEW c \in L1s, L1Response(c)
  PROVE  Shows
<1>1. PICK m \in net :
        /\ m.dst = c /\ m.src \in L1s \cup {"L2"}
        /\ LET r == L1!Response(l1[c], c, m, m.src \in L1s)
           IN  IF r.kind = "go" THEN L1Go(c, {m}, r) ELSE Panic
  BY Zenon DEF L1Response, Ready
<1> DEFINE r == L1!Response(l1[c], c, m, m.src \in L1s)
<1>2. CASE r.kind = "go"
  <2>1. L1Go(c, {m}, r)
    BY <1>1, <1>2, Zenon
  <2>2. m \in Message /\ (m.src \in L1s <=> m.src # "L2")
    BY <1>1, L1Assumption DEF Known, TypeOK
  <2>3. Takes(l1[c], c, m, r)
    BY <1>1, <1>2, <2>2, Read, ResponseOutcome, Zenon
  <2> HIDE DEF r
  <2> QED
    BY <1>1, <2>1, <2>3, TakesStep, Zenon
<1>3. CASE r.kind # "go"
  BY <1>1, <1>3, PanicShows, Zenon
<1> QED
  BY <1>2, <1>3

\* The sharers on record can be counted.
LEMMA Counting ==
  ASSUME Known, NEW c
  PROVE  /\ Cardinality(l2.sharers) \in Nat /\ Cardinality(l2.sharers \ {c}) \in Nat
         /\ c \in l2.sharers => Cardinality(l2.sharers \ {c}) = Cardinality(l2.sharers) - 1
<1>1. l2.sharers \in SUBSET L1s /\ l2.sharers \ {c} \in SUBSET L1s
  BY DEF Known, TypeOK, Line
<1> QED
  BY <1>1, Zenon DEF Known

\* The action L2Unblock (L1unblockNetwork_in) shows an event or none.
LEMMA L2UnblockShows ==
  ASSUME Known, NEW c \in L1s, L2Unblock(c)
  PROVE  Shows
<1>1. PICK m \in net :
        /\ m.dst = "L2" /\ m.src = c
        /\ LET r == L2!Unblock(l2, m) IN IF r.kind = "go" THEN L2Go({m}, r) ELSE Panic
  BY Zenon DEF L2Unblock, Ready
<1> DEFINE r == L2!Unblock(l2, m)
<1>2. CASE r.kind # "go"
  BY <1>1, <1>2, PanicShows, Zenon
<1>3. CASE r.kind = "go"
  <2>1. L2Go({m}, r)
    BY <1>1, <1>3, Zenon
  <2>2. SoundLine(r) /\ L2Unblocks(l2, r.e, m, Headers(r.out))
    BY <1>1, <1>3, UnblockOutcome, Zenon DEF Known, TypeOK
  <2> HIDE DEF r
  <2> QED
    BY <1>1, <2>1, <2>2, L2TakesStep, Zenon DEF L2Takes
<1> QED
  BY <1>2, <1>3, Zenon

\* The action L2Replacement shows an event or none.
LEMMA L2ReplacementShows ==
  ASSUME Known, L2Replacement
  PROVE  Shows
<1> DEFINE r == L2!Replace(l2, l2.dirty)
<1>1. L2Go({}, r) /\ l2.st \in {"SS", "M", "MT"}
  BY DEF L2Replacement, L2!Replacement
<1>2. r.kind = "go"
  BY <1>1 DEF L2!Replace, L2!Go
<1>3. SoundLine(r) /\ L2Evicts(l2, r.e, Headers(r.out))
  BY <1>2, Counting, ReplaceOutcome, Zenon DEF Known, TypeOK
<1> HIDE DEF r
<1> QED
  BY <1>1, <1>3, NoHeaders, L2AloneStep, Zenon DEF L2Alone

\* What the directory sends to the L2 concerns no L1.
LEMMA FromDir ==
  ASSUME Known, NEW m \in net, m.src = "Dir", m.dst = "L2"
  PROVE  /\ Used({m}) /\ Headers({m}) = {}
         /\ m.type \in {"MEMORY_DATA", "MEMORY_ACK", "INV"}
<1>1. ~Local(m)
  BY L1Assumption, Zenon DEF Local
<1>2. m.type \in {"MEMORY_DATA", "MEMORY_ACK", "INV"}
  BY DEF Known, TypeOK, Message
<1> QED
  BY <1>1, <1>2, Taken, Zenon DEF Known, Used

\* A MEM_Inv for a block the L2 has not got is popped and nothing else.
LEMMA InvSilent ==
  ASSUME Known, NEW m \in net, Used({m}), Headers({m}) = {}, L2Go({m}, L2!Go(l2, {}))
  PROVE  Shows
<1> DEFINE r == L2!Go(l2, {})
           heads == {}
<1>1. r.e = l2 /\ Sends(r.out, heads)
  BY SendsNothing, Zenon DEF L2!Go
<1> HIDE DEF r, heads
<1>2. l2' = l2 /\ net' = Pass("L2", {m}, r) /\ l1' = l1 /\ mem' = mem /\ setup' = setup
  BY <1>1 DEF L2Go, r
<1>3. net' \in SUBSET Message /\ wire' = (wire \ Headers({m})) \cup heads
      /\ ((wire \ Headers({m})) \cap heads = {} => DistinctIn(net'))
  <2>1. net \in SUBSET Message /\ DistinctIn(net)
    BY DEF Known, TypeOK
  <2>2. /\ Pass("L2", {m}, r) \in SUBSET Message
        /\ Headers(Pass("L2", {m}, r)) = (Headers(net) \ Headers({m})) \cup heads
        /\ (Headers(net) \ Headers({m})) \cap heads = {} => DistinctIn(Pass("L2", {m}, r))
    BY <1>1, <2>1, PassNet, Zenon
  <2> QED
    BY <1>2, <2>2, Zenon DEF wire
<1>4. wire' = wire /\ DistinctIn(net)'
  BY <1>3 DEF heads
<1>5. TypeOK' /\ states' = states /\ dues' = dues /\ bank' = bank
  BY <1>2, <1>3, Zenon DEF Known, TypeOK, states, dues, bank
<1> QED
  BY <1>4, <1>5, Zenon DEF Shows, Rests

\* The action L2Response (responseL2Network_in) shows an event or none.
LEMMA L2ResponseShows ==
  ASSUME Known, NEW c \in L1s \cup {"Dir"}, L2Response(c)
  PROVE  Shows
<1>1. PICK m \in net :
        /\ m.dst = "L2" /\ m.src = c /\ m.type \in {"DATA", "ACK", "MEMORY_DATA", "MEMORY_ACK", "INV"}
        /\ LET r == L2!Response(l2, m)
           IN  /\ r.kind # "stall"
               /\ IF r.kind = "go" THEN L2Go({m}, r) ELSE Panic
  BY Zenon DEF L2Response, Ready
<1> DEFINE r == L2!Response(l2, m)
<1>2. CASE r.kind # "go"
  BY <1>1, <1>2, PanicShows, Zenon
<1>3. CASE r.kind = "go" /\ c \in L1s
  <2>1. L2Go({m}, r)
    BY <1>1, <1>3, Zenon
  <2>2. m.type \in {"DATA", "ACK"} /\ m \in Message
    BY <1>1, <1>3, Zenon DEF Known, TypeOK
  <2>3. CASE m.type = "DATA"
    <3>1. r = L2!WriteBack(l2, m)
      BY <2>3, Zenon DEF L2!Response
    <3>2. SoundLine(r) /\ L2TakesData(l2, r.e, m, Headers(r.out))
      BY <1>3, <2>2, <2>3, <3>1, WriteBackOutcome, Zenon DEF Known, TypeOK
    <3> HIDE DEF r
    <3> QED
      BY <1>1, <1>3, <2>1, <3>2, L2TakesStep, Zenon DEF L2Takes
  <2>4. CASE m.type = "ACK"
    <3>1. r = L2!InvAck(l2, m)
      BY <2>4, Zenon DEF L2!Response
    <3>2. SoundLine(r) /\ L2TakesAck(l2, r.e, m, Headers(r.out))
      BY <1>3, <2>2, <2>4, <3>1, InvAckOutcome, Zenon DEF Known, TypeOK
    <3> HIDE DEF r
    <3> QED
      BY <1>1, <1>3, <2>1, <3>2, L2TakesStep, Zenon DEF L2Takes
  <2> QED
    BY <2>2, <2>3, <2>4, Zenon
<1>4. CASE r.kind = "go" /\ c = "Dir"
  <2>1. L2Go({m}, r)
    BY <1>1, <1>4
  <2>2. Used({m}) /\ Headers({m}) = {} /\ m.type \in {"MEMORY_DATA", "MEMORY_ACK", "INV"}
        /\ m \in Message
    BY <1>1, <1>4, FromDir, Zenon DEF Known, TypeOK
  <2>3. \/ r = L2!MemoryData(l2, m)
        \/ l2.st = "M_I" /\ r = L2!GoAndWake(L2!Absent, {})
        \/ r = L2!Go(l2, {})
        \/ r = L2!Replace(l2, TRUE)
    BY <1>4, <2>2, Kinded, Zenon DEF L2!Response, L2!MemoryInv
  <2> HIDE DEF r
  <2>4. r # L2!Go(l2, {}) => SoundLine(r) /\ L2Alone(l2, r.e, Headers(r.out))
    <3>1. CASE r = L2!MemoryData(l2, m)
      BY <1>4, <2>2, <3>1, MemoryDataOutcome, Zenon DEF Known, TypeOK, L2Alone
    <3>2. CASE l2.st = "M_I" /\ r = L2!GoAndWake(L2!Absent, {})
      BY <3>2, GoneOutcome, Zenon DEF L2Alone
    <3>3. CASE r = L2!Replace(l2, TRUE)
      BY <1>4, <3>3, Counting, ReplaceOutcome, Zenon DEF Known, TypeOK, L2Alone
    <3> QED
      BY <2>3, <3>1, <3>2, <3>3, Zenon
  <2> QED
    BY <2>1, <2>2, <2>4, L2AloneStep, InvSilent, Zenon
<1> QED
  BY <1>2, <1>3, <1>4, Zenon

\* The action L2Request (L1RequestL2Network_in) shows an event or none.
LEMMA L2RequestShows ==
  ASSUME Known, NEW c \in L1s, L2Request(c)
  PROVE  Shows
<1>1. PICK m \in net :
        /\ m.dst = "L2" /\ m.src = c /\ m.type \in {"GETS", "GET_INSTR", "GETX", "UPGRADE", "PUTX"}
        /\ LET r == L2!Request(l2, m)
           IN  CASE r.kind = "go" -> L2Go({m}, r) [] r.kind = "stall" -> StallGo(m)
                 [] OTHER -> Panic
  BY Zenon DEF L2Request, Ready
<1> DEFINE r == L2!Request(l2, m)
<1>2. CASE r.kind # "go"
  <2>1. StallGo(m) \/ Panic
    BY <1>1, <1>2
  <2> QED
    BY <2>1, StallShows, PanicShows
<1>3. CASE r.kind = "go"
  <2>1. L2Go({m}, r)
    BY <1>1, <1>3
  <2>2. l2 \in Line /\ m \in Message /\ m.src \in L1s /\ (l2.st = "MT" => l2.exclusive \in L1s)
    BY <1>1 DEF Known, TypeOK
  <2>3. CASE m.type = "PUTX"
    <3>1. r = L2!WriteBackRequest(l2, m)
      BY <2>3, Zenon DEF L2!Request
    <3>2. SoundLine(r) /\ L2Puts(l2, r.e, m, Headers(r.out))
      BY <1>3, <2>2, <2>3, <3>1, PutOutcome, Zenon
    <3> HIDE DEF r
    <3> QED
      BY <1>1, <2>1, <2>2, <3>2, L2TakesStep, Zenon DEF L2Takes
  <2>4. CASE m.type \in {"GETS", "GET_INSTR"}
    <3>1. r = L2!ReadRequest(l2, m)
      BY <2>4, Zenon DEF L2!Request
    <3>2. SoundLine(r) /\ L2Reads(l2, r.e, m, Headers(r.out))
      BY <1>3, <2>2, <2>4, <3>1, ReadOutcome, Zenon
    <3> HIDE DEF r
    <3> QED
      BY <1>1, <2>1, <2>2, <3>2, L2TakesStep, Zenon DEF L2Takes
  <2>5. CASE m.type \in {"GETX", "UPGRADE"}
    <3>1. r = L2!WriteRequest(l2, m)
      BY <2>5 DEF L2!Request
    <3>2. SoundLine(r) /\ L2Writes(l2, r.e, m, Headers(r.out))
      BY <1>3, <2>2, <2>5, <3>1, Counting, WriteOutcome, Zenon
    <3> HIDE DEF r
    <3> QED
      BY <1>1, <2>1, <2>2, <3>2, L2TakesStep, Zenon DEF L2Takes
  <2> QED
    BY <1>1, <2>3, <2>4, <2>5, Zenon
<1> QED
  BY <1>2, <1>3

\* A transition of the directory shows an event or none: it changes no copy and takes and
\* sends no message of an L1.
LEMMA DirGoStep ==
  ASSUME Known, NEW m \in net, ~Local(m), NEW r, Plain(r), DirGo({m}, r)
  PROVE  Shows
<1> DEFINE wrote == r.e \in {"ID_W", "M_DWRI"}
           q == [r EXCEPT !.out = {}]
           rest == Pass("Dir", {m}, q)
           n == IF wrote THEN OldMsgs(rest) ELSE rest
<1>1. net \in SUBSET Message /\ DistinctIn(net) /\ Headers({m}) = {} /\ Used({m})
  BY AwayTaken, Zenon DEF Known, TypeOK, Used
<1>2. rest \in SUBSET Message /\ DistinctIn(rest) /\ Headers(rest) = wire
  <2> DEFINE heads == {}
  <2>1. Sends(q.out, heads)
    BY SendsNothing, Zenon DEF Plain
  <2> HIDE DEF q, wrote, heads
  <2>2. rest \in SUBSET Message /\ Headers(rest) = (Headers(net) \ Headers({m})) \cup heads
        /\ ((Headers(net) \ Headers({m})) \cap heads = {} => DistinctIn(rest))
    BY <1>1, <2>1, PassNet
  <2> QED
    BY <1>1, <2>2 DEF wire, heads
<1>3. /\ net' = n \cup r.out
      /\ l1' = IF wrote THEN [c \in L1s |-> OldL1(c)] ELSE l1
      /\ l2' = IF wrote THEN OldL2 ELSE l2
      /\ mem' = (mem /\ ~wrote) /\ setup' = setup
  BY DEF DirGo
<1> HIDE DEF wrote, rest
<1>4. n \in SUBSET Message /\ DistinctIn(n) /\ Headers(n) = wire
  BY <1>2, OldNet
<1> HIDE DEF n
<1>5. net' \in SUBSET Message /\ DistinctIn(net') /\ wire' = wire
  BY <1>3, <1>4, AwaySent, Zenon DEF Plain, wire
<1>6. \A c \in L1s : OldL1(c) \in Entry /\ OldL1(c).st = l1[c].st
                     /\ OldL1(c).pendingAcks = l1[c].pendingAcks
  BY OldEntries, Zenon DEF Known, TypeOK
<1>7. l1' \in [L1s -> Entry] /\ states' = states /\ dues' = dues
  BY <1>3, <1>6, Zenon DEF Known, TypeOK, states, dues
<1>8. l2' \in Line /\ bank' = bank
  BY <1>3, OldBank, Zenon DEF Known, TypeOK
<1>9. TypeOK'
  BY <1>3, <1>5, <1>7, <1>8, Zenon DEF Known, TypeOK
<1> QED
  BY <1>5, <1>7, <1>8, <1>9, Zenon DEF Shows, Rests

\* Messages to the directory, memory and the DMA engine concern no L1.
LEMMA Elsewhere ==
  ASSUME NEW m, m.dst \in {"Dir", "Mem", "DMA"}, m.src \in {"L2", "Dir", "Mem", "DMA"}
  PROVE  ~Local(m)
  BY L1Assumption DEF Local

\* The action DirRequest (requestNetwork_in of the directory) shows an event or none.
LEMMA DirRequestShows ==
  ASSUME Known, NEW src \in {"L2", "DMA"}, DirRequest(src)
  PROVE  Shows
<1>1. PICK m \in net :
        /\ m.dst = "Dir" /\ m.src = src
        /\ LET r == D!Request(dir, m)
           IN  CASE r.kind = "go" -> DirGo({m}, r) [] r.kind = "stall" -> StallGo(m)
                 [] OTHER -> Panic
  BY DEF DirRequest, Ready
<1> DEFINE r == D!Request(dir, m)
<1>2. ~Local(m) /\ m \in Message
  BY <1>1, Elsewhere DEF Known, TypeOK
<1>3. r.kind = "go" => Plain(r)
  BY <1>2, DirOutcome, Zenon
<1>4. (r.kind = "go" /\ DirGo({m}, r)) \/ StallGo(m) \/ Panic
  BY <1>1
<1> HIDE DEF r
<1> QED
  BY <1>2, <1>3, <1>4, DirGoStep, StallShows, PanicShows, Zenon

\* The action DirResponse (responseNetwork_in of the directory) shows an event or none.
LEMMA DirResponseShows ==
  ASSUME Known, DirResponse
  PROVE  Shows
<1>1. PICK m \in net :
        /\ m.dst = "Dir" /\ m.src = "L2"
        /\ LET r == D!Response(dir, m) IN IF r.kind = "go" THEN DirGo({m}, r) ELSE Panic
  BY Zenon DEF DirResponse, Ready
<1> DEFINE r == D!Response(dir, m)
<1>2. ~Local(m) /\ m \in Message
  BY <1>1, Elsewhere DEF Known, TypeOK
<1>3. r.kind = "go" => Plain(r)
  BY <1>2, DirOutcome, Zenon
<1>4. (r.kind = "go" /\ DirGo({m}, r)) \/ Panic
  BY <1>1, Zenon
<1> HIDE DEF r
<1> QED
  BY <1>2, <1>3, <1>4, DirGoStep, PanicShows, Zenon

\* The action DirMemory (memQueue_in) shows an event or none.
LEMMA DirMemoryShows ==
  ASSUME Known, DirMemory
  PROVE  Shows
<1>1. PICK m \in net :
        /\ m.dst = "Dir" /\ m.src = "Mem"
        /\ LET r == D!Memory(dir, m) IN IF r.kind = "go" THEN DirGo({m}, r) ELSE Panic
  BY Zenon DEF DirMemory, Ready
<1> DEFINE r == D!Memory(dir, m)
<1>2. ~Local(m) /\ m \in Message
  BY <1>1, Elsewhere DEF Known, TypeOK
<1>3. r.kind = "go" => Plain(r)
  BY <1>2, DirOutcome, Zenon
<1>4. (r.kind = "go" /\ DirGo({m}, r)) \/ Panic
  BY <1>1
<1> HIDE DEF r
<1> QED
  BY <1>2, <1>3, <1>4, DirGoStep, PanicShows

\* Memory's answer to the directory shows an event or none.
LEMMA MemoryShows ==
  ASSUME Known, Memory
  PROVE  Shows
<1>1. PICK m \in net :
        /\ m.dst = "Mem" /\ m.src = "Dir"
        /\ mem' = IF m.type = "MEMORY_WB" THEN m.fresh ELSE mem
        /\ net' = (net \ {m}) \cup {[m EXCEPT !.src = "Mem", !.dst = "Dir",
                                            !.fresh = (m.type = "MEMORY_READ" /\ mem)]}
        /\ UNCHANGED <<l1, l2, dir, dma, panic, setup>>
  BY Zenon DEF Memory, Ready, recvTimingResp
<1> DEFINE f == (m.type = "MEMORY_READ" /\ mem)
           a == [m EXCEPT !.src = "Mem", !.dst = "Dir"]
           b == [a EXCEPT !.fresh = f]
<1>2. ~Local(m) /\ m \in Message /\ net \in SUBSET Message /\ DistinctIn(net) /\ mem \in BOOLEAN
  BY <1>1, Elsewhere DEF Known, TypeOK
<1>3. a \in Message /\ a.src = "Mem" /\ a.dst = "Dir" /\ m.fresh \in BOOLEAN
  BY <1>2, Zenon DEF Message, End
<1>4. net' = (net \ {m}) \cup {b} /\ f \in BOOLEAN
  BY <1>1
<1> HIDE DEF a, f
<1>5. b \in Message /\ ~Local(b)
  <2>1. b \in Message
    BY <1>3, <1>4, MessageFields, Zenon
  <2>2. b.src = "Mem" /\ b.dst = "Dir"
    BY <1>3, Zenon DEF Message
  <2> HIDE DEF b
  <2> QED
    BY <2>1, <2>2, Elsewhere
<1> HIDE DEF b
<1>6. Sends({b}, {})
  BY <1>5 DEF Sends, DistinctIn, Headers
<1>7. net \ {m} \in SUBSET Message /\ Headers(net \ {m}) = wire /\ DistinctIn(net \ {m})
  BY <1>2, AwayTaken, Zenon DEF wire
<1>8. net' \in SUBSET Message /\ DistinctIn(net') /\ wire' = wire
  BY <1>4, <1>6, <1>7, AwaySent, Zenon DEF wire
<1>9. mem' \in BOOLEAN
  BY <1>1, <1>2, <1>3, Zenon
<1>10. TypeOK' /\ states' = states /\ dues' = dues /\ bank' = bank
  BY <1>1, <1>8, <1>9, Zenon DEF Known, TypeOK, states, dues, bank
<1> QED
  BY <1>8, <1>10, Zenon DEF Shows, Rests

\* A request of the DMA engine shows an event or none.
LEMMA DmaRequestShows ==
  ASSUME Known, DmaRequest
  PROVE  Shows
<1>1. PICK t \in setup.dma : net' = net \cup {Control(t, "DMA", "Dir")}
  BY Zenon DEF DmaRequest
<1> DEFINE b == Control(t, "DMA", "Dir")
<1>2. t \in Kinds
  BY SetupAssumption, Zenon DEF Known, TypeOK, Kinds
<1>3. b \in Message /\ ~Local(b)
  BY <1>2, L1Assumption DEF Control, Message, End, Local
<1> HIDE DEF b
<1>4. Sends({b}, {})
  BY <1>3, Zenon DEF Sends, DistinctIn, Headers
<1>5. net' \in SUBSET Message /\ DistinctIn(net') /\ wire' = wire
  BY <1>1, <1>4, AwaySent, Zenon DEF Known, TypeOK, wire, b
<1>6. TypeOK' /\ states' = states /\ dues' = dues /\ bank' = bank
  BY <1>5, Zenon DEF DmaRequest, Known, TypeOK, states, dues, bank
<1> QED
  BY <1>5, <1>6, Zenon DEF Shows, Rests

\* The answer to the DMA engine shows an event or none.
LEMMA DmaResponseShows ==
  ASSUME Known, DmaResponse
  PROVE  Shows
<1>1. PICK m \in net : m.dst = "DMA" /\ m.src = "Dir"
        /\ (Panic \/ (net' = net \ {m} /\ UNCHANGED <<l1, l2, dir, mem, panic, setup>>))
  BY DEF DmaResponse, Ready
<1>2. CASE Panic
  BY <1>2, PanicShows, Zenon
<1>3. CASE net' = net \ {m} /\ UNCHANGED <<l1, l2, dir, mem, panic, setup>>
  <2>1. ~Local(m)
    BY <1>1, Elsewhere
  <2>2. net' \in SUBSET Message /\ DistinctIn(net') /\ wire' = wire
    BY <1>3, <2>1, AwayTaken, Zenon DEF Known, TypeOK, wire
  <2>3. TypeOK' /\ states' = states /\ dues' = dues /\ bank' = bank
    BY <1>3, <2>2, Zenon DEF Known, TypeOK, states, dues, bank
  <2> QED
    BY <2>2, <2>3, Zenon DEF Shows, Rests
<1> QED
  BY <1>1, <1>2, <1>3, Zenon

\* Every step of the controllers shows an event or none: one lemma for each action.
LEMMA NextShows ==
  ASSUME Known, [Next]_vars
  PROVE  Shows
<1>1. CASE \E c \in L1s : \/ CpuRequest(c) \/ L1Mandatory(c) \/ L1Replacement(c)
                          \/ L1Request(c) \/ L1Response(c) \/ L1Timeout(c)
                          \/ L2Unblock(c) \/ L2Request(c)
  BY <1>1, CpuRequestShows, L1MandatoryShows, L1ReplacementShows, L1RequestShows, L1ResponseShows,
     L1TimeoutShows, L2UnblockShows, L2RequestShows, Zenon
<1>2. CASE \/ \E src \in L1s \cup {"Dir"} : L2Response(src)
           \/ L2Replacement
  BY <1>2, L2ResponseShows, L2ReplacementShows, Zenon
<1>3. CASE \/ \E src \in {"L2", "DMA"} : DirRequest(src)
           \/ DirResponse \/ DirMemory \/ Memory \/ DmaRequest \/ DmaResponse
  BY <1>3, DirRequestShows, DirResponseShows, DirMemoryShows, MemoryShows, DmaRequestShows,
     DmaResponseShows, Zenon
<1>4. CASE UNCHANGED vars
  <2>1. TypeOK' /\ DistinctIn(net)' /\ states' = states /\ dues' = dues /\ bank' = bank
        /\ wire' = wire
    BY <1>4, Zenon DEF vars, Known, TypeOK, states, dues, bank, wire
  <2> QED
    BY <2>1, Zenon DEF Shows, Rests
<1> QED
  BY <1>1, <1>2, <1>3, <1>4, Zenon DEF Next

\* Nothing is held and nothing is under way at first.
LEMMA InitShows ==
  ASSUME Init
  PROVE  /\ TypeOK /\ DistinctIn(net)
         /\ states = [c \in L1s |-> "I"] /\ dues = [c \in L1s |-> 0] /\ wire = {}
         /\ bank = [st |-> "NP", sharers |-> {}, exclusive |-> None, getS |-> {}, getX |-> None,
                    pendingAcks |-> 0]
<1>1. l1 \in [L1s -> Entry] /\ states = [c \in L1s |-> "I"] /\ dues = [c \in L1s |-> 0]
  <2>1. L1!Idle \in Entry /\ L1!Idle.st = "I" /\ L1!Idle.pendingAcks = 0
    BY DEF L1!Idle, Entry, L1States
  <2> QED
    BY <2>1, Zenon DEF Init, states, dues
<1>2. l2 \in Line
  BY DEF Init, L2!Absent, Line, L2States
<1>3. TypeOK /\ DistinctIn(net) /\ wire = {}
  BY <1>1, <1>2, Zenon DEF Init, TypeOK, DistinctIn, wire, Headers
<1>4. bank = [st |-> "NP", sharers |-> {}, exclusive |-> None, getS |-> {}, getX |-> None,
              pendingAcks |-> 0]
  BY DEF Init, L2!Absent, bank
<1> QED
  BY <1>1, <1>3, <1>4, Zenon

--------------------------------------------------------------------------------
\* An event is a step of MesiPermissions, so the controllers keep its invariant and implement it.

P == INSTANCE MesiPermissionsProofs WITH st <- states, due <- dues

\* The inductive invariant: the types, messages told apart by their headers, and the invariant
\* of MesiPermissions. A step follows the protocol when it keeps the invariant and is a step of
\* MesiPermissions or changes nothing there.
Inv == TypeOK /\ DistinctIn(net) /\ P!Safe

Follows == Inv' /\ [P!Next]_(P!view)

\* The events of MesiPermissions are those of MesiEvents.
LEMMA SameL1Events ==
  ASSUME NEW c, NEW s, NEW d, NEW t, NEW n, NEW use, NEW out, L1Event(c, s, d, t, n, use, out)
  PROVE  P!L1Event(c, s, d, t, n, use, out)
<1>1. L1Alone(c, s, t, n, out) => P!L1Alone(c, s, t, n, out)
  BY Zenon DEF L1Alone, L1Settles, L1PutsBack, L1Misses, WriteStates, Owning, Reading, Writing,
     Head,
     P!L1Alone, P!L1Settles, P!L1PutsBack, P!L1Misses, P!WriteStates, P!Owning, P!Reading,
     P!Writing, P!Head
<1>2. ASSUME NEW m, L1Takes(c, s, d, t, n, m, out)
      PROVE  P!L1Takes(c, s, d, t, n, m, out)
  BY <1>2, Zenon DEF L1Takes, L1Acknowledges, L1GivesBack, L1HandsOver, L1Fills, L1Collects,
     L1PutsDone, ReadStates, WriteStates, Reading, Writing, Head,
     P!L1Takes, P!L1Acknowledges, P!L1GivesBack, P!L1HandsOver, P!L1Fills, P!L1Collects,
     P!L1PutsDone, P!ReadStates, P!WriteStates, P!Reading, P!Writing, P!Head
<1> QED
  BY <1>1, <1>2, Zenon DEF L1Event, P!L1Event

\* The same for the L2.
LEMMA SameL2Events ==
  ASSUME NEW k, NEW l, NEW use, NEW out, L2Event(k, l, use, out)
  PROVE  P!L2Event(k, l, use, out)
<1>1. L2Alone(k, l, out) => P!L2Alone(k, l, out)
  BY Zenon DEF L2Alone, L2Fills, L2Evicts, L2Drops, Holds, Collected, Recalled, Datas, Invs, Head,
     Cardinality, P!L2Alone, P!L2Fills, P!L2Evicts, P!L2Drops, P!Holds, P!Collected, P!Recalled,
     P!Datas, P!Invs, P!Head, P!Cardinality
<1>2. ASSUME NEW m, L2Takes(k, l, m, out)
      PROVE  P!L2Takes(k, l, m, out)
  BY <1>2, Zenon DEF L2Takes, L2Unblocks, L2TakesData, L2TakesAck, L2Puts, L2Reads, L2Writes, Holds,
     Becomes, Blocked, Collected, Recalled, Reading, Writing, Datas, Invs, Head, Cardinality,
     P!L2Takes, P!L2Unblocks, P!L2TakesData, P!L2TakesAck, P!L2Puts, P!L2Reads, P!L2Writes,
     P!Holds, P!Becomes, P!Blocked, P!Collected, P!Recalled, P!Reading, P!Writing, P!Datas,
     P!Invs, P!Head, P!Cardinality
<1> QED
  BY <1>1, <1>2, Zenon DEF L2Event, P!L2Event

\* What shows an event of an L1 follows the protocol.
LEMMA L1Follows ==
  ASSUME Inv, TypeOK', NEW c \in L1s, NEW use \in SUBSET wire, NEW out, L1Shows(c, use, out)
  PROVE  Follows
<1>1. /\ P!L1Event(c, states[c], dues[c], states'[c], dues'[c], use, out) /\ dues'[c] \in Int
      /\ states' = [states EXCEPT ![c] = states'[c]] /\ dues' = [dues EXCEPT ![c] = dues'[c]]
      /\ bank' = bank /\ Passes(use, out)
  BY SameL1Events, Zenon DEF L1Shows
<1>2. bank \in P!Bank
  BY Zenon DEF Inv, P!Safe, P!Coherent, P!Types
<1>3. P!L1Step(c, states'[c], dues'[c], use, out)
  BY <1>1, <1>2 DEF P!L1Step, P!Same, P!Bank, Passes
<1>4. P!Safe' /\ (wire \ use) \cap out = {} /\ P!L1Moves(c)
  BY <1>1, <1>3, P!L1Moved, Zenon DEF Inv
<1> QED
  BY <1>1, <1>4, Zenon DEF Follows, Inv, P!Next, Passes

\* The same of an event of the L2, which leaves the L1s as they are.
LEMMA L2Follows ==
  ASSUME Inv, TypeOK', NEW use \in SUBSET wire, NEW out, L2Shows(use, out)
  PROVE  Follows
<1>1. P!L2Event(bank, bank', use, out) /\ states' = states /\ dues' = dues /\ Passes(use, out)
  BY SameL2Events, Zenon DEF L2Shows
<1>2. bank' \in P!Bank
  BY Zenon DEF TypeOK, bank, Line, P!Bank, L2States, P!L2States
<1>3. P!L2Step(bank', use, out)
  BY <1>1, <1>2, Zenon DEF P!L2Step, P!Same, Passes
<1>4. P!Safe' /\ (wire \ use) \cap out = {} /\ P!L2Moves
  BY <1>1, <1>3, P!L2Moved, Zenon DEF Inv
<1> QED
  BY <1>1, <1>4, Zenon DEF Follows, Inv, P!Next, Passes

\* A step that shows nothing keeps the invariant and stutters.
LEMMA RestFollows ==
  ASSUME Inv, TypeOK', Rests
  PROVE  Follows
<1>1. P!Safe'
  BY P!Untouched, Zenon DEF Inv, Rests
<1>2. UNCHANGED P!view
  BY Zenon DEF P!view, Rests
<1> QED
  BY <1>1, <1>2, Zenon DEF Follows, Inv, Rests

\* The invariant tells the controllers what they need to know.
LEMMA InvKnown ==
  ASSUME Inv
  PROVE  Known
<1>1. P!Countable /\ P!WellFormed /\ P!Directory
  BY Zenon DEF Inv, P!Safe, P!Caches, P!Coherent
<1>2. (l2.st = "MT" => l2.exclusive \in L1s) /\ (l2.st = "IM" => l2.getX \in L1s)
  BY <1>1, Zenon DEF P!Directory, bank
<1>3. ASSUME NEW m \in net
      PROVE  /\ m.src = "L2" /\ m.dst \in L1s =>
                  /\ m.type = "INV" => m.requestor \in End
                  /\ m.type \in Reading \cup Writing => m.requestor \in L1s
             /\ m.src \in L1s /\ m.dst = "L2" => m.type \notin {"MEMORY_DATA", "MEMORY_ACK", "INV"}
  <2> DEFINE h == Header(m)
  <2>1. h.type = m.type /\ h.src = m.src /\ h.requestor = m.requestor
    BY Zenon DEF Header
  <2>2. Local(m) => h \in wire
    BY <1>3, Zenon DEF wire, Headers
  <2> HIDE DEF h
  <2> QED
    BY <1>1, <2>1, <2>2, L1Assumption DEF P!WellFormed, P!Reading, P!Writing, Reading, Writing, End,
       Local
<1>4. \A T \in SUBSET L1s : /\ Cardinality(T) \in Nat
                            /\ \A x \in T : Cardinality(T \ {x}) = Cardinality(T) - 1
  <2>1. \A T : P!Cardinality(T) = Cardinality(T)
    BY Zenon DEF P!Cardinality, Cardinality
  <2> QED
    BY <1>1, <2>1 DEF P!Countable
<1> QED
  BY <1>2, <1>3, <1>4, Zenon DEF Inv, Known

\* Every step of the controllers follows the protocol.
LEMMA NextFollows ==
  ASSUME Inv, [Next]_vars
  PROVE  Follows
<1>1. Shows
  BY InvKnown, NextShows, Zenon
<1> QED
  BY <1>1, L1Follows, L2Follows, RestFollows, Zenon DEF Shows

INSTANCE FiniteSetTheorems

\* The controllers start in the initial state of MesiPermissions, and the invariant holds there.
\* This is where the caches have to be finitely many.
LEMMA InitFollows == Init => Inv /\ P!Init
<1> SUFFICES ASSUME Init
             PROVE  Inv /\ P!Init
  OBVIOUS
<1>1. P!Init
  BY InitShows, Zenon DEF P!Init
<1>2. P!Countable
  <2>1. \A S \in SUBSET L1s : IsFiniteSet(S)
    BY L1Assumption, FS_Subset, Zenon
  <2>2. Cardinality({}) = 0 /\ \A S \in SUBSET L1s : Cardinality(S) = 0 => S = {}
    BY <2>1, FS_EmptySet, Zenon
  <2>3. \A S \in SUBSET L1s : /\ Cardinality(S) \in Nat
                              /\ \A x \in S : Cardinality(S \ {x}) = Cardinality(S) - 1
    BY <2>1, FS_CardinalityType, FS_RemoveElement, Zenon
  <2>4. \A S : P!Cardinality(S) = Cardinality(S)
    BY DEF P!Cardinality, Cardinality
  <2> QED
    BY <2>2, <2>3, <2>4, Zenon DEF P!Countable
<1>3. P!Safe
  BY <1>1, <1>2, P!InitKept, L1Assumption, Zenon DEF P!Caches
<1> QED
  BY <1>1, <1>3, InitShows, Zenon DEF Inv

\* The inductive invariant holds throughout, for every finite set of L1 caches, whatever
\* each of them, the DMA engine and the replacement policies of L1 and L2 do and however
\* the virtual networks interleave.
THEOREM Invariance == Spec => []Inv
<1>1. Inv /\ [Next]_vars => Inv'
  BY NextFollows DEF Follows
<1> QED
  BY <1>1, InitFollows, PTL DEF Spec

\* The controllers implement the permission protocol: every run of the L1s, the L2, the
\* directory, memory and the DMA engine shows a run of MesiPermissions, each transition on
\* the block one event of it or none.
THEOREM FollowsPermissions == Spec => P!Spec
<1>1. Inv /\ [Next]_vars => [P!Next]_(P!view)
  BY NextFollows DEF Follows
<1> QED
  BY <1>1, InitFollows, Invariance, PTL DEF Spec, P!Spec

\* Coherence of permissions: at no time may one L1 write the block (E, M or locked by a
\* load-linked) while another may read it. SingleWriter follows from the invariant by
\* OneWriter.
THEOREM WriterIsAlone == Spec => []SingleWriter
<1>1. Inv => SingleWriter
  <2> SUFFICES ASSUME Inv, NEW c \in L1s, NEW d \in L1s, c # d, l1[c].st \in Readable \ {"S"},
                      l1[d].st \in Readable
               PROVE  FALSE
    BY Zenon DEF SingleWriter
  <2>1. /\ states[c] \in {"E", "M", "LLSC_E", "LLSC_M"}
        /\ states[d] \in {"S", "E", "M", "LLSC_E", "LLSC_M"}
    BY DEF Readable, states
  <2> QED
    BY <2>1, P!OneWriter DEF Inv
<1> QED
  BY <1>1, Invariance, PTL

================================================================================
