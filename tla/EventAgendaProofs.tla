-------------------------- MODULE EventAgendaProofs --------------------------
(***************************************************************************)
(* What the agenda of an event queue guarantees, for every set of events,  *)
(* every assignment of priorities and every bound on the ticks.            *)
(***************************************************************************)
EXTENDS EventAgenda, SequenceTheorems, TLAPS

\* a is in order of service for the ticks wh, and holds no event twice.
Ordered(a, wh) ==
  \A i, j \in 1..Len(a) : i < j => a[i] # a[j] /\ ~Before(wh, a[j], a[i])

(***************************************************************************)
(* The inductive invariant.  That nothing is in the past needs the order:  *)
(* Pop moves the time to the first event, and only the order says that no  *)
(* other event is left behind it.                                          *)
(***************************************************************************)
Inv ==
  /\ TypeOK
  /\ Ordered(agenda, when)
  /\ \A i \in 1..Len(agenda) : when[agenda[i]] >= curTick
  /\ freed \cap Scheduled = {}

-----------------------------------------------------------------------------
\* A function on 1..n is a sequence of length n.
LEMMA FunctionIsSeq ==
  ASSUME NEW S, NEW n \in Nat, NEW f \in [1..n -> S]
  PROVE  f \in Seq(S) /\ Len(f) = n /\ DOMAIN f = 1..n
OBVIOUS

\* What PutAt returns: insertBefore() adds e and keeps everything else.
LEMMA PutAtProperties ==
  ASSUME NEW S, NEW a \in Seq(S), NEW e \in S, NEW k \in 1..(Len(a) + 1)
  PROVE  /\ PutAt(a, k, e) \in Seq(S)
         /\ Len(PutAt(a, k, e)) = Len(a) + 1
         /\ \A i \in 1..(Len(a) + 1) :
              PutAt(a, k, e)[i] = IF i < k THEN a[i] ELSE IF i = k THEN e ELSE a[i - 1]
<1> DEFINE b == PutAt(a, k, e)
<1>1. Len(a) \in Nat /\ \A i \in 1..Len(a) : a[i] \in S
  BY LenProperties, ElementOfSeq
<1>2. b \in [1..(Len(a) + 1) -> S]
  <2> SUFFICES ASSUME NEW i \in 1..(Len(a) + 1)
               PROVE  (IF i < k THEN a[i] ELSE IF i = k THEN e ELSE a[i - 1]) \in S
    BY DEF PutAt
  <2>1. CASE i < k
    BY <1>1, <2>1
  <2>2. CASE i = k
    BY <2>2
  <2>3. CASE i > k
    BY <1>1, <2>3
  <2> QED
    BY <1>1, <2>1, <2>2, <2>3
<1>3. Len(a) + 1 \in Nat
  BY <1>1
<1>4. b \in Seq(S) /\ Len(b) = Len(a) + 1
  BY <1>2, <1>3, FunctionIsSeq
<1> QED
  BY <1>4 DEF PutAt

\* What DropAt returns: removeItem() takes one event and keeps all others.
LEMMA DropAtProperties ==
  ASSUME NEW S, NEW a \in Seq(S), NEW k \in 1..Len(a)
  PROVE  /\ DropAt(a, k) \in Seq(S)
         /\ Len(DropAt(a, k)) = Len(a) - 1
         /\ \A i \in 1..(Len(a) - 1) :
              DropAt(a, k)[i] = IF i < k THEN a[i] ELSE a[i + 1]
<1> DEFINE b == DropAt(a, k)
<1>1. Len(a) \in Nat /\ \A i \in 1..Len(a) : a[i] \in S
  BY LenProperties, ElementOfSeq
<1>2. b \in [1..(Len(a) - 1) -> S]
  <2> SUFFICES ASSUME NEW i \in 1..(Len(a) - 1)
               PROVE  (IF i < k THEN a[i] ELSE a[i + 1]) \in S
    BY DEF DropAt
  <2>1. i \in 1..Len(a) /\ i + 1 \in 1..Len(a)
    BY <1>1
  <2> QED
    BY <1>1, <2>1
<1>3. Len(a) - 1 \in Nat
  BY <1>1
<1>4. b \in Seq(S) /\ Len(b) = Len(a) - 1
  BY <1>2, <1>3, FunctionIsSeq
<1> QED
  BY <1>4 DEF DropAt

\* A part of an ordered agenda is ordered, and without the dropped event.
LEMMA DropAtOrdered ==
  ASSUME NEW a \in Seq(Event), NEW wh \in [Event -> Tick], Ordered(a, wh),
         NEW k \in 1..Len(a)
  PROVE  /\ Ordered(DropAt(a, k), wh)
         /\ \A i \in 1..Len(DropAt(a, k)) :
              /\ DropAt(a, k)[i] # a[k]
              /\ \E j \in 1..Len(a) : DropAt(a, k)[i] = a[j]
<1> DEFINE b == DropAt(a, k)
           at(i) == IF i < k THEN i ELSE i + 1
<1>1. Len(a) \in Nat
  BY LenProperties
<1>2. /\ Len(b) = Len(a) - 1
      /\ \A i \in 1..(Len(a) - 1) : b[i] = IF i < k THEN a[i] ELSE a[i + 1]
  BY DropAtProperties
<1>3. \A i \in 1..Len(b) : at(i) \in 1..Len(a) /\ at(i) # k /\ b[i] = a[at(i)]
  <2> HIDE DEF b
  <2> QED
    BY <1>1, <1>2
<1>4. \A i, j \in 1..Len(b) : i < j => at(i) < at(j)
  BY <1>1, <1>2
<1>5. Ordered(b, wh)
  <2> SUFFICES ASSUME NEW i \in 1..Len(b), NEW j \in 1..Len(b), i < j
               PROVE  b[i] # b[j] /\ ~Before(wh, b[j], b[i])
    BY DEF Ordered
  <2>1. at(i) < at(j) /\ b[i] = a[at(i)] /\ b[j] = a[at(j)]
    BY <1>3, <1>4
  <2> HIDE DEF at, b
  <2> QED
    BY <1>3, <2>1 DEF Ordered
<1>6. ASSUME NEW i \in 1..Len(b)
      PROVE  b[i] # a[k] /\ \E j \in 1..Len(a) : b[i] = a[j]
  <2>1. at(i) \in 1..Len(a) /\ at(i) # k /\ b[i] = a[at(i)]
    BY <1>3, <1>6
  <2>2. at(i) \in Int /\ k \in Int
    BY <1>1, <2>1
  <2>3. at(i) < k \/ k < at(i)
    BY <2>1, <2>2
  <2> HIDE DEF at, b
  <2> QED
    BY <2>1, <2>3 DEF Ordered
<1> QED
  BY <1>5, <1>6

\* Putting a new event behind exactly the events before it keeps the order.
LEMMA PutAtOrdered ==
  ASSUME NEW a \in Seq(Event), NEW wh \in [Event -> Tick], Ordered(a, wh),
         NEW e \in Event, \A i \in 1..Len(a) : a[i] # e,
         NEW k \in 1..(Len(a) + 1),
         \A i \in 1..Len(a) : i < k <=> Before(wh, a[i], e)
  PROVE  Ordered(PutAt(a, k, e), wh)
<1> DEFINE b == PutAt(a, k, e)
<1>1. Len(a) \in Nat /\ \A i \in 1..Len(a) : a[i] \in Event
  BY LenProperties, ElementOfSeq
<1>2. /\ Len(b) = Len(a) + 1
      /\ \A i \in 1..(Len(a) + 1) :
           b[i] = IF i < k THEN a[i] ELSE IF i = k THEN e ELSE a[i - 1]
  <2>1. Len(b) = Len(a) + 1
    BY PutAtProperties
  <2>2. \A i \in 1..(Len(a) + 1) :
          b[i] = IF i < k THEN a[i] ELSE IF i = k THEN e ELSE a[i - 1]
    BY DEF PutAt
  <2> QED
    BY <2>1, <2>2
<1>3. \A i \in 1..Len(b) : b[i] = IF i < k THEN a[i] ELSE IF i = k THEN e ELSE a[i - 1]
  <2> HIDE DEF b
  <2> QED
    BY <1>2
<1> HIDE DEF b
<1> SUFFICES ASSUME NEW i \in 1..Len(b), NEW j \in 1..Len(b), i < j
             PROVE  b[i] # b[j] /\ ~Before(wh, b[j], b[i])
  BY DEF Ordered, b
<1>4. i \in Int /\ j \in Int /\ k \in Int
  BY <1>1, <1>2
<1>5. CASE j < k
  <2>1. i \in 1..Len(a) /\ j \in 1..Len(a) /\ b[i] = a[i] /\ b[j] = a[j]
    BY <1>1, <1>2, <1>3, <1>4, <1>5
  <2> QED
    BY <2>1 DEF Ordered
<1>6. CASE j = k
  <2>1. i \in 1..Len(a) /\ b[i] = a[i] /\ b[j] = e /\ i < k
    BY <1>1, <1>2, <1>3, <1>4, <1>6
  <2>2. Before(wh, a[i], e) /\ a[i] # e /\ a[i] \in Event
    BY <1>1, <2>1
  <2>3. ~Before(wh, e, a[i])
    <3>1. /\ wh[e] \in Int /\ wh[a[i]] \in Int
          /\ Priority[e] \in Int /\ Priority[a[i]] \in Int
      BY <2>2, EventAssumption, MaxTickAssumption DEF Tick
    <3> QED
      BY <2>2, <3>1 DEF Before
  <2> QED
    BY <2>1, <2>2, <2>3
<1>7. CASE k < j /\ i < k
  <2>1. /\ i \in 1..Len(a) /\ j - 1 \in 1..Len(a) /\ i < j - 1
        /\ b[i] = a[i] /\ b[j] = a[j - 1]
    BY <1>1, <1>2, <1>3, <1>4, <1>7
  <2> QED
    BY <2>1 DEF Ordered
<1>8. CASE i = k
  <2>1. j - 1 \in 1..Len(a) /\ ~(j - 1 < k) /\ b[i] = e /\ b[j] = a[j - 1]
    BY <1>1, <1>2, <1>3, <1>4, <1>8
  <2> QED
    BY <2>1
<1>9. CASE k < i
  <2>1. /\ i - 1 \in 1..Len(a) /\ j - 1 \in 1..Len(a) /\ i - 1 < j - 1
        /\ b[i] = a[i - 1] /\ b[j] = a[j - 1]
    BY <1>1, <1>2, <1>3, <1>4, <1>9
  <2> QED
    BY <2>1 DEF Ordered
<1> QED
  BY <1>4, <1>5, <1>6, <1>7, <1>8, <1>9

-----------------------------------------------------------------------------
\* PutAt holds the events of a and the new one.
LEMMA PutAtElements ==
  ASSUME NEW a \in Seq(Event), NEW e \in Event, NEW k \in 1..(Len(a) + 1)
  PROVE  \A i \in 1..Len(PutAt(a, k, e)) :
           PutAt(a, k, e)[i] = e \/ \E j \in 1..Len(a) : PutAt(a, k, e)[i] = a[j]
<1> DEFINE b == PutAt(a, k, e)
<1>1. /\ Len(b) = Len(a) + 1
      /\ \A i \in 1..(Len(a) + 1) :
           b[i] = IF i < k THEN a[i] ELSE IF i = k THEN e ELSE a[i - 1]
  <2>1. Len(b) = Len(a) + 1
    BY PutAtProperties
  <2>2. \A i \in 1..(Len(a) + 1) :
          b[i] = IF i < k THEN a[i] ELSE IF i = k THEN e ELSE a[i - 1]
    BY DEF PutAt
  <2> QED
    BY <2>1, <2>2
<1> TAKE i \in 1..Len(b)
<1>2. Len(a) \in Nat /\ i \in 1..(Len(a) + 1)
  BY <1>1, LenProperties
<1> HIDE DEF b
<1>3. CASE i < k
  <2>1. i \in 1..Len(a) /\ b[i] = a[i]
    BY <1>1, <1>2, <1>3
  <2> QED
    BY <2>1 DEF b
<1>4. CASE i = k
  BY <1>1, <1>2, <1>4 DEF b
<1>5. CASE k < i
  <2>1. i - 1 \in 1..Len(a) /\ b[i] = a[i - 1]
    BY <1>1, <1>2, <1>5
  <2> QED
    BY <2>1 DEF b
<1> QED
  BY <1>2, <1>3, <1>4, <1>5

\* The scheduled events by position.
LEMMA ScheduledElements ==
  ASSUME agenda \in Seq(Event)
  PROVE  Scheduled = {agenda[i] : i \in 1..Len(agenda)} /\ Scheduled \subseteq Event
<1>1. DOMAIN agenda = 1..Len(agenda)
  BY LenProperties
<1>2. \A i \in 1..Len(agenda) : agenda[i] \in Event
  BY ElementOfSeq
<1> QED
  BY <1>1, <1>2 DEF Scheduled

\* The constructor's state: nothing is scheduled.
LEMMA InitInv == Init => Inv
<1> SUFFICES ASSUME Init PROVE Inv
  OBVIOUS
<1>1. agenda \in Seq(Event) /\ Len(agenda) = 0
  BY DEF Init
<1>2. Scheduled = {}
  BY <1>1, ScheduledElements
<1> QED
  BY <1>1, <1>2, EventAssumption, MaxTickAssumption
     DEF Init, Inv, TypeOK, Ordered, Tick

\* Changing the tick of an event that is not in a keeps a in order.
LEMMA OrderedElsewhere ==
  ASSUME NEW a \in Seq(Event), NEW wh \in [Event -> Tick], Ordered(a, wh),
         NEW e \in Event, \A i \in 1..Len(a) : a[i] # e, NEW w \in Tick
  PROVE  Ordered(a, [wh EXCEPT ![e] = w])
<1> DEFINE wh2 == [wh EXCEPT ![e] = w]
<1>1. \A i \in 1..Len(a) : a[i] \in Event /\ wh2[a[i]] = wh[a[i]]
  BY ElementOfSeq
<1> HIDE DEF wh2
<1>2. Ordered(a, wh2)
  BY <1>1 DEF Ordered, Before
<1> QED
  BY <1>2 DEF wh2

\* The part common to schedule() and reschedule(): e enters an agenda a of
\* events none of which is e or in the past.
LEMMA EnterInv ==
  ASSUME Inv, NEW a \in Seq(Event), Ordered(a, when),
         NEW e \in Event \ freed, NEW w \in Tick, w >= curTick,
         \A i \in 1..Len(a) :
           a[i] # e /\ a[i] \notin freed /\ when[a[i]] >= curTick,
         when' = [when EXCEPT ![e] = w], InsertInto(a, when', e),
         squashed' \subseteq Event, UNCHANGED <<freed, curTick, running>>
  PROVE  Inv'
<1> USE DEF Inv, TypeOK
<1>1. when' \in [Event -> Tick]
  OBVIOUS
<1>2. Ordered(a, when')
  BY OrderedElsewhere, Zenon
<1>3. /\ agenda' \in Seq(Event)
      /\ Ordered(agenda', when')
      /\ \A i \in 1..Len(agenda') :
           agenda'[i] = e \/ \E j \in 1..Len(a) : agenda'[i] = a[j]
  <2>1. PICK k \in 1..(Len(a) + 1) :
          /\ \A i \in 1..Len(a) : i < k <=> Before(when', a[i], e)
          /\ agenda' = PutAt(a, k, e)
    BY Zenon DEF InsertInto
  <2>2. PutAt(a, k, e) \in Seq(Event)
    BY PutAtProperties
  <2>3. Ordered(PutAt(a, k, e), when')
    BY <1>1, <1>2, <2>1, PutAtOrdered, Zenon
  <2>4. \A i \in 1..Len(PutAt(a, k, e)) :
          PutAt(a, k, e)[i] = e \/ \E j \in 1..Len(a) : PutAt(a, k, e)[i] = a[j]
    BY PutAtElements
  <2> QED
    BY <2>1, <2>2, <2>3, <2>4
<1>4. \A j \in 1..Len(a) : a[j] \in Event /\ when'[a[j]] = when[a[j]]
  BY ElementOfSeq
<1>5. \A i \in 1..Len(agenda') :
        when'[agenda'[i]] >= curTick' /\ agenda'[i] \notin freed'
  <2> SUFFICES ASSUME NEW i \in 1..Len(agenda')
               PROVE  when'[agenda'[i]] >= curTick' /\ agenda'[i] \notin freed'
    OBVIOUS
  <2>1. CASE agenda'[i] = e
    BY <2>1
  <2>2. ASSUME NEW j \in 1..Len(a), agenda'[i] = a[j]
        PROVE  when'[agenda'[i]] >= curTick' /\ agenda'[i] \notin freed'
    BY <1>4, <2>2
  <2> QED
    BY <1>3, <2>1, <2>2
<1>6. Scheduled' = {agenda'[i] : i \in 1..Len(agenda')}
  <2>1. DOMAIN agenda' = 1..Len(agenda')
    BY <1>3, LenProperties
  <2> QED
    BY <2>1 DEF Scheduled
<1>7. freed' \cap Scheduled' = {}
  BY <1>5, <1>6
<1> QED
  BY <1>1, <1>3, <1>5, <1>7

\* schedule() preserves the invariant.
LEMMA ScheduleInv ==
  ASSUME Inv, NEW e \in Event, NEW w \in Tick, Schedule(e, w)
  PROVE  Inv'
<1>1. Scheduled = {agenda[i] : i \in 1..Len(agenda)}
  BY ScheduledElements DEF Inv, TypeOK
<1>2. \A i \in 1..Len(agenda) :
        agenda[i] # e /\ agenda[i] \notin freed /\ when[agenda[i]] >= curTick
  BY <1>1 DEF Inv, Schedule
<1> QED
  BY <1>2, EnterInv, Zenon DEF Inv, TypeOK, Schedule

\* What is left after one event is taken out of the agenda.
LEMMA RemainderInv ==
  ASSUME Inv, NEW k \in 1..Len(agenda)
  PROVE  LET a == DropAt(agenda, k)
         IN  /\ a \in Seq(Event)
             /\ Ordered(a, when)
             /\ \A i \in 1..Len(a) :
                  /\ a[i] # agenda[k] /\ a[i] \in Scheduled \ freed
                  /\ when[a[i]] >= curTick
<1> DEFINE a == DropAt(agenda, k)
<1>1. a \in Seq(Event)
  BY DropAtProperties DEF Inv, TypeOK
<1>2. /\ Ordered(a, when)
      /\ \A i \in 1..Len(a) :
           a[i] # agenda[k] /\ \E j \in 1..Len(agenda) : a[i] = agenda[j]
  BY DropAtOrdered DEF Inv, TypeOK
<1>3. Scheduled = {agenda[i] : i \in 1..Len(agenda)}
  BY ScheduledElements DEF Inv, TypeOK
<1> HIDE DEF a
<1>4. ASSUME NEW i \in 1..Len(a)
      PROVE  /\ a[i] # agenda[k] /\ a[i] \in Scheduled \ freed
             /\ when[a[i]] >= curTick
  BY <1>2, <1>3, <1>4 DEF Inv
<1> QED
  BY <1>1, <1>2, <1>4 DEF a

\* reschedule() preserves the invariant.
LEMMA RescheduleInv ==
  ASSUME Inv, NEW e \in Event, NEW w \in Tick, Reschedule(e, w)
  PROVE  Inv'
<1>1. CASE e \notin Scheduled /\ InsertInto(agenda, when', e)
  <2>1. Scheduled = {agenda[i] : i \in 1..Len(agenda)}
    BY ScheduledElements DEF Inv, TypeOK
  <2>2. \A i \in 1..Len(agenda) :
          agenda[i] # e /\ agenda[i] \notin freed /\ when[agenda[i]] >= curTick
    BY <1>1, <2>1 DEF Inv
  <2> QED
    BY <1>1, <2>2, EnterInv, Zenon DEF Inv, TypeOK, Reschedule
<1>2. ASSUME NEW k \in DOMAIN agenda, agenda[k] = e,
             InsertInto(DropAt(agenda, k), when', e)
      PROVE  Inv'
  <2>1. k \in 1..Len(agenda)
    BY <1>2, LenProperties DEF Inv, TypeOK
  <2> DEFINE a == DropAt(agenda, k)
  <2>2. /\ a \in Seq(Event)
        /\ Ordered(a, when)
        /\ \A i \in 1..Len(a) :
             a[i] # e /\ a[i] \notin freed /\ when[a[i]] >= curTick
    BY <1>2, <2>1, RemainderInv
  <2>3. InsertInto(a, when', e)
    BY <1>2
  <2> HIDE DEF a
  <2> QED
    BY <2>2, <2>3, EnterInv, Zenon DEF Inv, TypeOK, Reschedule
<1> QED
  BY <1>1, <1>2, Zenon DEF Reschedule

\* The part common to deschedule() and serviceOne(): the event at position k
\* leaves, and only it may be deleted.
LEMMA LeaveInv ==
  ASSUME Inv, NEW k \in 1..Len(agenda), agenda' = DropAt(agenda, k),
         UNCHANGED when, squashed' \subseteq Event,
         freed' \subseteq Managed,
         freed' \subseteq freed \cup {agenda[k]},
         running' \in Event \cup {NoEvent}, curTick' \in Tick,
         \A e \in Scheduled : when[e] >= curTick'
  PROVE  Inv'
<1>1. /\ agenda' \in Seq(Event)
      /\ Ordered(agenda', when)
      /\ \A i \in 1..Len(agenda') :
           agenda'[i] # agenda[k] /\ agenda'[i] \in Scheduled \ freed
  BY RemainderInv
<1>2. \A i \in 1..Len(agenda') : when'[agenda'[i]] >= curTick'
  BY <1>1
<1>3. Scheduled' = {agenda'[i] : i \in 1..Len(agenda')}
  <2>1. DOMAIN agenda' = 1..Len(agenda')
    BY <1>1, LenProperties
  <2> QED
    BY <2>1 DEF Scheduled
<1>4. freed' \cap Scheduled' = {}
  BY <1>1, <1>3
<1> QED
  BY <1>1, <1>2, <1>4 DEF Inv, TypeOK

\* deschedule() preserves the invariant.
LEMMA DescheduleInv ==
  ASSUME Inv, NEW e \in Event, Deschedule(e)
  PROVE  Inv'
<1>1. PICK k \in DOMAIN agenda : agenda[k] = e /\ agenda' = DropAt(agenda, k)
  BY DEF Deschedule
<1>2. k \in 1..Len(agenda)
  BY <1>1, LenProperties DEF Inv, TypeOK
<1>3. Scheduled = {agenda[i] : i \in 1..Len(agenda)}
  BY ScheduledElements DEF Inv, TypeOK
<1> QED
  BY <1>1, <1>2, <1>3, LeaveInv DEF Deschedule, Release, Inv, TypeOK

\* serviceOne() preserves the invariant: because the agenda is ordered, the
\* event it serves is not later than any other.
LEMMA PopInv ==
  ASSUME Inv, Pop
  PROVE  Inv'
<1> DEFINE e == agenda[1]
<1>1. Len(agenda) \in Nat /\ 1 \in 1..Len(agenda)
  BY EmptySeq, LenProperties DEF Inv, TypeOK, Pop
<1>2. Scheduled = {agenda[i] : i \in 1..Len(agenda)} /\ e \in Scheduled /\ e \in Event
  BY <1>1, ScheduledElements DEF Inv, TypeOK
<1>3. ASSUME NEW f \in Scheduled PROVE when[f] >= when[e]
  <2>1. PICK i \in 1..Len(agenda) : f = agenda[i]
    BY <1>2
  <2>2. f \in Event /\ when[f] \in Int /\ when[e] \in Int
    BY <1>2, ScheduledElements, MaxTickAssumption DEF Inv, TypeOK, Tick
  <2>3. CASE i = 1
    BY <2>1, <2>2, <2>3
  <2>4. CASE 1 < i
    <3>1. ~Before(when, f, e)
      BY <1>1, <2>1, <2>4 DEF Inv, Ordered
    <3> QED
      BY <2>2, <3>1 DEF Before
  <2> QED
    BY <1>1, <2>3, <2>4
<1>4. agenda' = DropAt(agenda, 1) /\ when' = when
  BY DEF Pop
<1>5. CASE e \notin squashed /\ curTick' = when[e] /\ running' = e
           /\ UNCHANGED <<squashed, freed>>
  <2>1. curTick' \in Tick
    BY <1>2, <1>5 DEF Inv, TypeOK
  <2> QED
    BY <1>1, <1>2, <1>3, <1>4, <1>5, <2>1, LeaveInv DEF Inv, TypeOK
<1>6. CASE e \in squashed /\ squashed' = squashed \ {e} /\ Release(e)
           /\ UNCHANGED <<curTick, running>>
  <2>1. \A f \in Scheduled : when[f] >= curTick'
    BY <1>2, <1>6 DEF Inv
  <2> QED
    BY <1>1, <1>2, <1>4, <1>6, <2>1, LeaveInv DEF Inv, TypeOK, Release
<1> QED
  BY <1>5, <1>6 DEF Pop

\* The operations that leave the agenda alone.
LEMMA StayInv ==
  ASSUME Inv, UNCHANGED <<agenda, when>>, squashed' \subseteq Event,
         freed' \subseteq Managed, freed' \cap Scheduled = {},
         running' \in Event \cup {NoEvent}, curTick' \in Tick,
         \A e \in Scheduled : when[e] >= curTick'
  PROVE  Inv'
<1>1. Scheduled = {agenda[i] : i \in 1..Len(agenda)} /\ Scheduled' = Scheduled
  BY ScheduledElements DEF Inv, TypeOK, Scheduled
<1> QED
  BY <1>1 DEF Inv, TypeOK

\* Every operation preserves the invariant.
LEMMA NextInv == Inv /\ [Next]_vars => Inv'
<1> SUFFICES ASSUME Inv, [Next]_vars PROVE Inv'
  OBVIOUS
<1>0. \A e \in Scheduled : when[e] >= curTick
  BY ScheduledElements DEF Inv, TypeOK
<1>1. ASSUME NEW e \in Event, NEW w \in Tick, Schedule(e, w) \/ Reschedule(e, w)
      PROVE  Inv'
  BY <1>1, ScheduleInv, RescheduleInv
<1>2. ASSUME NEW e \in Event, Deschedule(e) PROVE Inv'
  BY <1>2, DescheduleInv
<1>3. ASSUME NEW e \in Event, Squash(e) PROVE Inv'
  BY <1>0, <1>3, StayInv DEF Squash, Inv, TypeOK
<1>4. CASE Pop
  BY <1>4, PopInv
<1>5. CASE Finish
  <2>1. freed' \cap Scheduled = {} /\ freed' \subseteq Managed
    BY <1>5, EventAssumption DEF Finish, Release, Inv, TypeOK
  <2> QED
    BY <1>0, <1>5, <2>1, StayInv DEF Finish, Inv, TypeOK
<1>6. ASSUME NEW w \in Tick, Advance(w) PROVE Inv'
  <2>1. \A e \in Scheduled : when[e] >= curTick'
    <3>1. \A e \in Scheduled : when[e] \in Int /\ w \in Int
      BY ScheduledElements, MaxTickAssumption DEF Inv, TypeOK, Tick
    <3> QED
      BY <1>6, <3>1 DEF Advance
  <2> QED
    BY <1>6, <2>1, StayInv DEF Advance, Inv, TypeOK
<1>7. CASE UNCHANGED vars
  BY <1>0, <1>7, StayInv DEF vars, Inv, TypeOK
<1> QED
  BY <1>1, <1>2, <1>3, <1>4, <1>5, <1>6, <1>7 DEF Next

\* The inductive invariant of the event queue's operations holds in every state.
LEMMA Invariance == Spec => []Inv
BY InitInv, NextInv, PTL DEF Spec

-----------------------------------------------------------------------------
\* No operation of the event queue ever leaves a scheduled event in the past
\* (the assertion of doSimLoop()), for any events, priorities and ticks.
THEOREM NeverInThePast == Spec => []NothingInThePast
<1>1. Inv => NothingInThePast
  BY ScheduledElements DEF Inv, TypeOK, NothingInThePast
<1> QED
  BY <1>1, Invariance, PTL

\* An event has at most one place in the queue.
THEOREM OnlyOnce == Spec => []ScheduledOnce
<1>1. Inv => ScheduledOnce
  <2> SUFFICES ASSUME Inv, NEW i \in DOMAIN agenda, NEW j \in DOMAIN agenda,
                      agenda[i] = agenda[j]
               PROVE  i = j
    BY DEF ScheduledOnce
  <2>1. i \in 1..Len(agenda) /\ j \in 1..Len(agenda) /\ Len(agenda) \in Nat
    BY LenProperties DEF Inv, TypeOK
  <2>2. ~(i < j) /\ ~(j < i)
    BY <2>1 DEF Inv, Ordered
  <2> QED
    BY <2>1, <2>2
<1> QED
  BY <1>1, Invariance, PTL

\* serviceOne() serves the events in the order of operator<.
THEOREM ServiceOrder == Spec => ServedInOrder
<1>1. ASSUME Inv, Next, running = NoEvent, running' # NoEvent, NEW f \in Scheduled
      PROVE  ~Before(when, f, running')
  <2>1. Pop /\ running' = agenda[1]
    BY <1>1 DEF Next, Schedule, Reschedule, Deschedule, Squash, Pop, Finish, Advance
  <2>2. Len(agenda) \in Nat
    BY <1>1, LenProperties DEF Inv, TypeOK
  <2>3. PICK i \in 1..Len(agenda) : f = agenda[i]
    BY <1>1, ScheduledElements DEF Inv, TypeOK
  <2>4. CASE i = 1
    <3>1. f \in Event
      BY <1>1, ScheduledElements DEF Inv, TypeOK
    <3>2. when[f] \in Int /\ Priority[f] \in Int
      BY <1>1, <3>1, EventAssumption, MaxTickAssumption DEF Inv, TypeOK, Tick
    <3> QED
      BY <2>1, <2>3, <2>4, <3>2 DEF Before
  <2>5. CASE 1 < i
    BY <1>1, <2>1, <2>2, <2>3, <2>5 DEF Inv, Ordered
  <2> QED
    BY <2>2, <2>4, <2>5
<1>2. Inv /\ [Next]_vars =>
        [running = NoEvent /\ running' # NoEvent =>
           \A e \in Scheduled : ~Before(when, e, running')]_vars
  BY <1>1
<1> QED
  BY <1>2, Invariance, PTL DEF Spec, ServedInOrder

\* _curTick decreases only when a caller of serviceEvents() asks for it;
\* serviceOne(), whatever the handlers scheduled, never takes it back.
THEOREM TimeMonotone == Spec => TimeNeverGoesBack
<1>1. ASSUME Inv, Next
      PROVE  curTick' >= curTick \/ \E w \in Tick : w < curTick /\ Advance(w)
  <2>1. curTick \in Int
    BY <1>1, MaxTickAssumption DEF Inv, TypeOK, Tick
  <2>2. CASE Pop
    <3>1. 1 \in 1..Len(agenda)
      BY <1>1, <2>2, EmptySeq, LenProperties DEF Inv, TypeOK, Pop
    <3> QED
      BY <1>1, <2>1, <2>2, <3>1 DEF Pop, Inv
  <2>3. CASE curTick' = curTick
    BY <2>1, <2>3
  <2>4. ASSUME NEW w \in Tick, Advance(w)
        PROVE  curTick' >= curTick \/ w < curTick
    BY <2>1, <2>4, MaxTickAssumption DEF Advance, Tick
  <2> QED
    BY <1>1, <2>2, <2>3, <2>4
       DEF Next, Schedule, Reschedule, Deschedule, Squash, Finish
<1>2. Inv /\ [Next]_vars =>
        [curTick' >= curTick \/ \E w \in Tick : w < curTick /\ Advance(w)]_vars
  BY <1>1
<1> QED
  BY <1>2, Invariance, PTL DEF Spec, TimeNeverGoesBack

=============================================================================
