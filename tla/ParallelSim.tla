----------------------------- MODULE ParallelSim -----------------------------
(***************************************************************************)
(* The parallel simulator of gem5: one thread per event queue, kept within *)
(* a quantum of each other by a global synchronisation event.              *)
(*   sim/simulate.cc      simulate(), doSimLoop(), SimulatorThreads        *)
(*   sim/global_event.cc  global events: one barrier event per queue       *)
(*   sim/eventq.{cc,hh}   schedule(), the asynchronous queue               *)
(*   sim/sim_events.cc, sim/stat_control.cc  who creates global events     *)
(*                                                                         *)
(* A queue is the ordered agenda that EventQueue.tla refines; a barrier is *)
(* what Barrier.tla guarantees: all threads arrive, one of them is told    *)
(* TRUE, all leave.  schedule() of an asynchronous event is two steps,     *)
(* because the Scheduled flag is set after the event has been handed over. *)
(***************************************************************************)
EXTENDS Integers, Sequences, FiniteSets, SequencesExt

CONSTANTS
  NumQueues,   \* numMainEventQueues; queue 0 is serviced by the main thread
  Quantum,     \* simQuantum
  Local,       \* events of simulated objects
  Home,        \* Local -> the queue an event is scheduled on
  Sender,      \* Local -> the thread that schedules it
  Global,      \* global events that handlers or signals create, once each
  Sync, Limit, \* the quantum event and simulate_limit_event
  Exiting,     \* the events of Global that are exit events
  Priority,    \* priority of every event
  Offset,      \* Global -> what is added to curTick() when it is scheduled
  NumCycles,   \* the arguments of simulate(), -1 for no limit
  NoEvent,
  MaxTick, MaxDelay, MaxCalls, MaxSims \* bounds: the last tick, how far ahead
               \* a handler schedules, schedule calls, simulate() calls

Queue == 0..(NumQueues - 1)
Event == Local \cup Global \cup {Sync, Limit}
Globals == Global \cup {Sync, Limit}

VARIABLES
  agenda,    \* per queue: the scheduled events in order of service
  async,     \* per queue: async_queue
  when,      \* per queue and event: _when of the local event
  flag,      \* per queue: the events whose Scheduled flag is set
  curTick,   \* per queue: _curTick
  pc,        \* where the thread of each queue is
  cur,       \* per queue: the event its thread is processing
  call,      \* per queue: the schedule call in progress, or NoCall
  mutex,     \* the thread that holds globalQMutex, or -1
  parallel,  \* inParallelMode
  created,   \* the events of Global (and Limit) that have been created
  calls,     \* number of schedule calls made by handlers and signals
  sims       \* number of calls of simulate()

queues == <<agenda, async, when, flag, curTick>>
control == <<pc, cur, call, mutex, parallel, created, calls, sims>>
vars == <<queues, control>>

NoCall == [event |-> NoEvent, tick |-> 0, targets |-> <<>>, inserted |-> FALSE]

(***************************************************************************)
(* Where a thread is, pc[q]:                                               *)
(* "python"   main thread outside simulate()                               *)
(* "ready"    waiting on SimulatorThreads::barrier                         *)
(* "start"    about to run handleAsyncInsertions() in doSimLoop()          *)
(* "loop"     at the top of the loop of doSimLoop()                        *)
(* "handler"  in process() of a local event                                *)
(* "bar1"     waiting on the first barrier of a global event               *)
(* "process"  in process() of a global event, chosen by the barrier        *)
(* "bar2"     waiting on its second barrier                                *)
(* "leave"    woken from the second barrier, not yet back in the loop      *)
(* "exit"     serviceOne() has returned an exit event                      *)
(***************************************************************************)
-----------------------------------------------------------------------------
(* The event queue *)

Before(wh, e, f) ==
  wh[e] < wh[f] \/ (wh[e] = wh[f] /\ Priority[e] < Priority[f])

insert(a, wh, e) ==
  LET b == SelectSeq(a, LAMBDA f : Before(wh, f, e))
  IN  b \o <<e>> \o SubSeq(a, Len(b) + 1, Len(a))

\* Mutant of SyncTick: the quantum is a tick too long.
SyncTickTooLate(q) == curTick[q] + Quantum + 1

\* When the thread of q schedules the quantum event.
SyncTick(q) == curTick[q] + Quantum

remove(a, e) == SelectSeq(a, LAMBDA f : f # e)

\* handleAsyncInsertions(): the whole asynchronous queue, oldest event first.
handleAsyncInsertions(q) ==
  /\ agenda' = [agenda EXCEPT ![q] =
                  FoldLeft(LAMBDA a, e : insert(a, when[q], e), @, async[q])]
  /\ async' = [async EXCEPT ![q] = <<>>]

Own(q) == {e \in Local : Home[e] = q /\ Sender[e] = q}

\* Before the first simulate(): every queue has the events of its own objects,
\* scheduled by their startup(); the subordinate threads wait in thread_main.
Init ==
  /\ flag = [q \in Queue |-> Own(q)]
  /\ \E first \in [UNION {Own(q) : q \in Queue} -> 0..MaxDelay] :
       when = [q \in Queue |-> [e \in Event |-> IF e \in Own(q) THEN first[e] ELSE 0]]
  /\ agenda = [q \in Queue |->
                 FoldLeft(LAMBDA a, e : insert(a, when[q], e), <<>>, SetToSeq(flag[q]))]
  /\ async = [q \in Queue |-> <<>>]
  /\ curTick = [q \in Queue |-> 0]
  /\ pc = [q \in Queue |-> IF q = 0 THEN "python" ELSE "ready"]
  /\ cur = [q \in Queue |-> NoEvent]
  /\ call = [q \in Queue |-> NoCall]
  /\ mutex = -1
  /\ parallel = FALSE
  /\ created = {}
  /\ calls = 0
  /\ sims = 0

-----------------------------------------------------------------------------
(* schedule(), called by thread q *)

\* The targets of a call: one queue for a local event, and for a global event
\* all of them in the order of BaseGlobalEvent::schedule, under globalQMutex.
BeginCall(q, e, tick) ==
  /\ call[q] = NoCall
  /\ e \in Globals => mutex = -1
  /\ mutex' = IF e \in Globals THEN q ELSE mutex
  /\ call' = [call EXCEPT ![q] =
       [event |-> e, tick |-> tick, inserted |-> FALSE,
        targets |-> IF e \in Globals THEN [i \in 1..NumQueues |-> i - 1] ELSE <<Home[e]>>]]

\* Mutant of CallInsert: a global event goes straight to the caller's own queue.
CallInsertOwnDirectly(q) ==
  LET e == call[q].event
      i == Head(call[q].targets)
      wh == [when[i] EXCEPT ![e] = call[q].tick]
  IN  /\ e # NoEvent /\ ~call[q].inserted
      /\ when' = [when EXCEPT ![i] = wh]
      /\ IF parallel /\ i # q
           THEN async' = [async EXCEPT ![i] = Append(@, e)] /\ UNCHANGED agenda
           ELSE agenda' = [agenda EXCEPT ![i] = insert(@, wh, e)] /\ UNCHANGED async
      /\ call' = [call EXCEPT ![q].inserted = TRUE]
      /\ UNCHANGED <<flag, curTick, pc, cur, mutex, parallel, created, calls, sims>>

\* setWhen() and asyncInsert() or insert() on the first remaining target.
CallInsert(q) ==
  LET e == call[q].event
      i == Head(call[q].targets)
      wh == [when[i] EXCEPT ![e] = call[q].tick]
  IN  /\ e # NoEvent /\ ~call[q].inserted
      /\ when' = [when EXCEPT ![i] = wh]
      /\ IF parallel /\ (i # q \/ e \in Globals)
           THEN async' = [async EXCEPT ![i] = Append(@, e)] /\ UNCHANGED agenda
           ELSE agenda' = [agenda EXCEPT ![i] = insert(@, wh, e)] /\ UNCHANGED async
      /\ call' = [call EXCEPT ![q].inserted = TRUE]
      /\ UNCHANGED <<flag, curTick, pc, cur, mutex, parallel, created, calls, sims>>

\* Mutant of CallFlag: globalQMutex is not unlocked.
CallFlagKeepsMutex(q) ==
  LET e == call[q].event
      rest == Tail(call[q].targets)
      done == rest = <<>>
  IN  /\ e # NoEvent /\ call[q].inserted
      /\ flag' = [flag EXCEPT ![Head(call[q].targets)] = @ \cup {e}]
      /\ call' = [call EXCEPT ![q] =
                    IF done THEN NoCall ELSE [@ EXCEPT !.targets = rest, !.inserted = FALSE]]
      /\ pc' = IF done /\ pc[q] = "process" THEN [pc EXCEPT ![q] = "bar2"] ELSE pc
      /\ UNCHANGED <<agenda, async, when, curTick, cur, mutex, parallel, created, calls, sims>>

\* flags.set(Scheduled), then the next target or the return of the call.
CallFlag(q) ==
  LET e == call[q].event
      rest == Tail(call[q].targets)
      done == rest = <<>>
  IN  /\ e # NoEvent /\ call[q].inserted
      /\ flag' = [flag EXCEPT ![Head(call[q].targets)] = @ \cup {e}]
      /\ call' = [call EXCEPT ![q] =
                    IF done THEN NoCall ELSE [@ EXCEPT !.targets = rest, !.inserted = FALSE]]
      /\ mutex' = IF done /\ e \in Globals THEN -1 ELSE mutex
      /\ pc' = IF done /\ pc[q] = "process" THEN [pc EXCEPT ![q] = "bar2"] ELSE pc
      /\ UNCHANGED <<agenda, async, when, curTick, cur, parallel, created, calls, sims>>

\* Mutant of ScheduleLocal: an event for another queue is not a quantum ahead.
ScheduleLocalTooSoon(q, e, d) ==
  /\ pc[q] = "handler" /\ calls < MaxCalls
  /\ Sender[e] = q /\ e \notin flag[Home[e]]
  /\ BeginCall(q, e, curTick[q] + d)
  /\ calls' = calls + 1
  /\ UNCHANGED <<queues, pc, cur, parallel, created, sims>>

\* A handler schedules an event of its own queue, or an event of another queue
\* at least a quantum ahead.
ScheduleLocal(q, e, d) ==
  /\ pc[q] = "handler" /\ calls < MaxCalls
  /\ Sender[e] = q /\ e \notin flag[Home[e]]
  /\ BeginCall(q, e, curTick[q] + d + IF Home[e] = q THEN 0 ELSE Quantum)
  /\ calls' = calls + 1
  /\ UNCHANGED <<queues, pc, cur, parallel, created, sims>>

\* exitSimLoop() and its variants, schedStatEvent(): by a handler, or by the
\* main thread in the loop when a signal has set async_event.
ScheduleGlobal(q, g, d) ==
  /\ pc[q] = "handler" \/ (q = 0 /\ pc[q] = "loop")
  /\ calls < MaxCalls /\ g \notin created
  /\ BeginCall(q, g, curTick[q] + d + Offset[g])
  /\ created' = created \cup {g}
  /\ calls' = calls + 1
  /\ UNCHANGED <<queues, pc, cur, parallel, sims>>

-----------------------------------------------------------------------------
(* doSimLoop() and the processing of events *)

StartLoop(q) ==
  /\ pc[q] = "start"
  /\ handleAsyncInsertions(q)
  /\ pc' = [pc EXCEPT ![q] = "loop"]
  /\ UNCHANGED <<when, flag, curTick, cur, call, mutex, parallel, created, calls, sims>>

\* Mutant of serviceOne: a global event does not advance the time of its queue.
serviceOneKeepsTime(q) ==
  LET e == Head(agenda[q])
  IN  /\ pc[q] = "loop" /\ call[q] = NoCall /\ agenda[q] # <<>>
      /\ flag' = [flag EXCEPT ![q] = @ \ {e}]
      /\ agenda' = [agenda EXCEPT ![q] = Tail(@)]
      /\ curTick' = [curTick EXCEPT ![q] = IF e \in Globals THEN @ ELSE when[q][e]]
      /\ cur' = [cur EXCEPT ![q] = e]
      /\ pc' = [pc EXCEPT ![q] = IF e \in Globals THEN "bar1" ELSE "handler"]
      /\ UNCHANGED <<async, when, call, mutex, parallel, created, calls, sims>>

\* Takes the first event off the queue, moves time to it and starts process().
serviceOne(q) ==
  LET e == Head(agenda[q])
  IN  /\ pc[q] = "loop" /\ call[q] = NoCall /\ agenda[q] # <<>>
      /\ flag' = [flag EXCEPT ![q] = @ \ {e}]
      /\ agenda' = [agenda EXCEPT ![q] = Tail(@)]
      /\ curTick' = [curTick EXCEPT ![q] = when[q][e]]
      /\ cur' = [cur EXCEPT ![q] = e]
      /\ pc' = [pc EXCEPT ![q] = IF e \in Globals THEN "bar1" ELSE "handler"]
      /\ UNCHANGED <<async, when, call, mutex, parallel, created, calls, sims>>

HandlerReturn(q) ==
  /\ pc[q] = "handler" /\ call[q] = NoCall
  /\ pc' = [pc EXCEPT ![q] = "loop"]
  /\ cur' = [cur EXCEPT ![q] = NoEvent]
  /\ UNCHANGED <<queues, call, mutex, parallel, created, calls, sims>>

\* The first globalBarrier(): the last thread to arrive is told TRUE.
FirstBarrier(g) ==
  /\ \A q \in Queue : pc[q] = "bar1" /\ cur[q] = g
  /\ \E last \in Queue :
       pc' = [q \in Queue |-> IF q = last THEN "process" ELSE "bar2"]
  /\ UNCHANGED <<queues, cur, call, mutex, parallel, created, calls, sims>>

\* GlobalSyncEvent::process() schedules itself again; no other global event
\* modelled here changes the queues.
process(q) ==
  /\ pc[q] = "process"
  /\ IF cur[q] = Sync
       THEN BeginCall(q, Sync, SyncTick(q)) /\ UNCHANGED pc
       ELSE pc' = [pc EXCEPT ![q] = "bar2"] /\ UNCHANGED <<call, mutex>>
  /\ UNCHANGED <<queues, cur, parallel, created, calls, sims>>

SecondBarrier(g) ==
  /\ \A q \in Queue : pc[q] = "bar2" /\ cur[q] = g
  /\ pc' = [q \in Queue |-> "leave"]
  /\ UNCHANGED <<queues, cur, call, mutex, parallel, created, calls, sims>>

\* The rest of BarrierEvent::process() and of serviceOne(): the quantum event
\* takes in the asynchronous events, and an exit event is returned.
Leave(q) ==
  /\ pc[q] = "leave"
  /\ IF cur[q] = Sync THEN handleAsyncInsertions(q) ELSE UNCHANGED <<agenda, async>>
  /\ pc' = [pc EXCEPT ![q] = IF cur[q] \in Exiting \cup {Limit} THEN "exit" ELSE "loop"]
  /\ cur' = [cur EXCEPT ![q] = NoEvent]
  /\ UNCHANGED <<when, flag, curTick, call, mutex, parallel, created, calls, sims>>

-----------------------------------------------------------------------------
(* simulate() and SimulatorThreads *)

\* Up to runUntilLocalExit(): the limit event is created on the first call and
\* moved when num_cycles is given; the quantum event is created.
simulate(n) ==
  LET limit == IF n # -1 THEN IF curTick[0] + n < MaxTick THEN curTick[0] + n ELSE MaxTick
               ELSE MaxTick
      moved == n # -1 \/ Limit \notin created
      wh == [q \in Queue |-> [when[q] EXCEPT ![Limit] = IF moved THEN limit ELSE @,
                                            ![Sync] = SyncTick(0)]]
      many == NumQueues > 1
      limited(q) == IF moved THEN insert(remove(agenda[q], Limit), wh[q], Limit)
                    ELSE agenda[q]
  IN  /\ pc[0] = "python" /\ sims < MaxSims
      /\ sims' = sims + 1
      /\ when' = wh
      /\ agenda' = [q \in Queue |-> IF many THEN insert(limited(q), wh[q], Sync)
                                    ELSE limited(q)]
      /\ flag' = [q \in Queue |-> flag[q] \cup (IF moved THEN {Limit} ELSE {})
                                          \cup (IF many THEN {Sync} ELSE {})]
      /\ parallel' = many
      /\ created' = created \cup {Limit}
      /\ pc' = [pc EXCEPT ![0] = "ready"]
      /\ UNCHANGED <<async, curTick, cur, call, mutex, calls>>

\* SimulatorThreads::barrier, reached by thread_main and runUntilLocalExit.
RunUntilLocalExit ==
  /\ \A q \in Queue : pc[q] = "ready"
  /\ pc' = [q \in Queue |-> "start"]
  /\ UNCHANGED <<queues, cur, call, mutex, parallel, created, calls, sims>>

\* A subordinate thread goes back to the barrier of thread_main.
ThreadMain(q) ==
  /\ q # 0 /\ pc[q] = "exit"
  /\ pc' = [pc EXCEPT ![q] = "ready"]
  /\ UNCHANGED <<queues, cur, call, mutex, parallel, created, calls, sims>>

\* The main thread leaves simulate(): inParallelMode is cleared and
\* DescheduleDeleter takes the quantum event off every queue.
simulateReturn ==
  /\ pc[0] = "exit"
  /\ parallel' = FALSE
  /\ agenda' = [q \in Queue |-> IF Sync \in flag[q] THEN remove(agenda[q], Sync)
                                ELSE agenda[q]]
  /\ flag' = [q \in Queue |-> flag[q] \ {Sync}]
  /\ pc' = [pc EXCEPT ![0] = "python"]
  /\ UNCHANGED <<async, when, curTick, cur, call, mutex, created, calls, sims>>

-----------------------------------------------------------------------------
Step(q) ==
  \/ CallInsert(q) \/ CallFlag(q)
  \/ StartLoop(q) \/ serviceOne(q) \/ HandlerReturn(q)
  \/ process(q) \/ Leave(q) \/ ThreadMain(q)

Request(q) ==
  \E d \in 0..MaxDelay :
    \/ \E e \in Local : ScheduleLocal(q, e, d)
    \/ \E g \in Global : ScheduleGlobal(q, g, d)

Barriers ==
  \/ \E g \in Globals : FirstBarrier(g) \/ SecondBarrier(g)
  \/ RunUntilLocalExit

Next ==
  \/ \E q \in Queue : Step(q) \/ Request(q)
  \/ Barriers
  \/ \E n \in NumCycles : simulate(n)
  \/ simulateReturn

Spec == Init /\ [][Next]_vars

\* Every thread that can take a step takes one.  Handlers and signals need not
\* schedule anything, and Python need not call simulate().
Fairness ==
  /\ \A q \in Queue : WF_vars(Step(q))
  /\ WF_vars(Barriers)
  /\ WF_vars(simulateReturn)

FairSpec == Spec /\ Fairness

-----------------------------------------------------------------------------
\* schedule() asserts that the event lies ahead of the target queue's time,
\* which the target's own thread advances, and that it is not scheduled; the
\* loop of doSimLoop() asserts that the next event is not in the past.
AssertsHold ==
  \A q \in Queue :
    /\ call[q] # NoCall /\ ~call[q].inserted =>
         LET i == Head(call[q].targets)
         IN  call[q].tick >= curTick[i] /\ call[q].event \notin flag[i]
    /\ pc[q] = "loop" /\ agenda[q] # <<>> => curTick[q] <= when[q][Head(agenda[q])]

\* Global events are met in one total order: two threads never wait on the
\* barriers of different global events, which would be a deadlock
\* (BaseGlobalEvent::schedule).
TotalOrder ==
  \A p, q \in Queue :
    pc[p] \in {"bar1", "bar2"} /\ pc[q] \in {"bar1", "bar2"} => cur[p] = cur[q]

\* The threads of doSimLoop() are never more than a quantum apart.
WithinQuantum == \A p, q \in Queue : curTick[p] <= curTick[q] + Quantum

\* A global event is processed with every queue at the same tick, and with no
\* event left on any queue that should have been serviced before it.
ProcessedTogether ==
  \A q \in Queue : pc[q] = "process" =>
    \A p \in Queue :
      /\ curTick[p] = curTick[q]
      /\ \A k \in 1..Len(agenda[p]) :
           LET e == agenda[p][k]
           IN  when[p][e] > curTick[q] \/ Priority[e] >= Priority[cur[q]]

\* The Scheduled flag is set only while the event is on its queue or on its
\* way to it; schedule() is "safe to call from any thread".
FlagMeansPending ==
  \A q \in Queue : \A e \in flag[q] :
    \E k \in 1..Len(agenda[q] \o async[q]) : (agenda[q] \o async[q])[k] = e

\* Every call of simulate() returns.
SimulateReturns == (pc[0] # "python") ~> (pc[0] = "python")

=============================================================================
