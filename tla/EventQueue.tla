------------------------------ MODULE EventQueue ------------------------------
(***************************************************************************)
(* gem5's event queue as it is implemented (sim/eventq.cc, sim/eventq.hh): *)
(* a linked list of bins, one per tick and priority, each bin a stack of   *)
(* events.  "head" and "nextBin" link the top events of the bins,          *)
(* "nextInBin" the events below the top.  The nextBin pointer of an event  *)
(* below the top is stale, and so are both pointers of an event that is    *)
(* not scheduled; the model keeps the stale values.                        *)
(*                                                                         *)
(* The queue is used by one thread, outside parallel mode (see             *)
(* ParallelSim for the asynchronous queue).  A handler's operations are    *)
(* the steps between ServiceOne and ServiceReturn.                         *)
(***************************************************************************)
EXTENDS EventConstants, Sequences, FiniteSets

VARIABLES
  list,       \* the pointers: [head, nextBin, nextInBin]
  scheduled,  \* the events with the flag Scheduled
  panicked,   \* remove() has hit panic("event not found!")
  refs,       \* the references the queue holds on the events of Counted
  when, squashed, freed, curTick, running  \* as in EventAgenda

vars == <<list, scheduled, panicked, refs, when, squashed, freed, curTick, running>>

Pointer == Event \cup {NoEvent}

Init ==
  /\ list = [head |-> NoEvent, nextBin |-> [e \in Event |-> NoEvent],
             nextInBin |-> [e \in Event |-> NoEvent]]
  /\ scheduled = {}
  /\ panicked = FALSE
  /\ refs = [e \in Counted |-> 0]
  /\ when = [e \in Event |-> 0]
  /\ squashed = {}
  /\ freed = {}
  /\ curTick = 0
  /\ running = NoEvent

-----------------------------------------------------------------------------
(* The list operations.  wh gives the ticks the comparisons read. *)

\* operator== on events.
SameBin(wh, e, f) == wh[e] = wh[f] /\ Priority[e] = Priority[f]

\* The loop of insert() and remove(): the last bin before e, given the first is.
PrevBin(l, wh, e) ==
  LET walk[p \in Event] ==
        LET curr == l.nextBin[p]
        IN  IF curr # NoEvent /\ Before(wh, curr, e) THEN walk[curr] ELSE p
  IN  walk[l.head]

insertBefore(l, wh, e, curr) ==
  IF curr = NoEvent \/ Before(wh, e, curr)
  THEN [l EXCEPT !.nextBin[e] = curr, !.nextInBin[e] = NoEvent]
  ELSE [l EXCEPT !.nextBin[e] = l.nextBin[curr], !.nextInBin[e] = curr]

\* Mutant: the head case tests "<", so that equals of the head queue behind it.
insertBehindEquals(l, wh, e) ==
  IF l.head = NoEvent \/ Before(wh, e, l.head)
  THEN [insertBefore(l, wh, e, l.head) EXCEPT !.head = e]
  ELSE LET prev == PrevBin(l, wh, e)
       IN  [insertBefore(l, wh, e, l.nextBin[prev]) EXCEPT !.nextBin[prev] = e]

insert(l, wh, e) ==
  IF l.head = NoEvent \/ ~Before(wh, l.head, e)
  THEN [insertBefore(l, wh, e, l.head) EXCEPT !.head = e]
  ELSE LET prev == PrevBin(l, wh, e)
       IN  [insertBefore(l, wh, e, l.nextBin[prev]) EXCEPT !.nextBin[prev] = e]

\* The loop of removeItem(): the event above e in the bin of top, if e is there.
Above(l, e, top) ==
  LET walk[c \in Event] ==
        LET next == l.nextInBin[c]
        IN  IF next = e THEN c
            ELSE IF next = NoEvent THEN NoEvent ELSE walk[next]
  IN  walk[top]

\* Mutant: the new top of the bin keeps its own, stale, nextBin pointer.
removeItemStale(l, e, top) ==
  LET next == l.nextInBin[top]
  IN  IF e # top
      THEN [list |-> [l EXCEPT !.nextInBin[Above(l, e, top)] = l.nextInBin[e]],
            top |-> top]
      ELSE [list |-> l, top |-> IF next = NoEvent THEN l.nextBin[top] ELSE next]

\* The list and the bin's new top after removeItem(e, top).
removeItem(l, e, top) ==
  LET next == l.nextInBin[top]
  IN  IF e # top
      THEN [list |-> [l EXCEPT !.nextInBin[Above(l, e, top)] = l.nextInBin[e]],
            top |-> top]
      ELSE IF next = NoEvent
      THEN [list |-> l, top |-> l.nextBin[top]]
      ELSE [list |-> [l EXCEPT !.nextBin[next] = l.nextBin[top]], top |-> next]

\* The top of the bin in which remove() looks for e.
BinOf(l, wh, e) ==
  IF l.head = NoEvent \/ SameBin(wh, l.head, e) THEN l.head
  ELSE l.nextBin[PrevBin(l, wh, e)]

\* None of the panics of remove() and removeItem() is reached.
Found(l, wh, e) ==
  LET top == BinOf(l, wh, e)
  IN  /\ top # NoEvent
      /\ SameBin(wh, top, e)
      /\ e = top \/ Above(l, e, top) # NoEvent

remove(l, wh, e) ==
  LET r == removeItem(l, e, BinOf(l, wh, e))
  IN  IF SameBin(wh, l.head, e) THEN [r.list EXCEPT !.head = r.top]
      ELSE [r.list EXCEPT !.nextBin[PrevBin(l, wh, e)] = r.top]

-----------------------------------------------------------------------------
(* The operations of EventQueue and Event *)

acquire(e) == refs' = [f \in Counted |-> IF f = e THEN refs[f] + 1 ELSE refs[f]]

\* release(): the default releaseImpl() deletes an event that is not scheduled,
\* as here; the one of PyEvent gives up one reference.
release(e) ==
  /\ freed' = IF e \in Managed \ Counted THEN freed \cup {e} ELSE freed
  /\ refs' = [f \in Counted |-> IF f = e THEN refs[f] - 1 ELSE refs[f]]

Panic ==
  /\ panicked' = TRUE
  /\ UNCHANGED <<list, scheduled, refs, when, squashed, freed, curTick, running>>

schedule(e, w) ==
  /\ w >= curTick
  /\ e \notin scheduled
  /\ when' = [when EXCEPT ![e] = w]
  /\ list' = insert(list, when', e)
  /\ scheduled' = scheduled \cup {e}
  /\ acquire(e)
  /\ UNCHANGED <<panicked, squashed, freed, curTick, running>>

deschedule(e) ==
  /\ e \in scheduled
  /\ \/ ~Found(list, when, e) /\ Panic
     \/ /\ Found(list, when, e)
        /\ list' = remove(list, when, e)
        /\ squashed' = squashed \ {e}
        /\ scheduled' = scheduled \ {e}
        /\ release(e)
        /\ UNCHANGED <<panicked, when, curTick, running>>

\* reschedule(e, w, always), always set when e is not scheduled.
reschedule(e, w) ==
  /\ w >= curTick
  /\ \/ e \in scheduled /\ ~Found(list, when, e) /\ Panic
     \/ /\ e \in scheduled => Found(list, when, e)
        /\ when' = [when EXCEPT ![e] = w]
        /\ list' = insert(IF e \in scheduled THEN remove(list, when, e) ELSE list,
                          when', e)
        /\ squashed' = squashed \ {e}
        /\ scheduled' = scheduled \cup {e}
        /\ IF e \in scheduled THEN UNCHANGED refs ELSE acquire(e)
        /\ UNCHANGED <<panicked, freed, curTick, running>>

squash(e) ==
  /\ squashed' = squashed \cup {e}
  /\ UNCHANGED <<list, scheduled, panicked, refs, when, freed, curTick, running>>

\* The part of serviceOne() up to process(), or all of it for a squashed event.
ServiceOne ==
  /\ running = NoEvent
  /\ list.head # NoEvent
  /\ LET event == list.head
         next == list.nextInBin[event]
     IN  /\ list' = IF next # NoEvent
                    THEN [list EXCEPT !.nextBin[next] = list.nextBin[event],
                                      !.head = next]
                    ELSE [list EXCEPT !.head = list.nextBin[event]]
         /\ scheduled' = scheduled \ {event}
         /\ \/ /\ event \notin squashed
               /\ curTick' = when[event]
               /\ running' = event
               /\ UNCHANGED <<squashed, freed, refs>>
            \/ /\ event \in squashed
               /\ squashed' = squashed \ {event}
               /\ release(event)
               /\ UNCHANGED <<curTick, running>>
  /\ UNCHANGED <<panicked, when>>

\* Mutant: an event that its handler rescheduled is not released.
ServiceReturnKeeps ==
  /\ running # NoEvent
  /\ running' = NoEvent
  /\ IF running \in Exit \cup freed \cup scheduled THEN UNCHANGED <<freed, refs>>
     ELSE release(running)
  /\ UNCHANGED <<list, scheduled, panicked, when, squashed, curTick>>

(***************************************************************************)
(* process() has returned: an exit event goes to the caller, others are    *)
(* released.  The event may have been deleted meanwhile, when its handler  *)
(* scheduled and descheduled it; serviceOne() then reads the flags of a    *)
(* deleted object, zero unless its memory is in use again.  It frees it    *)
(* once more or not; no outcome that goes on changes the queue.            *)
(***************************************************************************)
ServiceReturn ==
  /\ running # NoEvent
  /\ running' = NoEvent
  /\ IF running \in Exit \cup freed \cup (scheduled \ Counted)
     THEN UNCHANGED <<freed, refs>>
     ELSE release(running)
  /\ UNCHANGED <<list, scheduled, panicked, when, squashed, curTick>>

\* The end of serviceEvents(w); its loop is ServiceOne up to tick w.
ServiceEventsReturn(w) ==
  /\ running = NoEvent
  /\ list.head # NoEvent => when[list.head] > w
  /\ curTick' = w
  /\ UNCHANGED <<list, scheduled, panicked, refs, when, squashed, freed, running>>

(***************************************************************************)
(* What the users of a queue do: they keep off deleted events, and squash  *)
(* events that are scheduled (cpu/o3/cpu.hh, dev/net/ns_gige.cc).          *)
(***************************************************************************)
Call(e) ==
  \/ \E w \in Tick : schedule(e, w) \/ reschedule(e, w)
  \/ deschedule(e)
  \/ e \in scheduled /\ squash(e)

Next ==
  \/ \E e \in Event \ freed : Call(e)
  \/ ServiceOne
  \/ ServiceReturn
  \/ \E w \in Tick : ServiceEventsReturn(w)

Spec == Init /\ [][Next]_vars

-----------------------------------------------------------------------------
(***************************************************************************)
(* The events in the order in which the two loops of debugVerify() meet    *)
(* them, cut off after one event more than there are: bins along nextBin,  *)
(* and inside a bin along nextInBin.                                       *)
(***************************************************************************)
Walk(l) ==
  LET most == Cardinality(Event) + 1
      from[n \in 0..most, bin \in Pointer, e \in Pointer] ==
        IF n = 0 \/ e = NoEvent THEN <<>>
        ELSE <<e>> \o (IF l.nextInBin[e] # NoEvent
                       THEN from[n - 1, bin, l.nextInBin[e]]
                       ELSE from[n - 1, l.nextBin[bin], l.nextBin[bin]])
  IN  from[most, l.head, l.head]

(***************************************************************************)
(* The lists lose no event, keep no event too long and contain none twice: *)
(* what the traversal meets is exactly the set of events whose Scheduled   *)
(* flag is set, and remove() never reaches a panic("event not found!"):    *)
(* such an event is in the bin its tick and priority lead to, whatever     *)
(* stale pointers surround it.                                             *)
(***************************************************************************)
FlagsMatchLists ==
  LET w == Walk(list)
  IN  /\ ~panicked
      /\ {w[i] : i \in DOMAIN w} = scheduled /\ Len(w) = Cardinality(scheduled)

(***************************************************************************)
(* acquire() and release() are paired however a handler reschedules,       *)
(* deschedules or squashes events, the one that is running included: the   *)
(* queue holds one reference on a counted event for its place in the lists *)
(* and one for the handler at work, so that PyEvent neither dies while     *)
(* serviceOne() needs it nor stays for ever.  And an event that its        *)
(* releaseImpl() deleted is in no list (the assertion of Event::~Event()). *)
(***************************************************************************)
QueueHoldsItsEvents ==
  /\ \A e \in Counted :
       refs[e] = Cardinality({e} \cap scheduled) + Cardinality({e} \cap {running})
  /\ freed \cap scheduled = {}

(***************************************************************************)
(* serviceOne() never goes on with an event that has been deleted.  No run *)
(* checks it: the default releaseImpl() deletes an event that its own      *)
(* handler schedules and deschedules, and serviceOne() releases it again.  *)
(***************************************************************************)
NoUseAfterFree == running \notin freed

Agenda == INSTANCE EventAgenda WITH agenda <- Walk(list)

(***************************************************************************)
(* The two-level list implements the agenda: every operation changes the   *)
(* order of service exactly as EventAgenda says, ties between events of    *)
(* one tick and priority included (last scheduled, first serviced).        *)
(***************************************************************************)
RefinesAgenda == Agenda!Spec

=============================================================================
