----------------------------- MODULE EventAgenda -----------------------------
(***************************************************************************)
(* What an EventQueue of gem5 promises to the objects that schedule events *)
(* on it: an agenda of events in the order in which they will be serviced. *)
(* EventQueue.tla models the linked lists that implement it (sim/eventq.cc *)
(* and sim/eventq.hh) and is shown to refine this module.                  *)
(*                                                                         *)
(* An event handler runs between Pop and Finish and may call any other     *)
(* operation; so may the Python scripts between two calls of simulate().   *)
(***************************************************************************)
EXTENDS EventConstants, Sequences

VARIABLES
  agenda,    \* the scheduled events, next one first
  when,      \* Event::_when
  squashed,  \* the events with the flag Squashed
  freed,     \* the managed events that have been deleted
  curTick,   \* EventQueue::_curTick
  running    \* the event whose process() is being executed, or NoEvent

vars == <<agenda, when, squashed, freed, curTick, running>>

Scheduled == {agenda[i] : i \in DOMAIN agenda}

TypeOK ==
  /\ agenda \in Seq(Event)
  /\ when \in [Event -> Tick]
  /\ squashed \subseteq Event
  /\ freed \subseteq Managed
  /\ curTick \in Tick
  /\ running \in Event \cup {NoEvent}

Init ==
  /\ agenda = <<>>
  /\ when = [e \in Event |-> 0]
  /\ squashed = {}
  /\ freed = {}
  /\ curTick = 0
  /\ running = NoEvent

-----------------------------------------------------------------------------
\* a with e put at position k.
PutAt(a, k, e) ==
  [i \in 1..(Len(a) + 1) |-> IF i < k THEN a[i] ELSE IF i = k THEN e ELSE a[i - 1]]

\* a without the element at position k.
DropAt(a, k) == [i \in 1..(Len(a) - 1) |-> IF i < k THEN a[i] ELSE a[i + 1]]

(***************************************************************************)
(* e goes behind everything that is strictly before it and ahead of its    *)
(* equals: events of the same tick and priority are serviced last in,      *)
(* first out.                                                              *)
(***************************************************************************)
InsertInto(a, wh, e) ==
  \E k \in 1..(Len(a) + 1) :
    /\ \A i \in 1..Len(a) : i < k <=> Before(wh, a[i], e)
    /\ agenda' = PutAt(a, k, e)

\* Event::release() of an event that is not scheduled.
Release(e) == freed' = IF e \in Managed \ Counted THEN freed \cup {e} ELSE freed

Schedule(e, w) ==
  /\ e \notin Scheduled \cup freed
  /\ w >= curTick
  /\ when' = [when EXCEPT ![e] = w]
  /\ InsertInto(agenda, when', e)
  /\ UNCHANGED <<squashed, freed, curTick, running>>

\* An event is deleted even when its own handler deschedules it.
Deschedule(e) ==
  /\ e \in Scheduled
  /\ \E k \in DOMAIN agenda : agenda[k] = e /\ agenda' = DropAt(agenda, k)
  /\ squashed' = squashed \ {e}
  /\ Release(e)
  /\ UNCHANGED <<when, curTick, running>>

Reschedule(e, w) ==
  /\ e \notin freed
  /\ w >= curTick
  /\ when' = [when EXCEPT ![e] = w]
  /\ \/ \E k \in DOMAIN agenda :
          agenda[k] = e /\ InsertInto(DropAt(agenda, k), when', e)
     \/ e \notin Scheduled /\ InsertInto(agenda, when', e)
  /\ squashed' = squashed \ {e}
  /\ UNCHANGED <<freed, curTick, running>>

Squash(e) ==
  /\ e \in Scheduled
  /\ squashed' = squashed \cup {e}
  /\ UNCHANGED <<agenda, when, freed, curTick, running>>

\* The next event leaves the agenda; time moves to it unless it is squashed.
Pop ==
  /\ running = NoEvent
  /\ agenda # <<>>
  /\ LET e == agenda[1]
     IN  /\ agenda' = DropAt(agenda, 1)
         /\ \/ /\ e \notin squashed
               /\ curTick' = when[e]
               /\ running' = e
               /\ UNCHANGED <<squashed, freed>>
            \/ /\ e \in squashed
               /\ squashed' = squashed \ {e}
               /\ Release(e)
               /\ UNCHANGED <<curTick, running>>
  /\ UNCHANGED when

Finish ==
  /\ running # NoEvent
  /\ running' = NoEvent
  /\ IF running \in Exit \cup Scheduled THEN UNCHANGED freed ELSE Release(running)
  /\ UNCHANGED <<agenda, when, squashed, curTick>>

\* serviceEvents(w), once no event up to w is left; w may lie in the past.
Advance(w) ==
  /\ running = NoEvent
  /\ \A e \in Scheduled : when[e] > w
  /\ curTick' = w
  /\ UNCHANGED <<agenda, when, squashed, freed, running>>

Next ==
  \/ \E e \in Event, w \in Tick : Schedule(e, w) \/ Reschedule(e, w)
  \/ \E e \in Event : Deschedule(e) \/ Squash(e)
  \/ Pop
  \/ Finish
  \/ \E w \in Tick : Advance(w)

Spec == Init /\ [][Next]_vars

-----------------------------------------------------------------------------
(***************************************************************************)
(* No scheduled event lies in the past, whichever operations the handlers  *)
(* use: the assertion "event scheduled in the past" of doSimLoop().        *)
(***************************************************************************)
NothingInThePast == \A e \in Scheduled : when[e] >= curTick

(***************************************************************************)
(* An event is in the agenda once, however often it is scheduled,          *)
(* rescheduled, squashed and descheduled: it is serviced once per          *)
(* schedule().                                                             *)
(***************************************************************************)
ScheduledOnce ==
  \A i, j \in DOMAIN agenda : agenda[i] = agenda[j] => i = j

(***************************************************************************)
(* When serviceOne() starts a handler, no scheduled event has an earlier   *)
(* tick, or the same tick and a smaller priority.                          *)
(***************************************************************************)
ServedInOrder ==
  [][running = NoEvent /\ running' # NoEvent =>
       \A e \in Scheduled : ~Before(when, e, running')]_vars

(***************************************************************************)
(* No operation takes simulated time back, serviceOne() in particular,     *)
(* which sets _curTick to the tick of the event it finds first: the only   *)
(* exception is a serviceEvents(w) whose caller passes a smaller count     *)
(* than an earlier call did.                                               *)
(***************************************************************************)
TimeNeverGoesBack ==
  [][curTick' >= curTick \/ \E w \in Tick : w < curTick /\ Advance(w)]_vars

=============================================================================
