--------------------------- MODULE EventConstants ---------------------------
(***************************************************************************)
(* The events of one queue and what their constructors fix (sim/eventq.hh). *)
(***************************************************************************)
EXTENDS Integers

CONSTANTS
  Event,     \* the event objects
  NoEvent,   \* the null pointer
  Priority,  \* Event -> Int: Event::_priority, fixed by the constructor
  Managed,   \* the events with the flag Managed
  Counted,   \* the managed events that count references (PyEvent); the default
             \* releaseImpl() deletes the others when they are not scheduled
  Exit,      \* the events with the flag IsExitEvent: handed to the caller
  MaxTick    \* bound: the largest tick an event is scheduled for

ASSUME EventAssumption ==
  /\ NoEvent \notin Event
  /\ Priority \in [Event -> Int]
  /\ Managed \subseteq Event
  /\ Exit \subseteq Event
  /\ Counted \subseteq Managed \ Exit
ASSUME MaxTickAssumption == MaxTick \in Nat

Tick == 0..MaxTick

\* operator< on events, for the given ticks.
Before(wh, e, f) ==
  \/ wh[e] < wh[f]
  \/ wh[e] = wh[f] /\ Priority[e] < Priority[f]
=============================================================================
