---------------------------- MODULE EventRestore ----------------------------
(***************************************************************************)
(* Saving the events of a queue in a checkpoint and restoring them in a    *)
(* new process: Event::serialize(), Event::unserialize() and               *)
(* EventQueue::checkpointReschedule(), called one event after the other by *)
(* the macros SERIALIZE_EVENT and UNSERIALIZE_EVENT of sim/eventq.hh.      *)
(***************************************************************************)
EXTENDS EventQueue

VARIABLES
  phase,     \* "run", "restore" while the new process reads, "restored"
  saved,     \* the checkpoint: _when and _flags of every event
  restored   \* the events UNSERIALIZE_EVENT has been called for

restoreVars == <<vars, phase, saved, restored>>

RestoreInit ==
  /\ Init
  /\ phase = "run"
  /\ saved = [when |-> when, scheduled |-> {}, squashed |-> {}]
  /\ restored = {}

Run ==
  /\ phase = "run"
  /\ Next
  /\ UNCHANGED <<phase, saved, restored>>

\* Every event is serialized between two calls of simulate(), and a new
\* process starts with the same events, constructed but never scheduled.
Checkpoint ==
  /\ phase = "run"
  /\ running = NoEvent
  /\ freed = {}
  /\ saved' = [when |-> when, scheduled |-> scheduled, squashed |-> squashed]
  /\ phase' = "restore"
  /\ list' = [head |-> NoEvent, nextBin |-> [e \in Event |-> NoEvent],
              nextInBin |-> [e \in Event |-> NoEvent]]
  /\ scheduled' = {}
  /\ squashed' = {}
  /\ when' = [e \in Event |-> 0]
  /\ UNCHANGED <<panicked, refs, freed, curTick, running, restored>>

\* The flags Event::unserialize() leaves: both are dropped for an event that
\* was scheduled and not squashed.
UnserializedFlags(e) ==
  IF e \in saved.scheduled /\ e \notin saved.squashed
  THEN [scheduled |-> FALSE, squashed |-> FALSE]
  ELSE [scheduled |-> e \in saved.scheduled, squashed |-> e \in saved.squashed]

\* UNSERIALIZE_EVENT(e): unserialize(), then checkpointReschedule().
UnserializeEvent(e) ==
  LET flags == UnserializedFlags(e)
  IN  /\ phase = "restore"
      /\ e \notin restored
      /\ restored' = restored \cup {e}
      /\ when' = [when EXCEPT ![e] = saved.when[e]]
      /\ scheduled' = IF flags.scheduled THEN scheduled \cup {e} ELSE scheduled
      /\ squashed' = IF flags.squashed THEN squashed \cup {e} ELSE squashed
      /\ list' = IF flags.scheduled THEN insert(list, when', e) ELSE list
      /\ UNCHANGED <<panicked, refs, freed, curTick, running, phase, saved>>

RestoreDone ==
  /\ phase = "restore"
  /\ restored = Event
  /\ phase' = "restored"
  /\ UNCHANGED <<vars, saved, restored>>

RestoreNext ==
  \/ Run
  \/ Checkpoint
  \/ \E e \in Event : UnserializeEvent(e)
  \/ RestoreDone

RestoreSpec == RestoreInit /\ [][RestoreNext]_restoreVars

-----------------------------------------------------------------------------
(***************************************************************************)
(* What checkpointReschedule() documents: after UNSERIALIZE_EVENT, an      *)
(* event that was scheduled when the checkpoint was taken, and had not     *)
(* been squashed, is scheduled again for the same tick.                    *)
(***************************************************************************)
PendingEventsRestored ==
  phase = "restored" =>
    \A e \in saved.scheduled \ saved.squashed :
      e \in scheduled /\ when[e] = saved.when[e]

=============================================================================
