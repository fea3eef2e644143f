---------------------------- MODULE MesiMessages -----------------------------
(***************************************************************************)
(* The messages of the MESI_Two_Level protocol of Ruby                     *)
(* (mem/ruby/protocol/MESI_Two_Level-msg.sm) for one cache line, and what  *)
(* a transition of one of its state machines does.                         *)
(*                                                                         *)
(* A data block is modelled by whether it is fresh: whether it holds what  *)
(* the last store, by a processor or a DMA device, has written.            *)
(***************************************************************************)
EXTENDS Integers

CONSTANT None

\* One record for RequestMsg, ResponseMsg and MemoryMsg.  requestor is who a
\* forwarded request is answered to; stalled is set by stall_and_wait.
Control(type, src, dst) ==
  [type |-> type, src |-> src, dst |-> dst, requestor |-> None, fresh |-> FALSE,
   dirty |-> FALSE, acks |-> 0, stalled |-> FALSE]

Forward(type, src, dst, requestor) ==
  [Control(type, src, dst) EXCEPT !.requestor = requestor]

Acks(type, src, dst, n) == [Control(type, src, dst) EXCEPT !.acks = n]

\* A block with its dirty bit.  (L2 does not set the bit in what it sends to L1.)
Block(type, src, dst, fresh, dirty) ==
  [Control(type, src, dst) EXCEPT !.fresh = fresh, !.dirty = dirty]

\* Outcomes of an event: a transition to entry e that sends out and perhaps
\* wakes what is stalled on the line; a stall; no transition at all.
Go(e, out) == [kind |-> "go", e |-> e, out |-> out, wake |-> FALSE]
GoAndWake(e, out) == [kind |-> "go", e |-> e, out |-> out, wake |-> TRUE]
Stall == [kind |-> "stall"]
Invalid == [kind |-> "invalid"]
=============================================================================
