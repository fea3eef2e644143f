----------------------------- MODULE PacketQueue -----------------------------
(***************************************************************************)
(* A queue of packets that wait to be sent (mem/packet_queue.{cc,hh}) as   *)
(* the queued ports of mem/qport.hh use it.  A queue is a record:          *)
(*   list     transmitList: packets with the tick at which they are ready  *)
(*   event    when sendEvent is scheduled, or None                         *)
(*   waiting  waitingOnRetry                                               *)
(*   ok       whether every assertion so far has held                      *)
(* Ticks are relative to curTick() and a tick that has passed is 0, which  *)
(* loses nothing: packets are compared only with ticks that lie ahead.     *)
(***************************************************************************)
EXTENDS Integers, Sequences, FiniteSetsExt, SequencesExt

CONSTANTS ForceOrder, \* forceOrder: never overtake a packet of the same address
          AddrOf      \* the address of every packet

None == -1

EmptyQueue == [list |-> <<>>, event |-> None, waiting |-> FALSE, ok |-> TRUE]

deferredPacketReady(q) == q.list # <<>> /\ Head(q.list).tick = 0

deferredPacketReadyTime(q) == IF q.list = <<>> THEN None ELSE Head(q.list).tick

\* None stands for MaxTick: there is nothing to send.
schedSendEvent(q, when) ==
  LET at == Max({when, 1})
  IN  CASE q.waiting -> [q EXCEPT !.ok = @ /\ q.event = None]
        [] ~q.waiting /\ when # None /\ (q.event = None \/ at < q.event) ->
             [q EXCEPT !.event = at]
        [] OTHER -> q

\* Mutant of schedSendTiming: a packet overtakes one with the same tick.
schedSendTimingEqualOvertakes(q, pkt, when) ==
  LET behind == {i \in DOMAIN q.list : \/ ForceOrder /\ AddrOf[q.list[i].pkt] = AddrOf[pkt]
                                       \/ q.list[i].tick < when}
      pos == Max(behind \cup {0})
      r == [q EXCEPT !.list = InsertAt(@, pos + 1, [pkt |-> pkt, tick |-> when])]
  IN  IF pos = 0 THEN schedSendEvent(r, when) ELSE r

\* Behind the last packet that is ready no later, or has the same address when
\* the order is forced; the event is looked at only for a new head.
schedSendTiming(q, pkt, when) ==
  LET behind == {i \in DOMAIN q.list : \/ ForceOrder /\ AddrOf[q.list[i].pkt] = AddrOf[pkt]
                                       \/ q.list[i].tick <= when}
      pos == Max(behind \cup {0})
      r == [q EXCEPT !.list = InsertAt(@, pos + 1, [pkt |-> pkt, tick |-> when])]
  IN  IF pos = 0 THEN schedSendEvent(r, when) ELSE r

\* The peer's answer to sendTiming() is an argument; a refused packet is put
\* back at the front.
sendDeferredPacket(q, accepted) ==
  LET r == [q EXCEPT !.ok = @ /\ ~q.waiting /\ deferredPacketReady(q),
                     !.list = IF accepted THEN Tail(@) ELSE @,
                     !.waiting = ~accepted]
  IN  IF accepted THEN schedSendEvent(r, deferredPacketReadyTime(r)) ELSE r

processSendEvent(q, accepted) == sendDeferredPacket([q EXCEPT !.event = None], accepted)

retry(q, accepted) ==
  sendDeferredPacket([q EXCEPT !.ok = @ /\ q.waiting, !.waiting = FALSE], accepted)

\* One tick passes.
Elapse(q) ==
  [q EXCEPT !.list = [i \in DOMAIN @ |-> [@[i] EXCEPT !.tick = IF @ > 0 THEN @ - 1 ELSE 0]],
            !.event = IF @ > 0 THEN @ - 1 ELSE @]
=============================================================================
