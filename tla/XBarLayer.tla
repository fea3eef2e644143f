------------------------------ MODULE XBarLayer ------------------------------
(***************************************************************************)
(* One layer of a crossbar (BaseXBar::Layer, mem/xbar.{cc,hh}): the        *)
(* arbitration point in front of one destination port.  A layer is a       *)
(* record:                                                                 *)
(*   state            IDLE, BUSY or RETRY                                  *)
(*   waitingForLayer  source ports that were turned away by a busy layer   *)
(*   waitingForPeer   source port whose packet the destination refused     *)
(*   release          releaseEvent is scheduled                            *)
(*   ok               whether every assertion so far has held              *)
(***************************************************************************)
EXTENDS Integers, Sequences, SequencesExt

CONSTANT NULL

IdleLayer == [state |-> "IDLE", waitingForLayer |-> <<>>, waitingForPeer |-> NULL,
              release |-> FALSE, ok |-> TRUE]

\* Whether tryTiming() accepts.
Free(l) == l.state # "BUSY" /\ l.waitingForPeer = NULL

\* Mutant of tryTiming: the last port to come is served first.
tryTimingLast(l, src) ==
  IF Free(l) THEN [l EXCEPT !.state = "BUSY"]
  ELSE [l EXCEPT !.ok = @ /\ ~Contains(l.waitingForLayer, src),
                 !.waitingForLayer = <<src>> \o @]

tryTiming(l, src) ==
  IF Free(l) THEN [l EXCEPT !.state = "BUSY"]
  ELSE [l EXCEPT !.ok = @ /\ ~Contains(l.waitingForLayer, src),
                 !.waitingForLayer = Append(@, src)]

occupyLayer(l) ==
  [l EXCEPT !.ok = @ /\ l.state = "BUSY" /\ ~l.release, !.release = TRUE]

succeededTiming(l) == occupyLayer(l)

failedTiming(l, src) ==
  occupyLayer([l EXCEPT !.ok = @ /\ l.waitingForPeer = NULL, !.waitingForPeer = src])

\* retryWaiting() is the front port's retry between these two operators.
RetryFront(l) == Head(l.waitingForLayer)

retryWaiting(l) ==
  [l EXCEPT !.ok = @ /\ l.state = "IDLE" /\ l.waitingForLayer # <<>>,
            !.state = "RETRY", !.waitingForLayer = Tail(@)]

\* Mutant of AfterRetry: the layer is occupied although the port has sent.
AfterRetryAlways(l) == occupyLayer([l EXCEPT !.state = "BUSY"])

\* If the port did not send, the layer is occupied until the next clock edge.
AfterRetry(l) ==
  IF l.state = "RETRY" THEN occupyLayer([l EXCEPT !.state = "BUSY"]) ELSE l

\* releaseLayer() up to retryWaiting(), which follows when RetriesAfterRelease.
releaseLayer(l) ==
  [l EXCEPT !.ok = @ /\ l.state = "BUSY", !.state = "IDLE", !.release = FALSE]

RetriesAfterRelease(l) == l.waitingForLayer # <<>> /\ l.waitingForPeer = NULL

\* Mutant of recvRetry: the port that was refused is forgotten.
recvRetryForgets(l) ==
  [l EXCEPT !.ok = @ /\ l.waitingForPeer # NULL /\ l.state # "RETRY", !.waitingForPeer = NULL]

\* Mutant of recvRetry: the port that was refused goes to the back of the list.
recvRetryAtBack(l) ==
  [l EXCEPT !.ok = @ /\ l.waitingForPeer # NULL /\ l.state # "RETRY",
            !.waitingForLayer = Append(@, l.waitingForPeer), !.waitingForPeer = NULL]

\* recvRetry() up to retryWaiting(), which follows when the layer is idle.
recvRetry(l) ==
  [l EXCEPT !.ok = @ /\ l.waitingForPeer # NULL /\ l.state # "RETRY",
            !.waitingForLayer = <<l.waitingForPeer>> \o @, !.waitingForPeer = NULL]

=============================================================================
