-------------------------------- MODULE Bridge -------------------------------
(***************************************************************************)
(* The bridge between two crossbars (mem/bridge.{cc,hh}).  It reserves     *)
(* room for the response before it accepts a request.  A bridge is a       *)
(* record:                                                                 *)
(*   reqs, reqEvent    transmitList and sendEvent of the request port      *)
(*   resps, respEvent  the same of the response port                       *)
(*   outstanding       outstandingResponses                                *)
(*   retryReq          a request was refused and its sender gets a retry   *)
(*   ok                whether every assertion so far has held             *)
(* The ticks of the fixed delay are left out: an event that is scheduled   *)
(* happens some time later.                                                *)
(***************************************************************************)
EXTENDS Integers, Sequences

CONSTANTS reqQueueLimit, respQueueLimit,
          NeedsResponse \* which packets expect a response

IdleBridge == [reqs |-> <<>>, reqEvent |-> FALSE, resps |-> <<>>, respEvent |-> FALSE,
               outstanding |-> 0, retryReq |-> FALSE, ok |-> TRUE]

respQueueFull(b) == b.outstanding = respQueueLimit
reqQueueFull(b) == Len(b.reqs) = reqQueueLimit

\* Whether recvTimingReq() accepts the packet.
Accepts(b, pkt) ==
  ~b.retryReq /\ ~reqQueueFull(b) /\ (NeedsResponse[pkt] => ~respQueueFull(b))

schedTimingReq(b, pkt) ==
  [b EXCEPT !.reqEvent = @ \/ b.reqs = <<>>,
            !.ok = @ /\ ~reqQueueFull(b) /\ (b.reqs = <<>> => ~b.reqEvent),
            !.reqs = Append(@, pkt)]

schedTimingResp(b, pkt) ==
  [b EXCEPT !.respEvent = @ \/ b.resps = <<>>,
            !.ok = @ /\ (b.resps = <<>> => ~b.respEvent),
            !.resps = Append(@, pkt)]

\* Mutant of recvTimingReq: no room is reserved for the response.
recvTimingReqUnreserved(b, pkt) ==
  IF Accepts(b, pkt) THEN schedTimingReq(b, pkt) ELSE [b EXCEPT !.retryReq = TRUE]

recvTimingReq(b, pkt) ==
  IF Accepts(b, pkt)
    THEN schedTimingReq([b EXCEPT !.outstanding = @ + IF NeedsResponse[pkt] THEN 1 ELSE 0], pkt)
    ELSE [b EXCEPT !.retryReq = TRUE]

recvTimingResp(b, pkt) == schedTimingResp(b, pkt)

\* BridgeRequestPort::trySendTiming() with the peer's answer, up to the retry
\* of a stalled request.
trySendReq(b, accepted) ==
  LET r == [b EXCEPT !.ok = @ /\ b.reqs # <<>>]
  IN  IF accepted
        THEN [r EXCEPT !.reqs = Tail(@), !.reqEvent = Len(b.reqs) > 1, !.retryReq = FALSE,
                       !.ok = @ /\ (Len(b.reqs) > 1 => ~b.reqEvent)]
        ELSE r

RetriesAfterReq(b, accepted) == accepted /\ b.retryReq

\* BridgeResponsePort::trySendTiming() with the peer's answer, up to the retry
\* of a stalled request.
trySendResp(b, accepted) ==
  LET r == [b EXCEPT !.ok = @ /\ b.resps # <<>>]
  IN  IF accepted
        THEN [r EXCEPT !.resps = Tail(@), !.outstanding = @ - 1, !.respEvent = Len(b.resps) > 1,
                       !.retryReq = @ /\ reqQueueFull(b),
                       !.ok = @ /\ b.outstanding # 0 /\ (Len(b.resps) > 1 => ~b.respEvent)]
        ELSE r

RetriesAfterResp(b, accepted) == accepted /\ ~reqQueueFull(b) /\ b.retryReq
=============================================================================
