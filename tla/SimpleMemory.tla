----------------------------- MODULE SimpleMemory ----------------------------
(***************************************************************************)
(* A memory with a bandwidth limit and a queue of responses                *)
(* (mem/simple_mem.{cc,hh}).  A memory is a record:                        *)
(*   isBusy     a request is being transferred; releaseEvent is scheduled  *)
(*   retryReq   a request was refused and its sender gets a retry          *)
(*   queue      packetQueue                                                *)
(*   dequeue    dequeueEvent is scheduled                                  *)
(*   retryResp  the response at the front was refused                      *)
(*   ok         whether every assertion so far has held                    *)
(* The latency is fixed (latency_var is 0, the default) and bandwidth is   *)
(* limited, so that responses are queued in the order of the requests.  An *)
(* event that is scheduled happens some time later.                        *)
(***************************************************************************)
EXTENDS Integers, Sequences

CONSTANT NeedsResponse \* which packets expect a response

IdleMemory == [isBusy |-> FALSE, retryReq |-> FALSE, queue |-> <<>>, dequeue |-> FALSE,
               retryResp |-> FALSE, ok |-> TRUE]

Accepts(m) == ~m.retryReq /\ ~m.isBusy

recvTimingReq(m, pkt) ==
  CASE m.retryReq -> m
    [] ~m.retryReq /\ m.isBusy -> [m EXCEPT !.retryReq = TRUE]
    [] OTHER -> IF NeedsResponse[pkt]
                  THEN [m EXCEPT !.isBusy = TRUE, !.dequeue = @ \/ ~m.retryResp,
                                 !.queue = Append(@, pkt)]
                  ELSE [m EXCEPT !.isBusy = TRUE]

\* release() up to sendRetryReq(), which follows when retryReq was set.
release(m) == [m EXCEPT !.ok = @ /\ m.isBusy, !.isBusy = FALSE, !.retryReq = FALSE]

\* dequeue() with the peer's answer to the response at the front.
dequeue(m, accepted) ==
  LET r == [m EXCEPT !.ok = @ /\ m.queue # <<>>, !.retryResp = ~accepted]
  IN  IF accepted THEN [r EXCEPT !.queue = Tail(@), !.dequeue = Len(m.queue) > 1] ELSE r

=============================================================================
