------------------------------- MODULE MemPath -------------------------------
(***************************************************************************)
(* Timing requests and responses through a memory system:                  *)
(*                                                                         *)
(*    requestors -- crossbar --+-- memory "near"                           *)
(*                             +-- bridge ----- memory "far"               *)
(*                                                                         *)
(* A port call is synchronous: sendTiming(), the peer's recvTiming(), a    *)
(* retry and the packet it brings happen before the first call returns.    *)
(* Each action is one event with the whole chain of calls it makes, built  *)
(* from operators that take the state and return the next.  Events are     *)
(* ordered by ticks only where the code compares ticks, in PacketQueue;    *)
(* any other event that is scheduled may be the next.                      *)
(***************************************************************************)
EXTENDS Integers, Sequences, FiniteSets

CONSTANTS Requestors,   \* CPUs, caches or devices on the CPU-side ports
          Packets,
          SrcOf,        \* the requestor of a packet
          AddrOf,       \* its address
          PortOf,       \* findPort(): "near" or "bridge"
          NeedsResponse,
          RespLatency,  \* ticks a response takes through the crossbar, per port
          ReqQueueLimit, RespQueueLimit, \* of the bridge
          NULL

VARIABLE sys \* reqLayers, respLayers, routeTo, queues, bridge, mem, blocked, refused, served

L == INSTANCE XBarLayer
Q == INSTANCE PacketQueue WITH ForceOrder <- FALSE
B == INSTANCE Bridge WITH reqQueueLimit <- ReqQueueLimit, respQueueLimit <- RespQueueLimit
M == INSTANCE SimpleMemory

Ports == {"near", "bridge"}
Mems == {"near", "far"}

\* blocked: the request a requestor was refused; refused: a requestor has turned
\* a response away; served: packets in the order in which memory served them.
Init ==
  sys = [reqLayers |-> [p \in Ports |-> L!IdleLayer],
         respLayers |-> [r \in Requestors |-> L!IdleLayer],
         routeTo |-> [p \in Packets |-> NULL],
         queues |-> [r \in Requestors |-> Q!EmptyQueue],
         bridge |-> B!IdleBridge,
         mem |-> [m \in Mems |-> M!IdleMemory],
         blocked |-> [r \in Requestors |-> NULL],
         refused |-> [r \in Requestors |-> FALSE],
         served |-> <<>>]

-----------------------------------------------------------------------------
\* Where a packet can be.

Elements(s) == {s[i] : i \in DOMAIN s}
Queued(s, r) == {s.queues[r].list[i].pkt : i \in DOMAIN s.queues[r].list}
InMem(s, m) == Elements(s.mem[m].queue)
InBridge(s) == Elements(s.bridge.reqs) \cup Elements(s.bridge.resps)

InFlight(s) == InMem(s, "near") \cup InMem(s, "far") \cup InBridge(s)
                 \cup UNION {Queued(s, r) : r \in Requestors}

\* Packets a requestor may send: it uses a packet again once it is answered.
Sendable(s, r) == {p \in Packets : SrcOf[p] = r /\ p \notin InFlight(s)}

-----------------------------------------------------------------------------
\* Requests.

\* A memory serves the request and keeps the response in its queue.
Serve(s, m, pkt) ==
  [s EXCEPT !.mem[m] = M!recvTimingReq(@, pkt),
            !.served = IF M!Accepts(s.mem[m]) /\ NeedsResponse[pkt] THEN Append(@, pkt) ELSE @]

PeerAccepts(s, port, pkt) ==
  IF port = "near" THEN M!Accepts(s.mem["near"]) ELSE B!Accepts(s.bridge, pkt)

PeerRecvTimingReq(s, port, pkt) ==
  IF port = "near" THEN Serve(s, "near", pkt)
                   ELSE [s EXCEPT !.bridge = B!recvTimingReq(@, pkt)]

\* NoncoherentXBar::recvTimingReq; a requestor keeps a packet that is refused.
recvTimingReq(s, pkt) ==
  LET r == SrcOf[pkt]
      port == PortOf[pkt]
      tried == [s EXCEPT !.reqLayers[port] = L!tryTiming(@, r)]
      sent == PeerRecvTimingReq(tried, port, pkt)
  IN  CASE ~L!Free(s.reqLayers[port]) -> [tried EXCEPT !.blocked[r] = pkt]
        [] L!Free(s.reqLayers[port]) /\ PeerAccepts(s, port, pkt) ->
             [sent EXCEPT !.reqLayers[port] = [L!succeededTiming(@) EXCEPT
                              !.ok = @ /\ s.routeTo[pkt] = NULL],
                          !.routeTo[pkt] = IF NeedsResponse[pkt] THEN r ELSE @,
                          !.blocked[r] = NULL]
        [] OTHER -> [sent EXCEPT !.reqLayers[port] = L!failedTiming(@, r), !.blocked[r] = pkt]

\* Layer::retryWaiting for requests.  A requestor answers a retry with the
\* refused packet, or with none if that has been squashed meanwhile.
retryWaitingReq(s, port, resend) ==
  LET r == L!RetryFront(s.reqLayers[port])
      woken == [s EXCEPT !.reqLayers[port] = L!retryWaiting(@), !.blocked[r] = NULL]
      t == IF resend THEN recvTimingReq(woken, s.blocked[r]) ELSE woken
  IN  [t EXCEPT !.reqLayers[port] = L!AfterRetry(@)]

\* NoncoherentXBar::recvReqRetry.
recvReqRetry(s, port, resend) ==
  LET t == [s EXCEPT !.reqLayers[port] = L!recvRetry(@)]
  IN  IF s.reqLayers[port].state = "IDLE" THEN retryWaitingReq(t, port, resend) ELSE t

-----------------------------------------------------------------------------
\* Responses.

\* Whether NoncoherentXBar::recvTimingResp accepts.
XBarAcceptsResp(s, pkt) ==
  s.routeTo[pkt] # NULL /\ L!Free(s.respLayers[s.routeTo[pkt]])

\* NoncoherentXBar::recvTimingResp.
recvTimingResp(s, port, pkt) ==
  LET r == s.routeTo[pkt]
      tried == [s EXCEPT !.respLayers[r] = L!tryTiming(@, port)]
  IN  IF XBarAcceptsResp(s, pkt)
        THEN [tried EXCEPT !.queues[r] = Q!schedSendTiming(@, pkt, RespLatency[port]),
                           !.routeTo[pkt] = NULL,
                           !.respLayers[r] = L!succeededTiming(@)]
        ELSE tried

\* SimpleMemory::dequeue of the near memory.
dequeueNear(s) ==
  LET pkt == Head(s.mem["near"].queue)
  IN  [recvTimingResp(s, "near", pkt) EXCEPT
         !.mem["near"] = M!dequeue(@, XBarAcceptsResp(s, pkt))]

\* BridgeResponsePort::trySendTiming.
trySendResp(s, resend) ==
  LET pkt == Head(s.bridge.resps)
      accepted == XBarAcceptsResp(s, pkt)
      t == [recvTimingResp(s, "bridge", pkt) EXCEPT !.bridge = B!trySendResp(@, accepted)]
  IN  IF B!RetriesAfterResp(s.bridge, accepted)
        THEN recvReqRetry(t, "bridge", resend) ELSE t

\* BridgeRequestPort::trySendTiming.
trySendReq(s, resend) ==
  LET pkt == Head(s.bridge.reqs)
      accepted == M!Accepts(s.mem["far"])
      t == [Serve(s, "far", pkt) EXCEPT !.bridge = B!trySendReq(@, accepted)]
  IN  IF B!RetriesAfterReq(s.bridge, accepted)
        THEN recvReqRetry(t, "bridge", resend) ELSE t

-----------------------------------------------------------------------------
\* Events.

\* A requestor that is not waiting for a retry sends a request.
SendTimingReq(r) ==
  /\ sys.blocked[r] = NULL
  /\ \E pkt \in Sendable(sys, r) : sys' = recvTimingReq(sys, pkt)

\* releaseEvent of a request layer.
ReleaseReqLayer(port) ==
  /\ sys.reqLayers[port].release
  /\ LET s == [sys EXCEPT !.reqLayers[port] = L!releaseLayer(@)]
     IN  IF L!RetriesAfterRelease(s.reqLayers[port])
           THEN \E resend \in BOOLEAN : sys' = retryWaitingReq(s, port, resend)
           ELSE sys' = s

\* releaseEvent of a response layer: the port in front sends its response again.
ReleaseRespLayer(r) ==
  /\ sys.respLayers[r].release
  /\ LET s == [sys EXCEPT !.respLayers[r] = L!releaseLayer(@)]
         t == [s EXCEPT !.respLayers[r] = L!retryWaiting(@)]
     IN  IF ~L!RetriesAfterRelease(s.respLayers[r]) THEN sys' = s
         ELSE \E resend \in BOOLEAN :
                LET u == IF L!RetryFront(s.respLayers[r]) = "near"
                           THEN [dequeueNear(t) EXCEPT !.mem["near"].ok = @ /\ t.mem["near"].retryResp]
                           ELSE trySendResp(t, resend)
                IN  sys' = [u EXCEPT !.respLayers[r] = L!AfterRetry(@)]

\* releaseEvent of a memory.
ReleaseMem(m) ==
  /\ sys.mem[m].isBusy
  /\ LET s == [sys EXCEPT !.mem[m] = M!release(@)]
     IN  IF ~sys.mem[m].retryReq THEN sys' = s
         ELSE \E resend \in BOOLEAN :
                sys' = IF m = "near" THEN recvReqRetry(s, "near", resend)
                                     ELSE trySendReq(s, resend)

\* dequeueEvent of the near memory.
DequeueNear ==
  /\ sys.mem["near"].dequeue
  /\ sys' = dequeueNear([sys EXCEPT !.mem["near"].dequeue = FALSE])

\* dequeueEvent of the far memory: the bridge has reserved room for the response.
DequeueFar ==
  /\ sys.mem["far"].dequeue
  /\ LET m == [sys.mem["far"] EXCEPT !.dequeue = FALSE]
     IN  sys' = [sys EXCEPT !.bridge = B!recvTimingResp(@, Head(m.queue)),
                            !.mem["far"] = M!dequeue(m, TRUE)]

\* sendEvent of the bridge's request port, and of its response port.
BridgeSendReq ==
  /\ sys.bridge.reqEvent
  /\ \E resend \in BOOLEAN :
       sys' = trySendReq([sys EXCEPT !.bridge.reqEvent = FALSE], resend)

BridgeSendResp ==
  /\ sys.bridge.respEvent
  /\ \E resend \in BOOLEAN :
       sys' = trySendResp([sys EXCEPT !.bridge.respEvent = FALSE], resend)

\* The requestor takes the packet at the front of its response queue.
Deliver(s, r, accepted) ==
  IF accepted
    THEN LET pkt == Head(s.queues[r].list).pkt
         IN  [s EXCEPT !.served = SelectSeq(@, LAMBDA p : p # pkt)]
    ELSE [s EXCEPT !.refused[r] = TRUE]

\* sendEvent of a response queue; the requestor may refuse.
QueueSend(r) ==
  /\ sys.queues[r].event = 0
  /\ \E accepted \in BOOLEAN :
       sys' = [Deliver(sys, r, accepted) EXCEPT
                 !.queues[r] = Q!processSendEvent(@, accepted)]

\* A requestor that refused a response is ready for it.
SendRetryResp(r) ==
  /\ sys.refused[r]
  /\ sys' = [Deliver(sys, r, TRUE) EXCEPT !.refused[r] = FALSE,
                                          !.queues[r] = Q!retry(@, TRUE)]

\* Time passes unless a queue has something to send now.
Tick ==
  /\ \A r \in Requestors : sys.queues[r].event # 0
  /\ \E r \in Requestors : sys.queues[r].list # <<>>
  /\ sys' = [sys EXCEPT !.queues = [r \in Requestors |-> Q!Elapse(@[r])]]

Next ==
  \/ \E r \in Requestors :
       SendTimingReq(r) \/ ReleaseRespLayer(r) \/ QueueSend(r) \/ SendRetryResp(r)
  \/ \E port \in Ports : ReleaseReqLayer(port)
  \/ \E m \in Mems : ReleaseMem(m)
  \/ DequeueNear \/ DequeueFar \/ BridgeSendReq \/ BridgeSendResp \/ Tick

\* Scheduled events happen, and a requestor that refused a response comes back.
Fairness ==
  /\ \A r \in Requestors : WF_sys(ReleaseRespLayer(r)) /\ WF_sys(QueueSend(r))
                             /\ WF_sys(SendRetryResp(r))
  /\ \A port \in Ports : WF_sys(ReleaseReqLayer(port))
  /\ \A m \in Mems : WF_sys(ReleaseMem(m))
  /\ WF_sys(DequeueNear) /\ WF_sys(DequeueFar)
  /\ WF_sys(BridgeSendReq) /\ WF_sys(BridgeSendResp) /\ WF_sys(Tick)

Spec == Init /\ [][Next]_sys /\ Fairness

-----------------------------------------------------------------------------
\* No assertion of the packet queues, crossbar layers, bridge and memories
\* fails: a retry finds a packet that is ready, no layer is occupied twice, no
\* port waits twice, no event is scheduled twice, no response is unexpected.
AssertsHold ==
  /\ \A port \in Ports : sys.reqLayers[port].ok
  /\ \A r \in Requestors : sys.respLayers[r].ok /\ sys.queues[r].ok
  /\ sys.bridge.ok
  /\ \A m \in Mems : sys.mem[m].ok

\* Whoever was turned away will be called back: each waiting sender is known to
\* the component it waits for, and that component has an event scheduled or
\* waits itself for one that has (Layer::waitingForLayer and waitingForPeer,
\* retryReq, retryResp, waitingOnRetry).
NoLostRetry ==
  /\ \A r \in Requestors :
       LET l == sys.reqLayers[PortOf[sys.blocked[r]]]
       IN  sys.blocked[r] # NULL => r \in Elements(l.waitingForLayer) \cup {l.waitingForPeer}
  /\ \A port \in Ports :
       LET l == sys.reqLayers[port]
           peerRetries == IF port = "near" THEN sys.mem["near"].retryReq ELSE sys.bridge.retryReq
       IN  /\ l.waitingForPeer # NULL <=> peerRetries
           /\ l.waitingForLayer # <<>> => l.release \/ peerRetries
  /\ \A m \in Mems : sys.mem[m].retryReq => sys.mem[m].isBusy
  /\ sys.bridge.retryReq => sys.bridge.reqs # <<>> \/ sys.bridge.outstanding > 0
  /\ sys.bridge.reqs # <<>> => sys.bridge.reqEvent \/ sys.mem["far"].retryReq
  /\ \A r \in Requestors :
       /\ sys.respLayers[r].waitingForLayer # <<>> => sys.respLayers[r].release
       /\ sys.queues[r].list # <<>> => (sys.queues[r].event # Q!None \/ sys.refused[r])
  /\ sys.mem["far"].queue # <<>> => sys.mem["far"].dequeue
  /\ sys.mem["near"].queue # <<>> =>
       \/ sys.mem["near"].dequeue
       \/ \E r \in Requestors : "near" \in Elements(sys.respLayers[r].waitingForLayer)
  /\ sys.bridge.resps # <<>> =>
       \/ sys.bridge.respEvent
       \/ \E r \in Requestors : "bridge" \in Elements(sys.respLayers[r].waitingForLayer)

\* A packet that was accepted is in one place, the routing table of the
\* crossbar knows exactly the requests whose response has not come back, and
\* the bridge has reserved room for exactly the responses it will get.
NothingLostOrDuplicated ==
  LET Count(p, q) == Cardinality({i \in DOMAIN q : q[i] = p})
      behindBridge(p) == Count(p, sys.bridge.reqs) + Count(p, sys.mem["far"].queue)
                           + Count(p, sys.bridge.resps)
      unanswered(p) == Count(p, sys.mem["near"].queue) + behindBridge(p)
      answered(p) == Cardinality({<<r, i>> \in Requestors \X (1..Cardinality(Packets)) :
                       i \in DOMAIN sys.queues[r].list /\ sys.queues[r].list[i].pkt = p})
  IN  /\ \A p \in Packets :
           /\ unanswered(p) + answered(p) <= 1
           /\ sys.routeTo[p] = IF unanswered(p) = 1 /\ NeedsResponse[p] THEN SrcOf[p] ELSE NULL
      /\ sys.bridge.outstanding =
           Cardinality({p \in Packets : NeedsResponse[p] /\ behindBridge(p) = 1})
      /\ sys.bridge.outstanding <= RespQueueLimit

\* A requestor gets its responses for one address in the order in which the
\* memory served the requests, although responses are queued by tick, are
\* refused by busy layers and requestors, and are sent again.
SameAddressInOrder ==
  [][\A i, j \in DOMAIN sys.served :
       /\ i < j
       /\ SrcOf[sys.served[i]] = SrcOf[sys.served[j]]
       /\ AddrOf[sys.served[i]] = AddrOf[sys.served[j]]
       /\ sys.served[j] \notin Elements(sys'.served)
       => sys.served[i] \notin Elements(sys'.served)]_sys

\* A request that was refused gets through or is squashed, however the others
\* use the path: the retry lists starve nobody.
BlockedGetsThrough == \A r \in Requestors : []<>(sys.blocked[r] = NULL)

\* A request that was accepted is answered, even when the queues of the bridge
\* are full and the requestors send without end.
AcceptedIsAnswered == \A p \in Packets : []<>(p \notin InFlight(sys))
=============================================================================
