------------------------------ MODULE MCMemPath ------------------------------
(***************************************************************************)
(* Two requestors; the bridge has room for one request and one response.   *)
(***************************************************************************)
EXTENDS MemPath

MCSrcOf == [n1 |-> "cpu", f1 |-> "cpu", f2 |-> "cpu", w1 |-> "cache"]
MCPackets == DOMAIN MCSrcOf
MCAddrOf == [n1 |-> 1, f1 |-> 2, f2 |-> 2, w1 |-> 2]
MCPortOf == [p \in MCPackets |-> IF MCAddrOf[p] = 1 THEN "near" ELSE "bridge"]
MCNeedsResponse == [p \in MCPackets |-> p # "w1"]
MCRespLatency == [near |-> 1, bridge |-> 2]
=============================================================================
