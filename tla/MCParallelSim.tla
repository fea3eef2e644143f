---------------------------- MODULE MCParallelSim ----------------------------
(***************************************************************************)
(* Two queues: each has an event of its own that reschedules itself, and   *)
(* the thread of queue 0 sends an event to queue 1.  Global events of      *)
(* Sim_Exit_Pri are created by both threads, as by exitSimLoop(); stat is  *)
(* created by schedStatEvent().                                            *)
(***************************************************************************)
EXTENDS ParallelSim

CONSTANTS tick0, tick1, cross, exit1, exit2, stat

MCHome == [e \in Local |-> IF e = tick0 THEN 0 ELSE 1]
MCSender == [e \in Local |-> IF e = tick1 THEN 1 ELSE 0]

\* Default_Pri, Stat_Event_Pri, Progress_Event_Pri, Sim_Exit_Pri.
MCPriority == [e \in Event |->
  CASE e \in Local -> 0 [] e = stat -> 90 [] e = Sync -> 95 [] OTHER -> 100]

\* exitSimLoop() and schedStatEvent() add simQuantum.
MCOffset == [g \in Global |-> Quantum]

\* simulate() without a limit.
MCCycles == {-1}
=============================================================================
