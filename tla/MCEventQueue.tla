---------------------------- MODULE MCEventQueue ----------------------------
(***************************************************************************)
(* EventQueue with four events: bins of up to three, from which items are  *)
(* removed at the top, in the middle and at the bottom, with bins before   *)
(* and behind them.  e1 and e2 are alike.                                  *)
(***************************************************************************)
EXTENDS EventQueue, TLC

CONSTANTS e1, e2, e3, e4

MCEvent == {e1, e2, e3, e4}

\* Default_Pri three times and a priority below it (served first).
MCPriority == (e1 :> 0) @@ (e2 :> 0) @@ (e3 :> 0) @@ (e4 :> -1)

MCSymmetry == Permutations({e1, e2})

=============================================================================
