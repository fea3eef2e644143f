--------------------------- MODULE MCEventRestore ---------------------------
(* EventRestore with two events of different priority. *)
EXTENDS EventRestore, TLC

CONSTANTS e1, e2

MCEvent == {e1, e2}
MCPriority == (e1 :> 0) @@ (e2 :> -1)

=============================================================================
