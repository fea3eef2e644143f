-------------------------------- MODULE MCO3 --------------------------------
(***************************************************************************)
(* Four programs: one that fills the reorder buffer, one that runs out of  *)
(* physical registers, both with a register that keeps its mapping, one    *)
(* with the three kinds of serializing instruction, and one that runs out  *)
(* of registers with enough behind it to fill the skid buffer and more.    *)
(* At most two things go wrong, in the longest program nothing does.       *)
(***************************************************************************)
EXTENDS O3Pipeline

I(d, k) == [dest |-> d, kind |-> k]

MCPrograms == {
    <<I("a", "plain"), I("m", "plain"), I("m", "plain"), I("m", "plain"),
      I("a", "plain")>>,
    <<I("a", "plain"), I("a", "plain"), I("m", "plain"), I("a", "plain")>>,
    <<I("a", "plain"), I("a", "after"), I(None, "plain"), I("a", "before"),
      I("a", "squashAfter")>>,
    <<I("a", "plain"), I("a", "plain"), I("a", "plain"), I("m", "plain"),
      I("m", "plain"), I("m", "plain"), I("m", "plain")>>}

MCMaxBad == [p \in MCPrograms |-> IF Len(p) > 5 THEN 0 ELSE 2]
=============================================================================
