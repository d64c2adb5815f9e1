--------------------------- MODULE MCKgslTimeline ---------------------------
(* KGSL timelines for TLC: one timeline, the values user space passes, who   *)
(* makes which calls, and what is interchangeable in the run.                *)
EXTENDS KgslTimeline, TLC
CONSTANTS t1, x1, x2

OneOrBoth == {<<[tl |-> t1, seq |-> 1]>>, <<[tl |-> t1, seq |-> 2], [tl |-> t1, seq |-> 1]>>}

Shares == x1 :> {"fence_get", "wait", "signal"} @@ x2 :> {"fence_get", "aux", "destroy"}

Symmetry == Permutations(Fence)
=============================================================================
