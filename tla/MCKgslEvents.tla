---------------------------- MODULE MCKgslEvents ----------------------------
(* KGSL events for TLC: the calls are about the first timestamp after Start, *)
(* which with Start = Range2 - 1 is the one after the rollover.              *)
EXTENDS KgslEvents, TLC
CONSTANTS u1, u2, d1

FirstOfRun == {Start + 1}

Shares ==
  u1 :> {"wait", "event"} @@ u2 :> {"wait", "detach"}
    @@ d1 :> {"walk", "process", "invalidate"}
=============================================================================
