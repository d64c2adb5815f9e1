--------------------------- MODULE MCKgslDispatch ---------------------------
(* The dispatcher for TLC: two threads that share a context.  One submits  *)
(* every kind of object and the other commands, or both submit commands    *)
(* that wait for something.                                                *)
EXTENDS KgslDispatch, TLC

CONSTANTS c1, t1, t2

Kinds == {<<"marker">>, <<"sync", "cmd">>, <<"tsync", "bind">>,
          <<"timeline", "marker">>}
Shared == t1 :> {<<c1, <<"cmd">>>>} @@ t2 :> {c1} \X Kinds
Synced == [t \in {t1, t2} |-> {<<c1, <<"sync", "cmd">>>>}]
=============================================================================
