----------------------------- MODULE DscRefine -----------------------------
(* DSC keeps the promise of DscLock: seen without its queues, events,      *)
(* counters and owners it is a lock on the tree.  The holder of a context  *)
(* is its active_desc, whoever is between op_start and op_stop shares it,  *)
(* and a completed wait_for_ops drains it.                                 *)
EXTENDS DscInv

Lock == INSTANCE DscLock
          WITH Branch <- Lineage, live <- attached, holder <- active,
               sharers <- [n \in Node |-> OpsAt(n)], drained <- quiet

\* Every step of every DSC call is a step of the abstract lock or invisible
\* to it: no path through start, start_wait, trigger, abort, wait_for_ops,
\* creation and destruction grants, shares, drains or frees a context in a
\* state in which the lock would not.
ImplementsLock == Lock!LockSpec
=============================================================================
