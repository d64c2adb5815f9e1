--------------------------- MODULE KgslSyncObjInv ---------------------------
(***************************************************************************)
(* The inductive invariant behind the lifetime of a sync object: who may   *)
(* put which of its references, at every step of the callbacks of its      *)
(* points and of its destroy.                                              *)
(***************************************************************************)
EXTENDS KgslSyncObj

DestroySteps == {"destroy", "clear", "cancel", "put"}

\* The steps that are about one point, and all steps.
PointSteps == {"register", "registered", "cancel"}
Steps == {"idle", "add", "register", "registered", "arm", "take"} \cup DestroySteps

Stages == {"none", "new", "armed", "queued", "called", "cleared", "expired", "late", "work",
           "over"}

\* The values of the whole state.
StateTypes ==
  /\ obj \in [ref : Nat, pending : SUBSET Point, canary : BOOLEAN]
  /\ pt \in [Point -> [st : Stages, own : 0..2]]
  /\ timer \in {"off", "armed", "dump", "dumping"}
  /\ ctx \in [queued : BOOLEAN, lock : {"free", "dispatch", "timer"}, detached : BOOLEAN,
              job : BOOLEAN, kicked : BOOLEAN]
  /\ th \in [Thread -> [pc : Steps, left : SUBSET Point, p : SUBSET Point]]

\* The thread has the object's first reference.
Holds(x) == th[x].pc \in {"add", "register", "registered"} \cup DestroySteps

\* One holder at a time: the submitter hands the reference to the queue, and
\* the queue to the dispatcher or to the detach, whoever comes first.
OneHolder ==
  /\ \A x, y \in Thread : Holds(x) /\ Holds(y) => x = y
  /\ ctx.queued => \A x \in Thread : ~Holds(x)

\* The steps of each thread; the dispatcher has the context's lock while it
\* arms the timer of an object that is still queued.
ThreadInv ==
  /\ th["submit"].pc \notin {"arm", "take"}
  /\ th["dispatch"].pc \in {"idle", "arm"} \cup DestroySteps
  /\ th["detach"].pc \in {"idle", "take"} \cup DestroySteps
  /\ th["detach"].pc # "idle" => ctx.detached
  /\ th["dispatch"].pc = "arm" => ctx.queued /\ ctx.lock = "dispatch"
  /\ \A x \in Thread : th[x].pc \in PointSteps => \A p, q \in th[x].p : p = q

\* The canary timer is deleted before the points are: it can only be there
\* while the object is queued or its destroy has just begun.
TimerInv == timer # "off" => ctx.queued \/ \E x \in Thread : th[x].pc = "destroy"

\* It is started once.
CanaryInv == timer # "off" => obj.canary

\* The destroy has cleared the bit of the point and is to put its references;
\* the submitter has yet to put the creator's reference of its fence.
Cancelling(p) == \E x \in Thread : th[x].pc = "cancel" /\ p \in th[x].p
Creating(p) == th["submit"].pc \in {"register", "registered"} /\ p \in th["submit"].p

\* The bit of the point is set, or one of the two that race for it has cleared
\* it and still has to put what the point holds.
Claimed(p) == p \in obj.pending \/ pt[p].st \in {"cleared", "expired", "work"} \/ Cancelling(p)

Bit(b) == IF b THEN 1 ELSE 0

\* What a point holds besides the object: a timestamp its context, a timeline
\* its fence and, before the creator's reference is put, that.
Held(p) ==
  IF p \in Timelines THEN Bit(Claimed(p)) + Bit(Creating(p))
  ELSE IF p \in Timestamps THEN Bit(Claimed(p)) ELSE 0

\* The stage of the callback of a point and the state of its bit.
PointInv(p) ==
  /\ p \in obj.pending => pt[p].st \in {"new", "armed", "queued", "called"}
  /\ Cancelling(p) => p \notin obj.pending /\ pt[p].st \in {"armed", "queued", "called", "late", "over"}
  /\ pt[p].st \in {"new", "armed"} => p \in obj.pending \/ Cancelling(p)
  /\ p \notin Timestamps /\ pt[p].st \in {"called", "late"} => p \in obj.pending \/ Cancelling(p)
  /\ pt[p].st = "queued" => p \in Timestamps
  /\ pt[p].st = "work" => p \in Timelines
  /\ pt[p].st = "new" <=> th["submit"].pc = "register" /\ p \in th["submit"].p
  /\ th["submit"].pc = "registered" /\ p \in th["submit"].p => p \in Timelines
  /\ pt[p].own = Held(p)

\* The point has to put its reference of the object: a timestamp always by its
\* callback, the others by whoever has claimed it.
Owes(p) == IF p \in Timestamps THEN pt[p].st \notin {"none", "over"} ELSE Claimed(p)
Owers == {p \in Point : Owes(p)}

\* The references of the object, counted by the points that owe them.
Refs == obj.ref = Bit(HasHolder) + Cardinality(Owers) + Bit(timer \in {"dump", "dumping"})

\* The whole of it.
SyncObjIInv ==
  /\ StateTypes /\ OneHolder /\ ThreadInv /\ TimerInv
  /\ \A p \in Point : PointInv(p)
  /\ Refs
=============================================================================
