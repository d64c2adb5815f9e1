----------------------------- MODULE KgslSyncObj -----------------------------
(***************************************************************************)
(* A KGSL sync object: a submission that holds back a context's queue      *)
(* until its sync points (a timestamp of a context, a fence, a timeline)   *)
(* have expired.                                                           *)
(*                                                                         *)
(* Each point has a bit in the pending mask and a reference of the object. *)
(* Its callback and the destroy of the object race for the bit; whoever    *)
(* clears it owns what the point holds.  A fence runs its callbacks with   *)
(* its lock held, and removing a callback takes that lock; the event of a  *)
(* timestamp is cancelled by handing it to the event worker.  A canary     *)
(* timer reports an object that waits too long.                            *)
(*                                                                         *)
(* One object, the thread that submits it, the dispatcher, a thread that   *)
(* detaches the context and the sources of the points.                     *)
(***************************************************************************)
EXTENDS Naturals, FiniteSets

CONSTANTS
  Timestamps, Fences, Timelines,   \* the points, by kind
  Failures                         \* what may fail in the run

Point == Timestamps \cup Fences \cup Timelines

ASSUME SyncObjAssumption ==
  /\ Timestamps \cap Fences = {} /\ Timestamps \cap Timelines = {}
  /\ Fences \cap Timelines = {} /\ IsFiniteSet(Point)
  /\ Failures \subseteq {"add", "detach"}

VARIABLES
  obj,    \* struct kgsl_drawobj_sync: references, pending mask, canary
  pt,     \* the points: state of the callback, references held for the point
  timer,  \* the canary timer and its handler
  ctx,    \* the context: the object is queued, lock, detached; it is on the
          \* dispatcher's list; the dispatcher is scheduled
  th      \* submitter, dispatcher and detach: step, points to destroy, the point
          \* that is being added or cancelled

vars == <<obj, pt, timer, ctx, th>>

Thread == {"submit", "dispatch", "detach"}

\* kgsl_drawobj_sync_create: the submitter has the first reference.
Init ==
  /\ obj = [ref |-> 1, pending |-> {}, canary |-> FALSE]
  /\ pt = [p \in Point |-> [st |-> "none", own |-> 0]]
  /\ timer = "off"
  /\ ctx = [queued |-> FALSE, lock |-> "free", detached |-> FALSE, job |-> FALSE,
            kicked |-> FALSE]
  /\ th = [x \in Thread |-> [pc |-> IF x = "submit" THEN "add" ELSE "idle",
                             left |-> {}, p |-> {}]]

To(x, pc) == th' = [th EXCEPT ![x].pc = pc]

\* A callback of the fence is running, with the fence's lock held.
InCallback(p) == pt[p].st \in {"called", "cleared", "expired", "late"}

-----------------------------------------------------------------------------
(* Submission.                                                             *)

\* drawobj_add_sync_*, before the callback is registered: a reference for the
\* point, its bit, and what it holds: the context of a timestamp; of a
\* timeline's fence the creator's reference and one to hand over.
AddSync(p) ==
  /\ th["submit"].pc = "add" /\ pt[p].st = "none"
  /\ obj' = [obj EXCEPT !.ref = @ + 1, !.pending = @ \cup {p}]
  /\ pt' = [pt EXCEPT ![p] = [st |-> "new",
                              own |-> IF p \in Timestamps THEN 1
                                      ELSE IF p \in Timelines THEN 2 ELSE 0]]
  /\ th' = [th EXCEPT !["submit"].pc = "register", !["submit"].p = {p}]
  /\ UNCHANGED <<timer, ctx>>

\* The source of the next point is not there, or a later object of the
\* submission could not be made.
AddFails ==
  /\ "add" \in Failures /\ th["submit"].pc = "add"
  /\ To("submit", "destroy")
  /\ UNCHANGED <<obj, pt, timer, ctx>>

\* The callback is registered, or has come too late for the signal, or that
\* failed and the submission with it.  The event of a timestamp that has
\* retired goes to the worker.
Register(p) ==
  /\ th["submit"].pc = "register" /\ p \in th["submit"].p
  /\ \/ /\ pt' = [pt EXCEPT ![p].st = "armed"]
        /\ To("submit", IF p \in Timelines THEN "registered" ELSE "add")
        /\ UNCHANGED obj
     \/ /\ p \in Timestamps
        /\ pt' = [pt EXCEPT ![p].st = "queued"]
        /\ To("submit", "add")
        /\ UNCHANGED obj
     \/ /\ p \notin Timestamps
        /\ pt' = [pt EXCEPT ![p] = [st |-> "over", own |-> 0]]
        /\ obj' = [obj EXCEPT !.ref = @ - 1, !.pending = @ \ {p}]
        /\ To("submit", "add")
     \/ /\ "add" \in Failures /\ p \notin Timelines
        /\ pt' = [pt EXCEPT ![p] = [st |-> "over", own |-> 0]]
        /\ obj' = [obj EXCEPT !.ref = @ - 1, !.pending = @ \ {p}]
        /\ To("submit", "destroy")
  /\ UNCHANGED <<timer, ctx>>

\* The creator's reference of a timeline's fence is put.
Registered(p) ==
  /\ th["submit"].pc = "registered" /\ p \in th["submit"].p
  /\ pt' = [pt EXCEPT ![p].own = @ - 1]
  /\ To("submit", "add")
  /\ UNCHANGED <<obj, timer, ctx>>

\* queue_cmds, under the context's lock: not to a detached context.
QueueCmds ==
  /\ th["submit"].pc = "add" /\ \A p \in Point : pt[p].st # "none"
  /\ ctx.lock = "free"
  /\ \/ ctx.detached /\ To("submit", "destroy") /\ UNCHANGED ctx
     \/ /\ ~ctx.detached /\ To("submit", "idle")
        /\ ctx' = [ctx EXCEPT !.queued = TRUE, !.job = TRUE, !.kicked = TRUE]
  /\ UNCHANGED <<obj, pt, timer>>

-----------------------------------------------------------------------------
(* Expiry of a point.                                                      *)

\* The fence signals; the event's timestamp retires.
Signal(p) ==
  /\ pt[p].st = "armed"
  /\ pt' = [pt EXCEPT ![p].st = IF p \in Timestamps THEN "queued" ELSE "called"]
  /\ UNCHANGED <<obj, timer, ctx, th>>

\* The event worker comes to the event.
EventWorker(p) ==
  /\ pt[p].st = "queued"
  /\ pt' = [pt EXCEPT ![p].st = "called"]
  /\ UNCHANGED <<obj, timer, ctx, th>>

\* Slip: the bit is read, and cleared without a second look.
SyncExpireUntested(p) ==
  /\ pt[p].st = "called"
  /\ obj' = [obj EXCEPT !.pending = @ \ {p}]
  /\ pt' = [pt EXCEPT ![p].st = "cleared"]
  /\ UNCHANGED <<timer, ctx, th>>

\* drawobj_sync_expire: test_and_clear_bit.
SyncExpire(p) ==
  /\ pt[p].st = "called"
  /\ obj' = [obj EXCEPT !.pending = @ \ {p}]
  /\ pt' = [pt EXCEPT ![p].st = IF p \in obj.pending THEN "cleared" ELSE "late"]
  /\ UNCHANGED <<timer, ctx, th>>

\* adreno_dispatcher_queue_context: a detached context is not listed again.
Sched(c) == [c EXCEPT !.job = @ \/ ~c.detached, !.kicked = TRUE]

\* Slip: the last point does not kick the dispatcher.
SyncExpireKickNot(p) ==
  /\ pt[p].st = "cleared"
  /\ timer' = IF obj.pending = {} /\ timer = "armed" THEN "off" ELSE timer
  /\ pt' = [pt EXCEPT ![p].st = "expired"]
  /\ UNCHANGED <<obj, ctx, th>>

\* The rest of it: after the last point the timer is deleted (its handler may
\* be running) and the dispatcher is kicked.
SyncExpireKick(p) ==
  /\ pt[p].st = "cleared"
  /\ \/ /\ obj.pending = {}
        /\ timer' = IF timer = "armed" THEN "off" ELSE timer
        /\ ctx' = Sched(ctx)
     \/ obj.pending # {} /\ UNCHANGED <<timer, ctx>>
  /\ pt' = [pt EXCEPT ![p].st = "expired"]
  /\ UNCHANGED <<obj, th>>

\* drawobj_sync_func, run by the event worker.
SyncFunc(p) ==
  /\ pt[p].st \in {"expired", "late"}
  /\ p \in Timestamps
  /\ pt' = [pt EXCEPT ![p] = [st |-> "over",
                              own |-> IF @.st = "expired" THEN @.own - 1 ELSE @.own]]
  /\ obj' = [obj EXCEPT !.ref = @ - 1]
  /\ UNCHANGED <<timer, ctx, th>>

\* drawobj_sync_fence_func.
SyncFenceFunc(p) ==
  /\ pt[p].st \in {"expired", "late"}
  /\ p \in Fences
  /\ obj' = [obj EXCEPT !.ref = IF pt[p].st = "expired" THEN @ - 1 ELSE @]
  /\ pt' = [pt EXCEPT ![p].st = "over"]
  /\ UNCHANGED <<timer, ctx, th>>

\* drawobj_sync_timeline_fence_callback leaves the rest to a worker.
TimelineCallback(p) ==
  /\ pt[p].st \in {"expired", "late"}
  /\ p \in Timelines
  /\ pt' = [pt EXCEPT ![p].st = IF @ = "expired" THEN "work" ELSE "over"]
  /\ UNCHANGED <<obj, timer, ctx, th>>

TimelineWork(p) ==
  /\ pt[p].st = "work"
  /\ pt' = [pt EXCEPT ![p].st = "over", ![p].own = @ - 1]
  /\ obj' = [obj EXCEPT !.ref = @ - 1]
  /\ UNCHANGED <<timer, ctx, th>>

-----------------------------------------------------------------------------
(* The dispatcher and the detach of the context.                           *)

\* The dispatcher comes to the context on its list.  A detached context is
\* dropped; of the others it looks at the queue, with the lock.  An object that
\* is not pending any more is popped and destroyed; one that is leaves the
\* context on the list.  Faults, which end the walk early, are in KgslDispatch.
Dispatch ==
  /\ th["dispatch"].pc = "idle" /\ ctx.kicked
  /\ \/ /\ ctx.detached \/ ~ctx.job
        /\ ctx' = [ctx EXCEPT !.kicked = FALSE, !.job = FALSE]
        /\ UNCHANGED th
     \/ /\ ~ctx.detached /\ ctx.job /\ ctx.lock = "free" /\ ~ctx.queued
        /\ ctx' = [ctx EXCEPT !.kicked = FALSE, !.job = FALSE]
        /\ UNCHANGED th
     \/ /\ ~ctx.detached /\ ctx.job /\ ctx.lock = "free" /\ ctx.queued
        /\ obj.pending = {}
        /\ ctx' = [ctx EXCEPT !.kicked = FALSE, !.job = FALSE, !.queued = FALSE,
                              !.lock = "dispatch"]
        /\ To("dispatch", "destroy")
     \/ /\ ~ctx.detached /\ ctx.job /\ ctx.lock = "free" /\ ctx.queued
        /\ obj.pending # {}
        /\ ctx' = [ctx EXCEPT !.kicked = FALSE, !.lock = "dispatch"]
        /\ To("dispatch", "arm")
  /\ UNCHANGED <<obj, pt, timer>>

\* Otherwise the canary timer is started, once.
StartCanary ==
  /\ th["dispatch"].pc = "arm"
  /\ obj' = [obj EXCEPT !.canary = TRUE]
  /\ timer' = IF ~obj.canary THEN "armed" ELSE timer
  /\ ctx' = [ctx EXCEPT !.lock = "free"]
  /\ To("dispatch", "idle")
  /\ UNCHANGED pt

\* kgsl_context_detach marks the context, without its lock.
DetachMark ==
  /\ "detach" \in Failures /\ ~ctx.detached
  /\ ctx' = [ctx EXCEPT !.detached = TRUE]
  /\ To("detach", "take")
  /\ UNCHANGED <<obj, pt, timer>>

\* adreno_drawctxt_detach takes the queue and destroys what was in it, after
\* it has dropped the lock.
DetachTake ==
  /\ th["detach"].pc = "take" /\ ctx.lock = "free"
  /\ ctx' = [ctx EXCEPT !.queued = FALSE]
  /\ To("detach", IF ctx.queued THEN "destroy" ELSE "idle")
  /\ UNCHANGED <<obj, pt, timer>>

-----------------------------------------------------------------------------
(* kgsl_drawobj_destroy.                                                   *)

\* syncobj_destroy: the timer is deleted, once its handler is done.
SyncObjDestroy(x) ==
  /\ th[x].pc = "destroy" /\ timer \in {"off", "armed"}
  /\ timer' = "off"
  /\ th' = [th EXCEPT ![x].pc = "clear", ![x].left = {p \in Point : pt[p].st # "none"}]
  /\ UNCHANGED <<obj, pt, ctx>>

\* The bit of the next point; if it is clear the point has expired.
ClearBit(x, p) ==
  /\ th[x].pc = "clear" /\ p \in th[x].left
  /\ obj' = [obj EXCEPT !.pending = @ \ {p}]
  /\ th' = IF p \in obj.pending
           THEN [th EXCEPT ![x].pc = "cancel", ![x].left = @ \ {p}, ![x].p = {p}]
           ELSE [th EXCEPT ![x].left = @ \ {p}]
  /\ UNCHANGED <<pt, timer, ctx>>

\* kgsl_cancel_event: an event that is still listed goes to the worker; then
\* the context is put.
CancelTimestamp(x, p) ==
  /\ th[x].pc = "cancel" /\ p \in th[x].p \cap Timestamps
  /\ pt' = [pt EXCEPT ![p].st = IF @ = "armed" THEN "queued" ELSE @, ![p].own = @ - 1]
  /\ To(x, "clear")
  /\ UNCHANGED <<obj, timer, ctx>>

\* dma_fence_remove_callback waits for a callback that is running; then the
\* references of the point are put.
CancelFence(x, p) ==
  /\ th[x].pc = "cancel" /\ p \in th[x].p \ Timestamps /\ ~InCallback(p)
  /\ pt' = [pt EXCEPT ![p].st = IF @ = "armed" THEN "over" ELSE @,
                      ![p].own = IF p \in Timelines THEN @ - 1 ELSE @]
  /\ obj' = [obj EXCEPT !.ref = @ - 1]
  /\ To(x, "clear")
  /\ UNCHANGED <<timer, ctx>>

\* The test for a cancelled event, of the mask after the loop.
RescheduleContext(x) ==
  /\ th[x].pc = "clear" /\ th[x].left = {}
  /\ ctx' = IF obj.pending # {} THEN Sched(ctx) ELSE ctx
  /\ To(x, "put")
  /\ UNCHANGED <<obj, pt, timer>>

\* The last step of kgsl_drawobj_destroy; the dispatcher drops the lock.
DrawobjPut(x) ==
  /\ th[x].pc = "put"
  /\ obj' = [obj EXCEPT !.ref = @ - 1]
  /\ ctx' = [ctx EXCEPT !.lock = IF @ = x THEN "free" ELSE @]
  /\ To(x, "idle")
  /\ UNCHANGED <<pt, timer>>

-----------------------------------------------------------------------------
(* The canary timer.                                                       *)

\* syncobj_timer takes a reference unless the last is gone.
TimerFires ==
  /\ timer = "armed"
  /\ \/ obj.ref > 0 /\ obj' = [obj EXCEPT !.ref = @ + 1] /\ timer' = "dump"
     \/ obj.ref = 0 /\ timer' = "off" /\ UNCHANGED obj
  /\ UNCHANGED <<pt, ctx, th>>

\* Slip: the dump waits for the context's lock.
TimerDumpLocks ==
  /\ timer = "dump" /\ ctx.lock = "free"
  /\ timer' = "dumping" /\ ctx' = [ctx EXCEPT !.lock = "timer"]
  /\ UNCHANGED <<obj, pt, th>>

\* kgsl_context_dump only tries the context's lock.
TimerDump ==
  /\ timer = "dump"
  /\ \/ /\ ctx.lock = "free"
        /\ timer' = "dumping" /\ ctx' = [ctx EXCEPT !.lock = "timer"]
     \/ ctx.lock # "free" /\ timer' = "dumping" /\ UNCHANGED ctx
  /\ UNCHANGED <<obj, pt, th>>

TimerDone ==
  /\ timer = "dumping"
  /\ timer' = "off"
  /\ ctx' = [ctx EXCEPT !.lock = IF @ = "timer" THEN "free" ELSE @]
  /\ obj' = [obj EXCEPT !.ref = @ - 1]
  /\ UNCHANGED <<pt, th>>

-----------------------------------------------------------------------------
Destroying(x) ==
  \/ SyncObjDestroy(x) \/ RescheduleContext(x) \/ DrawobjPut(x)
  \/ \E p \in Point : ClearBit(x, p) \/ CancelTimestamp(x, p) \/ CancelFence(x, p)

Submitting ==
  QueueCmds \/ AddFails \/ \E p \in Point : AddSync(p) \/ Register(p) \/ Registered(p)

Callback(p) ==
  \/ EventWorker(p) \/ SyncExpire(p) \/ SyncExpireKick(p) \/ SyncFunc(p)
  \/ SyncFenceFunc(p) \/ TimelineCallback(p) \/ TimelineWork(p)

Timer == TimerDump \/ TimerDone

Next ==
  \/ Submitting \/ Dispatch \/ StartCanary \/ DetachMark \/ DetachTake \/ TimerFires \/ Timer
  \/ \E x \in Thread : Destroying(x)
  \/ \E p \in Point : Signal(p) \/ Callback(p)

Spec == Init /\ [][Next]_vars

\* Fairness: whoever has begun goes on, and a kicked dispatcher runs, getting
\* the lock in the end.  Sources need not signal.
FairSpec ==
  /\ Spec
  /\ WF_vars(Submitting) /\ SF_vars(Dispatch) /\ WF_vars(StartCanary) /\ SF_vars(DetachTake)
  /\ WF_vars(Timer)
  /\ \A x \in Thread : WF_vars(Destroying(x))
  /\ \A p \in Point : WF_vars(Callback(p))

-----------------------------------------------------------------------------
(* Properties.                                                             *)

\* The values the state takes; reference counts do not run below zero.
SyncObjTypeOK ==
  /\ obj \in [ref : Nat, pending : SUBSET Point, canary : BOOLEAN]
  /\ \A p \in Point : pt[p].own \in 0..2
  /\ timer \in {"off", "armed", "dump", "dumping"}
  /\ \A x \in Thread : th[x].left \subseteq Point

\* The points whose reference of the object has still to be put, by their
\* callback, its worker or the destroy.
Owing ==
  {p \in Point :
     \/ pt[p].st \in {"new", "armed", "queued", "called", "cleared", "expired", "work"}
        /\ (p \notin Timestamps => p \in obj.pending \/ pt[p].st \in {"cleared", "expired", "work"})
     \/ pt[p].st = "late" /\ p \in Timestamps
     \/ p \notin Timestamps /\ \E x \in Thread : th[x].pc = "cancel" /\ p \in th[x].p}

\* Somebody still has to put the object's first reference: the submitter, the
\* queue or whoever destroys it.
HasHolder ==
  ctx.queued \/ th["submit"].pc # "idle"
  \/ \E x \in Thread : th[x].pc \in {"destroy", "clear", "cancel", "put"}

\* The references of the object are those of its holder, of the points that
\* owe theirs and of the timer's handler: each is put once.
RefsAreOwed ==
  obj.ref = (IF HasHolder THEN 1 ELSE 0) + Cardinality(Owing)
            + (IF timer \in {"dump", "dumping"} THEN 1 ELSE 0)

\* Nothing that will touch the object is left when it is freed: no callback
\* that is registered or running, no worker, no timer.
FreedIsSilent ==
  obj.ref = 0 =>
    timer = "off" /\ \A p \in Point : pt[p].st \in {"none", "over"}

\* Nor does it leave behind the context or the fence of a point.
FreedLeavesNothing == obj.ref = 0 => \A p \in Point : pt[p].own = 0

\* The lifetime of the object: every put of kgsl_drawobj.c relies on it.
SyncObjInv == SyncObjTypeOK /\ RefsAreOwed /\ FreedIsSilent /\ FreedLeavesNothing

\* A submission whose points have all expired leaves the queue.
ExpiredLeavesQueue == ctx.queued /\ obj.pending = {} ~> ~ctx.queued

\* A destroy comes to its end: it waits for the timer's handler, which wants
\* the lock that the dispatcher holds meanwhile, and for callbacks.
DestroyEnds == \A x \in Thread : th[x].pc = "destroy" ~> th[x].pc = "idle"
==============================================================================
