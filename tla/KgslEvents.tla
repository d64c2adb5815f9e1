----------------------------- MODULE KgslEvents -----------------------------
(***************************************************************************)
(* KGSL events: callbacks that run when a context's timestamp retires, or  *)
(* when they are cancelled, and the life of the context they belong to.    *)
(*                                                                         *)
(* One context and its event group.  Whoever works on the context has a    *)
(* reference; an event has one from its registration until its callback    *)
(* has run on the event worker.  A region under group->lock is one action; *)
(* event_groups_lock is held over a walk.  The queued and the retired      *)
(* timestamp are read without a lock.                                      *)
(*                                                                         *)
(* Timestamps are 32-bit counters that wrap; Window is half their range.   *)
(* The model counts without wrapping (queued, retired, processed, the at   *)
(* of an event) and the code sees TS of it, so that what the code decides  *)
(* can be compared with what happened.                                     *)
(***************************************************************************)
EXTENDS Integers, Sequences, FiniteSets, SequencesExt

CONSTANTS
  Event,          \* memory for events (a bound)
  User,           \* threads that make calls
  Dispatcher,     \* threads of the dispatcher and of fault recovery
  Null,
  Window,         \* KGSL_TIMESTAMP_WINDOW: half the range of a timestamp
  Start, MaxTime, \* bounds: commands submitted before and by the end of the run
  Wanted,         \* timestamps that calls pass (a bound)
  UserTS,         \* KGSL_CONTEXT_USER_GENERATED_TS is set
  Calls,          \* the calls each thread makes (a bound)
  Failures        \* what may fail in the run

ASSUME EventsAssumption ==
  /\ Window \in Nat \ {0} /\ MaxTime \in Nat /\ Start \in 0..MaxTime /\ Wanted \subseteq Nat
  /\ IsFiniteSet(Event) /\ IsFiniteSet(User) /\ IsFiniteSet(Dispatcher)
  /\ UserTS \in BOOLEAN /\ User \cap Dispatcher = {}
  /\ Null \notin Event
  /\ Calls \in [User \cup Dispatcher ->
                  SUBSET {"wait", "event", "detach", "walk", "process", "invalidate"}]
  /\ Failures \subseteq {"alloc", "unregister"}

Thread == User \cup Dispatcher
Range2 == 2 * Window

VARIABLES
  ctx,      \* struct kgsl_context: ref, detached, invalid, queued, retired;
            \* lost: the detach went on though the GPU was not done (history)
  group,    \* its event group: on the device's list, events, processed
  ev,       \* struct kgsl_event: its state, time, kind and result
  work,     \* the queue of the event worker
  th        \* the call each thread is in

vars == <<ctx, group, ev, work, th>>

Idle == [pc |-> "idle", why |-> "none", at |-> 0, e |-> Null]
NoEvent == [st |-> "none", at |-> 0, why |-> "none", result |-> "none"]

\* The context has been created, its group added to the device's list, and the
\* commands up to Start have been submitted, retired and processed.
Init ==
  /\ ctx = [ref |-> 1, detached |-> FALSE, invalid |-> FALSE,
            queued |-> Start, retired |-> Start, lost |-> FALSE]
  /\ group = [listed |-> TRUE, events |-> <<>>, processed |-> Start]
  /\ ev = [e \in Event |-> NoEvent]
  /\ work = <<>>
  /\ th = [x \in Thread |-> Idle]

-----------------------------------------------------------------------------
(* Timestamps.                                                             *)

TS(n) == n % Range2

\* Slip: no regard for rollover.
TimestampCmpPlain(a, b) == IF a = b THEN 0 ELSE IF a > b THEN 1 ELSE -1

TimestampCmp(a, b) ==
  LET up(n) == (n + Window) % Range2
  IN IF a = b THEN 0
     ELSE IF \/ a > b /\ a - b < Window
             \/ up(a) > up(b) /\ up(a) - up(b) <= Window
          THEN 1
          ELSE -1

\* Slip: a group is processed only when its timestamp has grown.
DoProcessGroupGrown(processed, cur) == cur > processed

\* _do_process_group: the timestamp moved, and did not slip back.
DoProcessGroup(processed, cur) ==
  /\ processed # cur
  /\ ~(cur < processed /\ processed - cur < Window)

\* The time a comparison is made of is less than half the range away.
InWindow(a, b) == a < b + Window /\ b < a + Window

-----------------------------------------------------------------------------
(* The context's timestamps.                                               *)

\* A command is queued, which a bad context refuses.  Time does not run away
\* from those who compare timestamps: neither the commands in flight, nor a
\* call that holds a timestamp, nor the dispatcher is half the range behind.
Submit ==
  /\ ~ctx.detached /\ ~ctx.invalid /\ ctx.queued < MaxTime
  /\ InWindow(ctx.queued + 1, ctx.retired)
  /\ InWindow(ctx.queued + 1, group.processed)
  /\ \A x \in User : th[x].why \in {"wait", "event"} => InWindow(ctx.queued + 1, th[x].at)
  /\ ctx' = [ctx EXCEPT !.queued = @ + 1]
  /\ UNCHANGED <<group, ev, work, th>>

\* The GPU retires the next command.
Retire ==
  /\ ctx.retired < ctx.queued
  /\ ctx' = [ctx EXCEPT !.retired = @ + 1]
  /\ UNCHANGED <<group, ev, work, th>>

Retired(t) == TimestampCmp(TS(ctx.retired), TS(t)) >= 0

-----------------------------------------------------------------------------
(* Helpers on events.                                                      *)

\* What a walk over the list (list_for_each_entry_safe) finds of S, in order.
Found(list, S) ==
  LET found[i \in 0..Len(list)] ==
        IF i = 0 THEN <<>>
        ELSE IF list[i] \in S THEN Append(found[i - 1], list[i]) ELSE found[i - 1]
  IN found[Len(list)]

\* signal_event for the events of S, in the order of the list: each leaves the
\* list, has its result and goes to the worker.
SignalEvents(S, result) ==
  /\ ev' = [e \in Event |-> IF e \in S
              THEN [ev[e] EXCEPT !.st = "queued", !.result = result[e]] ELSE ev[e]]
  /\ work' = work \o Found(group.events, S)

Unlisted(S) == Found(group.events, Event \ S)

Listed == {e \in Event : ev[e].st = "listed"}

\* wake_up_all(&drawctxt->waiting): sleepers test their condition again.
Woken(t) == [x \in Thread |->
               IF t[x].pc = "asleep" THEN [t[x] EXCEPT !.pc = "test"] ELSE t[x]]

To(x, pc) == th' = [th EXCEPT ![x].pc = pc]

-----------------------------------------------------------------------------
(* Calls that name the context.                                            *)

\* kgsl_context_get: not if the context is detached.
ContextGet(x, why, t) ==
  /\ th[x] = Idle /\ why \in Calls[x] \cap {"wait", "event", "detach"}
  /\ ctx.ref > 0 /\ ~ctx.detached
  /\ InWindow(t, ctx.retired) /\ InWindow(t, ctx.queued)
  /\ ctx' = [ctx EXCEPT !.ref = @ + 1]
  /\ th' = [th EXCEPT ![x] = [Idle EXCEPT !.why = why,
                                !.at = IF why = "detach" THEN 0 ELSE t,
                                !.pc = IF why = "detach" THEN "detach" ELSE "add"]]
  /\ UNCHANGED <<group, ev, work>>

\* The part of kgsl_add_event before the lock (a wait has looked at the
\* context's state first): the timestamp must have been queued unless the
\* caller makes its own; the event takes a reference.
AddEvent(x) ==
  /\ th[x].pc = "add"
  /\ \/ /\ \/ th[x].why = "wait" /\ (ctx.detached \/ ctx.invalid)
           \/ ~UserTS /\ TimestampCmp(TS(th[x].at), TS(ctx.queued)) > 0
           \/ "alloc" \in Failures
           \/ \A e \in Event : ev[e].st # "none"
        /\ To(x, "put")
        /\ UNCHANGED <<ctx, ev>>
     \/ /\ ~(th[x].why = "wait" /\ (ctx.detached \/ ctx.invalid))
        /\ UserTS \/ TimestampCmp(TS(th[x].at), TS(ctx.queued)) <= 0
        /\ \E e \in Event :
             /\ ev[e].st = "none"
             /\ ev' = [ev EXCEPT ![e] = [NoEvent EXCEPT !.st = "new", !.at = th[x].at,
                                                        !.why = th[x].why]]
             /\ th' = [th EXCEPT ![x].pc = "insert", ![x].e = e]
        /\ ctx' = [ctx EXCEPT !.ref = @ + 1]
  /\ UNCHANGED <<group, work>>

\* The rest of kgsl_add_event, under group->lock: an event that has retired
\* already goes to the worker, else it joins the list.
InsertEvent(x) ==
  LET e == th[x].e
  IN /\ th[x].pc = "insert"
     /\ \/ /\ Retired(ev[e].at)
           /\ ev' = [ev EXCEPT ![e].st = "queued", ![e].result = "retired"]
           /\ work' = Append(work, e)
           /\ UNCHANGED group
        \/ /\ ~Retired(ev[e].at)
           /\ ev' = [ev EXCEPT ![e].st = "listed"]
           /\ group' = [group EXCEPT !.events = Append(@, e)]
           /\ UNCHANGED work
     /\ th' = [th EXCEPT ![x].pc = IF th[x].why = "wait" THEN "test" ELSE "put",
                         ![x].e = Null]
     /\ UNCHANGED ctx

\* adreno_drawctxt_wait: asleep until the timestamp has retired or the context
\* is bad; after a timeout the event is cancelled.
WaitIsOver(x) == ctx.detached \/ ctx.invalid \/ Retired(th[x].at)

WaitTest(x) ==
  /\ th[x].pc = "test"
  /\ To(x, IF WaitIsOver(x) THEN "put" ELSE "asleep")
  /\ UNCHANGED <<ctx, group, ev, work>>

WaitTimesOut(x) ==
  /\ th[x].pc = "asleep"
  /\ To(x, "cancel")
  /\ UNCHANGED <<ctx, group, ev, work>>

\* The events kgsl_cancel_event looks for: waits for the same timestamp, which
\* share the callback and its argument.
Matching(x) == Found(group.events, {e \in Event : /\ ev[e].why = "wait"
                                                  /\ TS(ev[e].at) = TS(th[x].at)})

\* kgsl_cancel_event: the first match, if there is one.
CancelEvent(x) ==
  LET S == IF Matching(x) = <<>> THEN {} ELSE {Head(Matching(x))}
  IN /\ th[x].pc = "cancel"
     /\ SignalEvents(S, [e \in S |-> "cancelled"])
     /\ group' = [group EXCEPT !.events = Unlisted(S)]
     /\ To(x, "put")
     /\ UNCHANGED ctx

\* kgsl_context_put at the end of a call; a walk goes on to the next group.
ContextPut(x) ==
  /\ th[x].pc = "put"
  /\ ctx' = [ctx EXCEPT !.ref = @ - 1]
  /\ th' = [th EXCEPT ![x] = IF th[x].why = "walk" THEN [th[x] EXCEPT !.pc = "next"]
                                                  ELSE Idle]
  /\ UNCHANGED <<group, ev, work>>

-----------------------------------------------------------------------------
(* kgsl_context_detach.                                                    *)

\* Whoever sets the bit detaches the context.
DetachMark(x) ==
  /\ th[x].pc = "detach"
  /\ ctx' = [ctx EXCEPT !.detached = TRUE]
  /\ To(x, IF ctx.detached THEN "put" ELSE "drain")
  /\ UNCHANGED <<group, ev, work>>

\* drawctxt_detach: the GPU is done with the context, or that failed, in which
\* case the retired timestamp is left as it is; then waiters are woken.
DetachDrain(x) ==
  /\ th[x].pc = "drain"
  /\ \/ ctx' = [ctx EXCEPT !.retired = ctx.queued]
     \/ "unregister" \in Failures /\ ctx' = [ctx EXCEPT !.lost = TRUE]
  /\ th' = [Woken(th) EXCEPT ![x].pc = "cancel_all"]
  /\ UNCHANGED <<group, ev, work>>

\* kgsl_cancel_events.
CancelEvents(x) ==
  /\ th[x].pc = "cancel_all"
  /\ SignalEvents(Listed, [e \in Listed |-> "cancelled"])
  /\ group' = [group EXCEPT !.events = <<>>]
  /\ To(x, "delete")
  /\ UNCHANGED ctx

\* A walk has event_groups_lock for reading.
Walking == \E x \in Dispatcher : th[x].why = "walk"

\* Slip: the group leaves the list while a walk is on it.
DelEventGroupUnlocked(x) ==
  /\ th[x].pc = "delete"
  /\ group' = [group EXCEPT !.listed = FALSE]
  /\ To(x, "deleted")
  /\ UNCHANGED <<ctx, ev, work>>

\* kgsl_del_event_group.
DelEventGroup(x) ==
  /\ th[x].pc = "delete" /\ ~Walking
  /\ group' = [group EXCEPT !.listed = FALSE]
  /\ To(x, "deleted")
  /\ UNCHANGED <<ctx, ev, work>>

\* The reference the context was created with is put; the caller's follows.
DetachPut(x) ==
  /\ th[x].pc = "deleted"
  /\ ctx' = [ctx EXCEPT !.ref = @ - 1]
  /\ To(x, "put")
  /\ UNCHANGED <<group, ev, work>>

-----------------------------------------------------------------------------
(* The dispatcher, fault recovery and the event worker.                    *)

\* kgsl_process_event_groups comes to the group.
WalkBegin(x) ==
  /\ th[x] = Idle /\ "walk" \in Calls[x] /\ group.listed /\ ctx.ref > 0
  /\ ctx' = [ctx EXCEPT !.ref = @ + 1]
  /\ th' = [th EXCEPT ![x] = [Idle EXCEPT !.pc = "process", !.why = "walk"]]
  /\ UNCHANGED <<group, ev, work>>

\* The next group is read from this one, and the walk drops the lock.
WalkEnd(x) ==
  /\ th[x].pc = "next"
  /\ th' = [th EXCEPT ![x] = Idle]
  /\ UNCHANGED <<ctx, group, ev, work>>

\* A command in the dispatcher's hands, with its reference of the context, is
\* retired or its context is invalidated.
DispatcherGet(x, why) ==
  /\ th[x] = Idle /\ why \in Calls[x] \cap {"process", "invalidate"}
  /\ ctx.ref > 0 /\ (ctx.detached => ctx.retired < ctx.queued)
  /\ ctx' = [ctx EXCEPT !.ref = @ + 1]
  /\ th' = [th EXCEPT ![x] = [Idle EXCEPT !.pc = why, !.why = why]]
  /\ UNCHANGED <<group, ev, work>>

\* adreno_drawctxt_invalidate: the context is marked and all it has queued
\* counts as retired; th[x].at stands before the commands still in the queue,
\* whose events are cancelled one by one.
InvalidateMark(x) ==
  /\ th[x].pc = "invalidate"
  /\ ctx' = [ctx EXCEPT !.invalid = TRUE, !.retired = ctx.queued]
  /\ \E t \in ctx.retired..ctx.queued :
       th' = [th EXCEPT ![x].pc = "cancel_queued", ![x].at = t]
  /\ UNCHANGED <<group, ev, work>>

\* kgsl_cancel_events_timestamp for the next of them.
CancelEventsTimestamp(x) ==
  LET S == {e \in Listed : TimestampCmp(TS(th[x].at + 1), TS(ev[e].at)) = 0}
  IN /\ th[x].pc = "cancel_queued"
     /\ \/ /\ th[x].at < ctx.queued
           /\ SignalEvents(S, [e \in S |-> "cancelled"])
           /\ group' = [group EXCEPT !.events = Unlisted(S)]
           /\ th' = [th EXCEPT ![x].at = @ + 1]
        \/ /\ th[x].at = ctx.queued
           /\ To(x, "flush")
           /\ UNCHANGED <<group, ev, work>>
     /\ UNCHANGED ctx

\* _process_event_group: the retired events are signaled; a flush cancels the
\* others.
ProcessEventGroup(x) ==
  LET flush == th[x].pc = "flush"
      done(e) == TimestampCmp(TS(ev[e].at), TS(ctx.retired)) <= 0
      S == {e \in Listed : flush \/ done(e)}
  IN /\ th[x].pc \in {"process", "flush"}
     /\ \/ /\ flush \/ DoProcessGroup(TS(group.processed), TS(ctx.retired))
           /\ SignalEvents(S, [e \in S |-> IF done(e) THEN "retired" ELSE "cancelled"])
           /\ group' = [group EXCEPT !.events = Unlisted(S), !.processed = ctx.retired]
        \/ /\ ~flush /\ ~DoProcessGroup(TS(group.processed), TS(ctx.retired))
           /\ UNCHANGED <<ev, work, group>>
     /\ To(x, IF flush THEN "wake" ELSE "put")
     /\ UNCHANGED ctx

\* The end of adreno_drawctxt_invalidate.
InvalidateWake(x) ==
  /\ th[x].pc = "wake"
  /\ th' = [Woken(th) EXCEPT ![x].pc = "put"]
  /\ UNCHANGED <<ctx, group, ev, work>>

\* Slip: the reference of a cancelled event is not put.
EventWorkerKeepsRef ==
  LET e == Head(work)
  IN /\ work # <<>>
     /\ work' = Tail(work)
     /\ ev' = [ev EXCEPT ![e] = NoEvent]
     /\ ctx' = [ctx EXCEPT !.ref = IF ev[e].result = "cancelled" THEN @ ELSE @ - 1]
     /\ th' = IF ev[e].why = "wait" THEN Woken(th) ELSE th
     /\ UNCHANGED group

\* _kgsl_event_worker: the callback of the next event (that of a wait wakes
\* the sleepers); then its reference is put and its memory freed.
EventWorker ==
  LET e == Head(work)
  IN /\ work # <<>>
     /\ work' = Tail(work)
     /\ ev' = [ev EXCEPT ![e] = NoEvent]
     /\ ctx' = [ctx EXCEPT !.ref = @ - 1]
     /\ th' = IF ev[e].why = "wait" THEN Woken(th) ELSE th
     /\ UNCHANGED group

-----------------------------------------------------------------------------
Resume(x) ==
  \/ AddEvent(x) \/ InsertEvent(x) \/ WaitTest(x) \/ CancelEvent(x) \/ ContextPut(x)
  \/ DetachMark(x) \/ DetachDrain(x) \/ CancelEvents(x) \/ DelEventGroup(x)
  \/ DetachPut(x)
  \/ InvalidateMark(x) \/ CancelEventsTimestamp(x) \/ ProcessEventGroup(x)
  \/ InvalidateWake(x) \/ WalkEnd(x)

Next ==
  \/ Submit \/ Retire \/ EventWorker
  \/ \E x \in User : \/ \E why \in Calls[x], t \in Wanted : ContextGet(x, why, t)
                     \/ WaitTimesOut(x)
  \/ \E x \in Dispatcher : WalkBegin(x) \/ \E why \in Calls[x] : DispatcherGet(x, why)
  \/ \E x \in Thread : Resume(x)

Spec == Init /\ [][Next]_vars

\* Fairness: a thread inside a call and the event worker run, the GPU retires
\* what it was given, and its interrupts bring the dispatcher to the group
\* again and again, yet a writer gets event_groups_lock between two walks.
FairSpec ==
  /\ Spec
  /\ WF_vars(Retire) /\ WF_vars(EventWorker)
  /\ \A x \in Thread : WF_vars(Resume(x)) /\ SF_vars(DelEventGroup(x))
  /\ SF_vars(\E x \in Dispatcher : WalkBegin(x))

-----------------------------------------------------------------------------
(* Properties.                                                             *)

\* The values the state takes, and every list an event is on agrees with the
\* event: it is on the group's list or in the worker's queue, once.
EventsTypeOK ==
  /\ ctx \in [ref : Nat, detached : BOOLEAN, invalid : BOOLEAN,
              queued : 0..MaxTime, retired : 0..MaxTime, lost : BOOLEAN]
  /\ group.processed \in 0..MaxTime /\ group.listed \in BOOLEAN
  /\ ev \in [Event -> [st : {"none", "new", "listed", "queued"}, at : Wanted \cup {0},
                       why : {"none", "wait", "event"},
                       result : {"none", "retired", "cancelled"}]]
  /\ IsInjective(group.events) /\ ToSet(group.events) = Listed
  /\ IsInjective(work) /\ ToSet(work) = {e \in Event : ev[e].st = "queued"}

\* An event that reports its timestamp as retired fires after the timestamp
\* has retired, rollovers included.
FiresOnTime ==
  \A e \in Event : ev[e].result = "retired" => ev[e].at <= ctx.retired

\* No event is passed over: what the last processing of the group has seen
\* retired is not on the list, also if it was added while that happened.
NotPassedOver == \A e \in Listed : ev[e].at > group.processed

\* The reference count of the context is the number of its users: until the
\* detach the context's own, the calls and walks that work on it, the events.
\* So it is not freed under a walk or a callback, and nothing keeps it when
\* nobody uses it.
ContextRefs ==
  LET detaching == \E x \in Thread : th[x].pc \in {"drain", "cancel_all", "delete", "deleted"}
  IN ctx.ref = (IF ctx.detached /\ ~detaching THEN 0 ELSE 1)
               + Cardinality({x \in Thread : th[x].pc \notin {"idle", "next"}})
               + Cardinality({e \in Event : ev[e].st # "none"})

\* A walk leaves a group that is still there: whoever deletes the group, and
\* frees its context, has waited for the walk.
WalkedIsAlive == Walking => ctx.ref > 0

\* When the group has been deleted there is no event in it, as the WARN_ON of
\* kgsl_del_event_group asks: nobody would come to it any more.  (A detach
\* that went on without the GPU leaves timestamps that are yet to retire, and
\* an event for one of them may be added after the cancellation; so may one for
\* a future timestamp where the caller makes its own.)
DeletedIsEmpty == ~UserTS /\ ~group.listed /\ ~ctx.lost => group.events = <<>>

\* The lifetimes of the context, its group and its events, together.
EventsInv == EventsTypeOK /\ ContextRefs /\ WalkedIsAlive /\ DeletedIsEmpty

\* A timed-out wait cancels an event that is as good as its own: whoever
\* sleeps for the same timestamp still has one.
SleeperHasEvent ==
  \A x \in User : th[x].pc = "asleep" /\ ~WaitIsOver(x) =>
    Cardinality({y \in User : /\ th[y].pc \in {"test", "asleep", "cancel"}
                              /\ TS(th[y].at) = TS(th[x].at)})
      <= Len(Matching(x))

\* An event does not fire early, and is neither passed over nor taken away from
\* whoever sleeps for it: the three parts above.
EventsOnTime == FiresOnTime /\ NotPassedOver /\ SleeperHasEvent

\* A sleeper whose wait is over wakes up: its timestamp has retired, rollovers
\* included, or its context is lost, and no event is forgotten on the list or
\* fires before the sleeper is in the wait queue.
SleeperWakes ==
  \A x \in User : th[x].pc = "asleep" /\ WaitIsOver(x) ~> th[x].pc # "asleep"

\* A detached context is freed: no event, wait or walk keeps it.
DetachedIsFreed == ctx.detached ~> ctx.ref = 0 \/ ctx.lost
=============================================================================
