--------------------------- MODULE KgslEventsInv ---------------------------
(***************************************************************************)
(* The inductive invariant behind the events of a context: how far time    *)
(* may run away from a timestamp that is compared, how far a call and the  *)
(* detach have come, and who sleeps for which event.                       *)
(***************************************************************************)
EXTENDS KgslEvents

WaitSteps == {"test", "asleep", "cancel"}
DetachSteps == {"drain", "cancel_all", "delete", "deleted"}
InvalidateSteps == {"cancel_queued", "flush", "wake"}
PC == {"idle", "add", "insert", "put", "detach", "process", "invalidate", "next"}
      \cup WaitSteps \cup DetachSteps \cup InvalidateSteps
Why == {"none", "wait", "event", "detach", "walk", "process", "invalidate"}

EventType ==
  [st : {"none", "new", "listed", "queued"}, at : Wanted \cup {0},
   why : {"none", "wait", "event"}, result : {"none", "retired", "cancelled"}]

ContextType ==
  [ref : Int, detached : BOOLEAN, invalid : BOOLEAN, queued : Nat, retired : Nat,
   lost : BOOLEAN]

GroupType == [listed : BOOLEAN, events : Seq(Event), processed : Nat]
ThreadType == [pc : PC, why : Why, at : Nat, e : Event \cup {Null}]

\* The values of the whole state.
StateTypes ==
  /\ ctx \in ContextType /\ group \in GroupType
  /\ ev \in [Event -> EventType] /\ work \in Seq(Event)
  /\ th \in [Thread -> ThreadType]

\* How far a call has come, and for whom.
Agree(pc, why) ==
  /\ pc \in {"add", "insert"} => why \in {"wait", "event"}
  /\ pc \in WaitSteps => why = "wait"
  /\ pc \in DetachSteps \cup {"detach"} => why = "detach"
  /\ pc = "process" => why \in {"walk", "process"}
  /\ pc \in InvalidateSteps \cup {"invalidate"} => why = "invalidate"
  /\ pc = "next" => why = "walk"

CallOK(x) ==
  /\ th[x].pc = "idle" => th[x] = Idle
  /\ Agree(th[x].pc, th[x].why)
  /\ th[x].why \in {"wait", "event"} => x \in User /\ th[x].at \in Wanted
  /\ th[x].why = "walk" => x \in Dispatcher
  /\ th[x].pc \in InvalidateSteps => ctx.invalid

\* The timestamp of a call has not been left half the range behind, nor is it
\* that far ahead.  A thread adds an event for a timestamp that has been queued,
\* unless it may make its own.
Near(t) == ctx.queued < t + Window /\ t < ctx.retired + Window

CallTime(x) ==
  /\ th[x].why \in {"wait", "event"} => Near(th[x].at)
  /\ th[x].pc = "insert" => UserTS \/ th[x].at <= ctx.queued

\* An event that has been made belongs to the thread that is to insert it.
InsertOK(x) ==
  th[x].pc = "insert" =>
    /\ th[x].e \in Event
    /\ ev[th[x].e].st = "new" /\ ev[th[x].e].at = th[x].at /\ ev[th[x].e].why = th[x].why
    /\ \A y \in Thread : th[y].pc = "insert" /\ th[y].e = th[x].e => x = y

CallsInv == \A x \in Thread : CallOK(x) /\ CallTime(x) /\ InsertOK(x)

\* Time goes from what has been processed to what is queued, within half the
\* range.
ClockInv ==
  /\ group.processed <= ctx.retired /\ ctx.retired <= ctx.queued /\ ctx.queued <= MaxTime
  /\ ctx.queued < group.processed + Window

\* An event on the list is ahead of what has been processed, but not by half the
\* range; one that reports its timestamp as retired is right.
EventRight(e) ==
  /\ ev[e].st = "listed" => group.processed < ev[e].at /\ ev[e].at < ctx.retired + Window
  /\ ev[e].result = "retired" => ev[e].at <= ctx.retired

EventInv == \A e \in Event : EventRight(e)

\* Every list agrees with the state of the events on it.
ListsInv ==
  /\ IsInjective(group.events) /\ ToSet(group.events) = Listed
  /\ IsInjective(work) /\ ToSet(work) = {e \in Event : ev[e].st = "queued"}

\* Some thread is at one of these steps.
Reach(S) == \E x \in Thread : th[x].pc \in S

\* One thread detaches the context; the group stays on the device's list until
\* it deletes it, and walks keep it from doing so.
DetachInv ==
  /\ \A x, y \in Thread : th[x].pc \in DetachSteps /\ th[y].pc \in DetachSteps => x = y
  /\ Reach(DetachSteps) => ctx.detached
  /\ group.listed <=> ~ctx.detached \/ Reach({"drain", "cancel_all", "delete"})
  /\ Walking => group.listed

\* Once the GPU is done with a detached context everything queued has retired,
\* so that after the cancellation no event joins the list.
DrainInv ==
  ctx.detached /\ ~ctx.lost =>
    /\ Reach({"drain"}) \/ ctx.retired = ctx.queued
    /\ UserTS \/ Reach({"drain", "cancel_all"}) \/ group.events = <<>>

\* Who waits for the timestamp t, and the events that are to wake them.
Waiters(t) == {x \in User : th[x].pc \in WaitSteps /\ th[x].at = t}
WaitEvents(t) == {e \in Event : ev[e].st = "listed" /\ ev[e].why = "wait" /\ ev[e].at = t}

SleepInv ==
  ~ctx.detached /\ ~ctx.invalid =>
    \A t \in Wanted : t > ctx.retired => Cardinality(Waiters(t)) <= Cardinality(WaitEvents(t))

\* The users of the context, and the reference it was created with.
Busy == {x \in Thread : th[x].pc \notin {"idle", "next"}}
Used == {e \in Event : ev[e].st # "none"}
Own == IF ctx.detached /\ ~Reach(DetachSteps) THEN 0 ELSE 1

RefsInv == ctx.ref = Own + Cardinality(Busy) + Cardinality(Used)

EventsIInv ==
  StateTypes /\ CallsInv /\ ClockInv /\ EventInv /\ ListsInv /\ DetachInv /\ DrainInv
  /\ SleepInv /\ RefsInv
=============================================================================
