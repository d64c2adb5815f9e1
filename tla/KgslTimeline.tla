---------------------------- MODULE KgslTimeline ----------------------------
(***************************************************************************)
(* KGSL timelines: counters that user space and the GPU advance, and the   *)
(* dma fences that wait for a timeline to reach a sequence number.         *)
(*                                                                         *)
(* A timeline is found by its id in an idr and lives while it has          *)
(* references: the idr's, one of each call that looked it up, one of each  *)
(* fence, one of each entry of a timeline object that is to signal it.     *)
(* timeline->lock is held over several steps of a signal or a destroy and  *)
(* is a variable; a region under timeline->fence_lock or timelines_lock is *)
(* one action.  value is read without the lock.                            *)
(*                                                                         *)
(* A timeline object (drawobj) is a request to signal timelines once the   *)
(* commands queued before it have retired.  It is retired by whichever of  *)
(* the scheduler, which is done with it, and the event callback comes last *)
(* (sig_refcount).                                                         *)
(*                                                                         *)
(* A thread runs one call at a time: it goes through a list of timeline    *)
(* values one by one.  dma_fence and sync_file belong to the kernel and    *)
(* are modelled from their use here: a fence has a status and a reference  *)
(* count, and whoever holds a reference may ask whether it has signaled,   *)
(* which signals it when the timeline has got there.                       *)
(***************************************************************************)
EXTENDS Naturals, Sequences, FiniteSets, SequencesExt

CONSTANTS
  Timeline, Fence, Obj,   \* the objects that can be allocated, once each
  Thread,                 \* whoever runs this code
  Worker,                 \* the threads among them that make no calls: the
                          \* dispatcher and the event worker
  Null,                   \* a NULL pointer; no holder of a lock
  MaxSeq,                 \* a bound: the last sequence number
  Arrays,                 \* the arrays of values that are passed (a bound)
  Calls,                  \* the calls each of the others makes (a bound)
  Failures                \* allocations that may fail in the run

ASSUME TimelineAssumption ==
  /\ IsFiniteSet(Thread) /\ IsFiniteSet(Fence) /\ IsFiniteSet(Obj)
  /\ Worker \subseteq Thread
  /\ MaxSeq \in Nat
  /\ Arrays \subseteq Seq([tl : Timeline, seq : 1..MaxSeq]) \ {<<>>}
  /\ Null \notin Timeline \cup Fence \cup Obj \cup Thread
  /\ Calls \in [Thread \ Worker -> SUBSET {"fence_get", "wait", "signal", "aux", "destroy"}]
  /\ Failures \subseteq {"fence", "event"}

Seqno == 0..MaxSeq
Val == [tl : Timeline, seq : Seqno]

VARIABLES
  idr,      \* the id of each timeline: not allocated, reserved, live, removed
  tline,    \* struct kgsl_timeline: ref, value, lock, fences, events
  fence,    \* struct kgsl_timeline_fence: its timeline, seqno, ref, status
  files,    \* fences an open sync_file holds
  obj,      \* struct kgsl_drawobj_timeline and its event
  th        \* the call each thread is in

vars == <<idr, tline, fence, files, obj, th>>

\* why: the call; todo: the values still to do; tl: the timeline the call has
\* a reference to; mine: fences it has a reference to; temp: its private list
\* of fences, with references; dying: a fence it is releasing; any: a wait for
\* any of the fences; o: the timeline object it works on.
Idle == [pc |-> "idle", why |-> "none", todo |-> <<>>, tl |-> Null,
         mine |-> {}, temp |-> {}, dying |-> Null, any |-> FALSE, o |-> Null]

Init ==
  /\ idr = [t \in Timeline |-> "none"]
  /\ tline = [t \in Timeline |-> [ref |-> 0, value |-> 0, lock |-> Null,
                                  fences |-> {}, events |-> <<>>]]
  /\ fence = [f \in Fence |-> [tl |-> Null, seq |-> 0, ref |-> 0, status |-> "none"]]
  /\ files = {}
  /\ obj = [o \in Obj |-> [st |-> "none", sig |-> 0, vals |-> <<>>, count |-> 0,
                           event |-> "none", retired |-> FALSE]]
  /\ th = [x \in Thread |-> Idle]

-----------------------------------------------------------------------------
(* Helpers.                                                                *)

\* Thread x may take its next step at pc.
At(x, pc) == th[x].pc = pc /\ th[x].dying = Null

Unlocked(t) == tline[t].lock = Null

\* timeline_fence_signaled: the timeline has got to the seqno.
Reached(t, seq) == tline[t].value >= seq

\* The fences in F gain a reference each.
FencesGet(F) == [f \in Fence |-> IF f \in F THEN [fence[f] EXCEPT !.ref = @ + 1]
                                            ELSE fence[f]]

\* kgsl_timeline_by_id: found in the idr, and a reference could be taken.
TimelineById(t) == idr[t] = "live" /\ tline[t].ref > 0

TimelineGet(t) == [tline EXCEPT ![t].ref = @ + 1]
TimelinePut(t) == [tline EXCEPT ![t].ref = @ - 1]

\* Thread x, now in state r, drops a reference of f whose status becomes s; it
\* goes on to release a fence that has none left.
FencePut(x, r, f, s) ==
  /\ fence' = [fence EXCEPT ![f].ref = @ - 1, ![f].status = s]
  /\ th' = [th EXCEPT ![x] = IF fence[f].ref = 1 THEN [r EXCEPT !.dying = f] ELSE r]

\* timeline_fence_release: under fence_lock the fence leaves the active list
\* if it is still there; then its timeline reference goes and it is freed.
FenceRelease(x) ==
  LET f == th[x].dying   t == fence[f].tl
  IN /\ f # Null
     /\ fence' = [fence EXCEPT ![f].status = "freed"]
     /\ tline' = [tline EXCEPT ![t].ref = @ - 1, ![t].fences = @ \ {f}]
     /\ th' = [th EXCEPT ![x].dying = Null]
     /\ UNCHANGED <<idr, files, obj>>

-----------------------------------------------------------------------------
(* Creation: the id is reserved first and points to the timeline later.    *)

TimelineAlloc(x, t) ==
  /\ At(x, "idle") /\ idr[t] = "none"
  /\ idr' = [idr EXCEPT ![t] = "reserved"]
  /\ \E initial \in Seqno :
       tline' = [tline EXCEPT ![t].ref = 1, ![t].value = initial]
  /\ th' = [th EXCEPT ![x] = [Idle EXCEPT !.pc = "commit", !.tl = t]]
  /\ UNCHANGED <<fence, files, obj>>

TimelineCreate(x) ==
  /\ At(x, "commit")
  /\ idr' = [idr EXCEPT ![th[x].tl] = "live"]
  /\ th' = [th EXCEPT ![x] = Idle]
  /\ UNCHANGED <<tline, fence, files, obj>>

-----------------------------------------------------------------------------
(* Calls that take a list of timeline values.                              *)

\* The ioctls timeline_fence_get (one value), timeline_wait, timeline_signal.
Call(x, why, vals) ==
  /\ At(x, "idle") /\ why \in Calls[x] \cap {"fence_get", "wait", "signal"}
  /\ why = "fence_get" => Len(vals) = 1
  /\ \E any \in BOOLEAN :
       /\ any => why = "wait" /\ Len(vals) > 1
       /\ th' = [th EXCEPT ![x] = [Idle EXCEPT !.pc = "lookup", !.why = why,
                                               !.todo = vals, !.any = any]]
  /\ UNCHANGED <<idr, tline, fence, files, obj>>

\* The next value's timeline is looked up; if it is not there the call fails
\* and gives back what it has taken.
Lookup(x) ==
  LET t == Head(th[x].todo).tl
  IN /\ At(x, "lookup")
     /\ \/ /\ TimelineById(t)
           /\ tline' = TimelineGet(t)
           /\ th' = [th EXCEPT ![x].pc = th[x].why, ![x].tl = t]
        \/ /\ ~TimelineById(t)
           /\ th' = [th EXCEPT ![x].pc = "unwind"]
           /\ UNCHANGED tline
     /\ UNCHANGED <<idr, fence, files, obj>>

\* Slip: the fence is tested before timeline->lock is taken and added after.
FenceAllocUnlocked(x) ==
  LET t == th[x].tl   seq == Head(th[x].todo).seq
  IN \/ /\ At(x, "fence_get") \/ At(x, "wait")
        /\ \E f \in Fence :
             /\ fence[f].status = "none"
             /\ fence' = [fence EXCEPT ![f] = [tl |-> t, seq |-> seq, ref |-> 1,
                             status |-> IF Reached(t, seq) THEN "ok" ELSE "pending"]]
             /\ tline' = TimelineGet(t)
             /\ th' = [th EXCEPT ![x].pc = IF Reached(t, seq) THEN "got" ELSE "add",
                                 ![x].mine = @ \cup {f}]
        /\ UNCHANGED <<idr, files, obj>>
     \/ /\ At(x, "add") /\ Unlocked(t)
        /\ \E f \in th[x].mine :
             /\ fence[f].tl = t /\ fence[f].seq = seq
             /\ tline' = [tline EXCEPT ![t].fences = @ \cup {f}]
        /\ th' = [th EXCEPT ![x].pc = "got"]
        /\ UNCHANGED <<idr, fence, files, obj>>

\* kgsl_timeline_fence_alloc: the fence takes a timeline reference; under
\* timeline->lock it has already signaled or joins the active list.  There is
\* no memory when the model's fences are used up.
FenceAlloc(x) ==
  LET t == th[x].tl   seq == Head(th[x].todo).seq
  IN /\ At(x, "fence_get") \/ At(x, "wait")
     /\ \/ /\ Unlocked(t)
           /\ \E f \in Fence :
                /\ fence[f].status = "none"
                /\ fence' = [fence EXCEPT ![f] = [tl |-> t, seq |-> seq, ref |-> 1,
                                status |-> IF Reached(t, seq) THEN "ok" ELSE "pending"]]
                /\ tline' = [tline EXCEPT ![t].ref = @ + 1,
                               ![t].fences = IF Reached(t, seq) THEN @ ELSE @ \cup {f}]
                /\ th' = [th EXCEPT ![x].pc = "got", ![x].mine = @ \cup {f}]
        \/ /\ "fence" \in Failures \/ \A f \in Fence : fence[f].status # "none"
           /\ th' = [th EXCEPT ![x].pc = "got", ![x].why = "failed"]
           /\ UNCHANGED <<tline, fence>>
     /\ UNCHANGED <<idr, files, obj>>

\* timeline_fence_get: the sync_file takes a reference, or cannot be made;
\* then the caller's own reference is put.
FenceGetFile(x) ==
  /\ At(x, "got") /\ th[x].why = "fence_get"
  /\ \/ /\ files' = files \cup th[x].mine
        /\ fence' = FencesGet(th[x].mine)
        /\ th' = [th EXCEPT ![x].why = "filed"]
     \/ /\ "fence" \in Failures
        /\ th' = [th EXCEPT ![x].why = "unfiled"]
        /\ UNCHANGED <<files, fence>>
  /\ UNCHANGED <<idr, tline, obj>>

FenceGetPut(x) ==
  /\ At(x, "got") /\ th[x].why \in {"filed", "unfiled"}
  /\ \E f \in th[x].mine :
       FencePut(x, [th[x] EXCEPT !.mine = {}], f, fence[f].status)
  /\ UNCHANGED <<idr, tline, files, obj>>

\* Where a call for why goes after a value, with the values in rest left: one
\* that failed, or is done, goes to its end.
AfterValue(why, rest) ==
  IF why = "retire" THEN IF rest = <<>> THEN "retired" ELSE "retire"
  ELSE IF why \in {"failed", "destroy"} THEN "unwind"
  ELSE IF rest # <<>> THEN "lookup"
  ELSE IF why = "wait" THEN "waiting" ELSE "unwind"

\* What follows one value: the reference of the lookup is put and the next
\* value is looked up, if there is one.
ValueDone(x) ==
  LET rest == Tail(th[x].todo)
      next == AfterValue(th[x].why, rest)
  IN /\ At(x, "got")
     /\ th[x].why # "fence_get" /\ (th[x].why \in {"filed", "unfiled"} => th[x].mine = {})
     /\ tline' = TimelinePut(th[x].tl)
     /\ th' = [th EXCEPT ![x].pc = next, ![x].todo = rest,
                         ![x].tl = IF next = "retire" THEN rest[1].tl ELSE Null]
     /\ UNCHANGED <<idr, fence, files, obj>>

Signaled(f) == fence[f].status \in {"ok", "error"}

\* The end of timeline_wait: the fence, or the array of fences, has signaled,
\* or the timeout is over.
WaitReturns(x) ==
  /\ At(x, "waiting")
  /\ IF th[x].any THEN \E f \in th[x].mine : Signaled(f)
                  ELSE \A f \in th[x].mine : Signaled(f)
  /\ th' = [th EXCEPT ![x].pc = "unwind"]
  /\ UNCHANGED <<idr, tline, fence, files, obj>>

WaitTimesOut(x) ==
  /\ At(x, "waiting")
  /\ th' = [th EXCEPT ![x].pc = "unwind"]
  /\ UNCHANGED <<idr, tline, fence, files, obj>>

\* References the call still has are put one by one; then it returns.
Unwind(x) ==
  /\ At(x, "unwind")
  /\ IF th[x].mine # {}
     THEN \E f \in th[x].mine :
            FencePut(x, [th[x] EXCEPT !.mine = @ \ {f}], f, fence[f].status)
     ELSE th' = [th EXCEPT ![x] = Idle] /\ UNCHANGED fence
  /\ UNCHANGED <<idr, tline, files, obj>>

\* User space closes the file of a fence.
CloseFile(x, f) ==
  /\ At(x, "idle") /\ f \in files
  /\ files' = files \ {f}
  /\ FencePut(x, [Idle EXCEPT !.pc = "unwind"], f, fence[f].status)
  /\ UNCHANGED <<idr, tline, obj>>

\* Somebody asks whether a fence has signaled (dma_fence_is_signaled, or the
\* enable_signaling of a first waiter): if the timeline has reached it, it is
\* signaled under timeline->lock.
FencePoll(f) ==
  /\ f \in files \/ \E x \in Thread : th[x].pc = "waiting" /\ f \in th[x].mine
  /\ fence[f].status = "pending" /\ Unlocked(fence[f].tl)
  /\ Reached(fence[f].tl, fence[f].seq)
  /\ fence' = [fence EXCEPT ![f].status = "ok"]
  /\ UNCHANGED <<idr, tline, files, obj, th>>

-----------------------------------------------------------------------------
(* kgsl_timeline_signal, for the ioctl and for a retired timeline object.  *)

\* The length of the prefix of the sorted event list that seq retires: the
\* walk stops at the first event beyond it.
RetiredPrefix(events, seq) ==
  IF \E i \in DOMAIN events : events[i].seq > seq
  THEN (CHOOSE i \in DOMAIN events :
          events[i].seq > seq /\ \A j \in 1..(i - 1) : events[j].seq <= seq) - 1
  ELSE Len(events)

\* The lock is taken; an old seqno is ignored, else the value advances and the
\* events up to it leave the list.
SignalValue(x) ==
  LET t == th[x].tl   seq == Head(th[x].todo).seq
  IN /\ At(x, "signal") \/ At(x, "retire")
     /\ Unlocked(t)
     /\ \/ /\ seq < tline[t].value
           /\ th' = [th EXCEPT ![x].pc = "got"]
           /\ UNCHANGED tline
        \/ /\ seq >= tline[t].value
           /\ tline' = [tline EXCEPT ![t].lock = x, ![t].value = seq,
                          ![t].events = SubSeq(@, RetiredPrefix(@, seq) + 1, Len(@))]
           /\ th' = [th EXCEPT ![x].pc = "collect"]
     /\ UNCHANGED <<idr, fence, files, obj>>

\* Slip: a fence that is being released is taken along (kref_get).
SignalCollectDying(x) ==
  LET t == th[x].tl
      F == {f \in tline[t].fences : Reached(t, fence[f].seq)}
  IN /\ At(x, "collect")
     /\ fence' = FencesGet(F)
     /\ tline' = [tline EXCEPT ![t].fences = @ \ F]
     /\ th' = [th EXCEPT ![x].pc = "signaling", ![x].temp = F]
     /\ UNCHANGED <<idr, files, obj>>

\* Under fence_lock the fences the value has reached move to a private list,
\* each with a reference, save those that are being released.
SignalCollect(x) ==
  LET t == th[x].tl
      F == {f \in tline[t].fences : Reached(t, fence[f].seq) /\ fence[f].ref > 0}
  IN /\ At(x, "collect")
     /\ fence' = FencesGet(F)
     /\ tline' = [tline EXCEPT ![t].fences = @ \ F]
     /\ th' = [th EXCEPT ![x].pc = "signaling", ![x].temp = F]
     /\ UNCHANGED <<idr, files, obj>>

\* Each is signaled and put, under timeline->lock.
SignalFence(x) ==
  /\ At(x, "signaling")
  /\ \E f \in th[x].temp :
       FencePut(x, [th[x] EXCEPT !.temp = @ \ {f}], f,
                IF fence[f].status = "pending" THEN "ok" ELSE fence[f].status)
  /\ UNCHANGED <<idr, tline, files, obj>>

SignalUnlock(x) ==
  /\ At(x, "signaling") /\ th[x].temp = {}
  /\ tline' = [tline EXCEPT ![th[x].tl].lock = Null]
  /\ th' = [th EXCEPT ![x].pc = "got"]
  /\ UNCHANGED <<idr, fence, files, obj>>

-----------------------------------------------------------------------------
(* The destroy ioctl.                                                      *)

\* The id is removed and the idr's reference becomes the caller's.
DestroyId(x, t) ==
  /\ At(x, "idle") /\ "destroy" \in Calls[x] /\ idr[t] = "live"
  /\ idr' = [idr EXCEPT ![t] = "removed"]
  /\ th' = [th EXCEPT ![x] = [Idle EXCEPT !.pc = "steal", !.why = "destroy", !.tl = t,
                              !.todo = <<[tl |-> t, seq |-> 0]>>]]
  /\ UNCHANGED <<tline, fence, files, obj>>

\* Under fence_lock: the active list is taken over, a reference each; the
\* fences that are being released are dropped from it.
DestroySteal(x) ==
  LET t == th[x].tl
      F == {f \in tline[t].fences : fence[f].ref > 0}
  IN /\ At(x, "steal")
     /\ fence' = FencesGet(F)
     /\ tline' = [tline EXCEPT ![t].fences = {}]
     /\ th' = [th EXCEPT ![x].pc = "relock", ![x].temp = F]
     /\ UNCHANGED <<idr, files, obj>>

DestroyLock(x) ==
  /\ At(x, "relock") /\ Unlocked(th[x].tl)
  /\ tline' = [tline EXCEPT ![th[x].tl].lock = x]
  /\ th' = [th EXCEPT ![x].pc = "failing"]
  /\ UNCHANGED <<idr, fence, files, obj>>

\* Each fence is signaled with the error -ENOENT and put.  The error is
\* stored even if the fence has signaled meanwhile.
DestroyFence(x) ==
  /\ At(x, "failing")
  /\ \E f \in th[x].temp :
       FencePut(x, [th[x] EXCEPT !.temp = @ \ {f}], f, "error")
  /\ UNCHANGED <<idr, tline, files, obj>>

DestroyUnlock(x) ==
  /\ At(x, "failing") /\ th[x].temp = {}
  /\ tline' = [tline EXCEPT ![th[x].tl].lock = Null]
  /\ th' = [th EXCEPT ![x].pc = "got"]
  /\ UNCHANGED <<idr, fence, files, obj>>

-----------------------------------------------------------------------------
(* Timeline objects (kgsl_drawobj.c).                                      *)

\* kgsl_drawobj_timeline_create and the start of kgsl_drawobj_add_timeline.
ObjCreate(x, o, vals) ==
  /\ At(x, "idle") /\ "aux" \in Calls[x] /\ obj[o].st = "none"
  /\ obj' = [obj EXCEPT ![o].st = "filling", ![o].sig = 1]
  /\ th' = [th EXCEPT ![x] = [Idle EXCEPT !.pc = "fill", !.why = "aux",
                                          !.todo = vals, !.o = o]]
  /\ UNCHANGED <<idr, tline, fence, files>>

\* Each value's timeline is looked up and its reference kept in the array.  If
\* one is not there the array is given up; the caller destroys the object.
ObjFill(x) ==
  LET v == Head(th[x].todo)   o == th[x].o
  IN /\ At(x, "fill") /\ th[x].todo # <<>>
     /\ \/ /\ TimelineById(v.tl)
           /\ tline' = TimelineGet(v.tl)
           /\ obj' = [obj EXCEPT ![o].vals = Append(@, v)]
           /\ th' = [th EXCEPT ![x].todo = Tail(@)]
        \/ /\ ~TimelineById(v.tl)
           /\ th' = [th EXCEPT ![x].pc = "empty", ![x].todo = <<>>]
           /\ UNCHANGED <<tline, obj>>
     /\ UNCHANGED <<idr, fence, files>>

\* The event that waits for the commands before the object is registered and
\* the object is queued; or that failed and the array is given up.
ObjAddEvent(x) ==
  LET o == th[x].o
  IN /\ At(x, "fill") /\ th[x].todo = <<>>
     /\ \/ /\ obj' = [obj EXCEPT ![o].count = Len(obj[o].vals), ![o].sig = 2,
                                 ![o].event = "armed", ![o].st = "queued"]
           /\ th' = [th EXCEPT ![x] = Idle]
        \/ /\ "event" \in Failures
           /\ obj' = [obj EXCEPT ![o].count = Len(obj[o].vals)]
           /\ th' = [th EXCEPT ![x].pc = "empty"]
     /\ UNCHANGED <<idr, tline, fence, files>>

\* The error path: the references are put and the array is freed; the count,
\* if it was set, stays.
ObjEmpty(x) ==
  LET o == th[x].o
  IN /\ At(x, "empty")
     /\ IF obj[o].vals # <<>>
        THEN /\ tline' = TimelinePut(Head(obj[o].vals).tl)
             /\ obj' = [obj EXCEPT ![o].vals = Tail(@)]
             /\ UNCHANGED th
        ELSE /\ obj' = [obj EXCEPT ![o].st = "done"]
             /\ th' = [th EXCEPT ![x].pc = "announce"]
             /\ UNCHANGED tline
     /\ UNCHANGED <<idr, fence, files>>

\* The dispatcher pops the object, or the context is detached.
ObjDestroy(x, o) ==
  /\ At(x, "idle") /\ obj[o].st = "queued"
  /\ obj' = [obj EXCEPT ![o].st = "done"]
  /\ th' = [th EXCEPT ![x] = [Idle EXCEPT !.pc = "announce", !.why = "aux", !.o = o,
                                          !.todo = obj[o].vals]]
  /\ UNCHANGED <<idr, tline, fence, files>>

\* The commands before the object retire; the event worker runs the callback
\* after that, or because the event was cancelled.
TimestampRetires(o) ==
  /\ obj[o].event = "armed" /\ ~obj[o].retired
  /\ obj' = [obj EXCEPT ![o].retired = TRUE]
  /\ UNCHANGED <<idr, tline, fence, files, th>>

TimelineSignaled(x, o) ==
  /\ At(x, "idle") /\ obj[o].event = "armed"
  /\ obj' = [obj EXCEPT ![o].event = "fired"]
  /\ th' = [th EXCEPT ![x] = [Idle EXCEPT !.pc = "announced", !.why = "aux", !.o = o]]
  /\ UNCHANGED <<idr, tline, fence, files>>

\* Slip: the event goes to the end of the list.
AddSignalLast(x) ==
  LET o == th[x].o   e == Head(th[x].todo)   t == e.tl
  IN /\ At(x, "announce") /\ th[x].todo # <<>> /\ Unlocked(t)
     /\ tline' = [tline EXCEPT ![t].events =
                    IF tline[t].value >= e.seq THEN @
                    ELSE Append(@, [o |-> o, seq |-> e.seq])]
     /\ th' = [th EXCEPT ![x].todo = Tail(@)]
     /\ UNCHANGED <<idr, fence, files, obj>>

\* kgsl_timeline_add_signal for each entry: unless the value is there already
\* the event joins the timeline's list behind the last one not beyond it.
AddSignal(x) ==
  LET o == th[x].o   e == Head(th[x].todo)   t == e.tl
      behind == Cardinality({i \in DOMAIN tline[t].events :
                               \E j \in i..Len(tline[t].events) :
                                 tline[t].events[j].seq <= e.seq})
  IN /\ At(x, "announce") /\ th[x].todo # <<>> /\ Unlocked(t)
     /\ tline' = [tline EXCEPT ![t].events =
                    IF tline[t].value >= e.seq THEN @
                    ELSE InsertAt(@, behind + 1, [o |-> o, seq |-> e.seq])]
     /\ th' = [th EXCEPT ![x].todo = Tail(@)]
     /\ UNCHANGED <<idr, fence, files, obj>>

\* The walk over the array at the end of the scheduler's part stays inside the
\* array; otherwise it faults and the thread goes no further.
InArray(o) == obj[o].count <= Len(obj[o].vals)

\* kgsl_timelineobj_signal: the last of the two sides retires the object,
\* signaling the entries one by one.
TimelineobjSignal(x) ==
  LET o == th[x].o
  IN /\ At(x, "announced") \/ (At(x, "announce") /\ th[x].todo = <<>> /\ InArray(o))
     /\ obj' = [obj EXCEPT ![o].sig = @ - 1]
     /\ th' = [th EXCEPT ![x] =
                 IF obj[o].sig > 1 \/ obj[o].vals = <<>> THEN Idle
                 ELSE [Idle EXCEPT !.pc = "retire", !.why = "retire", !.o = o,
                                   !.todo = obj[o].vals, !.tl = obj[o].vals[1].tl]]
     /\ UNCHANGED <<idr, tline, fence, files>>

\* All entries are signaled: the array is freed.
TimelineobjRetire(x) ==
  /\ At(x, "retired")
  /\ obj' = [obj EXCEPT ![th[x].o].vals = <<>>, ![th[x].o].count = 0]
  /\ th' = [th EXCEPT ![x] = Idle]
  /\ UNCHANGED <<idr, tline, fence, files>>

-----------------------------------------------------------------------------
\* A thread goes on with its call.
Resume(x) ==
  \/ FenceRelease(x) \/ TimelineCreate(x)
  \/ Lookup(x) \/ FenceAlloc(x) \/ FenceGetFile(x) \/ FenceGetPut(x)
  \/ ValueDone(x)
  \/ WaitReturns(x) \/ Unwind(x)
  \/ SignalValue(x) \/ SignalCollect(x) \/ SignalFence(x) \/ SignalUnlock(x)
  \/ DestroySteal(x) \/ DestroyLock(x) \/ DestroyFence(x) \/ DestroyUnlock(x)
  \/ ObjFill(x) \/ ObjAddEvent(x) \/ ObjEmpty(x)
  \/ AddSignal(x) \/ TimelineobjSignal(x) \/ TimelineobjRetire(x)

Begin(x) ==
  \/ /\ x \notin Worker
     /\ \/ \E t \in Timeline : TimelineAlloc(x, t) \/ DestroyId(x, t)
        \/ \E vals \in Arrays :
             \/ \E why \in Calls[x] : Call(x, why, vals)
             \/ \E o \in Obj : ObjCreate(x, o, vals)
        \/ \E f \in Fence : CloseFile(x, f)
  \/ \E o \in Obj : ObjDestroy(x, o) \/ (x \in Worker /\ TimelineSignaled(x, o))

Next ==
  \/ \E x \in Thread : Begin(x) \/ Resume(x) \/ WaitTimesOut(x)
  \/ \E f \in Fence : FencePoll(f)
  \/ \E o \in Obj : TimestampRetires(o)

Spec == Init /\ [][Next]_vars

-----------------------------------------------------------------------------
(* Properties.                                                             *)

PC == {"idle", "commit", "lookup", "fence_get", "wait", "signal", "retire", "got",
       "waiting", "unwind", "collect", "signaling", "steal", "relock", "failing",
       "fill", "empty", "announce", "announced", "retired"}

\* The values the state takes; a lock is held by a thread in the midst of a
\* signal or a destroy of that timeline, and by no other.
TypeOK ==
  /\ idr \in [Timeline -> {"none", "reserved", "live", "removed"}]
  /\ \A t \in Timeline :
       /\ tline[t].ref \in Nat /\ tline[t].value \in Seqno
       /\ tline[t].fences \subseteq Fence
       /\ tline[t].events \in Seq([o : Obj, seq : Seqno])
       /\ \A x \in Thread : tline[t].lock = x <=>
            th[x].tl = t /\ th[x].pc \in {"collect", "signaling", "failing"}
  /\ fence \in [Fence -> [tl : Timeline \cup {Null}, seq : Seqno, ref : Nat,
                          status : {"none", "pending", "ok", "error", "freed"}]]
  /\ files \subseteq Fence
  /\ \A o \in Obj : obj[o].sig \in 0..2 /\ obj[o].vals \in Seq(Val)
  /\ \A x \in Thread : th[x].pc \in PC /\ th[x].todo \in Seq(Val)

Live(f) == fence[f].status \in {"pending", "ok", "error"}

\* The entries of an object that still own a timeline reference.
Entries(o) ==
  IF \E x \in Thread : th[x].why = "retire" /\ th[x].o = o
  THEN th[CHOOSE x \in Thread : th[x].why = "retire" /\ th[x].o = o].todo
  ELSE obj[o].vals

\* The reference count of a timeline is the number of its users: the idr,
\* calls, fences not yet freed, entries of timeline objects.  So no signal,
\* release, query or retire touches a timeline that has been freed, and one
\* that is used by nobody has been freed.
TimelineRefs ==
  \A t \in Timeline :
    tline[t].ref =
      (IF idr[t] \in {"reserved", "live"} THEN 1 ELSE 0)
      + Cardinality({x \in Thread : th[x].tl = t /\ th[x].pc # "commit"
                                    /\ th[x].why # "retire"})
      + Cardinality({f \in Fence : Live(f) /\ fence[f].tl = t})
      + Cardinality(UNION {{<<o, i>> : i \in {i \in DOMAIN Entries(o) :
                                                Entries(o)[i].tl = t}} : o \in Obj})

\* The reference count of a fence is the number of its holders, across the
\* private lists of signals and destroys too, and a fence on an active list
\* has not been freed: what a list walk finds is memory that is still there.
FenceRefs ==
  /\ \A f \in Fence : Live(f) =>
       fence[f].ref = Cardinality({x \in Thread : f \in th[x].mine})
                      + Cardinality({x \in Thread : f \in th[x].temp})
                      + (IF f \in files THEN 1 ELSE 0)
  /\ \A t \in Timeline : \A f \in tline[t].fences : Live(f)
  /\ \A x \in Thread : \A f \in th[x].temp : Live(f)

\* A timeline is freed with both lists empty, as the two WARN_ONs of
\* kgsl_timeline_destroy ask.
FreedIsEmpty ==
  \A t \in Timeline : idr[t] = "removed" /\ tline[t].ref = 0
    => tline[t].fences = {} /\ tline[t].events = <<>>

\* The lifetimes of timelines and fences: what every walk of a list and every
\* kgsl_timeline_put and dma_fence_put relies on.
TimelineInv == TypeOK /\ TimelineRefs /\ FenceRefs /\ FreedIsEmpty

\* No fence misses its signal between the test and the list: while nobody
\* works under timeline->lock, a fence that is held and has not signaled is
\* beyond the value and on the active list, or in the hands of a destroy, or
\* was added after a destroy had emptied the list.
NoMissedSignal ==
  \A f \in Fence :
    LET t == fence[f].tl
    IN fence[f].status = "pending" /\ fence[f].ref > 0 /\ Unlocked(t) =>
         \/ fence[f].seq > tline[t].value /\ f \in tline[t].fences
         \/ \E x \in Thread : th[x].why = "destroy" /\ f \in th[x].temp

\* An event on a timeline's list is part of an array that has not been freed,
\* is beyond the value, and is in its place: what the walks in signal and
\* query read, and what lets them stop early.
EventsInOrder ==
  \A t \in Timeline :
    LET E == tline[t].events
    IN \A i \in DOMAIN E :
         /\ E[i].seq > tline[t].value
         /\ \E j \in DOMAIN obj[E[i].o].vals :
              obj[E[i].o].vals[j] = [tl |-> t, seq |-> E[i].seq]
         /\ \A j \in DOMAIN E : i < j => E[i].seq <= E[j].seq

\* What timeline_query returns: the seqno of the last event on the list whose
\* timestamp has retired, else the value.
QueryFirst(t) ==
  LET R == {i \in DOMAIN tline[t].events : obj[tline[t].events[i].o].retired}
  IN IF R = {} THEN tline[t].value
     ELSE tline[t].events[CHOOSE i \in R : \A j \in R : i <= j].seq

TimelineQuery(t) ==
  LET R == {i \in DOMAIN tline[t].events : obj[tline[t].events[i].o].retired}
  IN IF R = {} THEN tline[t].value
     ELSE tline[t].events[CHOOSE i \in R : \A j \in R : j <= i].seq

\* Successive queries of a timeline return a monotonically increasing seqno,
\* across the hand-over from retired events to the value and back.
QueryMonotonic ==
  [][\A t \in Timeline : idr[t] \in {"live", "removed"}
       => TimelineQuery(t) <= TimelineQuery(t)']_vars
=============================================================================
