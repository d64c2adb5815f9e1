-------------------------- MODULE KgslTimelineInv --------------------------
(***************************************************************************)
(* The inductive invariant behind timelines, in three parts.  Fences: who  *)
(* holds which of their references, who may work under timeline->lock, and *)
(* where a fence is that waits for its signal.  Timeline objects: which of *)
(* their two sides are pending, who retires them, and where the events of  *)
(* their entries are.  References of timelines: who their users are.       *)
(***************************************************************************)
EXTENDS KgslTimeline, Integers

-----------------------------------------------------------------------------
(* The shape of the state.                                                 *)

\* The steps under timeline->lock, and those of a destroy.
LockSteps == {"collect", "signaling", "failing"}
DestroySteps == {"steal", "relock", "failing"}

\* The steps that work on the first of the values to do, with a timeline
\* reference; the steps of a timeline object.
ValueSteps == {"fence_get", "wait", "signal", "retire", "got", "collect", "signaling"}
              \cup DestroySteps
ObjSteps == {"fill", "empty", "announce", "announced", "retired"}

TlineFields == {"ref", "value", "lock", "fences", "events"}
IsTline(r) == DOMAIN r = TlineFields /\ r = [k \in TlineFields |-> r[k]]

TlineShape ==
  DOMAIN tline = Timeline /\ tline = [t \in Timeline |-> tline[t]]
  /\ \A t \in Timeline : IsTline(tline[t])

TlineOK(t) ==
  /\ tline[t].value \in Seqno /\ tline[t].lock \in Thread \cup {Null}
  /\ tline[t].fences \subseteq Fence

FenceFields == {"tl", "seq", "ref", "status"}
IsFence(r) == DOMAIN r = FenceFields /\ r = [k \in FenceFields |-> r[k]]

FenceShape ==
  DOMAIN fence = Fence /\ fence = [f \in Fence |-> fence[f]]
  /\ \A f \in Fence : IsFence(fence[f])

FenceOK(f) ==
  /\ fence[f].tl \in Timeline \cup {Null} /\ fence[f].seq \in Seqno
  /\ fence[f].status \in {"none", "pending", "ok", "error", "freed"}

ObjFields == {"st", "sig", "vals", "count", "event", "retired"}
IsObj(r) == DOMAIN r = ObjFields /\ r = [k \in ObjFields |-> r[k]]

ObjShape ==
  DOMAIN obj = Obj /\ obj = [o \in Obj |-> obj[o]] /\ \A o \in Obj : IsObj(obj[o])

ThreadFields == {"pc", "why", "todo", "tl", "mine", "temp", "dying", "any", "o"}
IsThread(r) == DOMAIN r = ThreadFields /\ r = [k \in ThreadFields |-> r[k]]

ThreadShape ==
  DOMAIN th = Thread /\ th = [x \in Thread |-> th[x]] /\ \A x \in Thread : IsThread(th[x])

\* How far a call has come, and for whom.
Agree(pc, why) ==
  /\ pc = "lookup" => why \in {"fence_get", "wait", "signal"}
  /\ pc = "fence_get" => why = "fence_get"
  /\ pc \in {"wait", "waiting"} => why = "wait"
  /\ pc = "signal" => why = "signal"
  /\ pc \in {"retire", "retired"} => why = "retire"
  /\ pc \in {"collect", "signaling"} => why \in {"signal", "retire"}
  /\ pc \in DestroySteps => why = "destroy"
  /\ pc = "got" => why \in {"fence_get", "filed", "unfiled", "wait", "failed", "signal",
                            "retire", "destroy"}

\* A thread: the fences it has made are in its hands while the call that made
\* them lasts, the private list while it walks it.
ThreadOK(r) ==
  /\ r.pc \in PC /\ Agree(r.pc, r.why)
  /\ r.todo \in Seq(Val)
  /\ r.tl \in Timeline \cup {Null}
  /\ r.mine \subseteq Fence /\ r.temp \subseteq Fence
  /\ r.dying \in Fence \cup {Null}
  /\ r.pc \in ValueSteps \cup {"commit"} => r.tl \in Timeline
  /\ r.pc \in ValueSteps \cup {"lookup"} => r.todo # <<>>
  /\ r.pc \in ObjSteps \/ r.why = "retire" => r.o \in Obj
  /\ r.mine # {} => /\ r.pc \in {"lookup", "wait", "got", "waiting", "unwind"}
                   /\ r.why \in {"fence_get", "filed", "unfiled", "wait", "failed"}
  /\ r.why \in {"fence_get", "filed", "unfiled"} =>
       /\ r.pc \in {"lookup", "fence_get", "got"} => Tail(r.todo) = <<>>
       /\ r.pc = "lookup" => r.mine = {}
       /\ \A f, g \in r.mine : f = g
  /\ r.temp # {} => r.pc \in {"signaling", "relock", "failing"}

StateShape ==
  /\ TlineShape /\ FenceShape /\ ObjShape /\ ThreadShape
  /\ files \subseteq Fence /\ DOMAIN idr = Timeline
  /\ \A t \in Timeline : TlineOK(t)
  /\ \A f \in Fence : FenceOK(f)
  /\ \A o \in Obj : obj[o].vals \in Seq(Val)
  /\ \A x \in Thread : ThreadOK(th[x])

-----------------------------------------------------------------------------
(* The invariant.                                                          *)

\* timeline->lock belongs to the thread that works on the timeline under it.
LockInv ==
  \A t \in Timeline : \A x \in Thread :
    tline[t].lock = x <=> th[x].tl = t /\ th[x].pc \in LockSteps

\* A timeline with fences, or about to get one, has got its id.
IdInv ==
  /\ \A f \in Fence : Live(f) => fence[f].tl \in Timeline /\ idr[fence[f].tl] # "none"
  /\ \A x \in Thread : th[x].pc \in {"fence_get", "wait"} => idr[th[x].tl] # "none"

\* A fence is made by one thread, and once it has left the active list it is
\* on one private list at most.
OneHolder ==
  \A x, y \in Thread :
    /\ th[x].mine \cap th[y].mine # {} => x = y
    /\ th[x].temp \cap th[y].temp # {} => x = y
    /\ th[x].dying = th[y].dying /\ th[x].dying # Null => x = y

\* The file of a fence is made by the thread that has made the fence, once.
FiledOnce ==
  \A x \in Thread : th[x].pc = "got" /\ th[x].why = "fence_get" => th[x].mine \cap files = {}

\* What an active list or a private list holds belongs to its timeline.
ListInv ==
  /\ \A t \in Timeline : \A f \in tline[t].fences :
       /\ Live(f) /\ fence[f].tl = t
       /\ \A x \in Thread : f \notin th[x].temp
  /\ \A x \in Thread : \A f \in th[x].temp : fence[f].tl = th[x].tl

Bit(b) == IF b THEN 1 ELSE 0
Made(f) == \E x \in Thread : f \in th[x].mine
Taken(f) == \E x \in Thread : f \in th[x].temp

\* The references of a fence: each holder has one; without any it is free, or
\* the thread that put the last one is about to release it.
RefInv ==
  \A f \in Fence :
    /\ fence[f].ref = Bit(Made(f)) + Bit(Taken(f)) + Bit(f \in files)
    /\ fence[f].ref > 0 => Live(f)
    /\ \A x \in Thread : th[x].dying = f => Live(f) /\ fence[f].ref = 0

\* A fence that waits for its signal is beyond the value and on the active
\* list, or will be collected from there, or is on somebody's private list.
SignalInv ==
  \A f \in Fence : fence[f].status = "pending" /\ fence[f].ref > 0 =>
    \/ /\ f \in tline[fence[f].tl].fences
       /\ \/ fence[f].seq > tline[fence[f].tl].value
          \/ \E x \in Thread : th[x].pc = "collect" /\ th[x].tl = fence[f].tl
    \/ Taken(f)

FenceIInv ==
  StateShape /\ LockInv /\ IdInv /\ OneHolder /\ FiledOnce /\ ListInv /\ RefInv /\ SignalInv
-----------------------------------------------------------------------------
(* Timeline objects and the events of their entries.                       *)

\* The steps of the scheduler's side of a timeline object.
SchedSteps == {"fill", "empty", "announce"}

\* A side of an object that has not yet dropped its sig_refcount.
SchedPending(o) ==
  obj[o].st = "queued" \/ \E x \in Thread : th[x].pc \in SchedSteps /\ th[x].o = o
EventPending(o) ==
  obj[o].event = "armed" \/ \E x \in Thread : th[x].pc = "announced" /\ th[x].o = o

Retires(x, o) == th[x].why = "retire" /\ th[x].o = o

\* The values a retiring thread has still to signal.
Left(r) == IF r.pc \in {"retire", "retired"} THEN r.todo ELSE Tail(r.todo)

\* A thread that works on an object, and the timeline a thread has at hand.
WorkOK(r) ==
  /\ r.tl # Null <=> r.pc \in ValueSteps \cup {"commit"}
  /\ r.why = "retire" => r.pc \in {"retire", "collect", "signaling", "got", "retired"}
  /\ r.why = "retire" /\ r.pc # "retired" => r.tl = Head(r.todo).tl
  /\ r.pc \in {"retired", "empty"} => r.todo = <<>>

\* Each side of an object is with one thread at most, and so is its end.
OneSide ==
  \A x, y \in Thread : th[x].o = th[y].o =>
    /\ th[x].pc \in SchedSteps /\ th[y].pc \in SchedSteps => x = y
    /\ th[x].pc = "announced" /\ th[y].pc = "announced" => x = y
    /\ th[x].why = "retire" /\ th[y].why = "retire" => x = y

\* sig_refcount counts the sides that are pending; an object retires when none
\* is, and its array stays until then.
SideInv ==
  /\ \A o \in Obj :
       /\ obj[o].st \in {"none", "filling", "queued", "done"}
       /\ obj[o].sig = Bit(SchedPending(o)) + Bit(EventPending(o))
       /\ obj[o].st = "none" => ~SchedPending(o) /\ obj[o].vals = <<>>
       /\ obj[o].st \in {"none", "filling"} => ~EventPending(o)
  /\ \A x \in Thread :
       /\ th[x].pc \in {"fill", "empty"} => obj[th[x].o].st = "filling"
       /\ th[x].pc = "announce" => obj[th[x].o].st = "done"
       /\ th[x].pc = "announced" => obj[th[x].o].event = "fired"
       /\ th[x].why = "retire" => obj[th[x].o].sig = 0 /\ obj[th[x].o].st = "done"

\* What a thread announces or retires is in the object's array, whose entries
\* are of timelines that have been created.
ArrayInv ==
  /\ \A o \in Obj : \A v \in ToSet(obj[o].vals) : idr[v.tl] # "none"
  /\ \A x \in Thread : th[x].pc = "announce" \/ th[x].why = "retire"
       => ToSet(th[x].todo) \subseteq ToSet(obj[th[x].o].vals)

\* The list of events of t, with the value at v: beyond it and in order.
InOrder(E, v) ==
  \A i \in DOMAIN E : E[i].seq > v /\ \A j \in DOMAIN E : i < j => E[i].seq <= E[j].seq

\* An event belongs to an entry of its object, which is past its filling; if
\* the object is being retired the entry is still to be signaled.
EventInv ==
  \A t \in Timeline :
    /\ tline[t].events \in Seq([o : Obj, seq : Seqno])
    /\ InOrder(tline[t].events, tline[t].value)
    /\ \A e \in ToSet(tline[t].events) :
         /\ [tl |-> t, seq |-> e.seq] \in ToSet(obj[e.o].vals)
         /\ obj[e.o].st = "done"
         /\ \A x \in Thread : Retires(x, e.o) => [tl |-> t, seq |-> e.seq] \in ToSet(Left(th[x]))

ObjIInv ==
  /\ \A x \in Thread : WorkOK(th[x])
  /\ OneSide /\ SideInv /\ ArrayInv /\ EventInv

-----------------------------------------------------------------------------
(* The references of timelines.                                            *)

\* An id is reserved by the one thread that creates its timeline, and nobody
\* has hold of a timeline before.
IdsInv ==
  /\ idr \in [Timeline -> {"none", "reserved", "live", "removed"}]
  /\ \A x \in Thread : /\ th[x].pc = "commit" => idr[th[x].tl] = "reserved"
                       /\ th[x].tl # Null => idr[th[x].tl] # "none"
  /\ \A x, y \in Thread :
       th[x].pc = "commit" /\ th[y].pc = "commit" /\ th[x].tl = th[y].tl => x = y

\* The users of t: calls, fences, entries of timeline objects.
CallUsers(t) == {x \in Thread : th[x].tl = t /\ th[x].pc # "commit" /\ th[x].why # "retire"}
FenceUsers(t) == {f \in Fence : Live(f) /\ fence[f].tl = t}
EntryUsers(t) ==
  UNION {{<<o, i>> : i \in {i \in DOMAIN Entries(o) : Entries(o)[i].tl = t}} : o \in Obj}

UsersInv ==
  \A t \in Timeline :
    /\ IsFiniteSet(EntryUsers(t))
    /\ tline[t].ref = Bit(idr[t] \in {"reserved", "live"}) + Cardinality(CallUsers(t))
                      + Cardinality(FenceUsers(t)) + Cardinality(EntryUsers(t))

TimelineIInv == FenceIInv /\ ObjIInv /\ IdsInv /\ UsersInv
=============================================================================
