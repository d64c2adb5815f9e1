-------------------------- MODULE KgslDispatchInv ---------------------------
(***************************************************************************)
(* The inductive invariant behind the order of a context's commands: what  *)
(* has been sent, what the dispatcher holds and what is queued, with the   *)
(* reason why the driver may write a retired timestamp of its own.         *)
(***************************************************************************)
EXTENDS KgslDispatch

ObjectType == [k : Kind, ts : Nat, dep : Nat, skip : BOOLEAN,
               st : {"wait", "busy", "done"}]

ContextType ==
  [q : Seq(ObjectType), queued : Nat, ts : Nat, qts : Nat, retired : Nat,
   state : SUBSET {"invalid", "detached"}, detach : {"no", "marked", "taken", "done"},
   stale : BOOLEAN]

SentType == [c : Context, ts : Nat]

ThreadType ==
  [pc : {"idle"}] \cup
  [pc : {"queue", "test", "sleep", "woken", "job", "issue", "dispatch"},
   c : Context, b : Seq(Kind), seen : Nat]

Owners == Thread \cup {"worker", "none"}

\* The dispatching routine between two contexts, and at one.
DispType ==
  [owner : Owners, pc : {"free", "fault", "issue", "unlock"}] \cup
  [owner : Owners, pc : {"jobs"}, first : SUBSET Context, second : SUBSET Context] \cup
  [owner : Owners, pc : {"send"}, first : SUBSET Context, second : SUBSET Context,
   c : Context, count : Nat, limit : Nat] \cup
  [owner : Owners, pc : {"sendcmd"}, first : SUBSET Context, second : SUBSET Context,
   c : Context, count : Nat, limit : Nat, obj : ObjectType] \cup
  [owner : Owners, pc : {"sent"}, first : SUBSET Context, second : SUBSET Context,
   c : Context, ret : {"none", "count", "busy", "again", "gone"}]

\* The values of the whole state.
StateTypes ==
  /\ ctx \in [Context -> ContextType]
  /\ jobs \subseteq Context /\ requeue \subseteq Context
  /\ inflight \in Seq(SentType) /\ ring \in Seq(SentType)
  /\ disp \in DispType
  /\ gpu \in [kick : BOOLEAN, fault : BOOLEAN, halt : BOOLEAN, left : Nat]
  /\ th \in [Thread -> ThreadType]

\* The mutex is somebody's exactly while he dispatches.
OwnerInv ==
  /\ disp.pc = "free" <=> disp.owner = "none"
  /\ \A t \in Thread : th[t].pc = "dispatch" <=> disp.owner = t

\* What is submitted is what the ioctls make.
BatchInv == \A t \in Thread : th[t].pc # "idle" => BindsAreSynced(th[t].b)

\* The queue of a context with the timestamps S that have been sent and the
\* objects H in the dispatcher's hand: the order of TimeIsLinear, up to the
\* last queued timestamp.
QueueInOrder(x, S, H) ==
  /\ x.qts <= x.ts
  /\ \A i \in DOMAIN x.q :
       /\ x.q[i].ts <= x.qts
       /\ x.q[i].ts > 0 <=> x.q[i].k \in {"cmd", "marker", "bind"}
       /\ x.q[i].skip => x.q[i].k = "marker"
       /\ x.q[i].ts > 0 => /\ \A j \in DOMAIN x.q : i < j /\ x.q[j].ts > 0
                                                   => x.q[i].ts < x.q[j].ts
                           /\ \A o \in H : o.ts < x.q[i].ts
                           /\ \A s \in S : s < x.q[i].ts
  /\ \A o \in H : o.k \in {"cmd", "marker"} /\ o.ts > 0 /\ o.ts <= x.qts
                  /\ (o.skip => o.k = "marker") /\ \A s \in S : s < o.ts
  /\ \A s \in S : s <= x.qts

\* What may be pending before the object at i of the queue has timestamps up to
\* dep: in the ringbuffer R, the dispatcher's hand H and the queue.
Covers(x, R, H, i, dep) ==
  /\ \A r \in R : r <= dep
  /\ \A o \in H : o.ts <= dep
  /\ \A j \in DOMAIN x.q : j < i => x.q[j].ts <= dep

\* Nothing of a good context is pending at or before its retired timestamp.  A
\* marker depends on everything before it; so does the sync object before a
\* bind operation, and once that has expired there is nothing before the bind
\* operation any more.
RetiredInOrder(x, R, H) ==
  /\ \A r \in R : r > x.retired
  /\ \A o \in H : o.ts > x.retired /\ (o.k = "marker" => \A r \in R : r <= o.dep)
  /\ \A i \in DOMAIN x.q :
       /\ x.q[i].ts > 0 => x.q[i].ts > x.retired
       /\ x.q[i].k = "marker" => Covers(x, R, H, i, x.q[i].dep)
       /\ x.q[i].k = "bind" /\ i = 1 => R = {} /\ H = {}
       /\ x.q[i].k = "bind" /\ i > 1 => /\ x.q[i - 1].k = "sync"
                                        /\ Covers(x, R, H, i, x.q[i - 1].dep)
       /\ x.q[i].k = "sync" /\ x.q[i].st = "done" => x.q[i].dep <= x.retired

\* The counter covers the queue.
CountInv(x) ==
  /\ Len(x.q) <= x.queued
  /\ x.state = {} => x.queued = Len(x.q) /\ x.detach = "no"

ContextInv(x, S, R, H) ==
  /\ QueueInOrder(x, S, H) /\ x.retired <= x.ts
  /\ x.state = {} /\ ~x.stale => RetiredInOrder(x, R, H)
  /\ CountInv(x)

\* What has been sent stands in order; the ends of the two sequences agree, and
\* what the ringbuffer has no more is retired.
SentInOrder(s) ==
  \A i, j \in DOMAIN s : i < j /\ s[i].c = s[j].c => s[i].ts < s[j].ts

FlightInv ==
  /\ SentInOrder(inflight) /\ SentInOrder(ring)
  /\ \A i \in DOMAIN inflight, j \in DOMAIN ring :
       Len(inflight) - i = Len(ring) - j => inflight[i] = ring[j]
  /\ \A i \in DOMAIN inflight :
       Len(inflight) - i >= Len(ring) => ctx[inflight[i].c].retired >= inflight[i].ts

QueuesInv ==
  \A c \in Context : ContextInv(ctx[c], Times(inflight, c) \cup Times(ring, c),
                                Times(ring, c), Hand(c))

IInv == StateTypes /\ OwnerInv /\ BatchInv /\ QueuesInv /\ FlightInv
=============================================================================
