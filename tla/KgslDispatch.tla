---------------------------- MODULE KgslDispatch ----------------------------
(***************************************************************************)
(* The KGSL software dispatcher: the queues of the contexts, the lists of  *)
(* contexts with work, the submitting threads and the worker that send the *)
(* commands to the GPU.                                                    *)
(*                                                                         *)
(* A submitter queues its objects under the lock of the context, sleeps if *)
(* there is no room, puts the context on a lockless list and, if it gets   *)
(* the dispatcher's mutex, sends commands itself; otherwise it leaves that *)
(* to the worker.  The lock is dropped between taking an object from the   *)
(* queue and sending it, and an object that could not be sent is put back. *)
(* Commands are retired by the GPU; markers and bind operations by the     *)
(* driver, which writes the retired timestamp itself.                      *)
(***************************************************************************)
EXTENDS Integers, Sequences, FiniteSets, FiniteSetsExt

CONSTANTS
  Context, Thread,
  Submits,      \* thread -> the contexts it submits to, with what: sequences of kinds
  Size,         \* _context_drawqueue_size
  Burst,        \* _context_drawobj_burst
  Limits,       \* the values of _drawqueue_inflight
  MaxTs,        \* bound on the timestamps of a context
  MaxEvents,    \* bound on faults and halts
  Failures      \* what may happen in the run

Kind == {"cmd", "marker", "sync", "tsync", "bind", "timeline"}

\* kgsl_ioctl_gpu_aux_command puts the implicit sync object before every bind
\* operation.
BindsAreSynced(b) == \A i \in DOMAIN b : b[i] = "bind" => i > 1 /\ b[i - 1] = "tsync"

ASSUME DispatchAssumption ==
  /\ "none" \notin Thread /\ "worker" \notin Thread
  /\ Submits \in [Thread -> SUBSET (Context \X Seq(Kind))]
  /\ \A t \in Thread : \A s \in Submits[t] : BindsAreSynced(s[2])
  /\ Size \in Nat \ {0} /\ Burst \in Nat \ {0} /\ Limits \subseteq Nat \ {0}
  /\ \A t \in Thread : \A s \in Submits[t] : Len(s[2]) \in 1..(Size - 1)
  /\ MaxTs \in Nat /\ MaxEvents \in Nat
  /\ Failures \subseteq {"fault", "halt", "space", "detach", "timeout", "guilty", "defer"}

VARIABLES
  ctx,        \* struct adreno_context, and a note on its history.  stale: a
              \* bind operation was queued behind commands its sync point does
              \* not cover
  jobs,       \* dispatcher->jobs: the contexts on the list
  requeue,    \* dispatcher->requeue
  inflight,   \* dispatch_q->cmd_q: what has been sent and not retired
  ring,       \* the ringbuffer: what the GPU has yet to execute
  disp,       \* the dispatcher's mutex and what its owner is doing
  gpu,        \* worker scheduled, fault and halt, events left
  th          \* the submitting threads

vars == <<ctx, jobs, requeue, inflight, ring, disp, gpu, th>>

Idle == [pc |-> "idle"]
Free == [owner |-> "none", pc |-> "free"]

Init ==
  /\ ctx = [c \in Context |-> [q |-> <<>>, queued |-> 0, ts |-> 0, qts |-> 0,
                               retired |-> 0, state |-> {}, detach |-> "no",
                               stale |-> FALSE]]
  /\ jobs = {} /\ requeue = {} /\ inflight = <<>> /\ ring = <<>>
  /\ disp = Free
  /\ gpu = [kick |-> FALSE, fault |-> FALSE, halt |-> FALSE, left |-> MaxEvents]
  /\ th = [t \in Thread |-> Idle]

Invalid(c) == "invalid" \in ctx[c].state
Detached(c) == "detached" \in ctx[c].state

\* kgsl_context_is_bad.
IsBad(c) == ctx[c].state # {}

Kicked(g) == [g EXCEPT !.kick = TRUE]

\* wake_up_all(&drawctxt->wq): a sleeper of the context looks again.
WakeUp(s, c) ==
  [t \in Thread |-> IF s[t].pc = "sleep" /\ s[t].c = c
                    THEN [s[t] EXCEPT !.pc = "test"] ELSE s[t]]

\* adreno_dispatcher_queue_context.
QueueContext(c) ==
  /\ jobs' = IF Detached(c) THEN jobs ELSE jobs \cup {c}
  /\ gpu' = Kicked(gpu)

-----------------------------------------------------------------------------
(* The queue of a context.                                                 *)

Object(k, ts, dep) == [k |-> k, ts |-> ts, dep |-> dep, skip |-> FALSE, st |-> "wait"]

Push(x, o) == [x EXCEPT !.q = Append(@, o), !.queued = @ + 1]

\* get_timestamp, and the last queued timestamp.
NextTimestamp(x) == [x EXCEPT !.ts = @ + 1, !.qts = x.ts + 1]

\* drawctxt_queue_{sync,timeline,bind,marker,cmd}obj.  A marker depends on what was
\* queued last; a command has the markers before it sent to the GPU.
QueueObject(x, k, seen) ==
  CASE k \in {"sync", "timeline"} -> Push(x, Object(k, 0, 0))
    [] k = "tsync"  -> Push([x EXCEPT !.stale = @ \/ seen < x.ts], Object("sync", 0, seen))
    [] k = "bind"   -> Push(NextTimestamp(x), Object("bind", x.ts + 1, 0))
    [] k = "marker" -> Push(NextTimestamp(x), Object("marker", x.ts + 1, x.qts))
    [] k = "cmd"    ->
         Push([NextTimestamp(x) EXCEPT
                 !.q = [i \in DOMAIN @ |-> IF @[i].k = "marker"
                                           THEN [@[i] EXCEPT !.skip = TRUE] ELSE @[i]]],
              Object("cmd", x.ts + 1, 0))

QueueBatch(x, b, seen) ==
  LET after[n \in 0..Len(b)] ==
        IF n = 0 THEN x ELSE QueueObject(after[n - 1], b[n], seen)
  IN  after[Len(b)]

\* The retired timestamp after the first n objects have been retired by the
\* driver: the last one that was written.
RetiredAfter(x, n) ==
  LET W == {i \in 1..n : x.q[i].ts > 0}
  IN  IF W = {} THEN x.retired ELSE x.q[Max(W)].ts

\* What the driver retires by itself: a timeline object, a marker whose
\* timestamp has expired, a sync object without pending points, a finished bind
\* operation.
Expired(o, retired) ==
  \/ o.k = "timeline"
  \/ o.k = "marker" /\ retired >= o.dep
  \/ o.k \in {"sync", "bind"} /\ o.st = "done"

\* _process_drawqueue_get_next_drawobj: retire what can be, and start the bind
\* operation that is first then.
ProcessDrawqueue(x) ==
  LET n == Max({k \in 0..Len(x.q) :
                  \A i \in 1..k : Expired(x.q[i], RetiredAfter(x, i - 1))})
      y == [x EXCEPT !.q = SubSeq(@, n + 1, Len(@)), !.queued = @ - n,
                     !.retired = RetiredAfter(x, n)]
  IN  IF y.q # <<>> /\ Head(y.q).k = "bind"
      THEN [y EXCEPT !.q[1].st = "busy"] ELSE y

\* The first object has to be sent: a command, or a marker with the skip bit.
Sendable(x) == x.q # <<>> /\ (Head(x.q).k = "cmd" \/ Head(x.q).skip)

\* _pop_drawobj.
Pop(x) == [x EXCEPT !.q = Tail(@), !.queued = @ - 1]

\* drawctxt_detach_drawobjs: the counter is left alone.
DetachDrawobjs(x) == [x EXCEPT !.q = <<>>]

-----------------------------------------------------------------------------
(* Submission.                                                             *)

\* The ioctl has made its objects; a bind operation comes with a sync point on
\* the timestamp that is the context's last at this moment.
SubmitBegin(t, c, b) ==
  /\ th[t].pc = "idle" /\ ~IsBad(c)
  /\ ctx[c].ts + Cardinality({u \in Thread : th[u].pc # "idle" /\ th[u].c = c}) < MaxTs
  /\ th' = [th EXCEPT ![t] = [pc |-> "queue", c |-> c, b |-> b, seen |-> ctx[c].ts]]
  /\ UNCHANGED <<ctx, jobs, requeue, inflight, ring, disp, gpu>>

\* _check_context_queue.
CheckContextQueue(c, n) == Invalid(c) \/ ctx[c].queued + n < Size

\* The test of _wait_for_room_in_context_queue.
NoRoom(x, n) == x.queued + n > Size - 1

\* The objects are queued; a marker may be retired on the spot, and then the
\* context need not be looked at.
Enqueue(t) ==
  LET c == th[t].c
      x == ctx[c]
      fast == th[t].b = <<"marker">> /\ x.queued = 0 /\ x.retired >= x.qts
  IN  /\ ctx' = [ctx EXCEPT ![c] = IF fast THEN [x EXCEPT !.ts = @ + 1, !.retired = x.ts + 1]
                                   ELSE QueueBatch(x, th[t].b, th[t].seen)]
      /\ th' = [th EXCEPT ![t] = IF fast THEN Idle ELSE [@ EXCEPT !.pc = "job"]]

\* adreno_dispatcher_queue_cmds, under the context's lock.
QueueCmds(t) ==
  /\ th[t].pc = "queue"
  /\ \/ /\ IsBad(th[t].c)
        /\ th' = [th EXCEPT ![t] = Idle] /\ UNCHANGED ctx
     \/ /\ ~IsBad(th[t].c) /\ NoRoom(ctx[th[t].c], Len(th[t].b))
        /\ th' = [th EXCEPT ![t].pc = "test"] /\ UNCHANGED ctx
     \/ /\ ~IsBad(th[t].c) /\ ~NoRoom(ctx[th[t].c], Len(th[t].b))
        /\ Enqueue(t)
  /\ UNCHANGED <<jobs, requeue, inflight, ring, disp, gpu>>

\* The condition of the wait is evaluated, before sleeping and when woken.
WaitTest(t) ==
  /\ th[t].pc = "test"
  /\ th' = [th EXCEPT ![t].pc =
              IF CheckContextQueue(th[t].c, Len(th[t].b)) THEN "woken" ELSE "sleep"]
  /\ UNCHANGED <<ctx, jobs, requeue, inflight, ring, disp, gpu>>

\* The wait times out, or is interrupted.
WaitTimesOut(t) ==
  /\ "timeout" \in Failures /\ th[t].pc = "sleep"
  /\ th' = [th EXCEPT ![t] = Idle]
  /\ UNCHANGED <<ctx, jobs, requeue, inflight, ring, disp, gpu>>

\* After the wait the lock is taken again and the state of the context, not
\* the room in its queue, is looked at.
WokenQueue(t) ==
  /\ th[t].pc = "woken"
  /\ \/ IsBad(th[t].c) /\ th' = [th EXCEPT ![t] = Idle] /\ UNCHANGED ctx
     \/ ~IsBad(th[t].c) /\ Enqueue(t)
  /\ UNCHANGED <<jobs, requeue, inflight, ring, disp, gpu>>

\* The context goes to the dispatcher's list; the thread sends commands itself
\* if few are in flight.
AddJob(t) ==
  /\ th[t].pc = "job"
  /\ jobs' = jobs \cup {th[t].c}
  /\ th' = [th EXCEPT ![t] = IF Len(inflight) < Burst THEN [@ EXCEPT !.pc = "issue"]
                             ELSE Idle]
  /\ UNCHANGED <<ctx, requeue, inflight, ring, disp, gpu>>

\* Slip: a thread that does not get the mutex leaves it at that.
IssueCmdsForgets(t) ==
  /\ th[t].pc = "issue"
  /\ \/ /\ disp.owner = "none"
        /\ disp' = [owner |-> t, pc |-> "issue"]
        /\ th' = [th EXCEPT ![t].pc = "dispatch"]
     \/ /\ disp.owner # "none"
        /\ th' = [th EXCEPT ![t] = Idle] /\ UNCHANGED disp
  /\ UNCHANGED <<ctx, jobs, requeue, inflight, ring, gpu>>

\* adreno_dispatcher_issuecmds: the worker is scheduled if the GPU is not up or
\* the mutex is taken.
IssueCmds(t) ==
  /\ th[t].pc = "issue"
  /\ \/ /\ disp.owner = "none"
        /\ disp' = [owner |-> t, pc |-> "issue"]
        /\ th' = [th EXCEPT ![t].pc = "dispatch"]
        /\ UNCHANGED gpu
     \/ /\ gpu' = Kicked(gpu)
        /\ th' = [th EXCEPT ![t] = Idle]
        /\ UNCHANGED disp
  /\ UNCHANGED <<ctx, jobs, requeue, inflight, ring>>

-----------------------------------------------------------------------------
(* The worker.                                                             *)

\* adreno_dispatch_retire_drawqueue: from the head, as far as it has retired.
RetiredCount(s) == Max({n \in 0..Len(s) : \A i \in 1..n : ctx[s[i].c].retired >= s[i].ts})
RetireDrawqueue(s) == SubSeq(s, RetiredCount(s) + 1, Len(s))

\* adreno_dispatcher_work takes the mutex and retires commands.
WorkBegin ==
  /\ gpu.kick /\ disp.owner = "none"
  /\ gpu' = [gpu EXCEPT !.kick = FALSE]
  /\ disp' = [owner |-> "worker", pc |-> "fault"]
  /\ inflight' = RetireDrawqueue(inflight)
  /\ UNCHANGED <<ctx, jobs, requeue, ring, th>>

\* adreno_drawctxt_invalidate.
Invalidated(x) ==
  [DetachDrawobjs(x) EXCEPT !.state = @ \cup {"invalid"}, !.retired = x.ts]

\* recover_dispatch_q: the commands of bad contexts are dropped, the others are
\* sent again in their order; the contexts in G are invalidated on the way.
Replayed(s, G) ==
  LET kept[n \in 0..Len(s)] ==
        IF n = 0 THEN <<>>
        ELSE IF s[n].c \in G \/ IsBad(s[n].c) THEN kept[n - 1]
        ELSE Append(kept[n - 1], s[n])
  IN  kept[Len(s)]

\* dispatcher_do_fault: the GPU is reset, which schedules the worker.  The
\* context of the command that hung is invalidated or its command replayed;
\* so is a context whose replay fails.  Commands of bad contexts are not
\* replayed.  No commands are issued then.
DoFault ==
  /\ disp.pc = "fault" /\ gpu.fault
  /\ LET left == RetireDrawqueue(inflight)
         hung == IF left = <<>> THEN {} ELSE {Head(left).c}
     IN  \E G \in SUBSET {left[i].c : i \in DOMAIN left} :
           /\ "guilty" \notin Failures => G = {}
           /\ hung \cap {c \in Context : Detached(c)} \subseteq G
           /\ ctx' = [c \in Context |-> IF c \in G THEN Invalidated(ctx[c]) ELSE ctx[c]]
           /\ inflight' = Replayed(left, G)
           /\ th' = [t \in Thread |-> IF th[t].pc = "sleep" /\ th[t].c \in G
                                      THEN [th[t] EXCEPT !.pc = "test"] ELSE th[t]]
  /\ ring' = inflight'
  /\ gpu' = [gpu EXCEPT !.fault = FALSE, !.kick = TRUE]
  /\ disp' = [disp EXCEPT !.pc = "unlock"]
  /\ UNCHANGED <<jobs, requeue>>

\* dispatcher_do_fault returns early and leaves the fault: a suspend is in
\* progress or its gate does not open, or the page fault handler has not run
\* yet; if the GPU is not awake the dispatcher goes on as if there were none.
DoFaultLater ==
  /\ "defer" \in Failures
  /\ disp.pc = "fault" /\ gpu.fault
  /\ \E p \in {"unlock", "issue"} : disp' = [disp EXCEPT !.pc = p]
  /\ UNCHANGED <<ctx, jobs, requeue, inflight, ring, gpu, th>>

\* What it waited for schedules the worker: the end of the suspend, the timeout
\* of the gate, the page fault handler, the power up.
FaultRequeued ==
  /\ gpu.fault /\ ~gpu.kick
  /\ gpu' = Kicked(gpu)
  /\ UNCHANGED <<ctx, jobs, requeue, inflight, ring, disp, th>>

NoFault ==
  /\ disp.pc = "fault" /\ ~gpu.fault
  /\ disp' = [disp EXCEPT !.pc = "issue"]
  /\ UNCHANGED <<ctx, jobs, requeue, inflight, ring, gpu, th>>

\* The mutex is dropped.
Unlock ==
  /\ disp.pc = "unlock"
  /\ disp' = Free
  /\ th' = [t \in Thread |-> IF t = disp.owner THEN Idle ELSE th[t]]
  /\ UNCHANGED <<ctx, jobs, requeue, inflight, ring, gpu>>

-----------------------------------------------------------------------------
(* Sending commands, with the mutex.                                       *)

Jobs == [owner |-> disp.owner, pc |-> "jobs", first |-> disp.first,
         second |-> disp.second]

\* _adreno_dispatcher_issuecmds and dispatcher_handle_jobs: both lists are
\* taken, the contexts that were put back come first and none comes twice.
HandleJobs ==
  /\ disp.pc = "issue"
  /\ \/ /\ gpu.fault
        /\ disp' = [disp EXCEPT !.pc = "unlock"] /\ UNCHANGED <<jobs, requeue>>
     \/ /\ ~gpu.fault
        /\ disp' = [owner |-> disp.owner, pc |-> "jobs", first |-> requeue,
                    second |-> jobs \ requeue]
        /\ jobs' = {} /\ requeue' = {}
  /\ UNCHANGED <<ctx, inflight, ring, gpu, th>>

\* The next context: dropped if it is bad, put back if the GPU is stopped.
HandleJob(c) ==
  /\ disp.pc = "jobs"
  /\ c \in IF disp.first # {} THEN disp.first ELSE disp.second
  /\ LET d == [Jobs EXCEPT !.first = @ \ {c}, !.second = @ \ {c}]
     IN  \/ /\ IsBad(c) /\ disp' = d /\ UNCHANGED jobs
         \/ /\ ~IsBad(c) /\ (gpu.fault \/ gpu.halt)
            /\ disp' = d /\ jobs' = jobs \cup {c}
         \/ /\ ~IsBad(c) /\ ~gpu.fault /\ ~gpu.halt /\ UNCHANGED jobs
            /\ \E l \in Limits :
                 disp' = [owner |-> d.owner, pc |-> "send", first |-> d.first,
                          second |-> d.second, c |-> c, count |-> 0, limit |-> l]
  /\ UNCHANGED <<ctx, requeue, inflight, ring, gpu, th>>

\* Leave dispatcher_context_sendcmds with an error, or 0.
Ended(ret) ==
  [owner |-> disp.owner, pc |-> "sent", first |-> disp.first, second |-> disp.second,
   c |-> disp.c, ret |-> IF ret # "none" THEN ret
                         ELSE IF disp.count > 0 THEN "count" ELSE "none"]

\* dispatcher_context_sendcmds: nothing is sent to a full ringbuffer; the
\* sleepers are not woken then.
SendFull ==
  /\ disp.pc = "send" /\ disp.count = 0 /\ Len(inflight) >= disp.limit
  /\ ctx' = [ctx EXCEPT ![disp.c] = ProcessDrawqueue(@)]
  /\ requeue' = requeue \cup {disp.c}
  /\ disp' = Jobs
  /\ UNCHANGED <<jobs, inflight, ring, gpu, th>>

\* The burst is over, or a fault has come in.
SendBreak ==
  /\ disp.pc = "send" /\ (disp.count = 0 => Len(inflight) < disp.limit)
  /\ disp.count >= Burst \/ Len(inflight) >= disp.limit \/ gpu.fault
  /\ disp' = Ended("none")
  /\ UNCHANGED <<ctx, jobs, requeue, inflight, ring, gpu, th>>

\* The next object is taken from the queue, under the context's lock.
SendNext ==
  /\ disp.pc = "send" /\ disp.count < Burst /\ Len(inflight) < disp.limit
  /\ ~gpu.fault
  /\ LET x == ProcessDrawqueue(ctx[disp.c])
     IN  /\ ctx' = [ctx EXCEPT ![disp.c] = IF Sendable(x) THEN Pop(x) ELSE x]
         /\ disp' = IF Sendable(x)
                    THEN [owner |-> disp.owner, pc |-> "sendcmd", first |-> disp.first,
                          second |-> disp.second, c |-> disp.c, count |-> disp.count,
                          limit |-> disp.limit, obj |-> Head(x.q)]
                    ELSE Ended(IF x.q = <<>> THEN "none" ELSE "again")
  /\ UNCHANGED <<jobs, requeue, inflight, ring, gpu, th>>

\* sendcmd, done: the object is in flight.
SendCmd ==
  /\ disp.pc = "sendcmd" /\ ~gpu.halt /\ ~gpu.fault /\ ~Detached(disp.c)
  /\ inflight' = Append(inflight, [c |-> disp.c, ts |-> disp.obj.ts])
  /\ ring' = Append(ring, [c |-> disp.c, ts |-> disp.obj.ts])
  /\ disp' = [owner |-> disp.owner, pc |-> "send", first |-> disp.first,
              second |-> disp.second, c |-> disp.c, count |-> disp.count + 1,
              limit |-> disp.limit]
  /\ UNCHANGED <<ctx, jobs, requeue, gpu, th>>

\* Slip: an object that could not be sent goes to the end of the queue.
RequeueCmdobjLast(x, o) == Push(x, o)

\* adreno_dispatcher_requeue_cmdobj.
RequeueCmdobj(x, o) == [x EXCEPT !.q = <<o>> \o @, !.queued = @ + 1]

\* sendcmd, failed: the dispatcher is halted, the GPU faulted, there is no
\* space in the ringbuffer, or the context is detached.  The object is put
\* back unless the context is bad.
SendFails ==
  /\ disp.pc = "sendcmd"
  /\ \E ret \in {"busy", "again", "gone"} :
       /\ ret = "busy" => gpu.halt
       /\ ret = "again" => ~gpu.halt /\ ~Detached(disp.c)
                           /\ (gpu.fault \/ ("space" \in Failures /\ ring # <<>>))
       /\ ret = "gone" => ~gpu.halt /\ Detached(disp.c)
       /\ IF IsBad(disp.c)
          THEN disp' = Ended("gone") /\ UNCHANGED ctx
          ELSE /\ disp' = Ended(ret)
               /\ ctx' = [ctx EXCEPT ![disp.c] = RequeueCmdobj(@, disp.obj)]
  /\ UNCHANGED <<jobs, requeue, inflight, ring, gpu, th>>

\* Slip: the ringbuffer had no space and the context is dropped.
KeepJobSpace(c, ret) ==
  /\ jobs' = IF ret = "count" THEN jobs \cup {c} ELSE jobs
  /\ requeue' = IF ret = "busy" THEN requeue \cup {c} ELSE requeue

\* A context with nothing queued, or a bad one, is dropped; others go to one
\* of the lists.
KeepJob(c, ret) ==
  /\ jobs' = IF ret \in {"count", "again"} THEN jobs \cup {c} ELSE jobs
  /\ requeue' = IF ret = "busy" THEN requeue \cup {c} ELSE requeue

\* Slip: nobody is woken.
WakeSleepersNot(c) == UNCHANGED th

\* The submitters are woken if there is room.
WakeSleepers(c) == th' = IF CheckContextQueue(c, 0) THEN WakeUp(th, c) ELSE th

\* The end of dispatcher_context_sendcmds.
SendEnd ==
  /\ disp.pc = "sent"
  /\ WakeSleepers(disp.c)
  /\ KeepJob(disp.c, disp.ret)
  /\ disp' = Jobs
  /\ UNCHANGED <<ctx, inflight, ring, gpu>>

JobsDone ==
  /\ disp.pc = "jobs" /\ disp.first = {} /\ disp.second = {}
  /\ disp' = [owner |-> disp.owner, pc |-> "unlock"]
  /\ UNCHANGED <<ctx, jobs, requeue, inflight, ring, gpu, th>>

-----------------------------------------------------------------------------
(* The GPU and what else happens.                                          *)

\* The GPU finishes the next command, writes its timestamp and interrupts.
GpuRetire ==
  /\ ring # <<>>
  /\ ring' = Tail(ring)
  /\ ctx' = [ctx EXCEPT ![Head(ring).c].retired = Head(ring).ts]
  /\ gpu' = Kicked(gpu)
  /\ UNCHANGED <<jobs, requeue, inflight, disp, th>>

\* The last point of a queued sync object expires; a point on a timestamp of
\* the context not before it has retired.
SyncExpires(c) ==
  /\ \E i \in DOMAIN ctx[c].q :
       /\ ctx[c].q[i].k = "sync" /\ ctx[c].q[i].st = "wait"
       /\ ctx[c].retired >= ctx[c].q[i].dep
       /\ ctx' = [ctx EXCEPT ![c].q[i].st = "done"]
  /\ QueueContext(c)
  /\ UNCHANGED <<requeue, inflight, ring, disp, th>>

\* kgsl_drawobj_bind_callback.
BindDone(c) ==
  /\ \E i \in DOMAIN ctx[c].q :
       /\ ctx[c].q[i].k = "bind" /\ ctx[c].q[i].st = "busy"
       /\ ctx' = [ctx EXCEPT ![c].q[i].st = "done"]
  /\ QueueContext(c)
  /\ UNCHANGED <<requeue, inflight, ring, disp, th>>

\* A fault is reported, from interrupt context.
Fault ==
  /\ "fault" \in Failures /\ ~gpu.fault /\ gpu.left > 0
  /\ gpu' = [gpu EXCEPT !.fault = TRUE, !.kick = TRUE, !.left = @ - 1]
  /\ UNCHANGED <<ctx, jobs, requeue, inflight, ring, disp, th>>

\* adreno_dispatcher_idle halts the dispatcher and schedules it afterwards.
Halt ==
  /\ "halt" \in Failures /\ ~gpu.halt /\ gpu.left > 0
  /\ gpu' = [gpu EXCEPT !.halt = TRUE, !.left = @ - 1]
  /\ UNCHANGED <<ctx, jobs, requeue, inflight, ring, disp, th>>

HaltEnd ==
  /\ gpu.halt
  /\ gpu' = [gpu EXCEPT !.halt = FALSE, !.kick = TRUE]
  /\ UNCHANGED <<ctx, jobs, requeue, inflight, ring, disp, th>>

\* kgsl_context_detach and adreno_drawctxt_detach: the context is marked; its
\* queue is taken; once the GPU is done with it the timestamps are written and
\* the sleepers are woken.
DetachMark(c) ==
  /\ "detach" \in Failures /\ ~Detached(c)
  /\ ctx' = [ctx EXCEPT ![c].state = @ \cup {"detached"}, ![c].detach = "marked"]
  /\ UNCHANGED <<jobs, requeue, inflight, ring, disp, gpu, th>>

DetachTake(c) ==
  /\ ctx[c].detach = "marked"
  /\ ctx' = [ctx EXCEPT ![c] = [DetachDrawobjs(@) EXCEPT !.detach = "taken"]]
  /\ UNCHANGED <<jobs, requeue, inflight, ring, disp, gpu, th>>

DetachEnd(c) ==
  /\ ctx[c].detach = "taken"
  /\ \A i \in DOMAIN ring : ring[i].c # c
  /\ ctx' = [ctx EXCEPT ![c].detach = "done", ![c].retired = ctx[c].ts]
  /\ th' = WakeUp(th, c)
  /\ UNCHANGED <<jobs, requeue, inflight, ring, disp, gpu>>

-----------------------------------------------------------------------------
Submit(t) ==
  \/ QueueCmds(t) \/ WaitTest(t) \/ WokenQueue(t) \/ AddJob(t) \/ IssueCmds(t)

Dispatching ==
  \/ WorkBegin \/ DoFault \/ DoFaultLater \/ NoFault \/ Unlock \/ HandleJobs \/ SendFull \/ SendBreak
  \/ SendNext \/ SendCmd \/ SendFails \/ SendEnd \/ JobsDone
  \/ \E c \in Context : HandleJob(c)

Detaching(c) == DetachTake(c) \/ DetachEnd(c)

Next ==
  \/ \E t \in Thread : Submit(t) \/ WaitTimesOut(t)
                       \/ \E s \in Submits[t] : SubmitBegin(t, s[1], s[2])
  \/ Dispatching \/ GpuRetire \/ Fault \/ FaultRequeued \/ Halt \/ HaltEnd
  \/ \E c \in Context : SyncExpires(c) \/ BindDone(c) \/ DetachMark(c) \/ Detaching(c)

Spec == Init /\ [][Next]_vars

\* Fairness: threads, the worker, the GPU, the bind operations and detaches
\* make progress, points expire, a halt ends.  The worker is scheduled again
\* while a fault is pending and does not find every time that it must wait.
FairSpec ==
  /\ Spec
  /\ WF_vars(Dispatching) /\ WF_vars(GpuRetire) /\ WF_vars(HaltEnd)
  /\ WF_vars(FaultRequeued) /\ SF_vars(DoFault)
  /\ \A t \in Thread : WF_vars(Submit(t))
  /\ \A c \in Context : WF_vars(SyncExpires(c)) /\ WF_vars(BindDone(c)) /\ WF_vars(Detaching(c))

-----------------------------------------------------------------------------
(* Properties.                                                             *)

\* The values the state takes; the counter agrees with the queue until the
\* queue is taken away from a bad context.
DispatchTypeOK ==
  /\ \A c \in Context :
       /\ ctx[c].queued \in Nat /\ ctx[c].state \subseteq {"invalid", "detached"}
       /\ ~IsBad(c) => ctx[c].queued = Len(ctx[c].q)
  /\ jobs \subseteq Context /\ requeue \subseteq Context
  /\ disp.owner \in Thread \cup {"worker", "none"}
  /\ \A t \in Thread : th[t].pc = "dispatch" <=> disp.owner = t

\* The timestamps of a context in what has been sent, and its object in the
\* dispatcher's hand.
Times(s, c) == {s[i].ts : i \in {j \in DOMAIN s : s[j].c = c}}
Hand(c) == IF disp.pc = "sendcmd" /\ disp.c = c THEN {disp.obj} ELSE {}

\* Commands of a context reach the GPU in the order of their timestamps, also
\* those that are put back while others are queued: the timestamps increase
\* in what is in flight, from there to the dispatcher's hand, and from there
\* to the end of the queue.
TimeIsLinear ==
  /\ \A i, j \in DOMAIN inflight :
       i < j /\ inflight[i].c = inflight[j].c => inflight[i].ts < inflight[j].ts
  /\ \A c \in Context :
       LET q == ctx[c].q
           W == {i \in DOMAIN q : q[i].ts > 0}
       IN  /\ \A i, j \in W : i < j => q[i].ts < q[j].ts
           /\ \A o \in Hand(c) : \A i \in W : o.ts < q[i].ts
           /\ \A s \in Times(inflight, c) :
                (\A o \in Hand(c) : s < o.ts) /\ (\A i \in W : s < q[i].ts)

\* What is retired has been executed: a waiter is not told that an object is
\* done that is queued, in the dispatcher's hand or in the ringbuffer (unless
\* a bind operation waits for less than what was queued before it).
RetiredIsDone ==
  \A c \in Context : ~IsBad(c) /\ ~ctx[c].stale =>
    /\ \A i \in DOMAIN ctx[c].q : ctx[c].q[i].ts > 0 => ctx[c].q[i].ts > ctx[c].retired
    /\ disp.pc = "sendcmd" /\ disp.c = c => disp.obj.ts > ctx[c].retired
    /\ \A i \in DOMAIN ring : ring[i].c = c => ring[i].ts > ctx[c].retired

\* The timestamps of a context increase from the one that has retired, through
\* the ringbuffer and the dispatcher's hand, to the end of the queue.
DispatchInv == DispatchTypeOK /\ TimeIsLinear /\ RetiredIsDone

\* Somebody is going to look at a context that has work: it is on a list or in
\* the dispatcher's hand, or a submitter is about to list it.
HasJob(c) ==
  \/ c \in jobs \cup requeue
  \/ disp.pc \in {"jobs", "send", "sendcmd", "sent"} /\ c \in disp.first \cup disp.second
  \/ disp.pc \in {"send", "sendcmd"} /\ disp.c = c
  \/ disp.pc = "sent" /\ disp.c = c /\ disp.ret \in {"count", "again", "busy"}
  \/ \E t \in Thread : th[t].pc = "job" /\ th[t].c = c

\* Nobody is: the objects wait for the next submission or event.
Forgotten(c) == ctx[c].q # <<>> /\ ~IsBad(c) /\ ~HasJob(c)

\* A context with queued objects is forgotten by the dispatcher only if a fault
\* comes in while it sends the context's commands.
JobIsKept == [][\A c \in Context : Forgotten(c)' => Forgotten(c) \/ gpu.fault]_vars

\* The queue never holds more than its size, whatever is put back: "we can only
\* queue up to _context_drawqueue_size - 1 here to make sure we never let
\* drawqueue->queued exceed _context_drawqueue_size".  The room is tested before
\* the lock is taken again and not after, so two sleepers can be told of the
\* same room.
QueueBound == \A c \in Context : ctx[c].queued <= Size

\* Everything submitted retires, however the submissions of the run are
\* interleaved, unless the context goes bad or is forgotten, with the exception
\* of RetiredIsDone.
CommandsRetire ==
  \A c \in Context :
    []<>(ctx[c].retired >= ctx[c].ts \/ IsBad(c) \/ Forgotten(c) \/ ctx[c].stale)

\* A thread that sleeps for room wakes, without the help of its timeout, unless
\* its context is detached or forgotten.
SleeperWakes ==
  \A t \in Thread : th[t].pc = "sleep"
    ~> th[t].pc # "sleep" \/ Detached(th[t].c) \/ Forgotten(th[t].c)
=============================================================================
