--------------------------------- MODULE Dsc ---------------------------------
(***************************************************************************)
(* The WLAN Driver Synchronization Core (DSC).                             *)
(*                                                                         *)
(* Contexts form a tree: one driver, its psocs, and their vdevs.  A client *)
(* (a kernel call chain) either runs a transition on a context, which      *)
(* excludes every other transition on the same context, above it and below *)
(* it, or an operation, which runs beside other operations but is refused  *)
(* while such a transition is active.  A client that cannot start its      *)
(* transition may wait in the context's queue; the client that stops a     *)
(* transition hands the tree over to the waiters.                          *)
(*                                                                         *)
(* Every DSC call runs under the single driver spinlock, so one locked     *)
(* region is one action; a call that blocks is split where it drops the    *)
(* lock.  The queue's struct dsc_tran lives on the waiter's stack: tran[c] *)
(* is its event and abort flag.                                            *)
(*                                                                         *)
(* What callers keep to is part of the model: a transition is stopped by   *)
(* the client that started it; a context that is not registered, or not    *)
(* any more, is named by one client only, its owner; a context is          *)
(* destroyed by its owner, after it flushed its operations and after its   *)
(* children are gone.  Practices lists what some callers do beyond that.   *)
(* What DSC needs and its callers do not see to, that nobody waits on a    *)
(* context whose holder tears it down, is no guard of an action: Spec is   *)
(* without it, and ContractSpec adds it to the unregistration (Unwaited).  *)
(***************************************************************************)
EXTENDS Naturals, Sequences, FiniteSets

CONSTANTS
  Driver,           \* the root context
  Psocs, Vdevs,     \* the psoc and vdev contexts that can exist
  PsocOf,           \* the parent psoc of each vdev
  Client,           \* call chains that use DSC, each in one call at a time
  NoClient,         \* a NULL active_desc; no owner
  Churn,            \* contexts that come and go; the others stay (a bound)
  Flags,            \* driver state flags that change during the run (a bound)
  Practices         \* what callers do beyond the contract

\* stop_via_psoc: the holder of a driver transition ends it with
\*   dsc_psoc_trans_stop.
AllPractices == {"stop_via_psoc"}

ASSUME DscAssumption ==
  /\ Driver \notin Psocs /\ Driver \notin Vdevs /\ Psocs \cap Vdevs = {}
  /\ PsocOf \in [Vdevs -> Psocs]
  /\ NoClient \notin Client
  /\ Flags \subseteq {"recovering", "unloading"}
  /\ Practices \subseteq AllPractices

ASSUME ClientFinite == IsFiniteSet(Client)

Node == {Driver} \cup Psocs \cup Vdevs

VdevsOf(p) == {v \in Vdevs : PsocOf[v] = p}

\* The ancestors of a context, its descendants, and everything a transition
\* on it excludes.
Up(n) == IF n \in Vdevs THEN {PsocOf[n], Driver}
         ELSE IF n \in Psocs THEN {Driver} ELSE {}
Below(n) == {m \in Node : n \in Up(m)}
Lineage(n) == Up(n) \cup {n} \cup Below(n)

\* A context goes before its parent does.
ASSUME ChurnAssumption ==
  Churn \subseteq Node /\ \A n \in Churn : Below(n) \subseteq Churn

VARIABLES
  attached,    \* contexts that exist, linked into their parent's list
  owner,       \* the only client that can name an unregistered context
  active,      \* trans.active_desc: the client whose transition is active
  queue,       \* trans.queue: clients waiting to start a transition
  tran,        \* the waiter's struct dsc_tran
  ops,         \* ops.count
  event,       \* ops.event is set
  flags,       \* qdf_is_recovering(), qdf_is_driver_unloading()
  pc, at,      \* what each client is doing, and on which context
  todo, on,    \* wait_for_ops: contexts still to visit, the one waited on
  quiet        \* contexts the holder has flushed (history)

ctxVars   == <<attached, owner>>
transVars == <<active, queue, tran>>
opsVars   == <<ops, event>>
walkVars  == <<todo, on, quiet>>
vars == <<attached, owner, active, queue, tran, ops, event,
          flags, pc, at, todo, on, quiet>>

\* The driver has been probed: contexts registered and at rest, save those
\* of Churn below the driver.
Init ==
  /\ attached = {Driver} \cup (Node \ Churn)
  /\ owner = [n \in Node |-> NoClient]
  /\ active = [n \in Node |-> NoClient]
  /\ queue = [n \in Node |-> <<>>]
  /\ tran = [c \in Client |-> "none"]
  /\ ops = [n \in Node |-> 0]
  /\ event = [n \in Node |-> FALSE]
  /\ flags = {}
  /\ pc = [c \in Client |-> "idle"]
  /\ at = [c \in Client |-> Driver]
  /\ todo = [c \in Client |-> {}]
  /\ on = [c \in Client |-> Driver]
  /\ quiet = [c \in Client |-> {}]

-----------------------------------------------------------------------------
(* The transition container of one context (__wlan_dsc.c).                 *)

TransActive(act, n) == act[n] # NoClient
TransQueued(n) == queue[n] # <<>>
TransActiveOrQueued(n) == TransActive(active, n) \/ TransQueued(n)

TransStart(c, n) ==
  /\ active' = [active EXCEPT ![n] = c]
  /\ UNCHANGED <<queue, tran>>

\* The active transitions once the one on n has stopped.
TransStop(n) == [active EXCEPT ![n] = NoClient]

TransQueue(c, n) ==
  /\ queue' = [queue EXCEPT ![n] = Append(@, c)]
  /\ tran' = [tran EXCEPT ![c] = "queued"]
  /\ UNCHANGED active

\* Slip: the waiter is woken but its transition is not started.
TransTriggerUnstarted(act, S) ==
  LET T == {n \in S : TransQueued(n)}
  IN /\ active' = act
     /\ queue' = [n \in Node |-> IF n \in T THEN Tail(queue[n]) ELSE queue[n]]
     /\ tran' = [c \in Client |-> IF \E n \in T : Head(queue[n]) = c
                                  THEN "triggered" ELSE tran[c]]

\* Slip: the waiter's transition starts but its event is not set.
TransTriggerUnwoken(act, S) ==
  LET T == {n \in S : TransQueued(n)}
  IN /\ active' = [n \in Node |-> IF n \in T THEN Head(queue[n]) ELSE act[n]]
     /\ queue' = [n \in Node |-> IF n \in T THEN Tail(queue[n]) ELSE queue[n]]
     /\ UNCHANGED tran

\* After a stop that left the transitions in act, the waiter at the front of
\* each queue in S starts and is woken.
TransTrigger(act, S) ==
  LET T == {n \in S : TransQueued(n)}
  IN /\ active' = [n \in Node |-> IF n \in T THEN Head(queue[n]) ELSE act[n]]
     /\ queue' = [n \in Node |-> IF n \in T THEN Tail(queue[n]) ELSE queue[n]]
     /\ tran' = [c \in Client |-> IF \E n \in T : Head(queue[n]) = c
                                  THEN "triggered" ELSE tran[c]]

\* __dsc_trans_abort: the waiter at the front is woken with its abort flag.
TransAbort(n) ==
  /\ TransQueued(n)
  /\ queue' = [queue EXCEPT ![n] = Tail(@)]
  /\ tran' = [tran EXCEPT ![Head(queue[n])] = "aborted"]
  /\ UNCHANGED active

-----------------------------------------------------------------------------
(* What blocks a new transition or operation, level by level.              *)

DriverTransActiveDownTree(act) ==
  \E n \in attached \ {Driver} : TransActive(act, n)

PsocTransActiveDownTree(act, p) ==
  \E v \in VdevsOf(p) \cap attached : TransActive(act, v)

DriverCanTrans ==
  /\ ~TransActiveOrQueued(Driver)
  /\ ~DriverTransActiveDownTree(active)

\* Slip: only the psocs are looked at, not their vdevs.
DriverCanTriggerOverVdevs(act) ==
  /\ ~TransActive(act, Driver)
  /\ ~\E p \in Psocs \cap attached : TransActive(act, p)

DriverCanTrigger(act) ==
  /\ ~TransActive(act, Driver)
  /\ ~DriverTransActiveDownTree(act)

PsocCanTrans(p) ==
  IF TransActiveOrQueued(Driver) THEN "E_INVAL"
  ELSE IF TransActiveOrQueued(p) \/ PsocTransActiveDownTree(active, p)
       THEN "E_AGAIN"
  ELSE "SUCCESS"

\* Slip: the vdevs of the psoc are not looked at.
PsocCanTriggerOverVdevs(act, p) ==
  /\ ~TransActive(act, Driver) /\ ~TransQueued(Driver)
  /\ ~TransActive(act, p)

PsocCanTrigger(act, p) ==
  /\ ~TransActive(act, Driver) /\ ~TransQueued(Driver)
  /\ ~TransActive(act, p)
  /\ ~PsocTransActiveDownTree(act, p)

\* Slip: a vdev does not give way to a psoc transition that waits.
VdevCanTransPastWaiter(v) ==
  IF TransActiveOrQueued(Driver) \/ "recovering" \in flags THEN "E_INVAL"
  ELSE IF TransActive(active, PsocOf[v])
       THEN IF "unloading" \in flags THEN "E_INVAL" ELSE "E_BUSY"
  ELSE IF TransActiveOrQueued(v) THEN "E_BUSY"
  ELSE "SUCCESS"

VdevCanTrans(v) ==
  IF TransActiveOrQueued(Driver) \/ "recovering" \in flags THEN "E_INVAL"
  ELSE IF TransActiveOrQueued(PsocOf[v])
       THEN IF "unloading" \in flags THEN "E_INVAL" ELSE "E_BUSY"
  ELSE IF TransActiveOrQueued(v) THEN "E_BUSY"
  ELSE "SUCCESS"

-----------------------------------------------------------------------------
(* Client bookkeeping.                                                     *)

Goto(c, label, n) ==
  /\ pc' = [pc EXCEPT ![c] = label]
  /\ at' = [at EXCEPT ![c] = n]

\* A registered context is found by anyone.
Usable(n) == n \in attached /\ owner[n] = NoClient

\* An idle client names a registered context; an owner starts, without
\* waiting, the first transition of its own.
MayCall(c, n) == pc[c] = "idle" /\ Usable(n)
MayStart(c, n) == MayCall(c, n) \/ (pc[c] = "owner" /\ at[c] = n)

StartNow(c, n) ==
  /\ TransStart(c, n)
  /\ Goto(c, "trans", n)
  /\ UNCHANGED <<ctxVars, opsVars, flags, walkVars>>

StartLater(c, n) ==
  /\ TransQueue(c, n)
  /\ Goto(c, "queued", n)
  /\ UNCHANGED <<ctxVars, opsVars, flags, walkVars>>

\* The client's transition is active, it is in no other DSC call, and it has
\* finished the teardown of the children it unregistered.  A context it
\* leaves unregistered has been flushed.
MayStop(c, n) ==
  /\ pc[c] = "trans" /\ at[c] = n
  /\ \A m \in Node \ {n} : owner[m] # c
  /\ owner[n] = c => n \in quiet[c]

\* The caller's side of a stop.
EndTrans(c, n) ==
  /\ IF owner[n] = c THEN Goto(c, "owner", n) ELSE Goto(c, "idle", Driver)
  /\ quiet' = [quiet EXCEPT ![c] = {}]
  /\ UNCHANGED <<ctxVars, opsVars, flags, todo, on>>

-----------------------------------------------------------------------------
(* Transitions.  A call that is refused changes nothing and is no step.    *)

DriverTransStart(c) ==
  MayStart(c, Driver) /\ DriverCanTrans /\ StartNow(c, Driver)

DriverTransStartWait(c) ==
  /\ MayCall(c, Driver)
  /\ IF DriverCanTrans THEN StartNow(c, Driver) ELSE StartLater(c, Driver)

PsocTransStart(c, p) ==
  MayStart(c, p) /\ PsocCanTrans(p) = "SUCCESS" /\ StartNow(c, p)

PsocTransStartWait(c, p) ==
  /\ MayCall(c, p)
  /\ \/ PsocCanTrans(p) = "SUCCESS" /\ StartNow(c, p)
     \/ PsocCanTrans(p) = "E_AGAIN" /\ StartLater(c, p)

VdevTransStart(c, v) ==
  MayStart(c, v) /\ VdevCanTrans(v) = "SUCCESS" /\ StartNow(c, v)

VdevTransStartWait(c, v) ==
  /\ MayCall(c, v)
  /\ \/ VdevCanTrans(v) = "SUCCESS" /\ StartNow(c, v)
     \/ VdevCanTrans(v) = "E_BUSY" /\ StartLater(c, v)

\* __dsc_tran_wait: the waiter returns once its event is set.
TranWait(c) ==
  /\ pc[c] = "queued" /\ tran[c] \in {"triggered", "aborted"}
  /\ IF tran[c] = "aborted" THEN Goto(c, "idle", Driver)
                            ELSE Goto(c, "trans", at[c])
  /\ tran' = [tran EXCEPT ![c] = "none"]
  /\ UNCHANGED <<ctxVars, active, queue, opsVars, flags, walkVars>>

\* Which queues the stop of a driver transition triggers: the driver's own,
\* else each psoc's, else the vdevs' of the psocs with no waiter.
DriverTriggerTrans ==
  IF TransQueued(Driver) THEN {Driver}
  ELSE {p \in Psocs \cap attached : TransQueued(p)}
       \cup {v \in Vdevs \cap attached : ~TransQueued(PsocOf[v])}

\* A queued driver transition goes first; it may still have to wait for
\* other children, and then nothing below it is triggered either.
DriverTransTriggerChecked(act) ==
  IF DriverCanTrigger(act) THEN {Driver} ELSE {}

PsocTransTriggerChecked(act, p) ==
  IF PsocCanTrigger(act, p) THEN {p} ELSE {}

\* Slip: the stop serves the psoc's own queue only.
PsocTriggerTransOwnQueue(act, p) ==
  IF TransQueued(Driver) THEN DriverTransTriggerChecked(act) ELSE {p}

PsocTriggerTrans(act, p) ==
  IF TransQueued(Driver) THEN DriverTransTriggerChecked(act)
  ELSE IF TransQueued(p) THEN {p}
  ELSE VdevsOf(p) \cap attached

VdevTriggerTrans(act, v) ==
  IF TransQueued(Driver) THEN DriverTransTriggerChecked(act)
  ELSE IF TransQueued(PsocOf[v]) THEN PsocTransTriggerChecked(act, PsocOf[v])
  ELSE {v}

DriverTransStop(c) ==
  /\ MayStop(c, Driver)
  /\ TransTrigger(TransStop(Driver), DriverTriggerTrans)
  /\ EndTrans(c, Driver)

\* Stops the psoc's transition if it has one, the driver's otherwise.
PsocStopped(p) == IF TransActive(active, p) THEN p ELSE Driver

PsocTransStop(c, p) ==
  LET n == PsocStopped(p)
  IN /\ p \in attached /\ MayStop(c, n)
     /\ n = Driver => Usable(p) /\ "stop_via_psoc" \in Practices
     /\ TransTrigger(TransStop(n), PsocTriggerTrans(TransStop(n), p))
     /\ EndTrans(c, n)

VdevTransStop(c, v) ==
  /\ MayStop(c, v)
  /\ TransTrigger(TransStop(v), VdevTriggerTrans(TransStop(v), v))
  /\ EndTrans(c, v)

-----------------------------------------------------------------------------
(* Operations.                                                             *)

OpsInsert(c, n) ==
  /\ ops' = [ops EXCEPT ![n] = @ + 1]
  /\ Goto(c, "op", n)
  /\ UNCHANGED <<ctxVars, transVars, event, flags, walkVars>>

DriverOpStart(c) ==
  MayCall(c, Driver) /\ DriverCanTrans /\ OpsInsert(c, Driver)

PsocOpStart(c, p) ==
  MayCall(c, p) /\ PsocCanTrans(p) = "SUCCESS" /\ OpsInsert(c, p)

VdevOpStart(c, v) ==
  MayCall(c, v) /\ VdevCanTrans(v) = "SUCCESS" /\ OpsInsert(c, v)

\* Slip: every operation that stops sets the event.
OpStopAlwaysSets(c) ==
  LET n == at[c]
  IN /\ pc[c] = "op"
     /\ ops' = [ops EXCEPT ![n] = @ - 1]
     /\ event' = [event EXCEPT ![n] = TRUE]
     /\ Goto(c, "idle", Driver)
     /\ UNCHANGED <<ctxVars, transVars, flags, walkVars>>

\* Slip: the count is tested before it is decremented.
OpStopLate(c) ==
  LET n == at[c]
  IN /\ pc[c] = "op"
     /\ ops' = [ops EXCEPT ![n] = @ - 1]
     /\ event' = [event EXCEPT ![n] = @ \/ ops[n] = 0]
     /\ Goto(c, "idle", Driver)
     /\ UNCHANGED <<ctxVars, transVars, flags, walkVars>>

\* The last operation to stop wakes everyone who waits for the count.
OpStop(c) ==
  LET n == at[c]
  IN /\ pc[c] = "op"
     /\ ops' = [ops EXCEPT ![n] = @ - 1]
     /\ event' = [event EXCEPT ![n] = @ \/ ops[n] = 1]
     /\ Goto(c, "idle", Driver)
     /\ UNCHANGED <<ctxVars, transVars, flags, walkVars>>

-----------------------------------------------------------------------------
(* wait_for_ops, called by the holder of a transition on the context or    *)
(* above it, at most once per context and transition (a bound).  The count *)
(* is read under the lock; the wait is outside it.                         *)

\* A walk down the tree finishes a psoc's vdevs before the next psoc; the
\* walk up visits the psoc before the driver.
Arrives(c, n) ==
  /\ pc[c] = "flush" /\ n \in todo[c] \cap attached
  /\ n \in Psocs => todo[c] \cap attached \cap Vdevs = {}

\* A direct call on n, or the walk of an enclosing call arriving there.
Flushes(c, n) ==
  \/ /\ pc[c] = "trans" /\ n \in attached \ quiet[c]
     /\ at[c] = n \/ (at[c] \in Up(n) /\ owner[n] \in {NoClient, c})
  \/ Arrives(c, n)

\* One locked region: go on if nothing is in flight, else arm the event.
Visit(c, n, kids) ==
  /\ todo' = [todo EXCEPT ![c] = (@ \ {n}) \cup kids]
  /\ \/ /\ ops[n] = 0
        /\ quiet' = [quiet EXCEPT ![c] = @ \cup {n}]
        /\ pc' = [pc EXCEPT ![c] = "flush"]
        /\ UNCHANGED <<event, on>>
     \/ /\ ops[n] > 0
        /\ event' = [event EXCEPT ![n] = FALSE]
        /\ pc' = [pc EXCEPT ![c] = "blocked"]
        /\ on' = [on EXCEPT ![c] = n]
        /\ UNCHANGED quiet
  /\ UNCHANGED <<ctxVars, transVars, ops, flags, at>>

DriverWaitForOps(c) ==
  /\ at[c] = Driver /\ Flushes(c, Driver)
  /\ Visit(c, Driver, Psocs \cap attached)

PsocWaitForOps(c, p) ==
  /\ at[c] \notin Vdevs /\ Flushes(c, p)
  /\ Visit(c, p, VdevsOf(p) \cap attached)

VdevWaitForOps(c, v) == Flushes(c, v) /\ Visit(c, v, {})

\* The holder of a vdev transition waits for its psoc, then for the driver.
VdevWaitForUptreeOps(c, v) ==
  /\ at[c] = v
  /\ \/ /\ pc[c] = "trans" /\ PsocOf[v] \notin quiet[c]
        /\ Visit(c, PsocOf[v], {Driver})
     \/ Arrives(c, Driver) /\ Visit(c, Driver, {})

\* Slip: the event wakes one waiter (qdf_event_set for qdf_event_set_all).
OpsEventWaitSingle(c) ==
  /\ pc[c] = "blocked" /\ event[on[c]]
  /\ event' = [event EXCEPT ![on[c]] = FALSE]
  /\ pc' = [pc EXCEPT ![c] = "flush"]
  /\ quiet' = [quiet EXCEPT ![c] = @ \cup {on[c]}]
  /\ on' = [on EXCEPT ![c] = Driver]
  /\ UNCHANGED <<ctxVars, transVars, ops, flags, at, todo>>

\* qdf_wait_single_event returns; the walk goes on.
OpsEventWait(c) ==
  /\ pc[c] = "blocked" /\ event[on[c]]
  /\ pc' = [pc EXCEPT ![c] = "flush"]
  /\ quiet' = [quiet EXCEPT ![c] = @ \cup {on[c]}]
  /\ on' = [on EXCEPT ![c] = Driver]
  /\ UNCHANGED <<ctxVars, transVars, opsVars, flags, at, todo>>

\* No context of the walk is left in the lists.
WaitForOpsReturn(c) ==
  /\ pc[c] = "flush" /\ todo[c] \cap attached = {}
  /\ pc' = [pc EXCEPT ![c] = "trans"]
  /\ todo' = [todo EXCEPT ![c] = {}]
  /\ UNCHANGED <<ctxVars, transVars, opsVars, flags, at, on, quiet>>

-----------------------------------------------------------------------------
(* Creation, registration and destruction of contexts.                     *)

\* A fresh context, known to its creator only.  The creator is idle, or
\* opens the context inside a transition above it and registers it at once.
ContextInit(c, n) ==
  /\ n \in Churn \ attached
  /\ \/ pc[c] = "idle" /\ Goto(c, "owner", n) /\ owner' = [owner EXCEPT ![n] = c]
     \/ pc[c] = "trans" /\ at[c] \in Up(n) /\ UNCHANGED <<pc, at, owner>>
  /\ attached' = attached \cup {n}
  /\ active' = [active EXCEPT ![n] = NoClient]
  /\ queue' = [queue EXCEPT ![n] = <<>>]
  /\ ops' = [ops EXCEPT ![n] = 0]
  /\ event' = [event EXCEPT ![n] = FALSE]
  /\ UNCHANGED <<tran, flags, walkVars>>

DriverCreate(c) == ContextInit(c, Driver)

PsocCreate(c, p) == Usable(Driver) /\ ContextInit(c, p)

VdevCreate(c, v) == Usable(PsocOf[v]) /\ ContextInit(c, v)

\* osif_*_sync_register by the owner of the new context's transition, and
\* osif_*_sync_unregister by the holder of a transition that covers it.
Register(c, n) ==
  /\ pc[c] = "trans" /\ at[c] = n /\ owner[n] = c
  /\ owner' = [owner EXCEPT ![n] = NoClient]
  /\ UNCHANGED <<attached, transVars, opsVars, flags, pc, at, walkVars>>

Unregister(c, n) ==
  /\ pc[c] = "trans" /\ (at[c] = n \/ at[c] \in Up(n))
  /\ Usable(n) /\ n \in Churn
  /\ owner' = [owner EXCEPT ![n] = c]
  /\ UNCHANGED <<attached, transVars, opsVars, flags, pc, at, walkVars>>

\* A destroy begins.  It does not look at the active transition.
ContextFlush(c, n) ==
  /\ owner[n] = c
  /\ \/ pc[c] = "owner" /\ at[c] = n
     \/ pc[c] = "trans" /\ at[c] \in Up(n) /\ n \in quiet[c]
  /\ pc' = [pc EXCEPT ![c] = "destroy"]
  /\ on' = [on EXCEPT ![c] = n]
  /\ UNCHANGED <<ctxVars, transVars, opsVars, flags, at, todo, quiet>>

\* Its first half, the loop around __dsc_trans_abort, without the lock: one
\* waiter at a time.
FlushAbort(c) ==
  /\ pc[c] = "destroy" /\ TransAbort(on[c])
  /\ UNCHANGED <<ctxVars, opsVars, flags, pc, at, walkVars>>

\* Its second half, once the loop found the queue empty: the context is
\* detached under the lock and freed.
ContextDetach(c) ==
  LET n == on[c]
  IN /\ pc[c] = "destroy" /\ ~TransQueued(n)
     /\ attached' = attached \ {n}
     /\ owner' = [owner EXCEPT ![n] = NoClient]
     /\ quiet' = [quiet EXCEPT ![c] = @ \ {n}]
     /\ IF at[c] = n THEN Goto(c, "idle", Driver) ELSE Goto(c, "trans", at[c])
     /\ on' = [on EXCEPT ![c] = Driver]
     /\ UNCHANGED <<transVars, opsVars, flags, todo>>

VdevDestroy(c, v) == ContextFlush(c, v)

PsocDestroy(c, p) == VdevsOf(p) \cap attached = {} /\ ContextFlush(c, p)

DriverDestroy(c) == attached = {Driver} /\ ContextFlush(c, Driver)

\* The driver state flags that vdev requests look at change at any time.
DriverStateChange ==
  /\ \E f \in Flags : flags' = IF f \in flags THEN flags \ {f}
                                            ELSE flags \cup {f}
  /\ UNCHANGED <<ctxVars, transVars, opsVars, pc, at, walkVars>>

-----------------------------------------------------------------------------
DriverCall(c) ==
  \/ DriverTransStart(c) \/ DriverTransStartWait(c) \/ DriverTransStop(c)
  \/ DriverOpStart(c) \/ DriverWaitForOps(c)
  \/ DriverCreate(c) \/ DriverDestroy(c)

PsocCall(c, p) ==
  \/ PsocTransStart(c, p) \/ PsocTransStartWait(c, p) \/ PsocTransStop(c, p)
  \/ PsocOpStart(c, p) \/ PsocWaitForOps(c, p)
  \/ PsocCreate(c, p) \/ PsocDestroy(c, p)

VdevCall(c, v) ==
  \/ VdevTransStart(c, v) \/ VdevTransStartWait(c, v) \/ VdevTransStop(c, v)
  \/ VdevOpStart(c, v) \/ VdevWaitForOps(c, v) \/ VdevWaitForUptreeOps(c, v)
  \/ VdevCreate(c, v) \/ VdevDestroy(c, v)

\* The steps of a call in progress, and the end of an operation.
Resume(c) ==
  \/ TranWait(c) \/ OpsEventWait(c) \/ WaitForOpsReturn(c)
  \/ OpStop(c) \/ FlushAbort(c) \/ ContextDetach(c)

ClientCall(c) ==
  \/ DriverCall(c) \/ Resume(c)
  \/ \E p \in Psocs : PsocCall(c, p)
  \/ \E v \in Vdevs : VdevCall(c, v)
  \/ \E n \in Node : Register(c, n)

ClientStep(c) == ClientCall(c) \/ \E n \in Node : Unregister(c, n)

Next == DriverStateChange \/ \E c \in Client : ClientStep(c)

Spec == Init /\ [][Next]_vars

\* The callers' side of a teardown: a client that unregisters the context of
\* its own transition finds nobody waiting on it.  Otherwise its trans_stop
\* hands the context to a waiter, and its destroy frees it under that
\* waiter's transition.
Unwaited(c, n) == active[n] = c => ~TransQueued(n)

ContractStep(c) ==
  ClientCall(c) \/ \E n \in Node : Unregister(c, n) /\ Unwaited(c, n)

ContractNext == DriverStateChange \/ \E c \in Client : ContractStep(c)

ContractSpec == Init /\ [][ContractNext]_vars

\* Fairness.  The scheduler runs a runnable thread: a woken client returns,
\* a walk goes on, an operation ends, a destroy finishes.
FlushStep(c) ==
  /\ pc[c] = "flush"
  /\ \/ DriverWaitForOps(c)
     \/ \E p \in Psocs : PsocWaitForOps(c, p)
     \/ \E v \in Vdevs : VdevWaitForOps(c, v) \/ VdevWaitForUptreeOps(c, v)

\* The body of a transition is finite: its holder keeps coming back to the
\* stop and takes it in the end.
TransStopStep(c) ==
  \/ DriverTransStop(c)
  \/ \E p \in Psocs : PsocTransStop(c, p)
  \/ \E v \in Vdevs : VdevTransStop(c, v)

\* So is the teardown of a context the client has unregistered.
TeardownStep(c) ==
  \/ owner[Driver] = c /\ (DriverWaitForOps(c) \/ DriverDestroy(c))
  \/ \E p \in Psocs : owner[p] = c /\ (PsocWaitForOps(c, p) \/ PsocDestroy(c, p))
  \/ \E v \in Vdevs : owner[v] = c /\ (VdevWaitForOps(c, v) \/ VdevDestroy(c, v))

Fairness ==
  \A c \in Client :
    /\ WF_vars(Resume(c) \/ FlushStep(c))
    /\ SF_vars(TeardownStep(c))
    /\ SF_vars(TransStopStep(c))

FairSpec == ContractSpec /\ Fairness

-----------------------------------------------------------------------------
(* Properties.                                                             *)

Label == {"idle", "queued", "trans", "flush", "blocked", "op", "destroy", "owner"}

\* The values the state of DSC and of its clients takes.
TypeOK ==
  /\ attached \subseteq Node
  /\ owner \in [Node -> Client \cup {NoClient}]
  /\ active \in [Node -> Client \cup {NoClient}]
  /\ queue \in [Node -> Seq(Client)]
  /\ tran \in [Client -> {"none", "queued", "triggered", "aborted"}]
  /\ ops \in [Node -> Nat]
  /\ event \in [Node -> BOOLEAN]
  /\ flags \subseteq Flags
  /\ pc \in [Client -> Label]
  /\ at \in [Client -> Node]
  /\ todo \in [Client -> SUBSET Node]
  /\ on \in [Client -> Node]
  /\ quiet \in [Client -> SUBSET Node]

\* Client c runs a transition on n: DSC has granted it (at once, or by the
\* trigger of a stop, even if c has not run since) and c has not stopped it.
RunsTrans(c, n) ==
  /\ at[c] = n
  /\ \/ pc[c] \in {"trans", "flush", "blocked"}
     \/ pc[c] = "destroy" /\ on[c] # n
     \/ pc[c] = "queued" /\ tran[c] = "triggered"

Waits(c) == pc[c] = "queued" /\ tran[c] = "queued"

\* No two clients run transitions on the same context or on a context and
\* one of its ancestors, whichever of the start, start_wait and trigger
\* paths granted them.
TransExclusion ==
  \A c, d \in Client : \A n, m \in Node :
    c # d /\ RunsTrans(c, n) /\ RunsTrans(d, m) => m \notin Lineage(n)

\* trans.active_desc is set exactly while some client runs the transition,
\* so that the assertions of __dsc_trans_start and __dsc_trans_stop hold.
ActiveIsRunning ==
  \A n \in Node : \A c \in Client : active[n] = c <=> RunsTrans(c, n)

\* Once a holder's wait_for_ops has passed a context no operation runs on
\* it, until the holder stops its transition.
FlushedIsQuiet == \A c \in Client : \A n \in quiet[c] : ops[n] = 0

OpsAt(n) == {c \in Client : pc[c] = "op" /\ at[c] = n}

\* ops.count is the number of clients between op_start and op_stop.
OpsCounted == \A n \in Node : ops[n] = Cardinality(OpsAt(n))

\* A client blocked in wait_for_ops on a context whose operations are over
\* will be woken: no reset of the shared event loses another waiter's wakeup.
NoLostWakeup ==
  \A c \in Client : pc[c] = "blocked" /\ ops[on[c]] = 0 => event[on[c]]

\* Nobody waits on a context unless a transition that blocks the wait is
\* running, or a waiter above is to be served first: every waiter is in the
\* path of some trigger.
NoStrandedWaiter ==
  \A n \in Node : TransQueued(n) =>
    \/ \E m \in Lineage(n) : TransActive(active, m)
    \/ \E m \in Up(n) : TransQueued(m)

\* A context that has been freed is used by nobody: no transition, no
\* waiter and no operation outlives it.
FreedIsUnused ==
  \A n \in Node \ attached :
    active[n] = NoClient /\ queue[n] = <<>> /\ ops[n] = 0

\* A waiter is overtaken by nobody on its own context, and while a waiter
\* is queued above a context no transition starts on that context.
GrantOrder ==
  [][\A n \in Node : active'[n] # active[n] /\ active'[n] # NoClient =>
       /\ TransQueued(n) => active'[n] = Head(queue[n])
       /\ \A m \in Up(n) : ~TransQueued(m)]_vars

\* A transition waiter is served in the end, or is held up for ever by
\* transitions above its context.  For the driver there are none above.
WaiterServed ==
  \A c \in Client : []<>~Waits(c)
    \/ []<>(\E m \in Up(at[c]) : TransActiveOrQueued(m))

\* A wait_for_ops returns.
FlushReturns == \A c \in Client : pc[c] = "blocked" ~> pc[c] = "trans"
=============================================================================
