# TLA+ verification of the SM8850 vendor modules

The repository holds the out-of-tree kernel modules of a phone platform: the
Qualcomm WLAN, graphics, camera, display, audio, data and security drivers and
the vendor's own kernel features. They are independent programs that share a
tree. This project verifies the logic in them that is hard to test: the
protocols by which concurrent call chains agree on who may change what.

## Inventory

| Part | State | Operations | Interaction | What is hard |
|---|---|---|---|---|
| WLAN Driver Synchronization Core, `qcom/opensource/wlan/qcacld-3.0/components/dsc` | a tree of contexts (driver, psocs, vdevs); per context an active transition, a queue of waiters, an operation count and an event | create, destroy, transition start / start_wait / stop, operation start / stop, wait_for_ops | called by every entry point of the WLAN driver through osif_sync | hand-over between levels, waiters, flushes that share an event, teardown under load |
| osif_sync, `.../os_if/sync` | fixed tables of slots keyed by `net_device` and `device`; a command remembered per interface | create, register, unregister, destroy, lookup-and-start, cache and fetch a command | wraps DSC | the lookup and a waiting start are not one step; slots are reused |
| SSR and driver callbacks, `.../core/hdd/src` | the psoc transition of an SSR, held across two callbacks; commands refused meanwhile | shutdown, reinit, handling of cached commands | client of osif_sync | the two halves of an SSR fail independently; the walk takes no lock |
| The rest of the WLAN host driver | sessions, peers, serialization queues, rings | requests from cfg80211, firmware events | clients of DSC | size; hardware and firmware formats |
| KGSL timelines, `qcom/opensource/graphics-kernel/kgsl_timeline.c` | an idr of timelines, each with a value, fences and pending events | create, fence get, wait, signal, query, destroy | dma-fence, sync_file, timeline objects of the dispatcher | two locks and two kinds of references; destruction with fences outstanding |
| KGSL events, `kgsl_events.c`, `adreno_drawctxt.c` | per context an event group; the retired timestamp in shared memory | add, cancel, process, wait for a timestamp, detach, invalidate | the GPU, the dispatcher, an event worker | timestamps that wrap; an event added while its timestamp retires; detach |
| KGSL sync objects, `kgsl_drawobj.c` | a pending mask, a canary timer | add points, expire, destroy | events, fences, timelines, dispatcher | callback against cancellation, each owning a reference |
| KGSL dispatcher, `adreno_dispatch.c` | queue per context, lists of jobs, what is in flight | queue, send, requeue, retire, fault, halt, detach | submitters, GPU, worker | the lock dropped between pop and send; submitters that sleep for room |
| IPA power manager, `qcom/opensource/dataipa/.../ipa_pm.c` | per client a state, a timer, a work; clock votes, throughputs, use cases | register, activate, activate_sync, deferred / sync deactivation, deactivate_all_deferred, set_throughput, deregister | work queue, timers, suspend callbacks | the lock dropped around every blocking call |
| Synx, `qcom/opensource/synx-kernel` | a global table in shared memory, handles per client | create, import, bind, signal, wait, release, recovery of a core | other cores, through a hardware lock and mailboxes | signals from several cores, a core that dies holding the lock |
| cam_sync, hw_fence, mmrm | tables of sync objects, fences, clock votes | create, merge, signal, wait; vote | firmware, other drivers | callbacks out of order, limits of tables |
| Display, video, eva, audio, DSP, RmNet, security drivers | device state | ioctl, interrupts, firmware messages | hardware | mostly formats and registers |
| OPlus features, NFC, secure element | per feature | sysfs, notifiers, character devices | hardware | mostly thresholds and I/O |

DSC is the first core of the project. It is small, it is the program's own
logic, everything in the WLAN driver stands on it, and a mistake in it is one
that no test of a single call finds. Its promises, as its headers state them:

* transitions are mutually exclusive on a context, above it and below it;
* operations run beside each other and are rejected while a transition that
  covers them is active;
* a transition that has to wait is resumed when what blocks it is over;
* wait_for_ops returns when the operations in flight are over, and none starts
  until the transition stops;
* destroying a context aborts its waiters, and nothing is left on it.

KGSL and the IPA power manager come next for the same reasons: hand-written
protocols of locks, references, callbacks and timers. What makes them correct:

* timelines: reference counts are exact, no fence misses its signal, queries do
  not go back;
* events: an event fires once, not early, and also across a rollover; sleepers
  wake; a detached context is freed;
* sync objects: each reference is put once, nothing touches a freed object, the
  queue behind it moves on;
* dispatcher: the timestamps of a context reach the GPU and retire in order, no
  context is forgotten, submitters wake (its comments also promise a bound of the
  queue, which it does not keep);
* power manager: the votes are those the states stand for, no deferred
  deactivation is forgotten, wake source and bit mask fit the states.

## Modules

| Module | Contents |
|---|---|
| `Dsc` | the state, the calls of the three levels, the specification, fairness and properties |
| `DscInv` | the inductive invariant |
| `DscInvProofs` | facts about the tree, the steps sorted by what they do, type correctness; the invariant is inductive; the theorems, order of grants and the refinement of `DscLock` included |
| `DscLock` | what DSC promises, as a lock on a tree: hold, share, drain |
| `DscRefine` | the refinement mapping from `Dsc` to `DscLock` |
| `DscRecovery` | an SSR whose first half is refused, on top of `Dsc` |
| `OsifSync` | the registry's slot tables and calls, composed with `Dsc` |
| `OsifSyncInv`, `OsifSyncProofs` | the registry's inductive invariant, on top of that of `Dsc`; its theorems |
| `OsifCommands` | interface up and down during SSR, composed with `OsifSync` |
| `OsifCommandsInv`, `OsifCommandsProofs` | the inductive invariant of the commands, on top of both; its theorems |
| `KgslTimeline` | timelines, their fences, timeline objects |
| `KgslTimelineInv` | the inductive invariants of the fences, of the timeline objects and of the references |
| `KgslTimelineProofs` | the theorems about the fences |
| `KgslTimelineObjProofs` | the theorems about timeline objects, queries and references |
| `KgslEvents` | timestamp events, waits, the life of a context |
| `KgslEventsInv`, `KgslEventsProofs` | its inductive invariant; its theorems |
| `KgslSyncObj` | a sync object, its points and callbacks |
| `KgslSyncObjInv`, `KgslSyncObjProofs` | its inductive invariant; its theorems |
| `KgslDispatch` | the software dispatcher |
| `KgslDispatchInv`, `KgslDispatchProofs` | its inductive invariant; its theorems |
| `IpaPm` | the power manager of IPA |
| `MC*` | instances for TLC |

Definitions introduced by "Slip:" are plausible mistakes in the definition that
follows them. They are not part of a specification; each shows that a property
would notice the mistake.

### How Dsc corresponds to the code

Every DSC function takes the one spinlock of the driver context for all it does
with shared state, so each locked region is one action. A call that sleeps is
split where it drops the lock:

* `dsc_*_trans_start_wait` queues its `struct dsc_tran` and sleeps
  (`StartLater`), and returns in `TranWait` once the event is set. The record
  lives on the waiter's stack; `tran[c]` is its event and abort flag.
* `dsc_*_wait_for_ops` reads the count and resets the event in one region
  (`Visit`), sleeps (`pc = "blocked"`, `OpsEventWait`), and walks down the tree
  without the lock: each step of the walk looks at the list as it is then
  (`todo[c] \cap attached`), and the walk ends in `WaitForOpsReturn`.
* `dsc_*_destroy` begins (`ContextFlush`), aborts the waiters one after the other
  without the lock (`FlushAbort`), then detaches under the lock and frees
  (`ContextDetach`).

`active[n]` is `trans.active_desc`; the description string is abstracted to the
client that started the transition. `queue[n]` is `trans.queue`, `ops[n]` is
`ops.count`, `event[n]` is `ops.event`. A call that is refused changes nothing
and is no step. `__dsc_ops_insert` also records the operation's name in a
fixed table when DSC debugging is built in; that table, the debug timers and
the log are left out.

A trigger (`TransTrigger`) is written over a set of contexts, because a stop may
start waiters on several: the operators `DriverTriggerTrans`,
`PsocTriggerTrans` and `VdevTriggerTrans` say which, in the order the code tries
them. Whoever is started is the front of the queue.

The callers' contract is part of the model, since DSC only asserts it: a
transition is stopped by the client that started it; a context that is not
registered with osif_sync is named only by its owner; before a context is
destroyed it is unregistered, its operations are flushed, and its children are
gone. `Practices` says whether a driver transition may be ended by
`dsc_psoc_trans_stop` (`stop_via_psoc`), which `__dsc_psoc_trans_stop` provides for.

One clause of the contract is not in the actions, because the code has no such test
and not every caller keeps it: `Unwaited`, a client that unregisters the context
of its own transition finds nobody waiting on it. `Spec` is the code, with or
without it; `ContractSpec` is `Spec` with callers that keep it (`ContractNext`
guards the unregistration and nothing else). The cfg80211
handlers are serialised by the rtnl lock, but work items (`hdd_lpc_work_handler`,
the pre-CAC work) wait for the same transitions without it, and `late_waiter` shows
what `Spec` allows then.

`owner` stands for osif_sync's registration as far as DSC needs it; `OsifSync`
has the tables themselves. `quiet` is a history variable: the contexts a
holder has flushed.

### How OsifSync corresponds to the code

`OsifSync` extends `Dsc` with the three tables (`slot`), the slot pointers the
clients keep (`hold` for the transition or operation they are in, `down` for
slots they have unregistered and still have to destroy) and the osif call each
client is in (`call`). Each level has its own file in the code and its own
actions in the model.

* `osif_*_sync_trans_start` and `op_start` look up and start under the table's
  lock: one action. A vdev start then waits for the vdev's operations and for
  those above it (`call.op = "settle"`) before it returns.
* `osif_*_sync_trans_start_wait` drops the lock after the lookup
  (`SyncWaitLookup`); the start reads the slot's context, whatever it is by then
  (`*SyncTransStartWait`), without asking whether it is still registered.
* A create takes a slot (`*SyncGet`), looks its parent up and makes the context
  under the parent's lock (`*SyncCreate`), starts the first transition
  (`*SyncCreateAndTrans`) or destroys the context again when it is refused. A
  create inside a transition above, as hdd opens interfaces, is registered next.
* A destroy sets the pointer in the slot to NULL and then works on the context
  (`*SyncDestroy`, `SyncDetach`); the slot is zeroed in a region of its own
  (`SyncPut`).

The model lets a caller call trans_stop on a context it has unregistered only
when the children of the context are gone, as the removal paths do. A create whose
allocation in DSC fails is left out; the code undoes it as it undoes a missing
parent. `WaitNodes` names the contexts on which start_wait is used, and they may
come and go. `SyncUnwaited` is the registry's form of `Unwaited`: at the moment a
context is unregistered no client is waiting on it or between the lookup of a
start_wait and its start. `OsifContractSpec` is `OsifSpec` with callers that keep
it; without it the guarantees are lost (see "Deviations met while modelling").

### How OsifCommands corresponds to the code

`hdd_open` and `hdd_stop` run under the kernel's rtnl lock (`rtnl`, external).
A stop that cannot start its vdev transition is refused under the table's lock
(`NdoRefused`) and caches INTERFACE_DOWN in the context afterwards, through the
slot pointer it was handed (`CacheCommand`). The re-init of an SSR
(`ReinitBegin` to `ReinitEnd`), inside its psoc transition, walks the table
slot by slot without its lock (`HandleCachedCommand`). Removal of an interface
unregisters the `net_device`, for which it needs rtnl, before it destroys the
context. `WalkSlots` are the entries the walk looks at, `WLAN_MAX_VDEVS` of a larger
table. `Monitors` are the interfaces whose open handlers (`hdd_mon_open`,
`hdd_pktcapture_open`) do not clear the cached command; `hdd_stop` is theirs as well.
`CommandsContractSpec` is the specification with callers that keep `SyncUnwaited`.

### How KgslTimeline corresponds to the code

A region under `timeline->fence_lock` or `timelines_lock` is one action.
`timeline->lock` is held over several steps of a signal or destroy, so it is a
variable and the steps in between interleave with whatever does not need it.
`value` is read without the lock, as the code does. A call is a thread that goes
through the array of values it was passed, one timeline at a time; the waiting
form keeps the fences it made. A timeline object signals its timelines when
both the scheduler and the event callback are done with it (`sig_refcount`).
dma_fence and sync_file are external, modelled from their use here.

### How KgslEvents corresponds to the code

One context and its event group. A region under `group->lock` is one action;
`event_groups_lock` is held over a walk. The model counts timestamps without
wrapping, and the code's decisions are made on `TS` of them (modulo twice
`Window`), so what the code concludes about order can be compared with what
happened. A wait registers an event, tests, sleeps and, on a timeout, cancels the
first event that matches. `ctx.lost` is history: the detach waited for the GPU
in vain and went on. `Found` is what a walk over `group->events` finds, in the
order of the list.

### How KgslSyncObj corresponds to the code

Callback and destroy race for a point's bit in the pending mask
(`test_and_clear_bit`); the winner owns what the point holds. A fence runs its
callbacks with its lock held, and removing one takes that lock; the event of a
timestamp is cancelled by handing it to the event worker, which runs the callback
later (`late`). The dispatcher destroys the object with the context's lock held and
waits for the canary timer's handler, which wants the same lock and therefore only
tries it (`TimerDump`).

### How KgslDispatch corresponds to the code

A submitter queues under the context's lock, sleeps for room (`WaitTest`,
`WokenQueue`), lists the context, and takes the dispatcher's mutex if it is free;
otherwise the worker runs. `disp` is the dispatching routine, whoever runs it:
the context's lock is dropped between taking an object (`SendNext`) and sending
it (`SendCmd`), and an object that cannot be sent is put back at the front.
Markers and bind operations are retired by the driver, which writes the retired
timestamp itself. A fault is handled (`DoFault`) or put off (`DoFaultLater`: a suspend
in progress, the gate that does not open, the page fault handler still to come; or the
GPU not awake, and the dispatcher goes on), and whoever put it off queues the
dispatcher again (`FaultRequeued`). `ctx.stale` is history: a bind operation waits for
less than what was queued. Timestamps are the driver's: contexts that generate
their own, and the -ERANGE paths of `get_timestamp` (`adreno_dispatch.c:917`, `:1239`),
are left out.
`DispatchAssumption` says what `kgsl_ioctl_gpu_aux_command` makes: the implicit
sync object comes before each bind operation (`BindsAreSynced`). A submission is
queued by a recursive function (`QueueBatch`), one object after the other, as the
loop of `adreno_dispatcher_queue_cmds` does.

### How IpaPm corresponds to the code

A call is a program of steps, each the code between two releases of the client's
lock or one blocking call (a vote, a wait for the completion,
`cancel_delayed_work_sync`, the scaling of the clock); `ag[a].todo` is what is left
of it. The queue has one worker, as the ordered work queue of the code has.

`Votes` is `ipa3_active_clients.cnt`: the clients' votes and one of other code of the
driver, which comes and goes (`OtherVote`, `OtherDevote`). `clk.on` is
`ipa_clk_vote`: the first vote turns the clock on before it counts (`Vote`, `Count`), the
last one turns it off after it is gone and resets the index (`Devote`, `Gate`), both with
the mutex of the votes. The tag process and the retry while the hardware is busy,
which delay the gating, are left out. Scaling tests `clk.on` without a lock (`Scale`),
calculates with the mutex of the clients (`Calculate`), and applies the result without
it (`SetIndex`).

`Roles` are the ways the threads use the clients, chosen at the start: `role[a][c]` are
the calls thread a makes for client c. A suspend walks the clients
(`ipa_pm_deactivate_all_deferred`). It starts when the threads in `Frozen` are outside
calls: user processes are frozen before suspend callbacks run. Work queues are not:
`ipa3_handle_rx` (`ipa_dp.c:1216`) activates its client beside the suspend.
`cl.hasty` is history: the client was activated while a deactivation was still on its
way to the wake source and the bit.

## Runs

| Run | Instance | Checks | Result |
|---|---|---|---|
| `tree` | one psoc with two vdevs, three clients; every context comes and goes; a driver transition may be ended through the psoc; callers keep the contract | `IInv`, `TransExclusion`, `FlushedIsQuiet`, `NoLostWakeup`, `NoStrandedWaiter`, `GrantOrder`, `ImplementsLock` | hold, 658 thousand states |
| `live` | one psoc, one vdev, three clients, the recovery flag changing, fairness | `WaiterServed`, `FlushReturns` | hold, 59 thousand states |
| `recovery` | SSR refused, then re-initialised | `TransExclusion` | violated |
| `late_waiter` | one vdev that comes and goes, two clients, no contract | `FreedIsUnused` | violated |
| `registry` | the whole tree comes and goes, two vdevs compete for one slot, three clients, start_wait at the three levels, the unloading flag changing; callers keep the contract | `OsifInv`, `SettledIsIsolated` | hold, 614 thousand states |
| `osif_commands` | two vdevs that come and go, one a monitor, up and down requests, an SSR whose walk covers one of two slots, start_wait on vdevs and psoc, three clients that keep the contract | `CommandsInv`, `DownIsLastWord`, `ImplementsDsc` | hold, 569 thousand states |
| `timeline` | one timeline, two fences, one timeline object, a caller that makes fences, waits and signals, one that makes fences, timeline objects and destroys, a worker, allocation failures | `TimelineInv`, `NoMissedSignal`, `EventsInOrder`, `QueryMonotonic` | hold, 2.0 million states |
| `events` | two events, a caller that waits and adds events, one that waits and detaches, the dispatcher, a timestamp just past the rollover, fairness | `EventsInv`, `EventsOnTime`, `SleeperWakes`, `DetachedIsFreed` | hold, 119 thousand states |
| `syncobj` | a point of each kind, a submission that fails half-way, a detach, fairness | `SyncObjInv`, `ExpiredLeavesQueue`, `DestroyEnds` | hold, 109 thousand states |
| `dispatch` | two submitters of one context, all kinds of objects, faults that are handled or put off, halts and detach, fairness | `DispatchInv`, `JobIsKept`, `CommandsRetire`, `SleeperWakes` | hold, 337 thousand states |
| `queue_bound` | two submitters of one context, no faults | `QueueBound` | violated |
| `ipa` | two clients, used in one of five ways (see below), suspend, other voters, fairness | `PmInv`, `EffectsFit`, `WorkIsDone` | hold, 186 thousand states |

`IInv`, `OsifInv`, `CommandsInv`, `TimelineInv`, `EventsInv`, `EventsOnTime`,
`SyncObjInv`, `DispatchInv`, `PmInv` and `EffectsFit` are conjunctions of parts
that the modules name and explain one by one. TLC names the conjunction when a
part fails; the part is found by checking it alone.

`recovery`: `hdd_soc_recovery_shutdown` is refused while a driver transition
is active or queued and returns; `hdd_soc_recovery_reinit` then resumes and stops
"its" transition, which is the driver's. Its holder still runs when the next
transition starts.

`late_waiter`: `wlan_hdd_del_virtual_intf` unregisters the vdev, stops its transition
and destroys it. A client that looked the vdev up before is queued; the stop gives
it the transition, so the destroy finds nobody to abort and frees the context under
it.

`queue_bound`: two submitters sleep for room and are woken for the same room, which each
tests without the lock; afterwards only the state of the context is tested again. Both
queue their objects, more than the comments say there can ever be.

`ipa`: the client of the data path, activated and deferred through the queue beside a
second one (`Queued`); one whose activations through the queue and by the caller
alternate (`Turned`); one that a work queue activates at once beside a suspend
(`Polled`); both kinds of activation that a suspend finds in progress (`Awaited`); and
a client of a user process that registers, uses, deactivates and deregisters it
(`Owned`).

`ImplementsLock` is the specification of `DscLock`, under the mapping of
`DscRefine`: the holder of a context is its `active_desc`, whoever is between
op_start and op_stop shares it, and a completed wait_for_ops drains it. Queues,
events and counters are DSC's means, not its promise.

`ImplementsDsc` is `ContractSpec` of `Dsc`, as a property of the registry and of the
callbacks on top of it: seen without the tables, clients that keep the registry's
contract keep that of DSC, so what is proved of `Dsc` holds for clients that come
through osif_sync. `osif_commands` checks it, with waits on interfaces that come and
go; for the whole tree, driver included, it is the theorem `OsifRefinesDsc`.

`GrantOrder` and `WaiterServed` together say what the queueing policy is worth:
a waiter is overtaken by nobody on its own context or below it, and it is served
unless transitions above its context recur for ever. The second half is needed:
a stop serves the driver's queue before the psocs', and these before the vdevs',
and DSC has no aging.

### Bounds

In the DSC runs three clients are one that holds, one that waits and one that
interferes; in a conflict between two branches or two flushes they are all
distinct. Two vdevs under one psoc give siblings. A client calls wait_for_ops on
a context once per transition. `Churn` names the contexts that come and go,
`Flags` the driver flags that change. Larger trees and more clients are covered
by the proofs for what is proved. Clients, and in `tree` the sibling vdevs, are
interchangeable in the runs without liveness properties, as fences are in
`timeline`.

`timeline`: two fences and two sequence numbers let a signal reach one fence and
not the other; `Arrays` holds one value, and two in falling order, the
order in which a list kept sorted by mistake at its end goes wrong. `Calls`
shares the calls out so that those that race, such as a signal and a destroy, or
an event and a detach, are made by different threads. `events`:
`Start` is the last timestamp before the rollover and the calls name the next
one, so every comparison is made across it; two events give one that is
registered while another is processed, or cancelled in its stead. `syncobj`: the
kinds of points differ in who owns the reference, and one of each lets them
expire in any order. `dispatch`: a queue of three has room for a submission of
two objects and one put back; a burst of one makes the dispatcher leave a
context with work; two values for the number of commands in flight change while
it runs; `MaxTs` and `MaxEvents` bound the length of the run. IPA: two clients
and a vote of others are enough for one being in the way of the other; all uses of
both clients at once are too many states, so `Roles` takes them one after the other.
The computed index is the subject of no property, so one throughput and no use case
are enough.

Deadlock is checked in the DSC, registry and IPA runs. In the KGSL runs objects
are allocated once and time is bounded, so the system may stop: those say
CHECK_DEADLOCK FALSE, and what must not get stuck there is stated as liveness
where it matters.

### Fairness

DSC: `FairSpec` assumes, per client, that a client that can go on in a call goes
on (weak fairness of `Resume` and `FlushStep`: a thread that is woken runs, an
operation ends, a walk proceeds); a holder that comes back to the point where it
may stop stops in the end (strong fairness of `TransStopStep`: the body of a
transition may flush and create contexts in between, but it is finite); the same
for the teardown of contexts it has unregistered (`TeardownStep`). Nothing is
assumed about new requests. The code justifies it by its shape: every start has
its stop at the end of the same function, and the sleeps are the two that are
modelled.

KGSL events: threads inside a call, the event worker and the GPU make progress
(weak); the GPU's interrupts bring the dispatcher to the group again and again,
and a writer gets `event_groups_lock` between two walks (strong, since both are
disabled in turn; the lock is a fair rwlock for writers that wait). Sync objects:
whoever has begun goes on (weak); a dispatcher that has been kicked and a detach get
the context's lock in the end (strong). Sources of points need not signal.
Dispatcher: threads, worker, GPU, bind operations and detaches make progress,
points expire and a halt ends (weak); a fault that was put off is put forward again
(weak) and handled in the end (strong). A fault is not assumed to happen, nor the
ten-second timeout of a sleeping submitter: `SleeperWakes` holds without it.

IPA: the steps of calls and the worker (weak); a queued work and an expired timer
are taken up in the end although other work is taken first now and then (strong:
the queue is first in, first out, which the model does not keep otherwise).

## Deviations met while modelling

Where a comment or header of the repository says more than the code keeps, the
model follows the code. `recovery`, `late_waiter` and `queue_bound` are kept as runs.
The others are listed here with what the properties do about them.

WLAN:

* `wlan_dsc_psoc.c:274`: a driver transition ended by `dsc_psoc_trans_stop` serves
  the driver's queue, this psoc's and its vdevs'. With a second psoc, a client that
  waits there stays queued with nothing active, where the comment at
  `wlan_dsc_psoc.c:137` says it "may be resumed". `tree` has one psoc, and
  `NoStrandedWaiter` holds there.
* `wlan_hdd_p2p.c:1245`: the removal path stops the transition before it destroys
  the context; the stop hands it to a client that had looked the context up
  earlier (`late_waiter`). The other DSC results are about callers that keep
  `Unwaited`.
* `osif_vdev_sync.c:232`: a start_wait reads the slot's context after it has dropped
  the table's lock; the slot may be another interface's by then. `SyncUnwaited`
  excludes it: the callers of start_wait on a vdev (`wlan_hdd_p2p.c:1235`,
  `wlan_hdd_main.c:794`, `osif_pre_cac.c:59`, `os_if_nan.c:577`) are not serialised
  against those that unregister it.
* `osif_vdev_sync.c:132`: `create_and_trans` makes no uptree wait, which the comment at
  line 245 asks of vdev transitions. `SettledIsIsolated` is about the two starts
  that make it.
* `wlan_hdd_main.c:5936`: a stop that is refused during an SSR and caches its command
  after the walk has passed its slot is not executed by this re-init. No property
  claims that it is.
* `wlan_hdd_power.c:2191`: the walk covers `WLAN_MAX_VDEVS` slots of a table that is
  larger with multi-link operation, so a command in another slot is never handled.
  `WalkSlots` is a part of the table in the run.
* `wlan_hdd_main.c:3541`, `:3617`: the open handlers of monitor and packet capture
  interfaces leave an old command in the context, and the next SSR takes such an
  interface down. `DownIsLastWord` is about the other interfaces.
* `wlan_hdd_power.c:2196`: the walk reads a slot's context before it looks at the
  key; between `in_use` and the store of the context it is NULL, and the read
  faults. The model passes over such a slot, and so shows nothing about it.

KGSL:

* `kgsl_timeline.c:609`: a signal between the two halves of a destroy advances the
  value and finds no fences; the destroy then fails the fences with an error although
  the value was reached. `NoMissedSignal` counts such a fence as in the hands
  of the destroy.
* `kgsl_drawobj.c:1112`: after a failed `kgsl_add_event` the array is gone and the
  count is not, and the destroy goes by the count and dereferences the NULL array
  (`:433`). The model's thread stops at that point for good (`CHECK_DEADLOCK FALSE`), so
  `TimelineInv` covers the states up to it and says nothing of the fault.
* `kgsl_events.c:282`: an event for a future timestamp, which contexts with user
  generated timestamps allow, can be added after a detach has cancelled the others.
  `DeletedIsEmpty` exempts `UserTS`, and `events` has it FALSE. The same happens
  when a detach goes on without the GPU: `DeletedIsEmpty` and `DetachedIsFreed`
  exempt `ctx.lost`.
* `kgsl_drawobj.c:391`: the pending mask is tested after the loop that clears it, so
  the dispatcher is not scheduled. The model has the code's test;
  `ExpiredLeavesQueue` does not depend on it.
* `adreno_dispatch.c:652`, `:402`: a fault during the walk over the jobs drops the job of
  a sync object's context (`:780`), and `dispatcher_queue_context` may fail to allocate. The
  dispatcher of `KgslSyncObj` has neither, so `ExpiredLeavesQueue` holds without them:
  the first is in `KgslDispatch`, the second in no module.
* `adreno_dispatch.c:652`: in `KgslDispatch`, a fault between two tests drops a context from the
  list although it has commands. `JobIsKept` says this is the only way;
  the liveness properties exempt a context that is `Forgotten`.
* `adreno_dispatch.c:169`: the condition a sleeping submitter tests knows nothing of
  detach. `SleeperWakes` exempts detached contexts.
* `kgsl.c:2539`: the timestamp a bind operation waits for is read before the
  context's lock is taken. `RetiredIsDone` and `CommandsRetire` exempt `ctx.stale`.

IPA power manager (`ipa_pm.c`):

* `:499`: the timer's work drops the lock before it relaxes the wake source and clears
  the bit; an activation in between loses both. `Settled` exempts a `hasty` client.
* `:1152`: a synchronous activation sets the state that others take for "the work
  will complete this", and completes nothing. A suspend that meets one waits for
  ever, unless an earlier activation has left the completion done. The run reaches
  this; no property claims that a suspend returns.
* `:432`: the work completes before its last use of the client, so a teardown that
  waits for the completion may free it, and a late completion may end the wait for
  a later activation. In `Owned` the client that is deregistered is not activated
  through the queue, though `ecm_ipa.c:666` and `rndis_ipa.c:1045` do so.
* `:506`: a client deferred while a suspend deactivates it has a timer that runs out in
  a state the work does not expect. The run reaches this; `StateExpected` says it
  needs a suspend.
* `:362`, `:386`: the gate is tested and the index applied without the mutex of the
  calculation: two scalings at a time may set the clock in the other order than
  they calculated it, and one may set it after the clock was gated. No property
  claims that the index fits.
* `:553`: a use case of several clients never counts as complete.
* The wake source of a client that does not vote is not relaxed; `WakeHeld`
  exempts it.

## Proofs

### DSC

`DscInvProofs` proves, for every tree of contexts, every finite set of clients and any
`Churn`, `Flags` and `Practices`, for callers that keep the contract (without it a
freed context can be in use, see `late_waiter`):

| Theorem | Statement |
|---|---|
| `Invariance` | `ContractSpec => []IInv` |
| `TypeCorrect` | `ContractSpec => []TypeOK` |
| `MutualExclusion` | `ContractSpec => []TransExclusion` |
| `ActiveDesc` | `ContractSpec => []ActiveIsRunning` |
| `OpsCount` | `ContractSpec => []OpsCounted` |
| `FlushSound` | `ContractSpec => []FlushedIsQuiet` |
| `WakeupKept` | `ContractSpec => []NoLostWakeup` |
| `GrantsInOrder` | `ContractSpec => GrantOrder` |
| `NobodyStranded` | `ContractSpec => []NoStrandedWaiter`, with one psoc or without `stop_via_psoc` |
| `LockRefinement` | `ContractSpec => ImplementsLock` |

The assumptions are `DscAssumption` (the levels are disjoint, each vdev has a
psoc), `ClientFinite` and `ChurnAssumption`.

The argument. None of the properties is inductive. Exclusion across a trigger
needs to know that the front of a queue is a client that waits on that context
(`QueuesWait`) and that the transitions left after the stop do not conflict
(`ActiveExcludes`). That a flushed context stays quiet needs the flush to lie in
the lineage of a transition the client holds (`FlushInLineage`), since only that
keeps operations out. That nobody but its owner works on a context that is torn down
needs to know who can still name it (`OwnedIsReached`, `OwnedIdleIsUnused`,
`DestroyedIsUnused`). That no
wakeup is lost needs the exact relation of event and count while someone sleeps
(`BlockedIsWoken`). `IInv` is the conjunction.

The steps are sorted (`NextCases`) into starts, operations, visits, life-cycle
steps, resumptions and stops, without regard to the level. All but the stops
change one client and one context in a way that nobody else notices: `LocalInv`
carries the invariant over such a step once and for all, and each lemma of an
action only has to treat its own client. A stop is `InvStop`: if the set of
queues it triggers is conflict-free (`ConflictFree`) the invariant holds
afterwards. That the set is conflict-free is shown per level from what
`__dsc_*_trigger_trans` checks (`InvDriverTransStop`, `InvPsocTransStop`,
`InvVdevTransStop`).

`NobodyStranded` adds nothing to `IInv` but itself: after a stop, the queues
that are triggered are those whose waiters nothing blocks any more, and the
others are below an active or queued transition. A driver transition that is
ended through one of two psocs breaks it, which is the first of the deviations
above, so the theorem asks for one psoc or for no such stop. `GrantsInOrder` and
`LockRefinement` are step by step: a start finds the queues above it and its own
empty, a trigger takes the front; every step holds, releases, shares, unshares or
drains one context of the abstract tree, releases and holds several at once (a stop
that triggers), or leaves them alone.

### The registry

`OsifSyncProofs` proves, for every tree, every finite set of clients and tables of
any size, whatever comes and goes and whatever is waited for, for callers that keep
`SyncUnwaited` (the first two deviations above are what happens otherwise):

| Theorem | Statement |
|---|---|
| `OsifInvariance` | `OsifContractSpec => [](IInv /\ OsifIInv /\ QueueHeld)` |
| `OsifSafe` | `OsifContractSpec => []OsifInv` |
| `OsifSettled` | `OsifContractSpec => SettledIsIsolated` |
| `OsifRefinesDsc` | `OsifContractSpec => ImplementsDsc` |

The further assumptions are `OsifAssumption` (the tables are disjoint) and
`TablesFit` (at the start every context that stays has room in its table).

The argument. That a lookup finds a live context depends on who may change a slot
that is not registered. `OsifIInv` says who: a slot in use without a key is kept by
exactly one client, in a call that has got it or is about to free it
(`PrivateInv`), or through a context it owns and holds or has unregistered
(`DownInv`, `HoldInv`, `SlotKept`); a context is in one slot at most (`SlotInv`);
and how far a call has come says where its client is in DSC (`StageInv`).
`SettleInv` follows the three waits of a vdev transition start. The two invariants
need each other: `IInv` holds because the registry keeps DSC's contract
(`SyncCallIsDsc`), and it does so because `OsifIInv` makes the contexts it finds usable.
The steps are sorted by what they do (`SyncCases`); `OsifLocal` carries the
invariant over a step that changes one slot in a way the other clients do not
rely on (`SlotSafe`).

### Commands during an SSR

`OsifCommandsProofs` proves, for the same callers, any `Monitors` and any `WalkSlots`:

| Theorem | Statement |
|---|---|
| `CommandsInvariance` | `CommandsContractSpec => [](IInv /\ OsifIInv /\ QueueHeld /\ CommandsIInv)` |
| `CommandsSafe` | `CommandsContractSpec => []CommandsInv` |
| `CommandsLastWord` | `CommandsContractSpec => []DownIsLastWord` |
| `CommandsRefinesDsc` | `CommandsContractSpec => ImplementsDsc` |

A refused stop writes through a slot pointer after the lock is gone. What keeps the
slot is the `net_device`: while it is registered with the kernel its vdev has a slot
(`NetdevInv`), since the removal path unregisters it before it destroys the context or
ends the transition, and for that it needs rtnl, which the stop has (`NdoInv`).
`Careful` and `RegistryKeepsNetdev` carry that over every step of the registry.

`DscInv.IInv` is checked by `tree`; `OsifIInv` and `CommandsIInv` were checked by TLC on
the instances of `registry` and `osif_commands` before they were proved.

### Sync objects

`KgslSyncObjProofs` proves, for any number of timestamps, fences and timelines:

| Theorem | Statement |
|---|---|
| `SyncObjInvariance` | `Spec => [](SyncObjIInv /\ CanaryInv)` |
| `SyncObjSafe` | `Spec => []SyncObjInv` |

The assumption is `SyncObjAssumption`: a point is of one kind, and there are
finitely many.

The argument. The reference count of the object is the sum of what its first
holder, its points and the timer's handler have yet to put (`Refs`). The first
reference has one holder at a time (`OneHolder`): the submitter hands it to the
queue, the queue to the dispatcher or to the detach. For a point, everything hangs
on who cleared its bit (`PointInv`): until then the point holds its references,
and afterwards exactly one of callback and destroy is about to put them (`Claimed`,
`Cancelling`), except that a timestamp's reference of the object is always put by
its callback, which runs even after a cancel (`Owes`). The canary timer has a
reference only while its handler dumps, and it is deleted before the points are
(`TimerInv`, `CanaryInv`). The proof counts the points that owe a reference: every
step adds or removes one at most. `SyncObjIInv` was checked by TLC with one
timestamp, one fence and two timelines before it was proved.

### Timelines

`KgslTimelineProofs` and `KgslTimelineObjProofs` prove, for any number of timelines
and any finite number of fences, threads and timeline objects:

| Theorem | Statement |
|---|---|
| `FenceInvariance` | `Spec => []FenceIInv` |
| `FencesCounted` | `Spec => []FenceRefs` |
| `SignalNotMissed` | `Spec => []NoMissedSignal` |
| `ObjInvariance` | `Spec => []ObjIInv` |
| `EventsStayInOrder` | `Spec => []EventsInOrder` |
| `QueriesAreMonotonic` | `Spec => QueryMonotonic` |
| `TimelineInvariance` | `Spec => []TimelineIInv` |
| `TimelinesCounted` | `Spec => []TimelineInv` |

The assumption is `TimelineAssumption`: what the constants are, that `Null` is
none of the objects, and that threads, fences and objects are finitely many (the
reference count of a timeline adds them up; the theorems about fences and events do
not need it).

The fences. `FenceRefs` counts holders by cardinalities; the invariant says
instead that a fence has at most one holder of each kind (`OneHolder`): the call
that made it, one private list of a signal or a destroy, one open file. The file
is made by the call that made the fence, once (`FiledOnce`). Then the count is a
sum of three bits (`RefInv`), each step changes one of them, and a thread that puts
the last reference is the only one that knows the fence until it has released it.
What lets a private list be unique is that a fence on the active list is on no
private list (`ListInv`), and that a fence is taken from the active list only while
it has a reference left (the `kref_get_unless_zero` of `kgsl_timeline_signal` and
of the destroy ioctl). For `NoMissedSignal`, `SignalInv` covers the states in
which `timeline->lock` is held as well: a held fence that has not signaled is on the
active list and beyond the value, or there with a signal that has advanced the
value and has yet to collect it, or on a private list. `LockInv` ties the lock to
the thread in the midst of its work, so with the lock free only a destroy between
its two halves can have the fence. `IdInv` gives each live fence its timeline.

The events. A timeline object has two sides, the scheduler's and that of the event
that waits for the commands before it, and `sig_refcount` is the number of sides
still to come (`SideInv`); each is with one thread at most, and so is the retirement
that follows when both are over (`OneSide`). So the array of an object is emptied only
by the thread that fills it, before it is published, or freed once its retirement is
over. `EventInv` says that an event on a list belongs to an entry of such an array, and
that if the object is being retired the entry is still to be signaled: the retiring
thread goes through the whole array (`ArrayInv`, `WorkOK`), and the signal of an
entry takes its event off the list. That is why no event outlives its array. The order
of the list follows from what the insertion in `kgsl_timeline_add_signal` does to a
sorted sequence, and what a signal does to it: it removes the events up to the new
value. For `QueryMonotonic` a step either keeps each event that a query could
return or raises the value to it at least (`Forward`), and a retired timestamp stays
retired.

The references. `UsersInv` counts the calls, the fences and the entries of objects
that use a timeline, each as a set; a step of any thread adds one user, removes one, or
exchanges one for another, and touches `ref` accordingly. The sum over arrays is the
cardinality of the set of pairs of an object and an index, so that no induction over
arrays is needed. `IdsInv` has one thread that creates a timeline, and nobody uses it
before. That a freed timeline has empty lists follows: a fence or an event on a list
would be a user.

`FenceIInv`, `ObjIInv`, `IdsInv` and `UsersInv` were checked by TLC on the instance of
`timeline` before they were proved.

### The dispatcher

`KgslDispatchProofs` proves, for any number of contexts and threads, any
submissions, any size of the queue and any bound of the run:

| Theorem | Statement |
|---|---|
| `DispatcherInv` | `Spec => []IInv` (the invariant of `KgslDispatchInv`) |
| `TimestampsInOrder` | `Spec => []DispatchInv` |
| `JobsAreKept` | `Spec => JobIsKept` |

The assumption is `DispatchAssumption`: what the constants are, that a bind
operation follows its implicit sync object, that a submission fits in an empty
queue with room to spare, and that `"none"` and `"worker"` are not threads.

The argument. `DispatchInv` says that what is pending is later than what has
retired, but not why the driver may retire a marker or a bind operation by itself.
`RetiredInOrder` says why: the `dep` of a marker covers everything that can be
pending before it, in the ringbuffer, in the dispatcher's hand and in the queue
(`Covers`), so once `dep` has retired nothing is; the sync object before a bind
operation covers the same for it, and has expired only if its `dep` has retired. A
bind operation at the head of the queue, whose sync object is gone, has nothing
before it. `QueueInOrder` has the order of the queue, together with what has been
sent and is either in the ringbuffer or not yet dropped by the driver; the second
matters because a fault sends it again. `FlightInv` aligns the two: `inflight` and
`ring` agree from their ends, and what `inflight` has and `ring` has no more is
retired. So the replay after a fault sends only what the ringbuffer still had, and
in its order. `CountInv` relates the counter to the queue. `OwnerInv` says that one routine dispatches
at a time, so that one object at most is in a hand. `JobIsKept` then follows step by step
from the types, from `OwnerInv` and from `CountInv`.

`QueueBatch` and `Replayed` are recursive functions. What they return is proved
without an induction theorem: the set of lengths for which the claim fails has a
least element if it is not empty, and the step from the one before contradicts it.
`IInv` was checked by TLC on the instance of `dispatch` before it was proved.

### Events

`KgslEventsProofs` proves, for any finite number of events, callers and dispatcher
threads, any `Window`, any timestamps and any bound of the run:

| Theorem | Statement |
|---|---|
| `EventsInvariance` | `Spec => []EventsIInv` (the invariant of `KgslEventsInv`) |
| `EventsAreAccountedFor` | `Spec => []EventsInv` |
| `EventsFireOnTime` | `Spec => []EventsOnTime` |

The assumption is `EventsAssumption`: what the constants are, that callers and
dispatcher threads are different ones, and that events and threads are finitely
many (the reference count adds them up). Time that runs away from a comparison is
excluded where the model says so, in the guards of `Submit` and `ContextGet`.

The argument. The code compares timestamps that have wrapped. `CmpIsTime` shows
that `timestamp_cmp` decides as time would whenever the two are less than half the
range apart, and `StampIsTime` that equal timestamps less than the whole range
apart are the same; both rest on how a remainder carries (`Carry`). So the
invariant has to keep every timestamp that is ever compared close enough:
`ClockInv` keeps what has been processed within half the range of what is queued,
`CallTime` the timestamp of a call, `EventRight` that of an event on the list. The
guards of `Submit` keep the first two; an event on the list needs no guard, for it
is later than what has been processed. From there an event is signaled as retired
only when it is, and what stays on the list is later than what has been processed,
also if it was added meanwhile (`InsertEvent` reads the retired timestamp under the
same lock). `SleepInv` counts: for each timestamp still to come there are as many
wait events on the list as waiters, so that a wait that times out and cancels the
first match takes its own share. `DetachInv` has one thread that detaches, the
group on the device's list until that thread deletes it, and walks that keep it
from doing so. `DrainInv` says that once the GPU is done everything queued has
retired, so no event joins the list after the cancellation. `RefsInv` counts the
references; that a walk is on a live context is `DetachInv` and `RefsInv` together.
What a walk over the list finds (`Found`, a recursive function) is proved by the
least length for which the claim fails, as for the dispatcher.

`EventsIInv` was checked by TLC on the instance of `events`, and on one with
`UserTS` TRUE and a second timestamp, before it was proved.

### Only model-checked

Everything about `DscRecovery` and `IpaPm`: `PmInv` and `EffectsFit` have no inductive
strengthening yet. `ExpiredLeavesQueue`, `DestroyEnds`,
`CommandsRetire`, `SleeperWakes`, `DetachedIsFreed` and every other liveness
property (fairness is beyond the prover).

## Plan

1. Done: `Dsc`, `DscLock`, `DscRefine`, `OsifSync` and `OsifCommands`, their runs and
   the proofs of all their safety properties; `KgslSyncObj` and the proof of its
   safety property; `KgslDispatch` and the proofs of its safety properties;
   `KgslEvents` and the proofs of its safety properties; `KgslTimeline` and the
   proofs of its safety properties; `DscRecovery`; `IpaPm`.
2. Proofs: the inductive strengthening of `PmInv`.
3. Left to model: Synx (the global table and signalling between cores with a core
   that restarts), cam_sync, the KGSL hardware scheduler, and the votes and
   callbacks around the power manager.

## Not modelled

Within DSC: debug timers, logging, the names of operations, and the assertions
that change nothing. Within osif_sync: the assertion helpers and the creation of
the locks. A list pointer torn by an unlocked walk is not modelled; a walk step
sees some current state of the list. Within KGSL: memory and IOMMU, power, the
hardware scheduler and GMU, sync sources, snapshots, preemption, and the policies
of fault recovery beyond replay and drop. Within IPA: pipes, wake-up callbacks,
the tag process and the retry when the hardware is busy, the data path.
Everything else the inventory lists without a module, for the reasons in
`PROJECT.json`: most of the tree is register and firmware-interface headers,
message formats and device I/O, which have no protocol to check, and the modules
cover a very small share of its lines.
