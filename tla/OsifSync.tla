------------------------------ MODULE OsifSync ------------------------------
(***************************************************************************)
(* The OS-interface synchronization registry (osif_sync) on top of DSC.    *)
(*                                                                         *)
(* Each level keeps a fixed table of slots, a struct osif_*_sync each: in  *)
(* use or not, the key it is registered under (a device, a net_device, or  *)
(* the is_registered flag of the only driver) and the DSC context.  A      *)
(* callback names a key; osif_sync looks the slot up and starts a DSC      *)
(* transition or operation on the context it finds.  From then on the      *)
(* caller keeps a pointer to the slot and reads the context through it.    *)
(*                                                                         *)
(* Each table has a spinlock.  A start looks up and starts under it, as    *)
(* one action.  A start_wait may sleep, so it drops the lock between the   *)
(* two.  get, the parent's lookup, the destroy and put are separate locked *)
(* regions too.  The key of a context is the context's name in Dsc.        *)
(***************************************************************************)
EXTENDS Dsc, FiniteSetsExt

CONSTANTS
  DriverSlots, PsocSlots, VdevSlots,   \* the three tables, sets of indices
  NoNode,                              \* a NULL key or context
  WaitNodes                            \* contexts start_wait is used on (a bound)

Slot == DriverSlots \cup PsocSlots \cup VdevSlots

ASSUME OsifAssumption ==
  /\ Slot \subseteq Nat \ {0}
  /\ DriverSlots \cap (PsocSlots \cup VdevSlots) = {}
  /\ PsocSlots \cap VdevSlots = {}
  /\ NoNode \notin Node
  /\ WaitNodes \subseteq Node

VARIABLES
  slot,    \* the tables
  hold,    \* the slot pointer of the client's transition or operation, or 0
  down,    \* slots the client has unregistered and will destroy
  call     \* the osif call the client is in: what it does next, slot, key

osifVars == <<slot, hold, down, call>>
allVars == <<vars, osifVars>>

Table(n) == IF n = Driver THEN DriverSlots
            ELSE IF n \in Psocs THEN PsocSlots ELSE VdevSlots

Empty == [use |-> FALSE, key |-> NoNode, ctx |-> NoNode]
NoCall == [op |-> "none", slot |-> 0, node |-> NoNode]

\* The tables are large enough for the contexts that exist at the start.
ASSUME TablesFit ==
  LET N == {Driver} \cup (Node \ Churn)
  IN \E g \in [N -> Slot] :
       \A n, m \in N : g[n] \in Table(n) /\ (g[n] = g[m] => n = m)

\* The contexts that exist at the start are registered, each in a slot.
OsifInit ==
  /\ Init
  /\ LET N == {Driver} \cup (Node \ Churn)
         f == CHOOSE g \in [N -> Slot] :
                \A n, m \in N : g[n] \in Table(n) /\ (g[n] = g[m] => n = m)
     IN slot = [s \in Slot |->
                  IF \E n \in N : f[n] = s
                  THEN LET n == CHOOSE n \in N : f[n] = s
                       IN [use |-> TRUE, key |-> n, ctx |-> n]
                  ELSE Empty]
  /\ hold = [c \in Client |-> 0]
  /\ down = [c \in Client |-> {}]
  /\ call = [c \in Client |-> NoCall]

-----------------------------------------------------------------------------
(* Bookkeeping.                                                            *)

\* The client is at the start of an osif call.
Free(c) == call[c].op = "none"

Return(c) == call' = [call EXCEPT ![c] = NoCall]
Continue(c, op, s, n) ==
  call' = [call EXCEPT ![c] = [op |-> op, slot |-> s, node |-> n]]

Take(c, s) == hold' = [hold EXCEPT ![c] = s]

\* The slots a lookup may return: in use and registered under the key.  The
\* scan returns the first.
Matches(n) == {s \in Table(n) : slot[s].use /\ slot[s].key = n}

Found(n, s) == Matches(n) # {} /\ s = Min(Matches(n))

DriverSyncLookup(s) == Found(Driver, s)
PsocSyncLookup(p, s) == Found(p, s)
VdevSyncLookup(v, s) == Found(v, s)

\* osif_*_sync_get, the first locked region of a create: the first free slot
\* is taken.  The caller creates a context for a new device, or, inside a
\* transition above it, opens an interface.  A full table changes nothing.
SyncGet(c, n) ==
  LET F == {s \in Table(n) : ~slot[s].use}
  IN /\ Free(c)
     /\ pc[c] = "idle" \/ (pc[c] = "trans" /\ at[c] \in Up(n) /\ down[c] = {})
     /\ n \in Churn \ attached
     /\ \A d \in Client : call[d].op \in {"got", "made"} => call[d].node # n
     /\ F # {}
     /\ slot' = [slot EXCEPT ![Min(F)].use = TRUE]
     /\ Continue(c, "got", Min(F), n)
     /\ UNCHANGED <<vars, hold, down>>

\* The context is created and stored in the slot, or the parent was not
\* found and the slot is given back.
SyncCreated(c, n) ==
  /\ slot' = [slot EXCEPT ![call[c].slot].ctx = n]
  /\ Continue(c, "made", call[c].slot, n)
  /\ UNCHANGED <<hold, down>>

SyncOrphaned(c, n) ==
  /\ Continue(c, "put", call[c].slot, n)
  /\ UNCHANGED <<vars, slot, hold, down>>

Got(c, n) == call[c].op = "got" /\ call[c].node = n

\* Slip: a refused create returns without sync_put.
SyncPutForgotten(c) ==
  /\ call[c].op = "put"
  /\ slot' = IF slot[call[c].slot].key = NoNode /\ hold[c] # call[c].slot
                /\ call[c].slot \notin down[c]
             THEN slot ELSE [slot EXCEPT ![call[c].slot] = Empty]
  /\ hold' = [hold EXCEPT ![c] = IF @ = call[c].slot THEN 0 ELSE @]
  /\ down' = [down EXCEPT ![c] = @ \ {call[c].slot}]
  /\ Return(c)
  /\ UNCHANGED vars

\* osif_*_sync_put, the last locked region of a destroy or a failed create.
SyncPut(c) ==
  /\ call[c].op = "put"
  /\ slot' = [slot EXCEPT ![call[c].slot] = Empty]
  /\ hold' = [hold EXCEPT ![c] = IF @ = call[c].slot THEN 0 ELSE @]
  /\ down' = [down EXCEPT ![c] = @ \ {call[c].slot}]
  /\ Return(c)
  /\ UNCHANGED vars

\* The pointer is set to NULL before the DSC destroy works on the context.
SyncDestroying(c, s, n) ==
  /\ slot' = [slot EXCEPT ![s].ctx = NoNode]
  /\ Continue(c, "destroy", s, n)
  /\ UNCHANGED <<hold, down>>

\* The two halves of the DSC destroy.
SyncAbort(c) == FlushAbort(c) /\ UNCHANGED osifVars

SyncDetach(c) ==
  /\ ContextDetach(c)
  /\ Continue(c, "put", call[c].slot, call[c].node)
  /\ UNCHANGED <<slot, hold, down>>

\* The slot of a context the client created or unregistered.
Owned(c, s, n) ==
  /\ Free(c) /\ owner[n] = c
  /\ s \in down[c] \cup ({hold[c]} \ {0}) /\ slot[s].ctx = n

-----------------------------------------------------------------------------
(* Creation.  create_and_trans is a create by an idle client followed by   *)
(* the first transition; a refused transition destroys the context again.  *)

DriverSyncGet(c) == SyncGet(c, Driver)
PsocSyncGet(c, p) == SyncGet(c, p)
VdevSyncGet(c, v) == SyncGet(c, v)

DriverSyncCreate(c) ==
  Got(c, Driver) /\ DriverCreate(c) /\ SyncCreated(c, Driver)

PsocSyncCreate(c, p) ==
  /\ Got(c, p)
  /\ \/ (\E s \in Slot : DriverSyncLookup(s)) /\ PsocCreate(c, p) /\ SyncCreated(c, p)
     \/ (\A s \in Slot : ~DriverSyncLookup(s)) /\ SyncOrphaned(c, p)

VdevSyncCreate(c, v) ==
  /\ Got(c, v)
  /\ \/ (\E s \in Slot : PsocSyncLookup(PsocOf[v], s))
        /\ VdevCreate(c, v) /\ SyncCreated(c, v)
     \/ (\A s \in Slot : ~PsocSyncLookup(PsocOf[v], s)) /\ SyncOrphaned(c, v)

Made(c, n) ==
  call[c].op = "made" /\ pc[c] = "owner" /\ at[c] = n /\ slot[call[c].slot].ctx = n

\* The first transition has started; its holder keeps the slot.
SyncOpened(c) ==
  Take(c, call[c].slot) /\ Return(c) /\ UNCHANGED <<slot, down>>

DriverSyncCreateAndTrans(c) ==
  Made(c, Driver) /\ DriverTransStart(c) /\ SyncOpened(c)

PsocSyncCreateAndTrans(c, p) ==
  /\ Made(c, p)
  /\ \/ PsocTransStart(c, p) /\ SyncOpened(c)
     \/ PsocCanTrans(p) # "SUCCESS" /\ PsocDestroy(c, p)
        /\ SyncDestroying(c, call[c].slot, p)

VdevSyncCreateAndTrans(c, v) ==
  /\ Made(c, v)
  /\ \/ VdevTransStart(c, v) /\ SyncOpened(c)
     \/ VdevCanTrans(v) # "SUCCESS" /\ VdevDestroy(c, v)
        /\ SyncDestroying(c, call[c].slot, v)

\* The holder destroys a context it owns; its children are gone.
DriverSyncDestroy(c) ==
  \E s \in Slot : Owned(c, s, Driver) /\ DriverDestroy(c) /\ SyncDestroying(c, s, Driver)

PsocSyncDestroy(c, p) ==
  \E s \in Slot : Owned(c, s, p) /\ PsocDestroy(c, p) /\ SyncDestroying(c, s, p)

VdevSyncDestroy(c, v) ==
  \E s \in Slot : Owned(c, s, v) /\ VdevDestroy(c, v) /\ SyncDestroying(c, s, v)

-----------------------------------------------------------------------------
(* Registration.                                                           *)

\* The creator publishes its context: from its own transition, or from the
\* transition above in which it opened the interface.
SyncRegister(c, n) ==
  \/ /\ Free(c) /\ down[c] = {} /\ Register(c, n)
     /\ slot' = [slot EXCEPT ![hold[c]].key = n]
     /\ UNCHANGED <<hold, down, call>>
  \/ /\ call[c].op = "made" /\ pc[c] = "trans" /\ call[c].node = n
     /\ slot' = [slot EXCEPT ![call[c].slot].key = n]
     /\ Return(c)
     /\ UNCHANGED <<vars, hold, down>>

DriverSyncRegister(c) == SyncRegister(c, Driver)
PsocSyncRegister(c, p) == SyncRegister(c, p)
VdevSyncRegister(c, v) == SyncRegister(c, v)

SyncUnregister(c, n) ==
  /\ Free(c)
  /\ \E s \in Slot : Found(n, s) /\ Unregister(c, slot[s].ctx)
       /\ slot' = [slot EXCEPT ![s].key = NoNode]
       /\ down' = [down EXCEPT ![c] = @ \cup {s}]
       /\ UNCHANGED <<hold, call>>

DriverSyncUnregister(c) == SyncUnregister(c, Driver)
PsocSyncUnregister(c, p) == SyncUnregister(c, p)
VdevSyncUnregister(c, v) == SyncUnregister(c, v)

-----------------------------------------------------------------------------
(* Starts.  Lookup and start are one locked region; a refused start, or    *)
(* none found, changes nothing.                                            *)

DriverSyncStart(c, s) ==
  Free(c) /\ pc[c] = "idle" /\ DriverSyncLookup(s) /\ slot[s].ctx = Driver
  /\ Take(c, s)
PsocSyncStart(c, p, s) ==
  Free(c) /\ pc[c] = "idle" /\ PsocSyncLookup(p, s) /\ slot[s].ctx = p /\ Take(c, s)
VdevSyncStart(c, v, s) ==
  Free(c) /\ pc[c] = "idle" /\ VdevSyncLookup(v, s) /\ slot[s].ctx = v /\ Take(c, s)

DriverSyncTransStart(c) ==
  \E s \in Slot : DriverSyncStart(c, s) /\ DriverTransStart(c)
                  /\ UNCHANGED <<slot, down, call>>

PsocSyncTransStart(c, p) ==
  \E s \in Slot : PsocSyncStart(c, p, s) /\ PsocTransStart(c, p)
                  /\ UNCHANGED <<slot, down, call>>

\* A vdev transition goes on to wait for the vdev's operations and for those
\* above it before the call returns.
VdevSyncTransStart(c, v) ==
  \E s \in Slot : VdevSyncStart(c, v, s) /\ VdevTransStart(c, v)
                  /\ Continue(c, "settle", s, v) /\ UNCHANGED <<slot, down>>

DriverSyncOpStart(c) ==
  \E s \in Slot : DriverSyncStart(c, s) /\ DriverOpStart(c)
                  /\ UNCHANGED <<slot, down, call>>

PsocSyncOpStart(c, p) ==
  \E s \in Slot : PsocSyncStart(c, p, s) /\ PsocOpStart(c, p)
                  /\ UNCHANGED <<slot, down, call>>

VdevSyncOpStart(c, v) ==
  \E s \in Slot : VdevSyncStart(c, v, s) /\ VdevOpStart(c, v)
                  /\ UNCHANGED <<slot, down, call>>

-----------------------------------------------------------------------------
(* start_wait: the lookup is locked, the start reads the slot's context    *)
(* after the lock is gone, whatever it is by then.                         *)

SyncWaitLookup(c, n) ==
  /\ Free(c) /\ pc[c] = "idle" /\ n \in WaitNodes
  /\ \E s \in Slot : Found(n, s) /\ Continue(c, "found", s, n)
  /\ UNCHANGED <<vars, slot, hold, down>>

SyncWaits(c, n) == call[c].op = "found" /\ call[c].node = n

\* A NULL context, or one that refuses, fails the call.
SyncRefused(c) == Return(c) /\ UNCHANGED <<vars, slot, hold, down>>

DriverSyncTransStartWait(c) ==
  LET s == call[c].slot
  IN /\ SyncWaits(c, Driver)
     /\ \/ slot[s].ctx = NoNode /\ SyncRefused(c)
        \/ /\ slot[s].ctx = Driver
           /\ IF DriverCanTrans THEN StartNow(c, Driver) ELSE StartLater(c, Driver)
           /\ Take(c, s) /\ Return(c) /\ UNCHANGED <<slot, down>>

PsocSyncTransStartWait(c, p) ==
  LET s == call[c].slot   q == slot[s].ctx
  IN /\ SyncWaits(c, p)
     /\ \/ q = NoNode /\ SyncRefused(c)
        \/ /\ q # NoNode /\ PsocCanTrans(q) \in {"SUCCESS", "E_AGAIN"}
           /\ IF PsocCanTrans(q) = "SUCCESS" THEN StartNow(c, q) ELSE StartLater(c, q)
           /\ Take(c, s) /\ Return(c) /\ UNCHANGED <<slot, down>>
        \/ q # NoNode /\ PsocCanTrans(q) = "E_INVAL" /\ SyncRefused(c)

\* Slip: the transition starts at once behind one that is busy.
VdevSyncTransStartWaitNever(c, v) ==
  LET s == call[c].slot   w == slot[s].ctx
  IN /\ SyncWaits(c, v)
     /\ \/ (w = NoNode \/ VdevCanTrans(w) = "E_INVAL") /\ SyncRefused(c)
        \/ /\ w # NoNode /\ VdevCanTrans(w) \in {"SUCCESS", "E_BUSY"}
           /\ StartNow(c, w)
           /\ Take(c, s) /\ Continue(c, "settle", s, v) /\ UNCHANGED <<slot, down>>

VdevSyncTransStartWait(c, v) ==
  LET s == call[c].slot   w == slot[s].ctx
  IN /\ SyncWaits(c, v)
     /\ \/ w = NoNode /\ SyncRefused(c)
        \/ /\ w # NoNode /\ VdevCanTrans(w) \in {"SUCCESS", "E_BUSY"}
           /\ IF VdevCanTrans(w) = "SUCCESS" THEN StartNow(c, w) ELSE StartLater(c, w)
           /\ Take(c, s) /\ Continue(c, "settle", s, v) /\ UNCHANGED <<slot, down>>
        \/ w # NoNode /\ VdevCanTrans(w) = "E_INVAL" /\ SyncRefused(c)

\* The waiter returns; an aborted one has nothing to hold or settle.
SyncTranWait(c) ==
  /\ TranWait(c)
  /\ IF tran[c] = "aborted" THEN Take(c, 0) /\ Return(c) ELSE UNCHANGED <<hold, call>>
  /\ UNCHANGED <<slot, down>>

-----------------------------------------------------------------------------
(* Stops and flushes, through the slot the client holds.                   *)

Holds(c, n) == hold[c] # 0 /\ slot[hold[c]].ctx = n

\* The holder gives up its slot pointer, unless a destroy is still to come; it
\* has torn down the children by then.
Release(c, n) ==
  /\ Free(c)
  /\ owner[n] = c => Below(n) \cap attached = {}
  /\ IF owner[n] = c THEN UNCHANGED hold ELSE Take(c, 0)
  /\ UNCHANGED <<slot, down, call>>

DriverSyncTransStop(c) ==
  Holds(c, Driver) /\ DriverTransStop(c) /\ Release(c, Driver)

PsocSyncTransStop(c, p) == Holds(c, p) /\ PsocTransStop(c, p) /\ Release(c, p)

VdevSyncTransStop(c, v) == Holds(c, v) /\ VdevTransStop(c, v) /\ Release(c, v)

SyncOpStop(c) ==
  Holds(c, at[c]) /\ OpStop(c) /\ Take(c, 0) /\ UNCHANGED <<slot, down, call>>

DriverSyncOpStop(c) == at[c] = Driver /\ SyncOpStop(c)
PsocSyncOpStop(c, p) == at[c] = p /\ SyncOpStop(c)
VdevSyncOpStop(c, v) == at[c] = v /\ SyncOpStop(c)

\* A flush is asked for through a slot; once it walks the tree it follows
\* the DSC lists.
Flushable(c, n) ==
  pc[c] = "trans" =>
    Free(c) /\ (Holds(c, n) \/ \E s \in down[c] : slot[s].ctx = n)

DriverSyncWaitForOps(c) ==
  Flushable(c, Driver) /\ DriverWaitForOps(c) /\ UNCHANGED osifVars

PsocSyncWaitForOps(c, p) ==
  Flushable(c, p) /\ PsocWaitForOps(c, p) /\ UNCHANGED osifVars

VdevSyncWaitForOps(c, v) ==
  /\ Flushable(c, v) \/ (call[c].op = "settle" /\ Holds(c, v))
  /\ VdevWaitForOps(c, v) /\ UNCHANGED osifVars

\* Slip: the vdev's own operations are forgotten.
VdevSyncWaitForUptreeOpsOnly(c, v) ==
  /\ call[c].op = "settle" /\ Holds(c, v)
  /\ VdevWaitForUptreeOps(c, v) /\ UNCHANGED osifVars

\* The second wait of a vdev transition start.
VdevSyncWaitForUptreeOps(c, v) ==
  /\ call[c].op = "settle" /\ Holds(c, v) /\ v \in quiet[c]
  /\ VdevWaitForUptreeOps(c, v) /\ UNCHANGED osifVars

\* The end of a flush; a vdev transition start returns after its second.
SyncWaitForOpsReturn(c) ==
  /\ WaitForOpsReturn(c)
  /\ IF call[c].op = "settle" /\ Driver \in quiet[c] THEN Return(c) ELSE UNCHANGED call
  /\ UNCHANGED <<slot, hold, down>>

SyncOpsEventWait(c) == OpsEventWait(c) /\ UNCHANGED osifVars

-----------------------------------------------------------------------------
DriverSyncCall(c) ==
  \/ DriverSyncGet(c) \/ DriverSyncCreate(c) \/ DriverSyncCreateAndTrans(c)
  \/ DriverSyncDestroy(c) \/ DriverSyncRegister(c)
  \/ DriverSyncTransStart(c) \/ DriverSyncTransStartWait(c) \/ DriverSyncTransStop(c)
  \/ DriverSyncOpStart(c) \/ DriverSyncOpStop(c) \/ DriverSyncWaitForOps(c)

PsocSyncCall(c, p) ==
  \/ PsocSyncGet(c, p) \/ PsocSyncCreate(c, p) \/ PsocSyncCreateAndTrans(c, p)
  \/ PsocSyncDestroy(c, p) \/ PsocSyncRegister(c, p)
  \/ PsocSyncTransStart(c, p) \/ PsocSyncTransStartWait(c, p) \/ PsocSyncTransStop(c, p)
  \/ PsocSyncOpStart(c, p) \/ PsocSyncOpStop(c, p) \/ PsocSyncWaitForOps(c, p)

VdevSyncCall(c, v) ==
  \/ VdevSyncGet(c, v) \/ VdevSyncCreate(c, v) \/ VdevSyncCreateAndTrans(c, v)
  \/ VdevSyncDestroy(c, v) \/ VdevSyncRegister(c, v)
  \/ VdevSyncTransStart(c, v) \/ VdevSyncTransStartWait(c, v) \/ VdevSyncTransStop(c, v)
  \/ VdevSyncOpStart(c, v) \/ VdevSyncOpStop(c, v) \/ VdevSyncWaitForOps(c, v)
  \/ VdevSyncWaitForUptreeOps(c, v)

SyncCall(c) ==
  \/ DriverSyncCall(c)
  \/ \E p \in Psocs : PsocSyncCall(c, p)
  \/ \E v \in Vdevs : VdevSyncCall(c, v)
  \/ \E n \in Node : SyncWaitLookup(c, n)
  \/ SyncPut(c) \/ SyncAbort(c) \/ SyncDetach(c) \/ SyncTranWait(c)
  \/ SyncWaitForOpsReturn(c) \/ SyncOpsEventWait(c)

SyncStep(c) ==
  \/ SyncCall(c) \/ DriverSyncUnregister(c)
  \/ \E p \in Psocs : PsocSyncUnregister(c, p)
  \/ \E v \in Vdevs : VdevSyncUnregister(c, v)

OsifNext ==
  \/ DriverStateChange /\ UNCHANGED osifVars
  \/ \E c \in Client : SyncStep(c)

\* What the code does.
OsifSpec == OsifInit /\ [][OsifNext]_allVars

\* What its callers would have to see to when they unregister a context: no
\* start_wait is between its lookup and its start there, and nobody waits on
\* it if its own transition is the caller's.  A waiter on a context torn down
\* from above is aborted, and no part of the contract.
SyncUnwaited(c, n) == Unwaited(c, n) /\ \A d \in Client : ~SyncWaits(d, n)

SyncContractStep(c) ==
  \/ SyncCall(c)
  \/ DriverSyncUnregister(c) /\ SyncUnwaited(c, Driver)
  \/ \E p \in Psocs : PsocSyncUnregister(c, p) /\ SyncUnwaited(c, p)
  \/ \E v \in Vdevs : VdevSyncUnregister(c, v) /\ SyncUnwaited(c, v)

OsifContractNext ==
  \/ DriverStateChange /\ UNCHANGED osifVars
  \/ \E c \in Client : SyncContractStep(c)

OsifContractSpec == OsifInit /\ [][OsifContractNext]_allVars

-----------------------------------------------------------------------------
(* Properties.                                                             *)

CallOp == {"none", "got", "made", "put", "destroy", "found", "settle"}

\* The values the tables and the calls in progress take; a client outside
\* every call and every transition has kept no slot pointer.
OsifTypeOK ==
  /\ slot \in [Slot -> [use : BOOLEAN, key : Node \cup {NoNode},
                        ctx : Node \cup {NoNode}]]
  /\ hold \in [Client -> Slot \cup {0}]
  /\ down \in [Client -> SUBSET Slot]
  /\ call \in [Client -> [op : CallOp, slot : Slot \cup {0},
                          node : Node \cup {NoNode}]]
  /\ \A c \in Client : pc[c] = "idle" /\ Free(c) => hold[c] = 0 /\ down[c] = {}

\* A lookup that succeeds finds the context of the device it was asked for,
\* alive and owned by nobody: what every DSC start takes for granted, for a
\* slot that was freed and taken again too.
RegisteredIsUsable ==
  \A n \in Node : \A s \in Slot : Found(n, s) => slot[s].ctx = n /\ Usable(n)

\* A slot in use is registered, or some client is about to free or register
\* it: no path of create, refused transition and destroy loses a slot.
NoSlotLeaked ==
  \A s \in Slot : slot[s].use =>
    \/ slot[s].key # NoNode
    \/ \E c \in Client : hold[c] = s \/ s \in down[c] \/ call[c].slot = s

\* While a client is inside a transition or an operation the slot it holds
\* still has its context: nobody unregisters, destroys and reuses the slot
\* under it, so trans_stop and op_stop read the context they started on.
HeldSlotStays ==
  \A c \in Client :
    pc[c] = "op" \/ (\E n \in Node : RunsTrans(c, n)) => Holds(c, at[c])

\* The tables and what the clients keep of them agree: the four parts above,
\* of which the starts and stops of osif_*_sync_* rely on the first three and
\* the fixed size of the tables on the last.
OsifInv == OsifTypeOK /\ RegisteredIsUsable /\ HeldSlotStays /\ NoSlotLeaked

\* When the start of a vdev transition returns, no operation runs on the
\* vdev, on its psoc or on the driver.
SettledIsIsolated ==
  [][\A c \in Client :
       call[c].op = "settle" /\ call'[c].op = "none" /\ pc'[c] = "trans"
         => \A n \in {at[c]} \cup Up(at[c]) : ops'[n] = 0]_allVars

\* Seen without its tables the registry, within its contract, is a set of
\* clients that keep to the contract of DSC.
ImplementsDsc == ContractSpec
=============================================================================
