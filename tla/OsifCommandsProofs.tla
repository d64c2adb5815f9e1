------------------------- MODULE OsifCommandsProofs -------------------------
(***************************************************************************)
(* Proofs about OsifCommands, for any tree, any number of clients and      *)
(* tables of any size.                                                     *)
(***************************************************************************)
EXTENDS OsifCommandsInv, OsifSyncProofs

-----------------------------------------------------------------------------
(* The steps of client c: those that touch the registry, and the others.   *)

Registers(c) == \E v \in Vdevs : Registration(c, v)
TearsDown(c) == \E v \in Vdevs : Teardown(c, v)

Unregisters(c) == \E v \in Vdevs : Unregistration(c, v)

RegistryCall(c) ==
  \/ Registers(c) \/ TearsDown(c) \/ ReinitEnd(c)
  \/ NdoTransStart(c) \/ NdoTransStop(c) \/ Other(c) \/ Flush(c)

RegistryStep(c) == RegistryCall(c) \/ Unregisters(c)

CommandStep(c) ==
  \/ \E v \in Vdevs : \/ NdoBegin(c, "open", v) \/ NdoBegin(c, "stop", v)
                      \/ UnregisterNetdev(c, v)
  \/ NdoRefused(c) \/ CacheCommand(c) \/ HddOpen(c) \/ HddStop(c) \/ NdoEnd(c)
  \/ ReinitBegin(c) \/ HandleCachedCommand(c)

LEMMA CallKinds ==
  ASSUME NEW c
  PROVE  CommandsCall(c) <=> RegistryCall(c) \/ CommandStep(c)
  BY DEF CommandsCall, RegistryCall, CommandStep, Registers, TearsDown

LEMMA StepKinds ==
  CommandsNext <=> \E c \in Client : RegistryStep(c) \/ CommandStep(c)
  BY CallKinds DEF CommandsNext, RegistryStep, Unregisters

LEMMA CommandsContractIsNext ==
  ASSUME [CommandsContractNext]_comVars PROVE [CommandsNext]_comVars
  BY DEF CommandsContractNext, CommandsNext

LEMMA CommandStepFrame ==
  ASSUME NEW c \in Client, CommandStep(c)
  PROVE  UNCHANGED allVars
  BY DEF CommandStep, NdoBegin, UnregisterNetdev, NdoRefused, CacheCommand, HddOpen,
         HddStop, NdoEnd, ReinitBegin, HandleCachedCommand

\* The client of an open or a stop works on a vdev.
LEMMA NdoNode ==
  ASSUME CommandsIInv, NEW c \in Client, ndo[c].op # "none"
  PROVE  /\ ndo[c].node \in Vdevs /\ ndo[c].node \in netdev /\ rtnl = c /\ down[c] = {}
         /\ \A d \in Client : d # c => ndo[d].op = "none"
  BY DEF CommandsIInv, NdoInv, CommandsTypeOK

LEMMA RegistryCallIsSync ==
  ASSUME CommandsIInv, NEW c \in Client, RegistryCall(c)
  PROVE  SyncCall(c)
<1>0. CommandsTypeOK /\ WalkInv(c) /\ NdoInv(c)
  BY DEF CommandsIInv
<1>1. CASE Registers(c) \/ TearsDown(c)
  BY <1>1 DEF Registers, TearsDown, Registration, Teardown, VdevSyncCall, SyncCall
<1>2. CASE ReinitEnd(c)
  BY <1>0, <1>2 DEF ReinitEnd, WalkInv, PsocSyncCall, SyncCall
<1>3. CASE NdoTransStart(c) \/ NdoTransStop(c)
  <2>1. ndo[c].node \in Vdevs
    BY <1>3, NdoNode DEF NdoTransStart, NdoTransStop
  <2> QED BY <1>3, <2>1 DEF NdoTransStart, NdoTransStop, VdevSyncCall, SyncCall
<1>4. CASE Other(c)
  BY <1>4 DEF Other, OtherVdevCall, OtherPsocCall, PsocSyncCall, VdevSyncCall, SyncCall
<1>5. CASE Flush(c)
  <2>1. CASE SyncWaitForOpsReturn(c) \/ SyncOpsEventWait(c)
    BY <2>1 DEF SyncCall
  <2>2. CASE ndo[c] # NoNdo
    <3>1. ndo[c].node \in Vdevs
      BY <1>0, <2>2, NdoNode DEF NdoInv
    <3> QED BY <1>5, <3>1 DEF Flush, VdevSyncCall, SyncCall
  <2> QED BY <1>5, <2>1, <2>2 DEF Flush
<1> QED BY <1>1, <1>2, <1>3, <1>4, <1>5 DEF RegistryCall

LEMMA RegistryStepIsSync ==
  ASSUME CommandsIInv, NEW c \in Client, RegistryStep(c)
  PROVE  SyncStep(c)
  BY RegistryCallIsSync DEF RegistryStep, Unregisters, Unregistration, SyncStep

LEMMA CommandsIsSync ==
  ASSUME CommandsIInv, [CommandsContractNext]_comVars
  PROVE  [OsifContractNext]_allVars
<1>1. CASE UNCHANGED comVars
  BY <1>1 DEF comVars
<1>2. ASSUME NEW c \in Client, CommandsCall(c) PROVE [OsifContractNext]_allVars
  <2>1. CASE RegistryCall(c)
    BY <2>1, RegistryCallIsSync DEF OsifContractNext, SyncContractStep
  <2>2. CASE CommandStep(c)
    BY <2>2, CommandStepFrame
  <2> QED BY <1>2, <2>1, <2>2, CallKinds
<1>3. ASSUME NEW c \in Client, NEW v \in Vdevs, SyncUnwaited(c, v), Unregistration(c, v)
      PROVE  OsifContractNext
  BY <1>3 DEF Unregistration, OsifContractNext, SyncContractStep
<1> QED BY <1>1, <1>2, <1>3 DEF CommandsContractNext

-----------------------------------------------------------------------------
(* What keeps the slot of an interface in place.                           *)

\* A call that starts a destroy is the teardown, and a transition that ends
\* with its context unregistered has torn it down.
LEMMA Careful ==
  ASSUME IInv, OsifIInv, CommandsIInv, NEW c \in Client, RegistryStep(c), Free(c)
  PROVE  /\ call'[c].op = "destroy" => \E v \in Vdevs \ netdev : Teardown(c, v)
         /\ pc[c] = "trans" /\ pc'[c] = "owner" => TornDown(c)
<1>0. /\ OsifTypes /\ TypeOK /\ CommandsTypeOK /\ WalkInv(c) /\ NdoInv(c) /\ StageInv(c)
      /\ down[c] = {} => TornDown(c)
  BY DEF CommandsIInv, OsifIInv, IInv, OsifClientInv, TornDown
<1>1. CASE Registers(c)
  BY <1>0, <1>1 DEF Registers, Registration, VdevSyncRegister, SyncRegister, Register,
     vars, Free, Return, NoCall, OsifTypes
<1>2. CASE TearsDown(c)
  BY <1>0, <1>2 DEF TearsDown, Teardown, VdevSyncDestroy, VdevDestroy, ContextFlush, TypeOK
<1>3. CASE ReinitEnd(c)
  BY <1>0, <1>3 DEF ReinitEnd, PsocSyncTransStop, Release, WalkInv, Free
<1>4. CASE NdoTransStart(c) \/ NdoTransStop(c)
  <2>1. ndo[c].op # "none"
    BY <1>4 DEF NdoTransStart, NdoTransStop
  <2>2. down[c] = {}
    BY <2>1, NdoNode
  <2> QED BY <1>0, <1>4, <2>2 DEF NdoTransStart, NdoTransStop, VdevSyncTransStart,
             Continue, VdevSyncTransStop, Release, Free, OsifTypes
<1>5. CASE Other(c)
  <2>1. ASSUME NEW v \in Vdevs, OtherVdevCall(c, v)
        PROVE  call'[c].op # "destroy" /\ (pc[c] = "trans" /\ pc'[c] = "owner" => TornDown(c))
    <3>1. CASE VdevSyncGet(c, v)
      BY <1>0, <3>1 DEF VdevSyncGet, SyncGet, Continue, Free, vars, OsifTypes
    <3>2. CASE VdevSyncCreate(c, v) \/ VdevSyncCreateAndTrans(c, v)
      BY <3>2 DEF VdevSyncCreate, VdevSyncCreateAndTrans, Got, Made, Free
    <3>3. CASE VdevSyncTransStart(c, v) \/ VdevSyncTransStartWait(c, v)
      BY <1>0, <3>3 DEF VdevSyncTransStart, VdevSyncStart, VdevSyncTransStartWait,
         SyncWaits, Continue, Free, OsifTypes
    <3>4. CASE TornDown(c) /\ VdevSyncTransStop(c, v)
      BY <1>0, <3>4 DEF VdevSyncTransStop, Release, Free
    <3>5. CASE VdevSyncWaitForOps(c, v) \/ VdevSyncWaitForUptreeOps(c, v)
      <4>1. UNCHANGED osifVars /\ \E n, K : Visit(c, n, K)
        BY <3>5 DEF VdevSyncWaitForOps, VdevWaitForOps, VdevSyncWaitForUptreeOps,
                    VdevWaitForUptreeOps
      <4> QED BY <1>0, <4>1 DEF osifVars, Visit, Free, TypeOK
    <3> QED BY <2>1, <3>1, <3>2, <3>3, <3>4, <3>5 DEF OtherVdevCall
  <2>2. ASSUME NEW p \in Psocs, OtherPsocCall(c, p)
        PROVE  call'[c].op # "destroy" /\ (pc[c] = "trans" /\ pc'[c] = "owner" => TornDown(c))
    <3>1. CASE PsocSyncTransStart(c, p) \/ PsocSyncTransStartWait(c, p)
      BY <1>0, <3>1 DEF PsocSyncTransStart, PsocSyncStart, PsocSyncTransStartWait,
         SyncWaits, Free, OsifTypes
    <3>2. CASE TornDown(c) /\ PsocSyncTransStop(c, p)
      BY <1>0, <3>2 DEF PsocSyncTransStop, Release, Free
    <3>3. CASE PsocSyncWaitForOps(c, p)
      <4>1. UNCHANGED osifVars /\ \E n, K : Visit(c, n, K)
        BY <3>3 DEF PsocSyncWaitForOps, PsocWaitForOps
      <4> QED BY <1>0, <4>1 DEF osifVars, Visit, Free, TypeOK
    <3> QED BY <2>2, <3>1, <3>2, <3>3 DEF OtherPsocCall
  <2>3. CASE \/ \E n \in Node : SyncWaitLookup(c, n)
             \/ SyncPut(c) \/ SyncAbort(c) \/ SyncDetach(c) \/ SyncTranWait(c)
    BY <1>0, <2>3 DEF SyncWaitLookup, SyncPut, SyncAbort, FlushAbort, osifVars, SyncDetach,
       ContextDetach, SyncTranWait,
       TranWait, Continue, Return, NoCall, Free, vars, OsifTypes
  <2> QED BY <1>5, <2>1, <2>2, <2>3 DEF Other
<1>6. CASE Flush(c)
  <2>1. CASE SyncWaitForOpsReturn(c) \/ SyncOpsEventWait(c)
    BY <1>0, <2>1 DEF SyncWaitForOpsReturn, WaitForOpsReturn, SyncOpsEventWait,
       OpsEventWait, Return, NoCall, osifVars, Free, OsifTypes, TypeOK
  <2>2. CASE ~(SyncWaitForOpsReturn(c) \/ SyncOpsEventWait(c))
    <3>1. VdevSyncWaitForUptreeOps(c, ndo[c].node)
      BY <1>6, <2>2 DEF Flush
    <3> QED BY <3>1 DEF VdevSyncWaitForUptreeOps, Free
  <2> QED BY <2>1, <2>2
<1>7. CASE Unregisters(c)
  BY <1>0, <1>7 DEF Unregisters, Unregistration, VdevSyncUnregister, SyncUnregister,
     Unregister, Free
<1> QED BY <1>1, <1>2, <1>3, <1>4, <1>5, <1>6, <1>7 DEF RegistryStep, RegistryCall

\* The context of an interface whose net_device is there is not destroyed,
\* and no transition on it ends with the context unregistered.
LEMMA NetdevStays ==
  ASSUME IInv, OsifIInv, CommandsIInv, NEW c \in Client, RegistryStep(c),
         NEW v \in netdev
  PROVE  /\ \A s \in Slot : ~Destroys(c, s, v)
         /\ ~(SyncStops(c, v) /\ owner[v] = c)
<1>0. NetdevInv(v) /\ v \in Vdevs /\ v \in Node /\ Own(c)
  BY OwnPart, UpFacts DEF CommandsIInv, CommandsTypeOK
<1>1. ASSUME NEW s \in Slot, Destroys(c, s, v) PROVE FALSE
  <2>1. Free(c)
    BY <1>0, <1>1 DEF Destroys, Made, Owned, NetdevInv
  <2>2. call'[c].op = "destroy" /\ call'[c].node = v
    BY <1>0, <1>1 DEF Destroys, SyncDestroying, Continue, Own, OsifTypes
  <2>3. PICK w \in Vdevs \ netdev : Teardown(c, w)
    BY <2>1, <2>2, Careful
  <2>4. call'[c].node = w
    BY <1>0, <2>3 DEF Teardown, VdevSyncDestroy, SyncDestroying, Continue, Own, OsifTypes
  <2> QED BY <2>2, <2>3, <2>4
<1>2. ASSUME SyncStops(c, v), owner[v] = c PROVE FALSE
  <2>1. Free(c) /\ pc[c] = "trans" /\ pc'[c] = "owner"
    BY <1>0, <1>2 DEF SyncStops, Release, MayStop, EndTrans, Goto, Own, TypeOK
  <2>2. TornDown(c)
    BY <2>1, Careful
  <2>3. PICK s \in Slot : slot[s].ctx = v /\ (slot[s].key = v \/ \E d \in Client : s \in down[d])
    BY <1>0 DEF NetdevInv
  <2>4. slot[s].key # v
    BY <1>0, <1>2, <2>3, FoundIsUsable DEF Usable, Own
  <2>5. PICK d \in Client : s \in down[d]
    BY <2>3, <2>4
  <2>6. owner[v] = d
    <3>1. Own(d)
      BY OwnPart
    <3> QED BY <1>0, <2>3, <2>5, <3>1 DEF Own, DownInv, PrivateInv, Private
  <2> QED BY <1>2, <2>2, <2>3, <2>5, <2>6 DEF TornDown
<1> QED BY <1>1, <1>2

\* What a step of the registry leaves of the slot of a vdev that it neither
\* destroys nor leaves unregistered.
SlotStays(c, v) ==
  \A s \in Slot : slot[s].ctx = v =>
    /\ slot'[s].ctx = v
    /\ slot[s].key = v => slot'[s].key = v \/ (s \in down'[c] /\ Unregister(c, v))
    /\ \A d \in Client : s \in down[d] => slot'[s].key = v \/ s \in down'[d]

NotMadeBy(c, v) ==
  /\ call'[c].op = "made" => call'[c].node # v
  /\ pc'[c] = "owner" => at'[c] # v

LEMMA SlotOf ==
  ASSUME OsifIInv, NEW v \in Node, NEW s \in Slot, NEW t \in Slot,
         slot[s].ctx = v, slot[t].ctx = v
  PROVE  s = t /\ v \in attached
  BY TableFacts DEF OsifIInv, SlotInv

LEMMA RegistryKeepsNetdev ==
  ASSUME IInv, OsifIInv, NEW c \in Client, SyncStep(c), NEW v \in Vdevs, NetdevInv(v),
         \A s \in Slot : ~Destroys(c, s, v), ~(SyncStops(c, v) /\ owner[v] = c)
  PROVE  SlotStays(c, v) /\ NotMadeBy(c, v)
<1>0. /\ Own(c) /\ v \in Node /\ v # NoNode /\ v \in attached
      /\ call[c].op = "made" => call[c].node # v
      /\ pc[c] = "owner" => at[c] # v
  <2>1. v \in Node
    BY UpFacts
  <2> QED BY <2>1, OwnPart, TableFacts DEF NetdevInv, OsifIInv, SlotInv
<1>1. ASSUME UNCHANGED <<slot, down>> PROVE SlotStays(c, v)
  BY <1>1 DEF SlotStays
<1>2. ASSUME UNCHANGED <<slot, down>>, NotMadeBy(c, v) PROVE SlotStays(c, v) /\ NotMadeBy(c, v)
  BY <1>1, <1>2
<1>3. CASE SyncResume(c)
  <2>1. CASE SyncPut(c)
    <3>1. /\ call[c].slot \in Slot /\ slot[call[c].slot].ctx # v
      BY <1>0, <2>1, TableFacts DEF SyncPut, Own, PrivateInv, Private
    <3>2. /\ \A s \in Slot : s # call[c].slot => slot'[s] = slot[s]
          /\ \A d \in Client : down[d] \ {call[c].slot} \subseteq down'[d]
      BY <1>0, <2>1 DEF SyncPut, Own, OsifTypes
    <3>3. SlotStays(c, v)
      BY <3>1, <3>2 DEF SlotStays
    <3>4. NotMadeBy(c, v)
      BY <1>0, <2>1 DEF SyncPut, Return, NoCall, vars, NotMadeBy, Own, OsifTypes
    <3> QED BY <3>3, <3>4
  <2>2. CASE SyncAbort(c) \/ SyncDetach(c)
    BY <1>0, <1>2, <2>2 DEF SyncAbort, FlushAbort, osifVars, SyncDetach, ContextDetach, Continue, Goto, NotMadeBy, Own,
       OsifTypes, TypeOK
  <2>3. CASE Refuses(c) \/ SyncOpStop(c)
    BY <1>0, <1>2, <2>3 DEF Refuses, SyncRefused, SyncOpStop, OpStop, Return, NoCall, Goto,
       vars, NotMadeBy, Own, OsifTypes, TypeOK
  <2>4. CASE SyncTranWait(c)
    BY <1>0, <1>2, <2>4 DEF SyncTranWait, TranWait, Return, NoCall, Goto, NotMadeBy, Own,
       OsifTypes, TypeOK
  <2>5. CASE SyncWaitForOpsReturn(c) \/ SyncOpsEventWait(c)
    BY <1>0, <1>2, <2>5 DEF SyncWaitForOpsReturn, WaitForOpsReturn, SyncOpsEventWait,
       OpsEventWait, osifVars, Return, NoCall, NotMadeBy, Own, OsifTypes, TypeOK
  <2> QED BY <1>3, <2>1, <2>2, <2>3, <2>4, <2>5 DEF SyncResume
<1>4. ASSUME NEW n \in Node, SyncActsOn(c, n) PROVE SlotStays(c, v) /\ NotMadeBy(c, v)
  <2>1. CASE SyncGet(c, n)
    BY <1>0, <2>1 DEF SyncGet, Continue, vars, SlotStays, NotMadeBy, Own, OsifTypes
  <2>2. CASE Creates(c, n)
    <3>1. n # v /\ call[c].slot \in Slot /\ slot[call[c].slot].ctx # v
      BY <1>0, <2>2, TableFacts DEF Creates, Got, ContextInit, Own, PrivateInv, Private
    <3>2. \A s \in Slot : s # call[c].slot => slot'[s] = slot[s]
      BY <1>0, <2>2 DEF Creates, SyncCreated, Own, OsifTypes
    <3>3. SlotStays(c, v)
      BY <2>2, <3>1, <3>2 DEF SlotStays, Creates, SyncCreated
    <3>4. NotMadeBy(c, v)
      BY <1>0, <2>2, <3>1 DEF Creates, SyncCreated, Continue, ContextInit, Goto, NotMadeBy,
         Own, OsifTypes, TypeOK
    <3> QED BY <3>3, <3>4
  <2>3. CASE Orphans(c, n) \/ Opens(c, n)
    BY <1>0, <1>2, <2>3 DEF Orphans, Opens, SyncOrphaned, SyncOpened, StartNow, Return, NoCall,
       Continue, Goto, vars, NotMadeBy, Own, OsifTypes, TypeOK
  <2>4. ASSUME NEW s \in Slot, Destroys(c, s, n) PROVE SlotStays(c, v) /\ NotMadeBy(c, v)
    <3>1. n # v /\ slot[s].ctx = n
      BY <2>4 DEF Destroys, Made, Owned
    <3>2. SlotStays(c, v)
      BY <1>0, <2>4, <3>1 DEF SlotStays, Destroys, SyncDestroying, Own, OsifTypes
    <3>3. NotMadeBy(c, v)
      BY <1>0, <2>4 DEF Destroys, SyncDestroying, ContextFlush, Continue, NotMadeBy, Own,
         OsifTypes, TypeOK
    <3> QED BY <3>2, <3>3
  <2>5. ASSUME NEW s \in Slot, Enters(c, s, n) PROVE SlotStays(c, v) /\ NotMadeBy(c, v)
    BY <1>0, <1>2, <2>5 DEF Enters, OpsInsert, StartNow, StartLater, Return, NoCall, Continue,
       Free, Goto, NotMadeBy, Own, OsifTypes, TypeOK
  <2>6. CASE SyncRegister(c, n)
    <3>1. PICK s \in Slot : slot[s].ctx = n /\ slot' = [slot EXCEPT ![s].key = n]
      BY <1>0, <2>6, TableFacts
         DEF SyncRegister, Register, Own, HoldInv, InTransOrOp, Holds, PrivateInv, Private
    <3>2. UNCHANGED down
      BY <2>6 DEF SyncRegister
    <3>3. SlotStays(c, v)
      BY <1>0, <3>1, <3>2 DEF SlotStays, Own, OsifTypes
    <3>4. NotMadeBy(c, v)
      BY <1>0, <2>6 DEF SyncRegister, Register, Return, NoCall, Free, vars, NotMadeBy, Own,
         OsifTypes
    <3> QED BY <3>3, <3>4
  <2>7. CASE SyncUnregister(c, n)
    <3>1. PICK s \in Slot : /\ Found(n, s) /\ slot' = [slot EXCEPT ![s].key = NoNode]
                            /\ down' = [down EXCEPT ![c] = @ \cup {s}]
      BY <2>7 DEF SyncUnregister
    <3>2. slot[s].ctx = n /\ Unregister(c, n)
      BY <2>7, <3>1, FoundFacts, FoundIsUsable, UnregisterFacts
    <3>3. SlotStays(c, v)
      BY <1>0, <3>1, <3>2 DEF SlotStays, Own, OsifTypes
    <3>4. NotMadeBy(c, v)
      BY <1>0, <2>7 DEF SyncUnregister, Unregister, Free, NotMadeBy
    <3> QED BY <3>3, <3>4
  <2>8. CASE SyncWaitLookup(c, n)
    BY <1>0, <1>2, <2>8 DEF SyncWaitLookup, Continue, vars, NotMadeBy, Own, OsifTypes
  <2>9. CASE SyncStops(c, n)
    BY <1>0, <1>2, <2>9 DEF SyncStops, Release, MayStop, EndTrans, Goto, Free, NotMadeBy, Own,
       OsifTypes, TypeOK
  <2>10. CASE \E K \in SUBSET Node : SyncVisits(c, n, K)
    BY <1>0, <1>2, <2>10 DEF SyncVisits, Visit, osifVars, NotMadeBy, Own, TypeOK
  <2> QED BY <1>4, <2>1, <2>2, <2>3, <2>4, <2>5, <2>6, <2>7, <2>8, <2>9, <2>10 DEF SyncActsOn
<1> QED BY <1>3, <1>4, SyncCases

-----------------------------------------------------------------------------
(* The invariant.                                                          *)

\* A registry step keeps what an interface that has its net_device needs.
LEMMA NetdevKept ==
  ASSUME IInv, OsifIInv, CommandsIInv, NEW c \in Client, RegistryStep(c),
         NEW v \in netdev
  PROVE  SlotStays(c, v) /\ NetdevInv(v)'
<1>0. NetdevInv(v) /\ v \in Vdevs /\ SyncStep(c)
  BY RegistryStepIsSync DEF CommandsIInv, CommandsTypeOK
<1>1. SlotStays(c, v) /\ NotMadeBy(c, v)
  BY <1>0, NetdevStays, RegistryKeepsNetdev
<1>2. DscFrame(c) /\ OsifFrame(c)
  BY <1>0, SyncFrame
<1>3. PICK s \in Slot : slot[s].ctx = v /\ (slot[s].key = v \/ \E d \in Client : s \in down[d])
  BY <1>0 DEF NetdevInv
<1>4. slot'[s].ctx = v /\ (slot'[s].key = v \/ \E d \in Client : s \in down'[d])
  BY <1>1, <1>3 DEF SlotStays
<1>5. ASSUME NEW d \in Client
      PROVE  /\ call'[d].op = "made" => call'[d].node # v
             /\ pc'[d] = "owner" => at'[d] # v
  <2>1. CASE d = c
    BY <1>1, <2>1 DEF NotMadeBy
  <2>2. CASE d # c
    BY <1>0, <1>2, <2>2 DEF NetdevInv, DscFrame, OsifFrame
  <2> QED BY <2>1, <2>2
<1> QED BY <1>1, <1>4, <1>5 DEF NetdevInv

\* A vdev that is registered has a slot, and nobody else has its context.
LEMMA RegistrationStarts ==
  ASSUME IInv, OsifIInv, NEW c \in Client, NEW v \in Vdevs, Registration(c, v)
  PROVE  NetdevInv(v)'
<1>0. /\ Own(c) /\ v \in Node /\ v # NoNode /\ NoClient \notin Client
      /\ \A d \in Client : pc[d] = "owner" /\ at[d] = v => owner[v] = d
  <2>1. v \in Node
    BY UpFacts
  <2> QED BY <2>1, OwnPart, TableFacts, DscAssumption
          DEF IInv, ClientInv, OwnedIdleIsUnused, OwnsIdle
<1>1. SyncRegister(c, v)
  BY DEF Registration, VdevSyncRegister
<1>2. /\ DOMAIN slot = Slot /\ pc' = pc /\ at' = at
      /\ \A d \in Client : d # c => call'[d] = call[d]
      /\ call'[c].op = "none" /\ pc[c] = "trans"
  BY <1>0, <1>1 DEF SyncRegister, Register, Return, NoCall, Free, vars, Own, OsifTypes
<1>3. PICK s \in Slot : slot[s].ctx = v /\ slot' = [slot EXCEPT ![s].key = v]
  BY <1>0, <1>1, TableFacts
     DEF SyncRegister, Register, Own, HoldInv, InTransOrOp, Holds, PrivateInv, Private
<1>4. slot'[s].ctx = v /\ slot'[s].key = v
  BY <1>0, <1>3 DEF Own, OsifTypes
<1>5. ASSUME NEW d \in Client, d # c
      PROVE  (call[d].op = "made" => call[d].node # v) /\ (pc[d] = "owner" => at[d] # v)
  <2>1. Own(d)
    BY OwnPart
  <2>2. CASE Register(c, v)
    <3>1. owner[v] = c
      BY <2>2 DEF Register
    <3> QED BY <1>0, <1>5, <2>1, <3>1 DEF Own, StageInv, Usable
  <2>3. CASE call[c].op = "made" /\ call[c].node = v
    <3>1. Usable(v) /\ call[c].slot \in Slot /\ slot[call[c].slot].ctx = v
      BY <1>0, <1>2, <2>3, TableFacts DEF Own, StageInv, PrivateInv, Private
    <3>2. ASSUME call[d].op = "made", call[d].node = v PROVE FALSE
      <4>1. call[d].slot \in Slot /\ slot[call[d].slot].ctx = v
        BY <2>1, <3>2, TableFacts DEF Own, PrivateInv, Private
      <4>2. call[d].slot = call[c].slot
        BY <1>0, <3>1, <4>1, SlotOf
      <4> QED BY <1>0, <1>5, <2>1, <2>3, <3>2, <4>2 DEF Own, PrivateInv, Private
    <3>3. ASSUME pc[d] = "owner", at[d] = v PROVE FALSE
      BY <1>0, <3>1, <3>3 DEF Usable
    <3> QED BY <3>2, <3>3
  <2> QED BY <1>1, <2>2, <2>3 DEF SyncRegister
<1> QED BY <1>2, <1>4, <1>5 DEF NetdevInv

\* An open or a stop changes no slot it is not allowed to, and the client
\* that walks takes no step of the registry before its walk has ended.
LEMMA WalkerBusy ==
  ASSUME IInv, OsifIInv, CommandsIInv, NEW c \in Client, RegistryStep(c), walk[c].on
  PROVE  ReinitEnd(c)
<1>0. /\ pc[c] = "trans" /\ at[c] \in Psocs /\ call[c].op = "none" /\ down[c] = {}
      /\ Own(c) /\ at[c] \notin Vdevs
  BY OwnPart, DscAssumption DEF CommandsIInv, WalkInv
<1>1. ~Registers(c)
  BY <1>0 DEF Registers, Registration, VdevSyncRegister, SyncRegister, Register
<1>2. ~TearsDown(c)
  BY <1>0 DEF TearsDown, Teardown, VdevSyncDestroy, Owned, Own, HoldInv, InTransOrOp, Holds
<1>3. ~NdoTransStart(c) /\ ~NdoTransStop(c)
  <2>1. ~NdoTransStart(c)
    BY <1>0 DEF NdoTransStart, VdevSyncTransStart, VdevSyncStart
  <2>2. ASSUME NdoTransStop(c) PROVE FALSE
    <3>1. at[c] = ndo[c].node /\ ndo[c].op # "none"
      BY <2>2 DEF NdoTransStop, VdevSyncTransStop, VdevTransStop, MayStop
    <3> QED BY <1>0, <3>1, NdoNode
  <2> QED BY <2>1, <2>2
<1>4. ~Other(c) /\ ~Unregisters(c)
  BY DEF Other, Unregisters, Unregistration
<1>5. ~Flush(c)
  BY <1>0 DEF Flush, SyncWaitForOpsReturn, WaitForOpsReturn, SyncOpsEventWait, OpsEventWait,
              Free, VdevSyncWaitForUptreeOps
<1> QED BY <1>1, <1>2, <1>3, <1>4, <1>5 DEF RegistryStep, RegistryCall

\* What a registry step does to the commands.
LEMMA RegistryStepFrame ==
  ASSUME NEW c \in Client, RegistryStep(c)
  PROVE  /\ UNCHANGED <<up, rtnl, ndo>>
         /\ \/ UNCHANGED walk
            \/ ReinitEnd(c) /\ walk' = [walk EXCEPT ![c] = NoWalk]
         /\ UNCHANGED cmd \/ \E v \in Vdevs : cmd' = [cmd EXCEPT ![v] = None]
         /\ UNCHANGED netdev \/ \E v \in Vdevs : Registration(c, v) /\ netdev' = netdev \cup {v}
  BY DEF RegistryStep, RegistryCall, Registers, TearsDown, Unregisters, Registration, Teardown,
         Unregistration, ReinitEnd, NdoTransStart, NdoTransStop, Other, Flush, cmdVars

\* A client in an open or a stop unregisters nothing.
LEMMA NdoKeepsDown ==
  ASSUME IInv, OsifIInv, CommandsIInv, NEW c \in Client, RegistryStep(c), ndo[c].op # "none"
  PROVE  down'[c] = down[c]
<1>1. ~Other(c) /\ ~Unregisters(c)
  BY DEF Other, Unregisters, Unregistration, NoNdo
<1>2. CASE Flush(c)
  BY <1>2 DEF Flush, SyncWaitForOpsReturn, SyncOpsEventWait, osifVars, VdevSyncWaitForOps,
              VdevSyncWaitForUptreeOps
<1> QED BY <1>1, <1>2 DEF RegistryStep, RegistryCall, Registers, TearsDown, Registration, Teardown,
       ReinitEnd, NdoTransStart, NdoTransStop, VdevSyncRegister, SyncRegister, VdevSyncDestroy,
       SyncDestroying, PsocSyncTransStop, VdevSyncTransStop, Release, VdevSyncTransStart

LEMMA RegistryKeepsCommands ==
  ASSUME IInv, OsifIInv, CommandsIInv, NEW c \in Client, RegistryStep(c)
  PROVE  CommandsIInv'
<1>0. /\ CommandsTypeOK /\ DownIsLastWord /\ SyncStep(c) /\ OsifTypes
      /\ \A d \in Client : NdoInv(d) /\ WalkInv(d)
  BY RegistryStepIsSync DEF CommandsIInv, OsifIInv
<1>1. DscFrame(c) /\ OsifFrame(c)
  BY <1>0, SyncFrame
<1>2. CommandsTypeOK'
  <2>1. cmd' \in [Vdevs -> {None, Down}]
    BY <1>0, RegistryStepFrame DEF CommandsTypeOK
  <2>2. walk' \in [Client -> [on : BOOLEAN, left : SUBSET WalkSlots]]
    <3>1. NoWalk \in [on : BOOLEAN, left : SUBSET WalkSlots]
      BY DEF NoWalk
    <3>2. UNCHANGED walk \/ walk' = [walk EXCEPT ![c] = NoWalk]
      BY RegistryStepFrame
    <3> QED BY <1>0, <3>1, <3>2 DEF CommandsTypeOK
  <2>3. UNCHANGED <<up, rtnl, ndo>> /\ netdev \subseteq netdev' /\ netdev' \subseteq Vdevs
    BY <1>0, RegistryStepFrame DEF CommandsTypeOK
  <2> QED BY <1>0, <2>1, <2>2, <2>3 DEF CommandsTypeOK
<1>3. DownIsLastWord'
  <2>1. UNCHANGED up /\ \A v \in Vdevs : cmd'[v] = cmd[v] \/ cmd'[v] = None
    BY <1>0, RegistryStepFrame DEF CommandsTypeOK
  <2> QED BY <1>0, <2>1 DEF DownIsLastWord, Down, None
<1>4. ASSUME NEW v \in netdev' PROVE NetdevInv(v)'
  <2>1. v \in netdev \/ (v \in Vdevs /\ Registration(c, v))
    BY RegistryStepFrame
  <2> QED BY <2>1, NetdevKept, RegistrationStarts
<1>5. ASSUME NEW d \in Client PROVE NdoInv(d)'
  <2>0. UNCHANGED <<ndo, rtnl, up>> /\ netdev \subseteq netdev' /\ NdoInv(d)
    BY <1>0, RegistryStepFrame
  <2>1. CASE ndo[d].op = "none"
    BY <2>0, <2>1 DEF NdoInv
  <2>2. CASE ndo[d].op # "none"
    <3>1. down'[d] = {}
      BY <1>1, <2>0, <2>2, NdoKeepsDown DEF NdoInv, OsifFrame
    <3>2. ASSUME ndo[d].op = "refused", ndo[d].slot # 0
          PROVE  slot'[ndo[d].slot].ctx = ndo[d].node
      <4>1. ndo[d].node \in netdev /\ ndo[d].slot \in Slot
            /\ slot[ndo[d].slot].ctx = ndo[d].node
        BY <1>0, <2>0, <3>2 DEF NdoInv, CommandsTypeOK
      <4>2. SlotStays(c, ndo[d].node)
        BY <4>1, NetdevKept
      <4> QED BY <4>1, <4>2 DEF SlotStays
    <3> QED BY <2>0, <2>2, <3>1, <3>2 DEF NdoInv
  <2> QED BY <2>1, <2>2
<1>6. ASSUME NEW d \in Client PROVE WalkInv(d)'
  <2>1. CASE d = c
    <3>1. CASE walk[c].on
      <4>1. walk' = [walk EXCEPT ![c] = NoWalk]
        BY <3>1, WalkerBusy DEF ReinitEnd
      <4> QED BY <1>0, <2>1, <4>1 DEF WalkInv, NoWalk, CommandsTypeOK
    <3>2. CASE ~walk[c].on
      <4>1. UNCHANGED walk
        BY <3>2, RegistryStepFrame DEF ReinitEnd
      <4> QED BY <1>0, <2>1, <3>2, <4>1 DEF WalkInv
    <3> QED BY <3>1, <3>2
  <2>2. CASE d # c
    <3>1. walk'[d] = walk[d]
      BY <1>0, <2>2, RegistryStepFrame DEF CommandsTypeOK
    <3> QED BY <1>0, <1>1, <2>2, <3>1 DEF WalkInv, DscFrame, OsifFrame
  <2> QED BY <2>1, <2>2
<1> QED BY <1>2, <1>3, <1>4, <1>5, <1>6 DEF CommandsIInv

\* The other steps leave the registry alone.
LEMMA CommandKeepsCommands ==
  ASSUME IInv, OsifIInv, CommandsIInv, NEW c \in Client, CommandStep(c)
  PROVE  CommandsIInv'
<1>0. /\ CommandsTypeOK /\ DownIsLastWord /\ OsifTypes /\ NoClient \notin Client
      /\ NoNode \notin Vdevs /\ 0 \notin Slot
      /\ \A d \in Client : NdoInv(d) /\ WalkInv(d)
      /\ \A v \in netdev : NetdevInv(v)
  BY DscAssumption, OsifAssumption, TableFacts, UpFacts DEF CommandsIInv, OsifIInv
<1>1. UNCHANGED allVars
  BY CommandStepFrame
<1>2. UNCHANGED <<slot, down, call, pc, at>>
  BY <1>1 DEF allVars, osifVars, vars
<1>3. ASSUME NEW v \in netdev, NetdevInv(v) PROVE NetdevInv(v)'
  BY <1>2, <1>3 DEF NetdevInv
<1>4. netdev' \subseteq netdev
  BY DEF CommandStep, NdoBegin, UnregisterNetdev, NdoRefused, CacheCommand, HddOpen,
         HddStop, NdoEnd, ReinitBegin, HandleCachedCommand
<1>5. \A v \in netdev' : NetdevInv(v)'
  BY <1>0, <1>3, <1>4
<1>6. ASSUME UNCHANGED walk PROVE \A d \in Client : WalkInv(d)'
  BY <1>0, <1>2, <1>6 DEF WalkInv
<1>7. ASSUME rtnl = NoClient PROVE \A d \in Client : ndo[d] = NoNdo
  BY <1>0, <1>7 DEF NdoInv
<1>8. ASSUME ndo[c].op # "none"
      PROVE  /\ rtnl = c /\ ndo[c].node \in netdev /\ ndo[c].node \in Vdevs /\ down[c] = {}
             /\ \A d \in Client : d # c => ndo[d] = NoNdo
  BY <1>0, <1>8, NdoNode DEF NdoInv
<1>9. ASSUME NdoInv(c)', \A d \in Client : d # c => ndo[d] = NoNdo /\ ndo'[d] = ndo[d]
      PROVE  \A d \in Client : NdoInv(d)'
  BY <1>9 DEF NdoInv, NoNdo
<1>10. ASSUME NEW v \in Vdevs, NEW op \in {"open", "stop"}, NdoBegin(c, op, v)
       PROVE  CommandsIInv'
  <2>1. /\ ndo' = [ndo EXCEPT ![c] = [op |-> op, node |-> v, slot |-> 0]]
        /\ rtnl' = c /\ UNCHANGED <<cmd, up, netdev, walk>> /\ v \in netdev
        /\ op = "stop" => v \in up
        /\ pc[c] = "idle" /\ call[c].op = "none" /\ rtnl = NoClient
    BY <1>10 DEF NdoBegin, Free
  <2>2. down[c] = {}
    BY <2>1, OwnPart, AtRest
  <2>3. CommandsTypeOK' /\ DownIsLastWord'
    BY <1>0, <2>1 DEF CommandsTypeOK, DownIsLastWord
  <2>4. NdoInv(c)'
    BY <1>0, <1>2, <2>1, <2>2 DEF NdoInv, CommandsTypeOK
  <2>5. \A d \in Client : NdoInv(d)'
    BY <1>0, <1>7, <1>9, <2>1, <2>4 DEF CommandsTypeOK
  <2> QED BY <1>5, <1>6, <2>1, <2>3, <2>5 DEF CommandsIInv
<1>11. ASSUME NEW v \in Vdevs, UnregisterNetdev(c, v) PROVE CommandsIInv'
  <2>1. /\ netdev' = netdev \ {v} /\ up' = up \ {v} /\ UNCHANGED <<cmd, rtnl, ndo, walk>>
        /\ rtnl = NoClient
    BY <1>11 DEF UnregisterNetdev
  <2>2. CommandsTypeOK' /\ DownIsLastWord'
    BY <1>0, <2>1 DEF CommandsTypeOK, DownIsLastWord
  <2>3. \A d \in Client : NdoInv(d)'
    BY <1>7, <2>1 DEF NdoInv, NoNdo
  <2> QED BY <1>5, <1>6, <2>1, <2>2, <2>3 DEF CommandsIInv
<1>12. CASE NdoRefused(c)
  <2>1. ndo[c].op \in {"open", "stop"} /\ UNCHANGED <<cmd, up, netdev, rtnl, walk>>
    BY <1>12 DEF NdoRefused
  <2>2. ndo[c].node \in Node /\ ndo[c].slot = 0
    BY <1>0, <1>8, <2>1, UpFacts DEF NdoInv
  <2>3. PICK s \in Slot \cup {0} :
          /\ s = 0 \/ (s \in Slot /\ slot[s].ctx = ndo[c].node)
          /\ ndo'[c].op \in {"end", "refused"} /\ (ndo[c].op = "open" => ndo'[c].op = "end")
          /\ ndo'[c].node = ndo[c].node /\ ndo'[c].slot = s
          /\ DOMAIN ndo' = Client /\ ndo' = [d \in Client |-> ndo'[d]]
          /\ ndo'[c] \in [op : {"none", "open", "stop", "refused", "end"},
                          node : Vdevs \cup {NoNode}, slot : Slot \cup {0}]
          /\ \A d \in Client : d # c => ndo'[d] = ndo[d]
    <3> DEFINE o == IF ndo[c].op = "open" THEN "end" ELSE "refused"
    <3>o. o \in {"end", "refused"} /\ (ndo[c].op = "open" => o = "end")
      OBVIOUS
    <3> HIDE DEF o
    <3>1. ASSUME ndo' = [ndo EXCEPT ![c].op = o]
          PROVE  /\ ndo'[c].op \in {"end", "refused"} /\ (ndo[c].op = "open" => ndo'[c].op = "end")
                 /\ ndo'[c].node = ndo[c].node /\ ndo'[c].slot = 0
                 /\ DOMAIN ndo' = Client /\ ndo' = [d \in Client |-> ndo'[d]]
                 /\ ndo'[c] \in [op : {"none", "open", "stop", "refused", "end"},
                                 node : Vdevs \cup {NoNode}, slot : Slot \cup {0}]
                 /\ \A d \in Client : d # c => ndo'[d] = ndo[d]
      BY <1>0, <2>2, <3>o, <3>1, ZenonT(60) DEF CommandsTypeOK
    <3>2. ASSUME NEW s \in Slot, VdevSyncLookup(ndo[c].node, s),
                 ndo' = [ndo EXCEPT ![c].op = o, ![c].slot = s]
          PROVE  /\ slot[s].ctx = ndo[c].node
                 /\ ndo'[c].op \in {"end", "refused"} /\ (ndo[c].op = "open" => ndo'[c].op = "end")
                 /\ ndo'[c].node = ndo[c].node /\ ndo'[c].slot = s
                 /\ DOMAIN ndo' = Client /\ ndo' = [d \in Client |-> ndo'[d]]
                 /\ ndo'[c] \in [op : {"none", "open", "stop", "refused", "end"},
                                 node : Vdevs \cup {NoNode}, slot : Slot \cup {0}]
                 /\ \A d \in Client : d # c => ndo'[d] = ndo[d]
      <4>1. slot[s].ctx = ndo[c].node
        BY <2>2, <3>2, FoundFacts, FoundIsUsable DEF VdevSyncLookup
      <4> QED BY <1>0, <3>o, <3>2, <4>1, ZenonT(60) DEF CommandsTypeOK
    <3> QED BY <1>12, <3>1, <3>2 DEF NdoRefused, o
  <2>4. CommandsTypeOK' /\ DownIsLastWord'
    BY <1>0, <1>8, <2>1, <2>3 DEF CommandsTypeOK, DownIsLastWord
  <2>5. NdoInv(c)'
    BY <1>0, <1>2, <1>8, <2>1, <2>3 DEF NdoInv, CommandsTypeOK
  <2>6. \A d \in Client : NdoInv(d)'
    BY <1>8, <1>9, <2>1, <2>3, <2>5
  <2> QED BY <1>5, <1>6, <2>1, <2>4, <2>6 DEF CommandsIInv
<1>13. ASSUME ndo[c].op # "none", ndo' = [ndo EXCEPT ![c].op = "end"],
              UNCHANGED <<netdev, rtnl, walk>>, up' \subseteq netdev,
              cmd' \in [Vdevs -> {None, Down}], DownIsLastWord'
       PROVE  CommandsIInv'
  <2>1. /\ ndo'[c].op = "end" /\ ndo'[c].node = ndo[c].node
        /\ \A d \in Client : d # c => ndo'[d] = ndo[d]
    BY <1>0, <1>13 DEF CommandsTypeOK
  <2>2. CommandsTypeOK'
    <3>1. ndo' \in [Client -> [op : {"none", "open", "stop", "refused", "end"},
                               node : Vdevs \cup {NoNode}, slot : Slot \cup {0}]]
      BY <1>0, <1>13, SMTT(60) DEF CommandsTypeOK
    <3> QED BY <1>0, <1>13, <3>1 DEF CommandsTypeOK
  <2>3. NdoInv(c)'
    BY <1>0, <1>2, <1>8, <1>13, <2>1 DEF NdoInv
  <2>4. \A d \in Client : NdoInv(d)'
    BY <1>8, <1>9, <1>13, <2>1, <2>3
  <2> QED BY <1>5, <1>6, <1>13, <2>2, <2>4 DEF CommandsIInv
<1>14. CASE CacheCommand(c)
  <2>1. PICK w : /\ w = ndo[c].node \/ w \notin Vdevs
                 /\ cmd' = [v \in Vdevs |-> IF v = w THEN Down ELSE cmd[v]]
    <3>1. ndo[c].slot # 0 => slot[ndo[c].slot].ctx = ndo[c].node
      BY <1>0, <1>14 DEF NdoInv, CacheCommand
    <3> QED BY <1>0, <1>14, <3>1 DEF CacheCommand
  <2>2. up' = up \ {ndo[c].node}
    BY <1>14 DEF CacheCommand
  <2>3. cmd' \in [Vdevs -> {None, Down}] /\ DownIsLastWord'
    BY <1>0, <2>1, <2>2 DEF CommandsTypeOK, DownIsLastWord
  <2> QED BY <1>0, <1>13, <1>14, <2>2, <2>3 DEF CacheCommand, CommandsTypeOK
<1>15. CASE HddOpen(c)
  <2>1. /\ ndo[c].op # "none" /\ ndo' = [ndo EXCEPT ![c].op = "end"]
        /\ UNCHANGED <<netdev, rtnl, walk>>
        /\ \/ /\ up' = up \cup {ndo[c].node}
              /\ cmd' = [v \in Vdevs |-> IF v = ndo[c].node /\ v \notin Monitors
                                         THEN None ELSE cmd[v]]
           \/ UNCHANGED <<up, cmd>>
    BY <1>15 DEF HddOpen
  <2>2. up' \subseteq netdev /\ cmd' \in [Vdevs -> {None, Down}]
    BY <1>0, <1>8, <2>1 DEF CommandsTypeOK
  <2>3. DownIsLastWord'
    BY <1>0, <1>8, <2>1 DEF CommandsTypeOK, DownIsLastWord, Down, None
  <2> QED BY <1>13, <2>1, <2>2, <2>3
<1>16. CASE HddStop(c)
  <2>1. DownIsLastWord' /\ up' \subseteq netdev
    BY <1>0, <1>16 DEF HddStop, DownIsLastWord, CommandsTypeOK
  <2> QED BY <1>0, <1>13, <1>16, <2>1 DEF HddStop, CommandsTypeOK
<1>17. CASE NdoEnd(c)
  <2>1. /\ ndo[c].op # "none" /\ ndo' = [ndo EXCEPT ![c] = NoNdo] /\ rtnl' = NoClient
        /\ UNCHANGED <<cmd, up, netdev, walk>>
    BY <1>17 DEF NdoEnd
  <2>2. NoNdo \in [op : {"none", "open", "stop", "refused", "end"},
                   node : Vdevs \cup {NoNode}, slot : Slot \cup {0}]
    BY DEF NoNdo
  <2>3. CommandsTypeOK' /\ DownIsLastWord'
    BY <1>0, <2>1, <2>2 DEF CommandsTypeOK, DownIsLastWord
  <2>4. NdoInv(c)'
    BY <1>0, <2>1 DEF NdoInv, NoNdo, CommandsTypeOK
  <2>5. \A d \in Client : NdoInv(d)'
    BY <1>0, <1>8, <1>9, <2>1, <2>4 DEF CommandsTypeOK
  <2> QED BY <1>5, <1>6, <2>1, <2>3, <2>5 DEF CommandsIInv
<1>18. ASSUME UNCHANGED <<up, netdev, rtnl, ndo>>, \A d \in Client : d # c => walk'[d] = walk[d],
              walk' \in [Client -> [on : BOOLEAN, left : SUBSET WalkSlots]],
              walk'[c].on, cmd' \in [Vdevs -> {None, Down}],
              \A v \in Vdevs : cmd'[v] \in {cmd[v], None},
              pc[c] = "trans" /\ at[c] \in Psocs /\ call[c].op = "none" /\ down[c] = {}
       PROVE  CommandsIInv'
  <2>1. CommandsTypeOK'
    BY <1>0, <1>18 DEF CommandsTypeOK
  <2>2. DownIsLastWord'
    BY <1>0, <1>18 DEF DownIsLastWord, Down, None
  <2>3. \A d \in Client : NdoInv(d)'
    BY <1>0, <1>2, <1>18 DEF NdoInv
  <2>4. \A d \in Client : WalkInv(d)'
    BY <1>0, <1>2, <1>18 DEF WalkInv
  <2> QED BY <1>5, <2>1, <2>2, <2>3, <2>4 DEF CommandsIInv
<1>19. CASE ReinitBegin(c)
  <2>1. /\ walk' \in [Client -> [on : BOOLEAN, left : SUBSET WalkSlots]]
        /\ walk'[c].on /\ \A d \in Client : d # c => walk'[d] = walk[d]
    BY <1>0, <1>19 DEF ReinitBegin, CommandsTypeOK
  <2>2. /\ UNCHANGED <<cmd, up, netdev, rtnl, ndo>>
        /\ pc[c] = "trans" /\ at[c] \in Psocs /\ call[c].op = "none" /\ down[c] = {}
    BY <1>19 DEF ReinitBegin, Free
  <2>3. cmd' \in [Vdevs -> {None, Down}] /\ \A v \in Vdevs : cmd'[v] \in {cmd[v], None}
    BY <1>0, <2>2 DEF CommandsTypeOK
  <2> QED BY <1>18, <2>1, <2>2, <2>3
<1>20. CASE HandleCachedCommand(c)
  <2>1. walk[c].on
    BY <1>0, <1>20 DEF HandleCachedCommand, WalkInv, NoWalk
  <2>2. /\ walk' \in [Client -> [on : BOOLEAN, left : SUBSET WalkSlots]]
        /\ walk'[c].on /\ \A d \in Client : d # c => walk'[d] = walk[d]
    BY <1>0, <1>20, <2>1 DEF HandleCachedCommand, CommandsTypeOK
  <2>3. /\ UNCHANGED <<up, netdev, rtnl, ndo>>
        /\ pc[c] = "trans" /\ at[c] \in Psocs /\ call[c].op = "none" /\ down[c] = {}
    BY <1>0, <1>20, <2>1 DEF HandleCachedCommand, WalkInv
  <2>4. cmd' \in [Vdevs -> {None, Down}] /\ \A v \in Vdevs : cmd'[v] \in {cmd[v], None}
    BY <1>0, <1>20 DEF HandleCachedCommand, CommandsTypeOK
  <2> QED BY <1>18, <2>2, <2>3, <2>4
<1> QED BY <1>10, <1>11, <1>12, <1>14, <1>15, <1>16, <1>17, <1>19, <1>20 DEF CommandStep

LEMMA CommandsInvInit == CommandsInit => IInv /\ OsifIInv /\ CommandsIInv
<1> SUFFICES ASSUME CommandsInit PROVE IInv /\ OsifIInv /\ CommandsIInv
  OBVIOUS
<1>1. OsifInit /\ IInv /\ OsifIInv
  BY OsifInvInit, InvInit DEF CommandsInit, OsifInit
<1>2. CommandsTypeOK /\ DownIsLastWord
  BY DEF CommandsInit, CommandsTypeOK, DownIsLastWord, Down, None, NoNdo, NoWalk
<1>3. ASSUME NEW v \in netdev PROVE NetdevInv(v)
  <2> DEFINE N == {Driver} \cup (Node \ Churn)
  <2>1. v \in N
    BY UpFacts DEF CommandsInit
  <2>2. PICK f \in [N -> Slot] :
          \A n \in N : slot[f[n]] = [use |-> TRUE, key |-> n, ctx |-> n]
    BY <1>1, InitTables
  <2> HIDE DEF N
  <2>3. f[v] \in Slot /\ slot[f[v]].ctx = v /\ slot[f[v]].key = v
    <3>1. f[v] \in Slot
      BY <2>1
    <3>2. slot[f[v]] = [use |-> TRUE, key |-> v, ctx |-> v]
      BY <2>1, <2>2
    <3> QED BY <3>1, <3>2
  <2>4. \A c \in Client : call[c].op = "none" /\ pc[c] = "idle"
    BY <1>1 DEF OsifInit, Init, NoCall
  <2> QED BY <2>3, <2>4 DEF NetdevInv
<1>4. ASSUME NEW c \in Client PROVE NdoInv(c) /\ WalkInv(c)
  BY DEF CommandsInit, NdoInv, WalkInv, NoNdo, NoWalk
<1> QED BY <1>1, <1>2, <1>3, <1>4 DEF CommandsIInv

LEMMA CommandsInvStep ==
  ASSUME IInv, OsifIInv, CommandsIInv, [CommandsNext]_comVars
  PROVE  CommandsIInv'
<1>1. CASE UNCHANGED comVars
  BY <1>1 DEF comVars, cmdVars, allVars, osifVars, vars, CommandsIInv, CommandsTypeOK,
              DownIsLastWord, NetdevInv, NdoInv, WalkInv
<1>2. CASE CommandsNext
  BY <1>2, StepKinds, RegistryKeepsCommands, CommandKeepsCommands
<1> QED BY <1>1, <1>2

\* The open, stop and re-init callbacks keep the invariants of the registry
\* and of DSC, and their own, whoever waits on the interfaces that come and go.
THEOREM CommandsInvariance ==
  CommandsContractSpec => [](IInv /\ OsifIInv /\ QueueHeld /\ CommandsIInv)
<1>1. CommandsInit => IInv /\ OsifIInv /\ QueueHeld /\ CommandsIInv
  <2>1. CommandsInit => QueueHeld
    BY DEF CommandsInit, OsifInit, Init, QueueHeld
  <2> QED BY <2>1, CommandsInvInit
<1>2. IInv /\ OsifIInv /\ QueueHeld /\ CommandsIInv /\ [CommandsContractNext]_comVars
        => (IInv /\ OsifIInv /\ QueueHeld /\ CommandsIInv)'
  <2> SUFFICES ASSUME IInv, OsifIInv, QueueHeld, CommandsIInv,
                      [CommandsContractNext]_comVars
               PROVE  IInv' /\ OsifIInv' /\ QueueHeld' /\ CommandsIInv'
    OBVIOUS
  <2>1. [OsifContractNext]_allVars
    BY CommandsIsSync DEF comVars
  <2>2. [ContractNext]_vars
    BY <2>1, OsifStepIsDsc
  <2>3. IInv'
    BY <2>2, InvStep
  <2>4. OsifIInv' /\ QueueHeld'
    BY <2>1, <2>3, OsifInvStep
  <2>5. CommandsIInv'
    BY CommandsInvStep, CommandsContractIsNext
  <2> QED BY <2>3, <2>4, <2>5
<1> QED BY <1>1, <1>2, PTL DEF CommandsContractSpec

\* A refused hdd_stop caches its command in the context of its own interface:
\* rtnl keeps the slot in place after the table's lock is gone.
THEOREM CommandsSafe == CommandsContractSpec => []CommandsInv
<1>1. CommandsIInv => CommandsInv
  BY DEF CommandsIInv, CommandsInv, CommandReachesItsInterface, NdoInv
<1> QED BY <1>1, CommandsInvariance, PTL

\* The re-init finds a cached interface-down of what hdd_open or
\* hdd_hostapd_open brings up only while the interface is still down.
THEOREM CommandsLastWord == CommandsContractSpec => []DownIsLastWord
<1>1. CommandsIInv => DownIsLastWord
  BY DEF CommandsIInv
<1> QED BY <1>1, CommandsInvariance, PTL

\* The callbacks that open, stop, register and tear down interfaces use DSC
\* within the contract DSC's own results assume.
THEOREM CommandsRefinesDsc == CommandsContractSpec => ImplementsDsc
<1>1. CommandsInit => Init
  BY DEF CommandsInit, OsifInit
<1>2. OsifIInv /\ CommandsIInv /\ [CommandsContractNext]_comVars => [ContractNext]_vars
  BY CommandsIsSync, OsifStepIsDsc
<1> QED BY <1>1, <1>2, CommandsInvariance, PTL
       DEF CommandsContractSpec, ImplementsDsc, ContractSpec
=============================================================================
