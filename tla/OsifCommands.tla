---------------------------- MODULE OsifCommands ----------------------------
(***************************************************************************)
(* North bound commands that arrive while the firmware restarts (SSR), on  *)
(* top of the registry.  An interface-down that cannot start its vdev      *)
(* transition is remembered in the vdev's context, and the re-init of the  *)
(* SSR, inside its psoc transition, walks the table of vdev slots and      *)
(* executes what it finds.                                                 *)
(*                                                                         *)
(* The refused call reaches the context through the slot pointer it was    *)
(* given, after the table's lock is gone; the walk reads the table without *)
(* its lock.  What stands between them and a slot that is freed or taken   *)
(* again is rtnl, which the kernel holds over an open or a stop and which  *)
(* the teardown of an interface needs to unregister its net_device.        *)
(***************************************************************************)
EXTENDS OsifSync

CONSTANTS
  WalkSlots,   \* the slots the re-init walks: the first WLAN_MAX_VDEVS
  Monitors     \* vdevs opened by hdd_mon_open or hdd_pktcapture_open

ASSUME WalkAssumption == WalkSlots \subseteq VdevSlots
ASSUME MonitorAssumption == Monitors \subseteq Vdevs

VARIABLES
  cmd,      \* dsc_vdev.nb_cmd_during_ssr of each vdev
  up,       \* vdevs whose net_device the kernel has up
  netdev,   \* vdevs whose net_device is registered with the kernel
  rtnl,     \* who holds rtnl
  ndo,      \* the open or stop the client is in
  walk      \* the slots the client's re-init has still to walk

cmdVars == <<cmd, up, netdev, rtnl, ndo, walk>>
comVars == <<allVars, cmdVars>>

NoNdo == [op |-> "none", node |-> NoNode, slot |-> 0]
NoWalk == [on |-> FALSE, left |-> {}]

Down == "INTERFACE_DOWN"
None == "NO_COMMAND"

CommandsInit ==
  /\ OsifInit
  /\ cmd = [v \in Vdevs |-> None]
  /\ up = Vdevs \ Churn /\ netdev = Vdevs \ Churn
  /\ rtnl = NoClient
  /\ ndo = [c \in Client |-> NoNdo]
  /\ walk = [c \in Client |-> NoWalk]

-----------------------------------------------------------------------------
(* ndo_open and ndo_stop, called by the kernel with rtnl held.             *)

\* Slip: rtnl is not taken.
NdoBeginUnlocked(c, op, v) ==
  /\ Free(c) /\ pc[c] = "idle" /\ ndo[c] = NoNdo
  /\ v \in netdev /\ (op = "stop") = (v \in up)
  /\ ndo' = [ndo EXCEPT ![c] = [op |-> op, node |-> v, slot |-> 0]]
  /\ UNCHANGED <<allVars, cmd, up, netdev, rtnl, walk>>

NdoBegin(c, op, v) ==
  /\ Free(c) /\ pc[c] = "idle" /\ ndo[c] = NoNdo /\ rtnl = NoClient
  /\ v \in netdev /\ (op = "stop") = (v \in up)
  /\ rtnl' = c
  /\ ndo' = [ndo EXCEPT ![c] = [op |-> op, node |-> v, slot |-> 0]]
  /\ UNCHANGED <<allVars, cmd, up, netdev, walk>>

\* osif_vdev_sync_trans_start fails: the slot is known all the same if the
\* lookup found one.  A failed open ends there.
NdoRefused(c) ==
  LET v == ndo[c].node
      none == \A s \in Slot : ~VdevSyncLookup(v, s)
  IN /\ Free(c) /\ pc[c] = "idle" /\ ndo[c].op \in {"open", "stop"}
     /\ \/ /\ none
           /\ ndo' = [ndo EXCEPT ![c].op = IF @ = "open" THEN "end" ELSE "refused"]
        \/ /\ VdevCanTrans(v) # "SUCCESS"
           /\ \E s \in Slot :
                /\ VdevSyncLookup(v, s)
                /\ ndo' = [ndo EXCEPT ![c].op = IF @ = "open" THEN "end" ELSE "refused",
                                      ![c].slot = s]
     /\ UNCHANGED <<allVars, cmd, up, netdev, rtnl, walk>>

\* hdd_stop caches the command through the slot.  The kernel takes the
\* interface down whatever ndo_stop returns.
CacheCommand(c) ==
  LET w == IF ndo[c].slot = 0 THEN NoNode ELSE slot[ndo[c].slot].ctx
  IN /\ ndo[c].op = "refused"
     /\ cmd' = [v \in Vdevs |-> IF v = w THEN Down ELSE cmd[v]]
     /\ up' = up \ {ndo[c].node}
     /\ ndo' = [ndo EXCEPT ![c].op = "end"]
     /\ UNCHANGED <<allVars, netdev, rtnl, walk>>

\* The transition is granted and settled; it ends before the call does.
NdoTransStart(c) ==
  /\ ndo[c].op \in {"open", "stop"}
  /\ VdevSyncTransStart(c, ndo[c].node)
  /\ UNCHANGED cmdVars

InNdoTrans(c) == Free(c) /\ pc[c] = "trans" /\ at[c] = ndo[c].node

\* Slip: an open leaves the command in the context.
HddOpenKeepsCommand(c) ==
  /\ ndo[c].op = "open" /\ InNdoTrans(c)
  /\ up' = up \cup {ndo[c].node}
  /\ ndo' = [ndo EXCEPT ![c].op = "end"]
  /\ UNCHANGED <<allVars, cmd, netdev, rtnl, walk>>

\* The open may fail; if it does not, hdd_open and hdd_hostapd_open forget an
\* old command.  The open of a monitor or packet capture interface does not.
HddOpen(c) ==
  /\ ndo[c].op = "open" /\ InNdoTrans(c)
  /\ \/ /\ up' = up \cup {ndo[c].node}
        /\ cmd' = [v \in Vdevs |-> IF v = ndo[c].node /\ v \notin Monitors THEN None ELSE cmd[v]]
     \/ UNCHANGED <<up, cmd>>
  /\ ndo' = [ndo EXCEPT ![c].op = "end"]
  /\ UNCHANGED <<allVars, netdev, rtnl, walk>>

HddStop(c) ==
  /\ ndo[c].op = "stop" /\ InNdoTrans(c)
  /\ up' = up \ {ndo[c].node}
  /\ ndo' = [ndo EXCEPT ![c].op = "end"]
  /\ UNCHANGED <<allVars, cmd, netdev, rtnl, walk>>

NdoTransStop(c) ==
  /\ ndo[c].op = "end" /\ pc[c] = "trans"
  /\ VdevSyncTransStop(c, ndo[c].node)
  /\ UNCHANGED cmdVars

NdoEnd(c) ==
  /\ ndo[c].op = "end" /\ pc[c] = "idle"
  /\ rtnl' = NoClient
  /\ ndo' = [ndo EXCEPT ![c] = NoNdo]
  /\ UNCHANGED <<allVars, cmd, up, netdev, walk>>

-----------------------------------------------------------------------------
(* hdd_handle_cached_commands, in the re-init of an SSR.                   *)

\* The end of __hdd_soc_recovery_reinit, the firmware being up.
ReinitBegin(c) ==
  /\ Free(c) /\ pc[c] = "trans" /\ at[c] \in Psocs /\ walk[c] = NoWalk /\ down[c] = {}
  /\ walk' = [walk EXCEPT ![c] = [on |-> TRUE, left |-> WalkSlots]]
  /\ UNCHANGED <<allVars, cmd, up, netdev, rtnl, ndo>>

\* The next slot.  Its command is read before its net_device is looked at; a
\* slot that has no net_device is passed over.  The code follows the context of
\* a slot in use without a test, and one that osif_vdev_sync_create has taken
\* and not filled yet has none: the walk ends in a fault there, which is not
\* modelled, and the model goes on.
HandleCachedCommand(c) ==
  LET s == Min(walk[c].left)
      w == slot[s].ctx
  IN /\ walk[c].left # {}
     /\ cmd' = [v \in Vdevs |-> IF slot[s].use /\ slot[s].key # NoNode /\ v = w
                                THEN None ELSE cmd[v]]
     /\ walk' = [walk EXCEPT ![c].left = @ \ {s}]
     /\ UNCHANGED <<allVars, up, netdev, rtnl, ndo>>

\* osif_psoc_sync_trans_stop at the end of hdd_soc_recovery_reinit.
ReinitEnd(c) ==
  /\ walk[c].on /\ walk[c].left = {}
  /\ PsocSyncTransStop(c, at[c])
  /\ walk' = [walk EXCEPT ![c] = NoWalk]
  /\ UNCHANGED <<cmd, up, netdev, rtnl, ndo>>

-----------------------------------------------------------------------------
(* The other calls of the registry.                                        *)

\* unregister_netdev, between the unregistration of the vdev's slot and the
\* destroy: the kernel stops an interface that is up, which finds no slot.
UnregisterNetdev(c, v) ==
  /\ Free(c) /\ pc[c] = "trans" /\ ndo[c] = NoNdo /\ ~walk[c].on
  /\ v \in netdev /\ rtnl = NoClient
  /\ \E s \in down[c] : slot[s].ctx = v
  /\ netdev' = netdev \ {v} /\ up' = up \ {v}
  /\ UNCHANGED <<allVars, cmd, rtnl, ndo, walk>>

\* That is done before the transition ends.
TornDown(c) == \A s \in down[c] : slot[s].ctx \notin netdev

\* A net_device is there when its vdev is registered.
Registration(c, v) ==
  /\ VdevSyncRegister(c, v)
  /\ netdev' = netdev \cup {v}
  /\ UNCHANGED <<cmd, up, rtnl, ndo, walk>>

\* The slot is taken out of the lookups before unregister_netdev.
Unregistration(c, v) ==
  /\ ndo[c] = NoNdo /\ ~walk[c].on
  /\ VdevSyncUnregister(c, v)
  /\ UNCHANGED cmdVars

\* The context is freed with its command; the next one has none.
Teardown(c, v) ==
  /\ v \notin netdev
  /\ VdevSyncDestroy(c, v)
  /\ cmd' = [cmd EXCEPT ![v] = None]
  /\ UNCHANGED <<up, netdev, rtnl, ndo, walk>>

OtherVdevCall(c, v) ==
  \/ VdevSyncGet(c, v) \/ VdevSyncCreate(c, v) \/ VdevSyncCreateAndTrans(c, v)
  \/ VdevSyncTransStart(c, v) \/ VdevSyncTransStartWait(c, v)
  \/ TornDown(c) /\ VdevSyncTransStop(c, v)
  \/ VdevSyncWaitForOps(c, v) \/ VdevSyncWaitForUptreeOps(c, v)

OtherPsocCall(c, p) ==
  \/ PsocSyncTransStart(c, p) \/ PsocSyncTransStartWait(c, p)
  \/ TornDown(c) /\ PsocSyncTransStop(c, p)
  \/ PsocSyncWaitForOps(c, p)

\* A client that is in neither an ndo call nor the re-init of an SSR.
Other(c) ==
  /\ ndo[c] = NoNdo /\ ~walk[c].on
  /\ \/ \E v \in Vdevs : OtherVdevCall(c, v)
     \/ \E p \in Psocs : OtherPsocCall(c, p)
     \/ \E n \in Node : SyncWaitLookup(c, n)
     \/ SyncPut(c) \/ SyncAbort(c) \/ SyncDetach(c) \/ SyncTranWait(c)
  /\ UNCHANGED cmdVars

\* The flushes of whoever is in a call.
Flush(c) ==
  /\ \/ SyncWaitForOpsReturn(c) \/ SyncOpsEventWait(c)
     \/ ndo[c] # NoNdo /\ (\/ VdevSyncWaitForOps(c, ndo[c].node) /\ ~Free(c)
                           \/ VdevSyncWaitForUptreeOps(c, ndo[c].node))
  /\ UNCHANGED cmdVars

CommandsCall(c) ==
  \/ \E v \in Vdevs : \/ NdoBegin(c, "open", v) \/ NdoBegin(c, "stop", v)
                      \/ UnregisterNetdev(c, v) \/ Registration(c, v) \/ Teardown(c, v)
  \/ NdoRefused(c) \/ CacheCommand(c) \/ NdoTransStart(c) \/ HddOpen(c) \/ HddStop(c)
  \/ NdoTransStop(c) \/ NdoEnd(c)
  \/ ReinitBegin(c) \/ HandleCachedCommand(c) \/ ReinitEnd(c)
  \/ Other(c) \/ Flush(c)

CommandsNext ==
  \E c \in Client : CommandsCall(c) \/ \E v \in Vdevs : Unregistration(c, v)

CommandsSpec == CommandsInit /\ [][CommandsNext]_comVars

\* With callers that keep to the registry's contract (SyncUnwaited).
CommandsContractNext ==
  \E c \in Client :
    CommandsCall(c) \/ \E v \in Vdevs : Unregistration(c, v) /\ SyncUnwaited(c, v)

CommandsContractSpec == CommandsInit /\ [][CommandsContractNext]_comVars

-----------------------------------------------------------------------------
(* Properties.                                                             *)

\* The values of the commands and of the calls that make and handle them.
CommandsTypeOK ==
  /\ cmd \in [Vdevs -> {None, Down}]
  /\ up \subseteq netdev /\ netdev \subseteq Vdevs
  /\ rtnl \in Client \cup {NoClient}
  /\ ndo \in [Client -> [op : {"none", "open", "stop", "refused", "end"},
                         node : Vdevs \cup {NoNode}, slot : Slot \cup {0}]]
  /\ walk \in [Client -> [on : BOOLEAN, left : SUBSET WalkSlots]]

\* The slot that a refused hdd_stop caches its command through still has the
\* context of its interface: nobody has freed the slot, or taken it for
\* another interface, since the lookup.
CommandReachesItsInterface ==
  \A c \in Client : ndo[c].op = "refused" /\ ndo[c].slot # 0
    => slot[ndo[c].slot].ctx = ndo[c].node

\* What a refused hdd_stop relies on when it caches its command.
CommandsInv == CommandsTypeOK /\ CommandReachesItsInterface

\* A remembered interface-down is the last word: the interface has not been
\* brought up since, so the re-init stops no interface that is in use.  That
\* is the cache's promise for what hdd_open and hdd_hostapd_open bring up; a
\* monitor or packet capture interface, which shares hdd_stop and so has its
\* down remembered, keeps it through its next open.
DownIsLastWord == \A v \in Vdevs \ Monitors : cmd[v] = Down => v \notin up
=============================================================================
