--------------------------- MODULE OsifCommandsInv ---------------------------
(***************************************************************************)
(* The inductive invariant of OsifCommands, on top of those of Dsc and     *)
(* OsifSync.  That a command reaches the interface it was meant for        *)
(* depends on what a net_device that is registered with the kernel keeps   *)
(* in place.                                                               *)
(***************************************************************************)
EXTENDS OsifCommands, OsifSyncInv

\* While its net_device is there an interface has a slot, registered or
\* unregistered by a client that has not destroyed the context yet, who runs
\* a transition on the vdev or above it.
NetdevInv(v) ==
  /\ \E s \in Slot : /\ slot[s].ctx = v
                     /\ slot[s].key = v \/ \E c \in Client : s \in down[c]
  /\ \A c \in Client : /\ call[c].op = "made" => call[c].node # v
                       /\ pc[c] = "owner" => at[c] # v

\* An open or a stop has rtnl, and so keeps the net_device; a stop that has
\* not taken the interface down yet finds it up.
NdoInv(c) ==
  /\ ndo[c].op = "none" => ndo[c] = NoNdo
  /\ ndo[c].op # "none" =>
       /\ rtnl = c /\ ndo[c].node \in netdev /\ down[c] = {}
       /\ ndo[c].op \in {"stop", "refused"} => ndo[c].node \in up
       /\ ndo[c].op \in {"open", "stop"} => ndo[c].slot = 0
       /\ ndo[c].op = "refused" /\ ndo[c].slot # 0 => slot[ndo[c].slot].ctx = ndo[c].node

\* The client that walks does nothing else inside its psoc transition.
WalkInv(c) ==
  /\ ~walk[c].on => walk[c] = NoWalk
  /\ walk[c].on =>
       pc[c] = "trans" /\ at[c] \in Psocs /\ call[c].op = "none" /\ down[c] = {}

\* The inductive invariant.  It implies CommandsInv and DownIsLastWord.
CommandsIInv ==
  /\ CommandsTypeOK /\ DownIsLastWord
  /\ \A v \in netdev : NetdevInv(v)
  /\ \A c \in Client : NdoInv(c) /\ WalkInv(c)
=============================================================================
