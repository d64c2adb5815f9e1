---------------------------- MODULE OsifSyncInv ----------------------------
(***************************************************************************)
(* The inductive invariant of OsifSync.  What the registry promises        *)
(* depends on what each client in the middle of a call keeps: a slot that  *)
(* is neither free nor registered belongs to exactly one client, who got   *)
(* it, is about to free it, or owns the context it points to.  The parts   *)
(* below say which client that is and how far its call has come.           *)
(***************************************************************************)
EXTENDS OsifSync, DscInv

\* The context of a slot is alive, and in no other slot; a registered slot
\* has the context of its key, which is owned by nobody.
SlotInv(s) ==
  /\ slot[s].key # NoNode => slot[s].ctx = slot[s].key /\ Usable(slot[s].key)
  /\ slot[s].ctx # NoNode =>
       /\ slot[s].use /\ s \in Table(slot[s].ctx) /\ slot[s].ctx \in attached
       /\ \A t \in Slot : slot[t].ctx = slot[s].ctx => t = s

\* The call in progress works on a slot that nobody else can take or find.
Private(c) == call[c].op \in {"got", "made", "destroy", "put"}

\* The slot is the client's through the context it points to.
OwnsSlot(c, s) ==
  /\ slot[s].ctx \in Node /\ owner[slot[s].ctx] = c
  /\ hold[c] = s \/ s \in down[c]

KeptBy(c, s) == (Private(c) /\ call[c].slot = s) \/ OwnsSlot(c, s)

\* A slot in use is registered or belongs to some client.
SlotKept(s) ==
  slot[s].use /\ slot[s].key = NoNode => \E c \in Client : KeptBy(c, s)

\* What a client knows of its slot at each stage of a call.
PrivateInv(c) ==
  Private(c) =>
    /\ call[c].node \in Node /\ call[c].slot \in Table(call[c].node)
    /\ slot[call[c].slot].use /\ slot[call[c].slot].key = NoNode
    /\ slot[call[c].slot].ctx = IF call[c].op = "made" THEN call[c].node ELSE NoNode
    /\ \A d \in Client : d # c /\ Private(d) => call[d].slot # call[c].slot

StageInv(c) ==
  /\ call[c].op \in {"got", "put"} => pc[c] \in {"idle", "trans"}
  /\ call[c].op = "made" =>
       \/ pc[c] = "owner" /\ at[c] = call[c].node
       \/ pc[c] = "trans" /\ Usable(call[c].node)
  /\ call[c].op = "destroy" <=> pc[c] = "destroy"
  /\ call[c].op = "destroy" =>
       /\ on[c] = call[c].node
       /\ \A s \in Slot : slot[s].ctx # call[c].node
  /\ call[c].op = "found" =>
       /\ pc[c] = "idle" /\ call[c].node \in WaitNodes
       /\ call[c].slot \in Slot /\ slot[call[c].slot].key = call[c].node
  /\ call[c].op = "settle" =>
       /\ pc[c] \in {"queued", "trans", "flush", "blocked"}
       /\ at[c] = call[c].node /\ at[c] \in Vdevs

\* The client works on the context of the slot it holds.
InTransOrOp(c) ==
  \/ pc[c] \in {"op", "trans", "flush", "blocked"}
  \/ pc[c] = "queued" /\ tran[c] = "triggered"
  \/ pc[c] = "owner" /\ Free(c)
  \/ pc[c] = "destroy" /\ on[c] # at[c]

HoldInv(c) ==
  /\ InTransOrOp(c) => Holds(c, at[c])
  /\ pc[c] = "owner" /\ ~Free(c) => hold[c] = 0 /\ call[c].op = "made"
  /\ pc[c] = "destroy" /\ on[c] = at[c] => hold[c] \in {0, call[c].slot}
  /\ pc[c] = "idle" /\ hold[c] # 0 => call[c].op = "put" /\ hold[c] = call[c].slot

DownInv(c) ==
  \A s \in down[c] :
    /\ slot[s].use /\ slot[s].key = NoNode
    /\ \/ slot[s].ctx \in Node /\ owner[slot[s].ctx] = c
       \/ call[c].op \in {"destroy", "put"} /\ call[c].slot = s

\* The start of a vdev transition flushes the vdev, its psoc and the driver,
\* in this order.
SettleInv(c) ==
  call[c].op = "settle" =>
    /\ todo[c] \subseteq {Driver}
    /\ \/ at[c] \in quiet[c]
       \/ todo[c] = {} /\ quiet[c] \cap Up(at[c]) = {} /\ (pc[c] = "blocked" => on[c] = at[c])
    /\ pc[c] = "blocked" /\ todo[c] # {} => on[c] = PsocOf[at[c]]
    /\ \/ PsocOf[at[c]] \in quiet[c]
       \/ Driver \notin quiet[c] /\ (pc[c] = "flush" => todo[c] = {})
          /\ (pc[c] = "blocked" => on[c] # Driver)

\* What holds of each client, and the contexts that stay are never owned.
OsifClientInv(c) ==
  PrivateInv(c) /\ StageInv(c) /\ HoldInv(c) /\ DownInv(c) /\ SettleInv(c)

OsifTypes ==
  /\ slot \in [Slot -> [use : BOOLEAN, key : Node \cup {NoNode},
                        ctx : Node \cup {NoNode}]]
  /\ hold \in [Client -> Slot \cup {0}]
  /\ down \in [Client -> SUBSET Slot]
  /\ call \in [Client -> [op : CallOp, slot : Slot \cup {0},
                          node : Node \cup {NoNode}]]

StayingIsUsable == \A n \in Node \ Churn : Usable(n)

\* A waiter keeps the slot of its context until the destroy that aborts it.
QueueHeld ==
  \A n \in Node : \A i \in DOMAIN queue[n] :
    \/ Holds(queue[n][i], n)
    \/ \E d \in Client : pc[d] = "destroy" /\ on[d] = n

\* The inductive invariant, with QueueHeld and on top of that of Dsc.  It
\* implies OsifInv.
OsifIInv ==
  /\ OsifTypes /\ StayingIsUsable
  /\ \A s \in Slot : SlotInv(s) /\ SlotKept(s)
  /\ \A c \in Client : OsifClientInv(c)
=============================================================================
