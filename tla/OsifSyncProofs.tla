--------------------------- MODULE OsifSyncProofs ---------------------------
(***************************************************************************)
(* Proofs about OsifSync, for any tree, any number of clients and tables   *)
(* of any size.                                                            *)
(***************************************************************************)
EXTENDS OsifSyncInv, DscInvProofs, WellFoundedInduction

\* A scan that stops at the first slot returns one of those it looks for.
LEMMA FirstSlot ==
  ASSUME NEW S \in SUBSET Slot, S # {}
  PROVE  Min(S) \in S
<1>1. S \subseteq Nat
  BY OsifAssumption
<1> DEFINE R == OpToRel(<, Nat)
<1>2. \A x, y \in Nat : <<y, x>> \in R <=> y < x
  BY DEF OpToRel
<1>3. IsWellFoundedOn(R, Nat)
  BY NatLessThanWellFounded
<1> HIDE DEF R
<1>4. PICK x \in S : \A y \in S : ~(<<y, x>> \in R)
  BY <1>1, <1>3, WFMin
<1>5. ASSUME NEW y \in S PROVE x <= y
  <2>1. x \in Nat /\ y \in Nat /\ <<y, x>> \notin R
    BY <1>1, <1>4
  <2>2. ~(y < x)
    BY <1>2, <2>1, Zenon
  <2> QED BY <2>1, <2>2
<1> QED BY <1>5 DEF Min

LEMMA TableFacts ==
  /\ \A n \in Node : Table(n) \subseteq Slot /\ n # NoNode
  /\ 0 \notin Slot
  BY OsifAssumption DEF Table, Slot

LEMMA FoundFacts ==
  ASSUME NEW n \in Node, NEW s, Found(n, s)
  PROVE  s \in Slot /\ s \in Table(n) /\ slot[s].use /\ slot[s].key = n
<1>1. Matches(n) \in SUBSET Slot /\ Matches(n) # {} /\ s = Min(Matches(n))
  BY TableFacts DEF Found, Matches
<1>2. s \in Matches(n)
  BY <1>1, FirstSlot
<1> QED BY <1>2, TableFacts DEF Matches

-----------------------------------------------------------------------------
(* What a step of client c leaves alone.                                   *)

DscFrame(c) ==
  /\ \A d \in Client : d # c =>
       /\ pc'[d] = pc[d] /\ at'[d] = at[d] /\ on'[d] = on[d]
       /\ todo'[d] = todo[d] /\ quiet'[d] = quiet[d]
  /\ \A n \in Node : owner'[n] = owner[n] \/ {owner[n], owner'[n]} \subseteq {NoClient, c}
  /\ \A n \in Node : Usable(n) => Usable(n)' \/ Unregister(c, n)
  /\ \A n \in attached : n \in attached' \/ (pc[c] = "destroy" /\ n = on[c])

LEMMA FrameOf ==
  ASSUME IInv, NEW c \in Client, ClientStep(c) \/ UNCHANGED vars
  PROVE  DscFrame(c)
<1>0. TypeOK /\ FlushInLineage(c) /\ ClientInv(c) /\ on[c] \in Node /\ c # NoClient
  BY DscAssumption DEF IInv, ClientInv, TypeOK
<1> USE <1>0
<1>1. CASE UNCHANGED vars
  BY <1>1 DEF vars, DscFrame, Usable
<1>2. CASE Stops(c)
  <2>1. PICK n \in Node, S \in SUBSET Node : StopsAt(c, n, S)
    BY <1>2, StopsSomewhere
  <2>2. EndTrans(c, n) /\ UNCHANGED <<attached, owner, todo, on>>
    BY <2>1 DEF StopsAt, EndTrans, ctxVars
  <2>3. Goto(c, "owner", n) \/ Goto(c, "idle", Driver)
    BY <2>2 DEF EndTrans
  <2> QED BY <2>2, <2>3 DEF EndTrans, Goto, DscFrame, Usable, TypeOK
<1>3. CASE TranWait(c) \/ OpsEventWait(c) \/ WaitForOpsReturn(c) \/ OpStop(c) \/ FlushAbort(c)
  BY <1>3 DEF TranWait, OpsEventWait, WaitForOpsReturn, OpStop, FlushAbort, Goto, ctxVars,
              walkVars, DscFrame, Usable, TypeOK
<1>4. CASE ContextDetach(c)
  <2>1. owner[on[c]] = c
    BY <1>4 DEF ContextDetach, ClientInv, DestroyedIsUnused
  <2>2. Goto(c, "idle", Driver) \/ Goto(c, "trans", at[c])
    BY <1>4 DEF ContextDetach
  <2>3. \A d \in Client : d # c =>
          /\ pc'[d] = pc[d] /\ at'[d] = at[d] /\ on'[d] = on[d]
          /\ todo'[d] = todo[d] /\ quiet'[d] = quiet[d]
    BY <1>4, <2>2 DEF ContextDetach, Goto, TypeOK
  <2>4. /\ pc[c] = "destroy" /\ attached' = attached \ {on[c]}
        /\ owner' = [owner EXCEPT ![on[c]] = NoClient]
    BY <1>4 DEF ContextDetach
  <2> QED BY <2>1, <2>3, <2>4 DEF DscFrame, Usable, TypeOK
<1>5. ASSUME NEW n \in Node, ActsOn(c, n) PROVE DscFrame(c)
  <2>1. CASE StartNow(c, n) \/ StartLater(c, n) \/ OpsInsert(c, n)
    BY <2>1 DEF StartNow, StartLater, OpsInsert, Goto, ctxVars, walkVars,
                DscFrame, Usable, TypeOK
  <2>2. CASE \E K \in SUBSET Node : Visits(c, n, K)
    BY <2>2 DEF Visits, Visit, ctxVars, DscFrame, Usable, TypeOK
  <2>3. CASE ContextInit(c, n)
    <3>1. n \notin attached /\ attached' = attached \cup {n} /\ UNCHANGED <<todo, on, quiet>>
      BY <2>3 DEF ContextInit, walkVars
    <3>2. owner[n] = NoClient
      BY <3>1 DEF IInv, ClientInv, OwnedIsReached, TypeOK
    <3>3. \/ Goto(c, "owner", n) /\ owner' = [owner EXCEPT ![n] = c]
          \/ UNCHANGED <<pc, at, owner>>
      BY <2>3 DEF ContextInit
    <3> QED BY <3>1, <3>2, <3>3 DEF Goto, DscFrame, Usable, TypeOK
  <2>4. CASE ContextFlush(c, n)
    BY <2>4 DEF ContextFlush, ctxVars, DscFrame, Usable, TypeOK
  <2>5. CASE Register(c, n)
    BY <2>5 DEF Register, walkVars, DscFrame, Usable, TypeOK
  <2>6. CASE Unregister(c, n)
    <3>1. /\ owner[n] = NoClient /\ owner' = [owner EXCEPT ![n] = c]
          /\ UNCHANGED <<attached, pc, at, todo, on, quiet>>
      BY <2>6 DEF Unregister, Usable, walkVars
    <3> QED BY <2>6, <3>1 DEF DscFrame, Usable, TypeOK
  <2> QED BY <1>5, <2>1, <2>2, <2>3, <2>4, <2>5, <2>6 DEF ActsOn
<1> QED BY <1>1, <1>2, <1>3, <1>4, <1>5, ClientCases DEF Resume

\* A waiter that is started has kept the slot of its context.
GrantFrame(c) ==
  \A d \in Client : d # c /\ pc[d] = "queued" /\ tran'[d] = "triggered"
    => tran[d] = "triggered" \/ Holds(d, at[d])

LEMMA GrantsHeld ==
  ASSUME IInv, IInv', QueueHeld, NEW c \in Client, ClientStep(c) \/ UNCHANGED vars
  PROVE  GrantFrame(c)
<1>0. TypeOK /\ FlushInLineage(c) /\ ClientInv(c) /\ QueuesWait /\ DscFrame(c)
  BY FrameOf DEF IInv, ClientInv
<1> USE <1>0
<1>1. ASSUME \A d \in Client : d # c => tran'[d] \in {tran[d], "aborted"} PROVE GrantFrame(c)
  BY <1>1 DEF GrantFrame
<1>2. CASE UNCHANGED vars
  BY <1>1, <1>2 DEF vars
<1>3. CASE Stops(c)
  <2>1. PICK n \in Node, S \in SUBSET Node : StopsAt(c, n, S)
    BY <1>3, StopsSomewhere
  <2> DEFINE T == {m \in S : TransQueued(m)}
  <2>2. /\ active' = [m \in Node |-> IF m \in T THEN Head(queue[m]) ELSE TransStop(n)[m]]
        /\ tran' = [d \in Client |-> IF \E m \in T : Head(queue[m]) = d
                                     THEN "triggered" ELSE tran[d]]
        /\ pc[c] = "trans"
    BY <2>1 DEF StopsAt, TransTrigger, MayStop
  <2> HIDE DEF T
  <2>3. ASSUME NEW d \in Client, d # c, pc[d] = "queued", tran'[d] = "triggered",
               tran[d] # "triggered"
        PROVE  Holds(d, at[d])
    <3>1. PICK m \in T : Head(queue[m]) = d
      BY <2>2, <2>3
    <3>2. m \in Node /\ queue[m] # <<>> /\ queue[m] \in Seq(Client)
      BY <3>1 DEF T, TransQueued, TypeOK
    <3>3. 1 \in DOMAIN queue[m] /\ queue[m][1] = d
      BY <3>1, <3>2
    <3>4. at[d] = m
      BY <3>2, <3>3 DEF QueuesWait
    <3>5. active'[m] = d /\ d # NoClient
      BY <2>2, <3>1, <3>2, DscAssumption
    <3>6. ASSUME NEW e \in Client, pc[e] = "destroy", on[e] = m PROVE FALSE
      <4>1. e # c /\ pc'[e] = "destroy" /\ on'[e] = m
        BY <2>2, <3>6 DEF DscFrame
      <4>2. active'[m] = NoClient
        BY <4>1 DEF IInv, ClientInv, DestroyedIsUnused
      <4> QED BY <3>5, <4>2
    <3> QED BY <3>2, <3>3, <3>4, <3>6 DEF QueueHeld
  <2> QED BY <2>3 DEF GrantFrame
<1>4. CASE TranWait(c) \/ OpsEventWait(c) \/ WaitForOpsReturn(c) \/ OpStop(c) \/ ContextDetach(c)
  <2>1. \A d \in Client : d # c => tran'[d] = tran[d]
    BY <1>4 DEF TranWait, OpsEventWait, WaitForOpsReturn, OpStop, ContextDetach, transVars,
                TypeOK
  <2> QED BY <1>1, <2>1
<1>5. CASE FlushAbort(c)
  BY <1>1, <1>5 DEF FlushAbort, TransAbort, TypeOK
<1>6. ASSUME NEW n \in Node, ActsOn(c, n) PROVE GrantFrame(c)
  <2>1. \A d \in Client : d # c => tran'[d] = tran[d]
    BY <1>6 DEF ActsOn, StartNow, TransStart, StartLater, TransQueue, OpsInsert, Visits, Visit,
                ContextInit, ContextFlush, Register, Unregister, transVars, TypeOK
  <2> QED BY <1>1, <2>1
<1> QED BY <1>2, <1>3, <1>4, <1>5, <1>6, ClientCases DEF Resume

\* The tables and calls of the others are their own.
OsifFrame(c) ==
  \A d \in Client : d # c =>
    hold'[d] = hold[d] /\ down'[d] = down[d] /\ call'[d] = call[d]

\* What another client may rely on when c changes slot s.
SlotSafe(c, s) ==
  \A d \in Client : d # c =>
    /\ Private(d) /\ call[d].slot = s => slot'[s] = slot[s]
    /\ call[d].op = "found" /\ call[d].slot = s => slot'[s].key = slot[s].key
    /\ s \in down[d] => slot'[s] = slot[s]
    /\ InTransOrOp(d)' /\ hold[d] = s => slot'[s].ctx = slot[s].ctx
    /\ call[d].op = "destroy" => slot'[s].ctx # call[d].node
    /\ Private(d) /\ Private(c)' => call'[c].slot # call[d].slot

LEMMA OtherClients ==
  ASSUME IInv, OsifIInv, NEW c \in Client, DscFrame(c), GrantFrame(c),
         OsifFrame(c),
         NEW s \in Slot \cup {0}, \A t \in Slot : t # s => slot'[t] = slot[t],
         s \in Slot => SlotSafe(c, s),
         s = 0 => \A d \in Client : d # c /\ Private(d) /\ Private(c)' =>
                                      call'[c].slot # call[d].slot,
         \A n \in Node : Unregister(c, n) => s \in Slot /\ slot[s].key = n,
         NEW d \in Client, d # c
  PROVE  OsifClientInv(d)'
<1>1. /\ pc'[d] = pc[d] /\ at'[d] = at[d] /\ on'[d] = on[d]
      /\ todo'[d] = todo[d] /\ quiet'[d] = quiet[d]
      /\ hold'[d] = hold[d] /\ down'[d] = down[d] /\ call'[d] = call[d]
  BY DEF DscFrame, OsifFrame
<1>2. /\ OsifClientInv(d) /\ OsifTypes /\ d # NoClient
      /\ \A t \in Slot : SlotInv(t)
  BY DscAssumption DEF OsifIInv
<1>3. PrivateInv(d)'
  <2> SUFFICES ASSUME Private(d) PROVE PrivateInv(d)'
    BY <1>1 DEF PrivateInv, Private
  <2>1. PrivateInv(d) /\ call[d].slot \in Slot
    BY <1>2, TableFacts DEF OsifClientInv, PrivateInv
  <2>2. slot'[call[d].slot] = slot[call[d].slot]
    BY <2>1 DEF SlotSafe
  <2>3. \A e \in Client : e # d /\ Private(e)' => call'[e].slot # call'[d].slot
    BY <1>1, <2>1, TableFacts DEF PrivateInv, Private, OsifFrame, SlotSafe
  <2> QED BY <1>1, <2>1, <2>2, <2>3 DEF PrivateInv, Private
<1>4. StageInv(d)'
  <2>0. StageInv(d) /\ PrivateInv(d)
    BY <1>2 DEF OsifClientInv
  <2>1. ASSUME call[d].op = "made", Usable(call[d].node) PROVE Usable(call[d].node)'
    <3>1. /\ call[d].slot \in Slot /\ slot[call[d].slot].ctx = call[d].node
          /\ call[d].node \in Node /\ slot[call[d].slot].key = NoNode
      BY <2>0, <2>1, TableFacts DEF PrivateInv, Private
    <3>2. ASSUME Unregister(c, call[d].node) PROVE FALSE
      <4>1. s \in Slot /\ slot[s].key = call[d].node
        BY <3>1, <3>2
      <4>2. slot[s].ctx = call[d].node
        BY <1>2, <3>1, <4>1, TableFacts DEF SlotInv
      <4>3. s = call[d].slot
        BY <1>2, <3>1, <4>1, <4>2, TableFacts DEF SlotInv
      <4> QED BY <3>1, <4>1, <4>3, TableFacts
    <3> QED BY <1>1, <2>1, <3>1, <3>2 DEF DscFrame, Usable
  <2>2. ASSUME call[d].op = "destroy"
        PROVE  \A t \in Slot : slot'[t].ctx # call[d].node
    BY <2>0, <2>2 DEF StageInv, SlotSafe
  <2>3. ASSUME call[d].op = "found"
        PROVE  slot'[call[d].slot].key = slot[call[d].slot].key
    BY <2>0, <2>3 DEF StageInv, SlotSafe
  <2> QED BY <1>1, <2>0, <2>1, <2>2, <2>3 DEF StageInv, Usable
<1>5. HoldInv(d)'
  <2>0. HoldInv(d)
    BY <1>2 DEF OsifClientInv
  <2>1. ASSUME InTransOrOp(d)' PROVE Holds(d, at[d])'
    <3>1. InTransOrOp(d) \/ Holds(d, at[d])
      BY <1>1, <2>1 DEF InTransOrOp, GrantFrame, Free
    <3>2. hold[d] # 0 /\ hold[d] \in Slot /\ slot[hold[d]].ctx = at[d]
      BY <1>2, <2>0, <3>1 DEF HoldInv, Holds, OsifTypes
    <3>3. slot'[hold[d]].ctx = slot[hold[d]].ctx
      BY <2>1, <3>2 DEF SlotSafe
    <3> QED BY <1>1, <3>2, <3>3 DEF Holds
  <2> QED BY <1>1, <2>0, <2>1 DEF HoldInv, Free
<1>6. DownInv(d)'
  <2>0. DownInv(d) /\ down[d] \subseteq Slot
    BY <1>2 DEF OsifClientInv, OsifTypes
  <2>1. \A t \in down[d] : slot'[t] = slot[t]
    BY <2>0 DEF SlotSafe
  <2>2. \A n \in Node : owner[n] = d => owner'[n] = d
    BY <1>2 DEF DscFrame
  <2> QED BY <1>1, <2>0, <2>1, <2>2 DEF DownInv
<1>7. SettleInv(d)'
  BY <1>1, <1>2 DEF OsifClientInv, SettleInv
<1> QED BY <1>3, <1>4, <1>5, <1>6, <1>7 DEF OsifClientInv

\* A step of client c keeps the invariant if it changes at most slot s, hands
\* over or frees what c kept, and leaves c's own part in order.
LEMMA OsifLocal ==
  ASSUME IInv, OsifIInv, OsifTypes', NEW c \in Client, DscFrame(c), GrantFrame(c),
         OsifFrame(c),
         NEW s \in Slot \cup {0}, \A t \in Slot : t # s => slot'[t] = slot[t],
         s \in Slot => SlotSafe(c, s) /\ SlotInv(s)',
         s = 0 => \A d \in Client : d # c /\ Private(d) /\ Private(c)' =>
                                      call'[c].slot # call[d].slot,
         \A n \in Node : Unregister(c, n) => s \in Slot /\ slot[s].key = n,
         \A t \in Slot : (t = s \/ KeptBy(c, t)) /\ slot'[t].use /\ slot'[t].key = NoNode
                           => KeptBy(c, t)',
         OsifClientInv(c)'
  PROVE  OsifIInv'
<1>0. OsifTypes /\ c # NoClient
  BY DscAssumption DEF OsifIInv
<1>1. \A d \in Client : OsifClientInv(d)'
  BY OtherClients
<1>2. StayingIsUsable'
  <2>1. \A n \in Node \ Churn : Usable(n)'
    BY DEF OsifIInv, StayingIsUsable, DscFrame, Unregister
  <2> QED BY <2>1 DEF StayingIsUsable
<1>3. ASSUME NEW t \in Slot PROVE SlotInv(t)'
  <2>1. CASE t = s
    BY <2>1
  <2>2. CASE t # s
    <3>1. SlotInv(t) /\ slot'[t] = slot[t] /\ slot[t].ctx \in Node \cup {NoNode}
          /\ slot[t].key \in Node \cup {NoNode}
      BY <1>0, <2>2 DEF OsifIInv, OsifTypes
    <3>2. ASSUME slot[t].key # NoNode PROVE Usable(slot[t].key)'
      <4>1. slot[t].ctx = slot[t].key /\ Usable(slot[t].key) /\ slot[t].key \in Node
        BY <3>1, <3>2 DEF SlotInv
      <4>2. ASSUME Unregister(c, slot[t].key) PROVE FALSE
        <5>1. s \in Slot /\ slot[s].key = slot[t].key
          BY <4>1, <4>2
        <5>2. slot[s].ctx = slot[t].ctx /\ slot[t].ctx # NoNode
          BY <3>2, <4>1, <5>1 DEF OsifIInv, SlotInv
        <5> QED BY <2>2, <3>1, <5>1, <5>2 DEF SlotInv
      <4>3. slot[t].key \in attached' /\ owner'[slot[t].key] = NoClient
        BY <4>1, <4>2 DEF DscFrame, Usable
      <4> QED BY <3>1, <4>3 DEF Usable
    <3>3. ASSUME slot[t].ctx # NoNode PROVE slot[t].ctx \in attached'
      <4>1. slot[t].ctx \in attached
        BY <3>1, <3>3 DEF SlotInv
      <4>2. ASSUME pc[c] = "destroy", slot[t].ctx = on[c] PROVE FALSE
        BY <4>2 DEF OsifIInv, OsifClientInv, StageInv
      <4> QED BY <4>1, <4>2 DEF DscFrame
    <3>4. ASSUME slot[t].ctx # NoNode, NEW u \in Slot, slot'[u].ctx = slot[t].ctx
          PROVE  u = t
      <4>1. CASE u = s
        <5>1. slot'[t].ctx = slot'[s].ctx /\ slot'[s].ctx # NoNode
          BY <3>1, <3>4, <4>1
        <5> QED BY <4>1, <5>1 DEF SlotInv
      <4>2. CASE u # s
        BY <3>1, <3>4, <4>2 DEF SlotInv
      <4> QED BY <4>1, <4>2
    <3> QED BY <3>1, <3>2, <3>3, <3>4 DEF SlotInv, Usable
  <2> QED BY <2>1, <2>2
<1>4. ASSUME NEW t \in Slot PROVE SlotKept(t)'
  <2> SUFFICES ASSUME slot'[t].use, slot'[t].key = NoNode, t # s, ~KeptBy(c, t)
               PROVE  \E d \in Client : KeptBy(d, t)'
    BY DEF SlotKept
  <2>1. slot'[t] = slot[t]
    OBVIOUS
  <2>2. PICK d \in Client : d # c /\ KeptBy(d, t)
    BY <2>1 DEF OsifIInv, SlotKept
  <2>3. d # NoClient
    BY DscAssumption
  <2>4. KeptBy(d, t)'
    BY <2>1, <2>2, <2>3 DEF KeptBy, Private, OwnsSlot, OsifFrame, DscFrame
  <2> QED BY <2>4
<1> QED BY <1>1, <1>2, <1>3, <1>4 DEF OsifIInv

\* The same for a step that leaves the tables alone.
LEMMA OsifLocalCall ==
  ASSUME IInv, OsifIInv, OsifTypes', NEW c \in Client, DscFrame(c), GrantFrame(c),
         OsifFrame(c),
         UNCHANGED slot, UNCHANGED owner,
         Private(c)' => Private(c) /\ call'[c].slot = call[c].slot,
         \A t \in Slot : KeptBy(c, t) /\ slot[t].use /\ slot[t].key = NoNode
                           => KeptBy(c, t)',
         OsifClientInv(c)'
  PROVE  OsifIInv'
<1>1. \A d \in Client : d # c /\ Private(d) /\ Private(c)' => call'[c].slot # call[d].slot
  BY DEF OsifIInv, OsifClientInv, PrivateInv
<1>2. \A n \in Node : ~Unregister(c, n)
  BY DscAssumption DEF Unregister, Usable, IInv, TypeOK
<1>3. 0 \in Slot \cup {0} /\ 0 \notin Slot
  BY TableFacts
<1>4. \A t \in Slot : (t = 0 \/ KeptBy(c, t)) /\ slot'[t].use /\ slot'[t].key = NoNode
                        => KeptBy(c, t)'
  BY <1>3
<1> QED BY <1>1, <1>2, <1>3, <1>4, OsifLocal

-----------------------------------------------------------------------------
(* The steps of the registry by what they do.                              *)

Creates(c, n) == Got(c, n) /\ ContextInit(c, n) /\ SyncCreated(c, n)

Orphans(c, n) == Got(c, n) /\ SyncOrphaned(c, n)

Opens(c, n) == Made(c, n) /\ StartNow(c, n) /\ SyncOpened(c)

Destroys(c, s, n) ==
  /\ (Made(c, n) /\ s = call[c].slot) \/ Owned(c, s, n)
  /\ ContextFlush(c, n) /\ SyncDestroying(c, s, n)

\* A client enters a transition or an operation on a context it has found.
Enters(c, s, n) ==
  /\ pc[c] = "idle" /\ slot[s].key = n /\ call[c].op \in {"none", "found"}
  /\ Take(c, s) /\ UNCHANGED <<slot, down>>
  /\ \/ OpsInsert(c, n) /\ UNCHANGED call /\ Free(c)
     \/ /\ StartNow(c, n) \/ StartLater(c, n)
        /\ \/ UNCHANGED call /\ Free(c)
           \/ Return(c)
           \/ n \in Vdevs /\ Continue(c, "settle", s, n)

Refuses(c) == call[c].op = "found" /\ SyncRefused(c)

SyncStops(c, n) == Holds(c, n) /\ MayStop(c, n) /\ EndTrans(c, n) /\ Release(c, n)

\* A visit of a flush; the start of a vdev transition visits the vdev, then
\* its psoc, then the driver.
SyncVisits(c, n, K) ==
  /\ Visit(c, n, K) /\ pc[c] \in {"trans", "flush"} /\ UNCHANGED osifVars
  /\ pc[c] = "trans" => Free(c) \/ call[c].op = "settle"
  /\ call[c].op = "settle" =>
       \/ n = at[c] /\ K = {} /\ n \notin quiet[c] /\ pc[c] = "trans"
       \/ n = PsocOf[at[c]] /\ K = {Driver} /\ pc[c] = "trans"
          /\ at[c] \in quiet[c] /\ n \notin quiet[c]
       \/ n = Driver /\ K = {} /\ pc[c] = "flush" /\ Driver \in todo[c]
          /\ at[c] \in quiet[c]

SyncCallsOn(c, n) ==
  \/ SyncGet(c, n) \/ Creates(c, n) \/ Orphans(c, n) \/ Opens(c, n)
  \/ \E s \in Slot : Destroys(c, s, n) \/ Enters(c, s, n)
  \/ SyncRegister(c, n) \/ SyncWaitLookup(c, n) \/ SyncStops(c, n)
  \/ \E K \in SUBSET Node : SyncVisits(c, n, K)

SyncActsOn(c, n) ==
  \/ SyncGet(c, n) \/ Creates(c, n) \/ Orphans(c, n) \/ Opens(c, n)
  \/ \E s \in Slot : Destroys(c, s, n) \/ Enters(c, s, n)
  \/ SyncRegister(c, n) \/ SyncUnregister(c, n)
  \/ SyncWaitLookup(c, n) \/ SyncStops(c, n)
  \/ \E K \in SUBSET Node : SyncVisits(c, n, K)

SyncResume(c) ==
  \/ Refuses(c) \/ SyncOpStop(c) \/ SyncPut(c) \/ SyncAbort(c) \/ SyncDetach(c)
  \/ SyncTranWait(c) \/ SyncWaitForOpsReturn(c) \/ SyncOpsEventWait(c)

\* A registered context is usable, and it is the context of its slot.
LEMMA FoundIsUsable ==
  ASSUME OsifIInv, NEW n \in Node, NEW s, s \in Slot, slot[s].key = n
  PROVE  slot[s].ctx = n /\ Usable(n)
  BY TableFacts DEF OsifIInv, SlotInv

\* A start_wait finds the context it has looked up.
LEMMA WaitFacts ==
  ASSUME OsifIInv, NEW c \in Client, NEW n \in Node, SyncWaits(c, n)
  PROVE  /\ pc[c] = "idle" /\ Usable(n) /\ MayCall(c, n) /\ call[c].slot \in Slot
         /\ slot[call[c].slot].key = n /\ slot[call[c].slot].ctx = n /\ n \in WaitNodes
<1>1. /\ pc[c] = "idle" /\ n \in WaitNodes
      /\ call[c].slot \in Slot /\ slot[call[c].slot].key = n
  BY DEF OsifIInv, OsifClientInv, StageInv, SyncWaits
<1> QED BY <1>1, FoundIsUsable DEF MayCall

LEMMA UnregisterFacts ==
  ASSUME OsifIInv, NEW c \in Client, NEW n \in Node, SyncUnregister(c, n)
  PROVE  Unregister(c, n)
<1>1. PICK s \in Slot : Found(n, s) /\ Unregister(c, slot[s].ctx)
  BY DEF SyncUnregister
<1> QED BY <1>1, FoundFacts, FoundIsUsable

\* Without its tables, a step of the registry is a step of DSC or none.
LEMMA SyncCallIsDsc ==
  ASSUME OsifIInv, NEW c \in Client, SyncCall(c)
  PROVE  ClientCall(c) \/ UNCHANGED vars
<1> USE UpFacts
<1>1. ASSUME NEW n \in Node, SyncGet(c, n) \/ SyncRegister(c, n)
      PROVE  ClientCall(c) \/ UNCHANGED vars
  BY <1>1 DEF SyncGet, SyncRegister, ClientCall
<1>2. ASSUME DriverSyncCall(c) PROVE ClientCall(c) \/ UNCHANGED vars
  <2>1. CASE DriverSyncGet(c) \/ DriverSyncRegister(c)
    BY <1>1, <2>1 DEF DriverSyncGet, DriverSyncRegister
  <2>2. CASE DriverSyncTransStartWait(c)
    BY <2>2, WaitFacts
       DEF DriverSyncTransStartWait, SyncRefused, DriverTransStartWait, DriverCall, ClientCall
  <2>3. CASE \/ DriverSyncCreate(c) \/ DriverSyncCreateAndTrans(c) \/ DriverSyncDestroy(c)
             \/ DriverSyncTransStart(c) \/ DriverSyncTransStop(c) \/ DriverSyncOpStart(c)
             \/ DriverSyncWaitForOps(c)
    BY <2>3 DEF DriverSyncCreate, DriverSyncCreateAndTrans, DriverSyncDestroy,
                DriverSyncTransStart, DriverSyncTransStop, DriverSyncOpStart,
                DriverSyncWaitForOps, DriverCall, ClientCall
  <2>4. CASE DriverSyncOpStop(c)
    BY <2>4 DEF DriverSyncOpStop, SyncOpStop, Resume, ClientCall
  <2> QED BY <1>2, <2>1, <2>2, <2>3, <2>4 DEF DriverSyncCall
<1>3. ASSUME NEW p \in Psocs, PsocSyncCall(c, p) PROVE ClientCall(c) \/ UNCHANGED vars
  <2>1. CASE PsocSyncGet(c, p) \/ PsocSyncRegister(c, p)
    BY <1>1, <2>1 DEF PsocSyncGet, PsocSyncRegister
  <2>2. CASE PsocSyncTransStartWait(c, p)
    <3>1. PsocTransStartWait(c, p) \/ UNCHANGED vars
      BY <2>2, WaitFacts DEF PsocSyncTransStartWait, SyncRefused, PsocTransStartWait
    <3> QED BY <3>1 DEF PsocCall, ClientCall
  <2>3. CASE \/ PsocSyncCreate(c, p) \/ PsocSyncCreateAndTrans(c, p) \/ PsocSyncDestroy(c, p)
             \/ PsocSyncTransStart(c, p) \/ PsocSyncTransStop(c, p) \/ PsocSyncOpStart(c, p)
             \/ PsocSyncWaitForOps(c, p)
    BY <2>3 DEF PsocSyncCreate, PsocSyncCreateAndTrans, PsocSyncDestroy, SyncOrphaned,
                PsocSyncTransStart, PsocSyncTransStop, PsocSyncOpStart,
                PsocSyncWaitForOps, PsocCall, ClientCall
  <2>4. CASE PsocSyncOpStop(c, p)
    BY <2>4 DEF PsocSyncOpStop, SyncOpStop, Resume, ClientCall
  <2> QED BY <1>3, <2>1, <2>2, <2>3, <2>4 DEF PsocSyncCall
<1>4. ASSUME NEW v \in Vdevs, VdevSyncCall(c, v) PROVE ClientCall(c) \/ UNCHANGED vars
  <2>1. CASE VdevSyncGet(c, v) \/ VdevSyncRegister(c, v)
    BY <1>1, <2>1 DEF VdevSyncGet, VdevSyncRegister
  <2>2. CASE VdevSyncTransStartWait(c, v)
    <3>1. VdevTransStartWait(c, v) \/ UNCHANGED vars
      BY <2>2, WaitFacts DEF VdevSyncTransStartWait, SyncRefused, VdevTransStartWait
    <3> QED BY <3>1 DEF VdevCall, ClientCall
  <2>3. CASE \/ VdevSyncCreate(c, v) \/ VdevSyncCreateAndTrans(c, v) \/ VdevSyncDestroy(c, v)
             \/ VdevSyncTransStart(c, v) \/ VdevSyncTransStop(c, v) \/ VdevSyncOpStart(c, v)
             \/ VdevSyncWaitForOps(c, v) \/ VdevSyncWaitForUptreeOps(c, v)
    BY <2>3 DEF VdevSyncCreate, VdevSyncCreateAndTrans, VdevSyncDestroy, SyncOrphaned,
                VdevSyncTransStart, VdevSyncTransStop, VdevSyncOpStart, VdevSyncWaitForOps,
                VdevSyncWaitForUptreeOps, VdevCall, ClientCall
  <2>4. CASE VdevSyncOpStop(c, v)
    BY <2>4 DEF VdevSyncOpStop, SyncOpStop, Resume, ClientCall
  <2> QED BY <1>4, <2>1, <2>2, <2>3, <2>4 DEF VdevSyncCall
<1>5. CASE \/ \E n \in Node : SyncWaitLookup(c, n)
           \/ SyncPut(c) \/ SyncAbort(c) \/ SyncDetach(c) \/ SyncTranWait(c)
           \/ SyncWaitForOpsReturn(c) \/ SyncOpsEventWait(c)
  BY <1>5 DEF SyncWaitLookup, SyncPut, SyncAbort, SyncDetach, SyncTranWait, SyncWaitForOpsReturn,
              SyncOpsEventWait, Resume, ClientCall
<1> QED BY <1>2, <1>3, <1>4, <1>5 DEF SyncCall

LEMMA UnregistersOn ==
  ASSUME NEW c \in Client,
         \/ DriverSyncUnregister(c)
         \/ \E p \in Psocs : PsocSyncUnregister(c, p)
         \/ \E v \in Vdevs : VdevSyncUnregister(c, v)
  PROVE  \E n \in Node : SyncUnregister(c, n)
  BY UpFacts DEF DriverSyncUnregister, PsocSyncUnregister, VdevSyncUnregister

LEMMA SyncIsDsc ==
  ASSUME OsifIInv, NEW c \in Client, SyncStep(c)
  PROVE  ClientStep(c) \/ UNCHANGED vars
  BY SyncCallIsDsc, UnregistersOn, UnregisterFacts DEF SyncStep, ClientStep

LEMMA EntersFacts ==
  ASSUME OsifIInv, NEW c \in Client, NEW n \in Node, NEW s, Found(n, s),
         Free(c), pc[c] = "idle", Take(c, s), UNCHANGED <<slot, down>>,
         \/ OpsInsert(c, n) /\ UNCHANGED call
         \/ StartNow(c, n) /\ UNCHANGED call
         \/ StartNow(c, n) /\ n \in Vdevs /\ Continue(c, "settle", s, n)
  PROVE  \E t \in Slot : Enters(c, t, n)
<1>1. s \in Slot /\ slot[s].key = n
  BY FoundFacts
<1>2. Enters(c, s, n)
  BY <1>1 DEF Enters, Free
<1> QED BY <1>1, <1>2

LEMMA WaitEnters ==
  ASSUME OsifIInv, NEW c \in Client, NEW n \in Node, SyncWaits(c, n),
         StartNow(c, n) \/ StartLater(c, n), Take(c, call[c].slot),
         UNCHANGED <<slot, down>>,
         Return(c) \/ (n \in Vdevs /\ Continue(c, "settle", call[c].slot, n))
  PROVE  \E t \in Slot : Enters(c, t, n)
<1>1. Enters(c, call[c].slot, n)
  BY WaitFacts DEF Enters, SyncWaits
<1> QED BY <1>1, WaitFacts

LEMMA SyncCallCases ==
  ASSUME IInv, OsifIInv, NEW c \in Client, SyncCall(c)
  PROVE  SyncResume(c) \/ \E n \in Node : SyncCallsOn(c, n)
<1> USE UpFacts
<1> DEFINE Goal == SyncResume(c) \/ \E n \in Node : SyncCallsOn(c, n)
<1>0. /\ TypeOK /\ FlushInLineage(c) /\ OsifTypes /\ HoldInv(c) /\ StageInv(c) /\ SettleInv(c)
      /\ at[c] \in Node
  BY DEF IInv, ClientInv, OsifIInv, OsifClientInv, TypeOK
<1>1. ASSUME NEW n \in Node, \E s \in Slot : Enters(c, s, n) PROVE Goal
  BY <1>1 DEF SyncCallsOn
<1>2. ASSUME NEW n \in Node, NEW K \in SUBSET Node, SyncVisits(c, n, K) PROVE Goal
  BY <1>2 DEF SyncCallsOn
<1>3. ASSUME NEW n \in Node,
             \/ SyncGet(c, n) \/ Creates(c, n) \/ Orphans(c, n) \/ Opens(c, n)
             \/ \E s \in Slot : Destroys(c, s, n)
             \/ SyncRegister(c, n) \/ SyncWaitLookup(c, n)
             \/ SyncStops(c, n)
      PROVE  Goal
  BY <1>3 DEF SyncCallsOn
<1>4. ASSUME SyncResume(c) PROVE Goal
  BY <1>4
<1> HIDE DEF Goal
<1>5. ASSUME call[c].op = "made", pc[c] = "owner" PROVE call[c].slot \in Slot
  BY <1>0, <1>5, TableFacts DEF OsifIInv, OsifClientInv, PrivateInv, Private
<1>6. ASSUME DriverSyncCall(c) PROVE Goal
  <2>1. CASE \/ DriverSyncGet(c) \/ DriverSyncRegister(c)
             \/ DriverSyncCreate(c) \/ DriverSyncTransStop(c)
    BY <1>3, <2>1 DEF DriverSyncGet, DriverSyncRegister,
       DriverSyncCreate, DriverCreate, Creates, DriverSyncTransStop, DriverTransStop, SyncStops
  <2>2. CASE DriverSyncCreateAndTrans(c)
    BY <1>3, <2>2 DEF DriverSyncCreateAndTrans, DriverTransStart, Opens
  <2>3. CASE DriverSyncDestroy(c)
    BY <1>3, <2>3 DEF DriverSyncDestroy, DriverDestroy, Destroys
  <2>4. CASE DriverSyncTransStart(c) \/ DriverSyncOpStart(c)
    <3>1. PICK s \in Slot :
            /\ Found(Driver, s) /\ Free(c) /\ pc[c] = "idle" /\ Take(c, s)
            /\ OpsInsert(c, Driver) \/ StartNow(c, Driver)
            /\ UNCHANGED <<slot, down, call>>
      BY <2>4 DEF DriverSyncTransStart, DriverSyncOpStart, DriverSyncStart,
                  DriverSyncLookup, DriverTransStart, DriverOpStart
    <3>2. \E t \in Slot : Enters(c, t, Driver)
      BY <3>1, EntersFacts
    <3> QED BY <1>1, <3>2
  <2>5. CASE DriverSyncTransStartWait(c)
    <3>1. CASE SyncRefused(c)
      BY <1>4, <2>5, <3>1 DEF DriverSyncTransStartWait, SyncWaits, Refuses, SyncResume
    <3>2. CASE ~SyncRefused(c)
      <4>1. /\ SyncWaits(c, Driver) /\ (StartNow(c, Driver) \/ StartLater(c, Driver))
            /\ Take(c, call[c].slot) /\ Return(c) /\ UNCHANGED <<slot, down>>
        BY <2>5, <3>2 DEF DriverSyncTransStartWait
      <4>2. \E t \in Slot : Enters(c, t, Driver)
        BY <4>1, WaitEnters
      <4> QED BY <1>1, <4>2
    <3> QED BY <3>1, <3>2
  <2>6. CASE DriverSyncOpStop(c)
    BY <1>4, <2>6 DEF DriverSyncOpStop, SyncResume
  <2>7. CASE DriverSyncWaitForOps(c)
    <3>1. SyncVisits(c, Driver, Psocs \cap attached)
      BY <1>0, <2>7, DscAssumption
         DEF DriverSyncWaitForOps, DriverWaitForOps, Flushable, Flushes, Arrives, SyncVisits, StageInv
    <3>2. Psocs \cap attached \in SUBSET Node
      OBVIOUS
    <3> QED BY <1>2, <3>1, <3>2
  <2> QED BY <1>6, <2>1, <2>2, <2>3, <2>4, <2>5, <2>6, <2>7 DEF DriverSyncCall
<1>7. ASSUME NEW p \in Psocs, PsocSyncCall(c, p) PROVE Goal
  <2>1. CASE PsocSyncGet(c, p) \/ PsocSyncRegister(c, p)
    BY <1>3, <2>1 DEF PsocSyncGet, PsocSyncRegister
  <2>2. CASE PsocSyncCreate(c, p)
    BY <1>3, <2>2 DEF PsocSyncCreate, PsocCreate, Creates, Orphans
  <2>3. CASE PsocSyncCreateAndTrans(c, p)
    <3>1. call[c].slot \in Slot
      BY <1>5, <2>3 DEF PsocSyncCreateAndTrans, Made
    <3>2. Opens(c, p) \/ Destroys(c, call[c].slot, p)
      BY <2>3 DEF PsocSyncCreateAndTrans, PsocTransStart, PsocDestroy, Opens, Destroys
    <3> QED BY <1>3, <3>1, <3>2
  <2>4. CASE PsocSyncDestroy(c, p)
    BY <1>3, <2>4 DEF PsocSyncDestroy, PsocDestroy, Destroys
  <2>5. CASE PsocSyncTransStart(c, p) \/ PsocSyncOpStart(c, p)
    <3>1. PICK s \in Slot :
            /\ Found(p, s) /\ Free(c) /\ pc[c] = "idle" /\ Take(c, s)
            /\ OpsInsert(c, p) \/ StartNow(c, p)
            /\ UNCHANGED <<slot, down, call>>
      BY <2>5 DEF PsocSyncTransStart, PsocSyncOpStart, PsocSyncStart,
                  PsocSyncLookup, PsocTransStart, PsocOpStart
    <3>2. \E t \in Slot : Enters(c, t, p)
      BY <3>1, EntersFacts
    <3> QED BY <1>1, <3>2
  <2>6. CASE PsocSyncTransStartWait(c, p)
    <3>1. CASE SyncRefused(c)
      BY <1>4, <2>6, <3>1 DEF PsocSyncTransStartWait, SyncWaits, Refuses, SyncResume
    <3>2. CASE ~SyncRefused(c)
      <4>1. /\ SyncWaits(c, p) /\ (StartNow(c, p) \/ StartLater(c, p))
            /\ Take(c, call[c].slot) /\ Return(c) /\ UNCHANGED <<slot, down>>
        BY <2>6, <3>2, WaitFacts DEF PsocSyncTransStartWait
      <4>2. \E t \in Slot : Enters(c, t, p)
        BY <4>1, WaitEnters
      <4> QED BY <1>1, <4>2
    <3> QED BY <3>1, <3>2
  <2>7. CASE PsocSyncTransStop(c, p)
    <3>1. MayStop(c, PsocStopped(p)) /\ EndTrans(c, PsocStopped(p))
          /\ Holds(c, p) /\ Release(c, p)
      BY <2>7 DEF PsocSyncTransStop, PsocTransStop
    <3>2. Holds(c, at[c]) /\ at[c] = PsocStopped(p)
      BY <1>0, <3>1 DEF MayStop, HoldInv, InTransOrOp
    <3>3. PsocStopped(p) = p
      BY <3>1, <3>2 DEF Holds
    <3>4. SyncStops(c, p)
      BY <3>1, <3>3 DEF SyncStops
    <3> QED BY <1>3, <3>4
  <2>8. CASE PsocSyncOpStop(c, p)
    BY <1>4, <2>8 DEF PsocSyncOpStop, SyncResume
  <2>9. CASE PsocSyncWaitForOps(c, p)
    <3>1. SyncVisits(c, p, VdevsOf(p) \cap attached)
      BY <1>0, <2>9
         DEF PsocSyncWaitForOps, PsocWaitForOps, Flushable, Flushes, Arrives, SyncVisits, StageInv
    <3>2. VdevsOf(p) \cap attached \in SUBSET Node
      BY DEF VdevsOf
    <3> QED BY <1>2, <3>1, <3>2
  <2> QED BY <1>7, <2>1, <2>2, <2>3, <2>4, <2>5, <2>6, <2>7, <2>8, <2>9 DEF PsocSyncCall
<1>8. ASSUME NEW v \in Vdevs, VdevSyncCall(c, v) PROVE Goal
  <2>1. CASE VdevSyncGet(c, v) \/ VdevSyncRegister(c, v)
    BY <1>3, <2>1 DEF VdevSyncGet, VdevSyncRegister
  <2>2. CASE VdevSyncCreate(c, v)
    BY <1>3, <2>2 DEF VdevSyncCreate, VdevCreate, Creates, Orphans
  <2>3. CASE VdevSyncCreateAndTrans(c, v)
    <3>1. call[c].slot \in Slot
      BY <1>5, <2>3 DEF VdevSyncCreateAndTrans, Made
    <3>2. Opens(c, v) \/ Destroys(c, call[c].slot, v)
      BY <2>3 DEF VdevSyncCreateAndTrans, VdevTransStart, VdevDestroy, Opens, Destroys
    <3> QED BY <1>3, <3>1, <3>2
  <2>4. CASE VdevSyncDestroy(c, v)
    BY <1>3, <2>4 DEF VdevSyncDestroy, VdevDestroy, Destroys
  <2>5. CASE VdevSyncTransStart(c, v) \/ VdevSyncOpStart(c, v)
    <3>1. PICK s \in Slot :
            /\ Found(v, s) /\ Free(c) /\ pc[c] = "idle" /\ Take(c, s)
            /\ \/ OpsInsert(c, v) /\ UNCHANGED call
               \/ StartNow(c, v) /\ Continue(c, "settle", s, v)
            /\ UNCHANGED <<slot, down>>
      BY <2>5 DEF VdevSyncTransStart, VdevSyncOpStart, VdevSyncStart,
                  VdevSyncLookup, VdevTransStart, VdevOpStart
    <3>2. \E t \in Slot : Enters(c, t, v)
      BY <3>1, EntersFacts
    <3> QED BY <1>1, <3>2
  <2>6. CASE VdevSyncTransStartWait(c, v)
    <3>1. CASE SyncRefused(c)
      BY <1>4, <2>6, <3>1 DEF VdevSyncTransStartWait, SyncWaits, Refuses, SyncResume
    <3>2. CASE ~SyncRefused(c)
      <4>1. /\ SyncWaits(c, v) /\ (StartNow(c, v) \/ StartLater(c, v))
            /\ Take(c, call[c].slot) /\ Continue(c, "settle", call[c].slot, v)
            /\ UNCHANGED <<slot, down>>
        BY <2>6, <3>2, WaitFacts DEF VdevSyncTransStartWait
      <4>2. \E t \in Slot : Enters(c, t, v)
        BY <4>1, WaitEnters
      <4> QED BY <1>1, <4>2
    <3> QED BY <3>1, <3>2
  <2>7. CASE VdevSyncTransStop(c, v)
    BY <1>3, <2>7 DEF VdevSyncTransStop, VdevTransStop, SyncStops
  <2>8. CASE VdevSyncOpStop(c, v)
    BY <1>4, <2>8 DEF VdevSyncOpStop, SyncResume
  <2>9. CASE VdevSyncWaitForOps(c, v)
    <3>1. Flushes(c, v) /\ Visit(c, v, {}) /\ UNCHANGED osifVars
          /\ (Flushable(c, v) \/ call[c].op = "settle")
      BY <2>9 DEF VdevSyncWaitForOps, VdevWaitForOps
    <3>2. pc[c] \in {"trans", "flush"} /\ (pc[c] = "trans" => Free(c) \/ call[c].op = "settle")
      BY <3>1 DEF Flushes, Arrives, Flushable
    <3>3. ASSUME call[c].op = "settle" PROVE v = at[c] /\ v \notin quiet[c] /\ pc[c] = "trans"
      <4>1. at[c] \in Vdevs /\ v \notin todo[c]
        BY <1>0, <3>3, DscAssumption DEF StageInv, SettleInv
      <4>2. at[c] \notin Up(v)
        BY <4>1, DscAssumption
      <4> QED BY <3>1, <4>1, <4>2 DEF Flushes, Arrives
    <3>4. SyncVisits(c, v, {})
      BY <3>1, <3>2, <3>3 DEF SyncVisits
    <3> QED BY <1>2, <3>4
  <2>10. CASE VdevSyncWaitForUptreeOps(c, v)
    <3>1. /\ call[c].op = "settle" /\ v \in quiet[c] /\ at[c] = v /\ UNCHANGED osifVars
          /\ \/ pc[c] = "trans" /\ PsocOf[v] \notin quiet[c] /\ Visit(c, PsocOf[v], {Driver})
             \/ pc[c] = "flush" /\ Driver \in todo[c] /\ Visit(c, Driver, {})
      BY <2>10 DEF VdevSyncWaitForUptreeOps, VdevWaitForUptreeOps, Arrives
    <3>2. SyncVisits(c, PsocOf[v], {Driver}) \/ SyncVisits(c, Driver, {})
      BY <3>1 DEF SyncVisits
    <3> QED BY <1>2, <3>2
  <2> QED BY <1>8, <2>1, <2>2, <2>3, <2>4, <2>5, <2>6, <2>7, <2>8, <2>9, <2>10
         DEF VdevSyncCall
<1>9. ASSUME \/ \E n \in Node : SyncWaitLookup(c, n)
             \/ SyncPut(c) \/ SyncAbort(c) \/ SyncDetach(c) \/ SyncTranWait(c)
             \/ SyncWaitForOpsReturn(c) \/ SyncOpsEventWait(c)
      PROVE  Goal
  BY <1>3, <1>4, <1>9 DEF SyncResume
<1>10. Goal
  BY <1>6, <1>7, <1>8, <1>9 DEF SyncCall
<1> QED BY <1>10 DEF Goal

LEMMA SyncCases ==
  ASSUME IInv, OsifIInv, NEW c \in Client, SyncStep(c)
  PROVE  SyncResume(c) \/ \E n \in Node : SyncActsOn(c, n)
<1>1. ASSUME NEW n \in Node, SyncCallsOn(c, n) \/ SyncUnregister(c, n) PROVE SyncActsOn(c, n)
  BY <1>1 DEF SyncCallsOn, SyncActsOn
<1> QED BY <1>1, SyncCallCases, UnregistersOn DEF SyncStep

-----------------------------------------------------------------------------
(* Every step keeps the invariant: first those that leave the tables alone. *)

\* The client's own part of the two invariants.
Own(c) ==
  /\ OsifTypes /\ TypeOK /\ c # NoClient
  /\ PrivateInv(c) /\ StageInv(c) /\ HoldInv(c) /\ DownInv(c) /\ SettleInv(c)
  /\ ClientInv(c)
  /\ pc[c] \in Label /\ at[c] \in Node /\ hold[c] \in Slot \cup {0} /\ down[c] \in SUBSET Slot
  /\ call[c] \in [op : CallOp, slot : Slot \cup {0}, node : Node \cup {NoNode}]
  /\ 0 \notin Slot /\ NoNode \notin Node

LEMMA OwnPart == ASSUME IInv, OsifIInv, NEW c \in Client PROVE Own(c)
  BY DscAssumption, OsifAssumption, TableFacts
     DEF IInv, OsifIInv, OsifClientInv, Own, TypeOK, OsifTypes

\* A client that holds no transition owns and has flushed nothing.
LEMMA AtRest ==
  ASSUME NEW c \in Client, Own(c), pc[c] \in {"idle", "queued", "op"}
  PROVE  /\ todo[c] = {} /\ quiet[c] = {}
         /\ \A t \in Slot : ~OwnsSlot(c, t)
         /\ call[c].op \notin {"destroy", "put"} => down[c] = {}
<1>1. todo[c] = {} /\ quiet[c] = {}
  BY DEF Own, ClientInv, FlushInLineage
<1>2. \A n \in Node : owner[n] # c
  BY DEF Own, ClientInv, OwnedIsReached
<1> QED BY <1>1, <1>2 DEF Own, OwnsSlot, DownInv

\* A step of the registry changes the calls and slots of its client only.
LEMMA SyncFrame ==
  ASSUME IInv, OsifIInv, NEW c \in Client, SyncStep(c)
  PROVE  DscFrame(c) /\ OsifFrame(c)
<1>1. OsifTypes
  BY DEF OsifIInv
<1>2. DscFrame(c)
  BY SyncIsDsc, FrameOf
<1>3. ASSUME \/ UNCHANGED hold \/ \E x : hold' = [hold EXCEPT ![c] = x],
             \/ UNCHANGED down \/ \E x : down' = [down EXCEPT ![c] = x],
             \/ UNCHANGED call \/ \E x : call' = [call EXCEPT ![c] = x]
      PROVE  OsifFrame(c)
  BY <1>1, <1>3 DEF OsifTypes, OsifFrame
<1>4. ASSUME NEW n \in Node, SyncActsOn(c, n) PROVE OsifFrame(c)
  <2>1. CASE \E s \in Slot : Destroys(c, s, n) \/ Enters(c, s, n)
    BY <1>3, <2>1 DEF Destroys, SyncDestroying, Continue, Enters, Return, Take
  <2>2. CASE SyncRegister(c, n) \/ SyncUnregister(c, n)
    BY <1>3, <2>2 DEF SyncRegister, SyncUnregister, Return
  <2>3. CASE SyncGet(c, n) \/ SyncWaitLookup(c, n)
    BY <1>3, <2>3 DEF SyncGet, SyncWaitLookup, Continue
  <2>4. CASE Creates(c, n) \/ Orphans(c, n) \/ Opens(c, n)
    BY <1>3, <2>4 DEF Creates, Orphans, Opens, SyncCreated, SyncOrphaned,
                      SyncOpened, Continue, Return, Take
  <2>5. CASE SyncStops(c, n) \/ \E K \in SUBSET Node : SyncVisits(c, n, K)
    BY <1>3, <2>5 DEF SyncStops, Release, Take, SyncVisits, osifVars
  <2> QED BY <1>4, <2>1, <2>2, <2>3, <2>4, <2>5 DEF SyncActsOn
<1>5. CASE \/ Refuses(c) \/ SyncOpStop(c) \/ SyncOpsEventWait(c) \/ SyncAbort(c)
           \/ SyncDetach(c)
  BY <1>2, <1>3, <1>5 DEF Refuses, SyncRefused, SyncOpStop, SyncOpsEventWait, SyncAbort, SyncDetach,
                    Return, Take, Continue, osifVars
<1>6. CASE SyncPut(c)
  BY <1>2, <1>3, <1>6 DEF SyncPut, Return
<1>7. CASE SyncTranWait(c) \/ SyncWaitForOpsReturn(c)
  BY <1>2, <1>3, <1>7 DEF SyncTranWait, SyncWaitForOpsReturn, Return, Take
<1> QED BY <1>2, <1>4, <1>5, <1>6, <1>7, SyncCases DEF SyncResume

\* A queue keeps its waiters, until the destroy of its context has aborted
\* them, and gets a new one from a start.
LEMMA QueueFrame ==
  ASSUME IInv, NEW c \in Client, ClientStep(c) \/ UNCHANGED vars,
         NEW n \in Node, NEW i \in DOMAIN queue'[n]
  PROVE  \/ /\ \E j \in DOMAIN queue[n] : queue[n][j] = queue'[n][i]
            /\ pc[c] = "destroy" /\ on[c] = n => pc'[c] = "destroy" /\ on'[c] = n
         \/ StartLater(c, n) /\ queue'[n][i] = c
<1>0. TypeOK /\ FlushInLineage(c) /\ queue[n] \in Seq(Client)
  BY DEF IInv, ClientInv, TypeOK
<1> USE <1>0
<1>1. ASSUME queue'[n] = queue[n], pc[c] # "destroy" \/ UNCHANGED <<pc, on>>
      PROVE  /\ \E j \in DOMAIN queue[n] : queue[n][j] = queue'[n][i]
             /\ pc[c] = "destroy" /\ on[c] = n => pc'[c] = "destroy" /\ on'[c] = n
  BY <1>1
<1>2. ASSUME queue'[n] = Tail(queue[n]), queue[n] # <<>>,
             pc[c] # "destroy" \/ UNCHANGED <<pc, on>>
      PROVE  /\ \E j \in DOMAIN queue[n] : queue[n][j] = queue'[n][i]
             /\ pc[c] = "destroy" /\ on[c] = n => pc'[c] = "destroy" /\ on'[c] = n
  <2>1. i + 1 \in DOMAIN queue[n] /\ queue'[n][i] = queue[n][i + 1]
    BY <1>2
  <2> QED BY <1>2, <2>1
<1>3. CASE UNCHANGED vars
  BY <1>1, <1>3 DEF vars
<1>4. CASE Stops(c)
  <2>1. PICK m \in Node, S \in SUBSET Node : StopsAt(c, m, S)
    BY <1>4, StopsSomewhere
  <2>2. /\ pc[c] = "trans"
        /\ queue'[n] = queue[n] \/ (queue'[n] = Tail(queue[n]) /\ queue[n] # <<>>)
    BY <2>1 DEF StopsAt, TransTrigger, TransQueued, MayStop
  <2> QED BY <1>1, <1>2, <2>2
<1>5. CASE TranWait(c) \/ OpsEventWait(c) \/ WaitForOpsReturn(c) \/ OpStop(c)
  BY <1>1, <1>5 DEF TranWait, OpsEventWait, WaitForOpsReturn, OpStop, transVars
<1>6. CASE FlushAbort(c)
  <2>1. /\ UNCHANGED <<pc, on>>
        /\ queue'[n] = queue[n] \/ (queue'[n] = Tail(queue[n]) /\ queue[n] # <<>>)
    BY <1>6 DEF FlushAbort, TransAbort, TransQueued, walkVars, TypeOK
  <2> QED BY <1>1, <1>2, <2>1
<1>7. CASE ContextDetach(c)
  <2>1. UNCHANGED queue /\ queue[on[c]] = <<>>
    BY <1>7 DEF ContextDetach, TransQueued, transVars
  <2>2. i \in DOMAIN queue[n] /\ n # on[c]
    BY <2>1
  <2> QED BY <2>1, <2>2
<1>8. ASSUME ActsOn(c, n) \/ \E m \in Node : ActsOn(c, m)
      PROVE  \/ /\ \E j \in DOMAIN queue[n] : queue[n][j] = queue'[n][i]
                /\ pc[c] = "destroy" /\ on[c] = n => pc'[c] = "destroy" /\ on'[c] = n
             \/ StartLater(c, n) /\ queue'[n][i] = c
  <2>1. PICK m \in Node : ActsOn(c, m)
    BY <1>8
  <2>2. pc[c] # "destroy"
    BY <2>1 DEF ActsOn, MayStart, MayCall, Visits, ContextInit, ContextFlush, Register, Unregister
  <2>3. CASE StartLater(c, m)
    <3>1. queue' = [queue EXCEPT ![m] = Append(@, c)]
      BY <2>3 DEF StartLater, TransQueue
    <3>2. CASE m # n
      <4>1. queue'[n] = queue[n]
        BY <3>1, <3>2
      <4> QED BY <1>1, <2>2, <4>1
    <3>3. CASE m = n
      <4>1. queue'[n] = Append(queue[n], c)
        BY <3>1, <3>3 DEF TypeOK
      <4>2. \/ i \in DOMAIN queue[n] /\ queue'[n][i] = queue[n][i]
            \/ queue'[n][i] = c
        BY <4>1
      <4> QED BY <2>2, <2>3, <3>3, <4>2
    <3> QED BY <3>2, <3>3
  <2>4. CASE ContextInit(c, m)
    <3>1. queue' = [queue EXCEPT ![m] = <<>>]
      BY <2>4 DEF ContextInit
    <3>2. m # n
      BY <3>1 DEF TypeOK
    <3>3. queue'[n] = queue[n]
      BY <3>1, <3>2 DEF TypeOK
    <3> QED BY <1>1, <2>2, <3>3
  <2>5. CASE ~StartLater(c, m) /\ ~ContextInit(c, m)
    <3>1. UNCHANGED queue
      BY <2>1, <2>5 DEF ActsOn, StartNow, TransStart, OpsInsert, Visits, Visit, ContextFlush,
                        Register, Unregister, transVars
    <3> QED BY <1>1, <2>2, <3>1
  <2> QED BY <2>3, <2>4, <2>5
<1> QED BY <1>3, <1>4, <1>5, <1>6, <1>7, <1>8, ClientCases DEF Resume

\* A slot loses its context to the destroy of that context only; a client that
\* acts does not wait; a start that has to wait keeps its slot.
Keeps(c) ==
  /\ ~Waits(c)
  /\ \A t \in Slot : slot[t].ctx # NoNode =>
       slot'[t].ctx = slot[t].ctx \/ (pc'[c] = "destroy" /\ on'[c] = slot[t].ctx)
  /\ pc'[c] = "queued" => Holds(c, at[c])'

LEMMA SlotFrame ==
  ASSUME IInv, OsifIInv, NEW c \in Client, SyncStep(c)
  PROVE  Keeps(c)
<1>1. Own(c)
  BY OwnPart
<1>2. ASSUME UNCHANGED slot, pc[c] # "queued", pc'[c] # "queued" PROVE Keeps(c)
  BY <1>2 DEF Keeps, Waits
<1>3. CASE SyncResume(c)
  <2>1. CASE SyncPut(c)
    <3>1. call[c].slot \in Slot /\ slot[call[c].slot].ctx = NoNode
      BY <1>1, <2>1, TableFacts DEF SyncPut, Own, PrivateInv, Private
    <3>2. \A t \in Slot : t # call[c].slot => slot'[t] = slot[t]
      BY <1>1, <2>1 DEF SyncPut, Own, OsifTypes
    <3>3. pc[c] # "queued" /\ pc'[c] # "queued"
      BY <1>1, <2>1 DEF SyncPut, Own, StageInv, vars
    <3> QED BY <3>1, <3>2, <3>3 DEF Keeps, Waits
  <2>2. CASE SyncTranWait(c)
    BY <1>1, <2>2 DEF SyncTranWait, TranWait, Goto, Keeps, Waits, Own, TypeOK
  <2>3. CASE Refuses(c)
    BY <1>1, <1>2, <2>3 DEF Refuses, SyncRefused, Own, StageInv, vars
  <2>4. CASE SyncOpStop(c) \/ SyncAbort(c) \/ SyncDetach(c)
    BY <1>1, <1>2, <2>4 DEF SyncOpStop, OpStop, SyncAbort, FlushAbort, SyncDetach,
       ContextDetach, Goto, osifVars, Own, TypeOK
  <2>5. CASE SyncWaitForOpsReturn(c) \/ SyncOpsEventWait(c)
    BY <1>1, <1>2, <2>5 DEF SyncWaitForOpsReturn, WaitForOpsReturn, SyncOpsEventWait,
       OpsEventWait, osifVars, Own, TypeOK
  <2> QED BY <1>3, <2>1, <2>2, <2>3, <2>4, <2>5 DEF SyncResume
<1>4. ASSUME NEW n \in Node, SyncActsOn(c, n) PROVE Keeps(c)
  <2>1. CASE SyncGet(c, n)
    <3>1. \A t \in Slot : slot'[t].ctx = slot[t].ctx
      BY <1>1, <2>1 DEF SyncGet, Own, OsifTypes
    <3> QED BY <2>1, <3>1 DEF SyncGet, Keeps, Waits, vars
  <2>2. CASE Creates(c, n)
    <3>1. slot[call[c].slot].ctx = NoNode /\ slot' = [slot EXCEPT ![call[c].slot].ctx = n]
      BY <1>1, <2>2 DEF Creates, Got, SyncCreated, Own, PrivateInv, Private
    <3>2. \A t \in Slot : slot[t].ctx # NoNode => slot'[t].ctx = slot[t].ctx
      BY <1>1, <3>1 DEF Own, OsifTypes
    <3>3. pc[c] # "queued" /\ pc'[c] # "queued"
      BY <1>1, <2>2 DEF Creates, ContextInit, Goto, Own, TypeOK
    <3> QED BY <3>2, <3>3 DEF Keeps, Waits
  <2>3. CASE Orphans(c, n) \/ Opens(c, n)
    BY <1>1, <1>2, <2>3 DEF Orphans, Got, SyncOrphaned, Opens, Made, SyncOpened, StartNow,
       Goto, Own, StageInv, TypeOK, vars
  <2>4. ASSUME NEW s \in Slot, Destroys(c, s, n) PROVE Keeps(c)
    <3>1. slot[s].ctx = n /\ slot' = [slot EXCEPT ![s].ctx = NoNode]
      BY <2>4 DEF Destroys, Made, Owned, SyncDestroying
    <3>2. pc[c] # "queued" /\ pc'[c] = "destroy" /\ on'[c] = n
      BY <1>1, <2>4 DEF Destroys, ContextFlush, Own, TypeOK
    <3>3. \A t \in Slot : t # s => slot'[t] = slot[t]
      BY <1>1, <3>1 DEF Own, OsifTypes
    <3> QED BY <3>1, <3>2, <3>3 DEF Keeps, Waits
  <2>5. ASSUME NEW s \in Slot, Enters(c, s, n) PROVE Keeps(c)
    <3>1. slot[s].ctx = n /\ s # 0
      BY <1>1, <2>5, FoundIsUsable DEF Enters, Own
    <3>2. UNCHANGED slot /\ hold'[c] = s /\ at'[c] = n /\ pc[c] = "idle"
      BY <1>1, <2>5 DEF Enters, Take, OpsInsert, StartNow, StartLater, Goto, Own, OsifTypes,
                        TypeOK
    <3> QED BY <3>1, <3>2 DEF Keeps, Waits, Holds
  <2>6. CASE SyncRegister(c, n) \/ SyncUnregister(c, n)
    <3>1. \A t \in Slot : slot'[t].ctx = slot[t].ctx
      BY <1>1, <2>6 DEF SyncRegister, SyncUnregister, Own, OsifTypes
    <3>2. pc[c] = "trans" /\ pc'[c] = "trans"
      BY <2>6 DEF SyncRegister, Register, SyncUnregister, Unregister, vars
    <3> QED BY <3>1, <3>2 DEF Keeps, Waits
  <2>7. CASE SyncWaitLookup(c, n) \/ SyncStops(c, n)
    BY <1>1, <1>2, <2>7 DEF SyncWaitLookup, SyncStops, MayStop, EndTrans, Goto, Release, Own,
       TypeOK, vars
  <2>8. CASE \E K \in SUBSET Node : SyncVisits(c, n, K)
    BY <1>1, <1>2, <2>8 DEF SyncVisits, Visit, osifVars, Own, TypeOK
  <2> QED BY <1>4, <2>1, <2>2, <2>3, <2>4, <2>5, <2>6, <2>7, <2>8 DEF SyncActsOn
<1> QED BY <1>3, <1>4, SyncCases

LEMMA QueueHeldStep ==
  ASSUME IInv, OsifIInv, QueueHeld, NEW c \in Client, SyncStep(c)
  PROVE  QueueHeld'
<1>1. DscFrame(c) /\ OsifFrame(c) /\ Keeps(c) /\ (ClientStep(c) \/ UNCHANGED vars)
  BY SyncFrame, SlotFrame, SyncIsDsc
<1> SUFFICES ASSUME NEW n \in Node, NEW i \in DOMAIN queue'[n]
             PROVE  \/ Holds(queue[n][i], n)'
                    \/ \E d \in Client : pc'[d] = "destroy" /\ on'[d] = n
  BY DEF QueueHeld
<1>2. CASE StartLater(c, n) /\ queue'[n][i] = c
  <2>1. pc'[c] = "queued" /\ at'[c] = n
    BY <1>2 DEF StartLater, Goto, IInv, TypeOK
  <2> QED BY <1>1, <1>2, <2>1 DEF Keeps, Holds
<1>3. ASSUME NEW j \in DOMAIN queue[n], queue[n][j] = queue'[n][i],
             pc[c] = "destroy" /\ on[c] = n => pc'[c] = "destroy" /\ on'[c] = n
      PROVE  \/ Holds(queue[n][i], n)'
             \/ \E d \in Client : pc'[d] = "destroy" /\ on'[d] = n
  <2>1. PICK d \in Client : d = queue[n][j] /\ Waits(d)
    BY DEF IInv, QueuesWait, TypeOK
  <2>2. d # c /\ hold'[d] = hold[d]
    BY <1>1, <2>1 DEF Keeps, OsifFrame
  <2>3. ASSUME Holds(d, n) PROVE Holds(d, n)' \/ (pc'[c] = "destroy" /\ on'[c] = n)
    <3>1. hold[d] \in Slot /\ slot[hold[d]].ctx = n /\ n # NoNode /\ hold[d] # 0
      BY <2>3, TableFacts DEF Holds, OsifIInv, OsifTypes
    <3> QED BY <1>1, <2>2, <3>1 DEF Keeps, Holds
  <2>4. ASSUME NEW e \in Client, pc[e] = "destroy", on[e] = n
        PROVE  pc'[e] = "destroy" /\ on'[e] = n
    BY <1>1, <1>3, <2>4 DEF DscFrame
  <2>5. queue'[n][i] = d
    BY <1>3, <2>1
  <2>6. Holds(d, n) \/ \E e \in Client : pc[e] = "destroy" /\ on[e] = n
    BY <2>1 DEF QueueHeld
  <2>7. Holds(d, n)' => Holds(queue[n][i], n)'
    BY <2>5 DEF Holds
  <2> QED BY <2>3, <2>4, <2>6, <2>7
<1> QED BY <1>1, <1>2, <1>3, QueueFrame

LEMMA OsifEnters ==
  ASSUME IInv, OsifIInv, NEW c \in Client, DscFrame(c), GrantFrame(c), NEW n \in Node, NEW s \in Slot,
         Enters(c, s, n)
  PROVE  OsifIInv'
<1>1. Own(c)
  BY OwnPart
<1>2. pc[c] = "idle" /\ call[c].op \in {"none", "found"} /\ s # 0
  BY TableFacts DEF Enters
<1>3. /\ todo[c] = {} /\ quiet[c] = {} /\ down[c] = {}
      /\ \A t \in Slot : ~KeptBy(c, t)
  BY <1>1, <1>2, AtRest DEF KeptBy, Private
<1>4. slot[s].ctx = n
  BY FoundIsUsable DEF Enters
<1>5. /\ UNCHANGED <<slot, down, owner, todo, quiet>>
      /\ hold' = [hold EXCEPT ![c] = s] /\ at' = [at EXCEPT ![c] = n]
      /\ \/ pc' = [pc EXCEPT ![c] = "op"]
         \/ pc' = [pc EXCEPT ![c] = "trans"]
         \/ pc' = [pc EXCEPT ![c] = "queued"]
  BY DEF Enters, Take, OpsInsert, StartNow, StartLater, Goto, ctxVars, walkVars
<1>6. \/ UNCHANGED call /\ call[c].op = "none"
      \/ call' = [call EXCEPT ![c] = NoCall]
      \/ /\ call' = [call EXCEPT ![c] = [op |-> "settle", slot |-> s, node |-> n]]
         /\ n \in Vdevs /\ pc' # [pc EXCEPT ![c] = "op"]
  <2>1. ASSUME StartNow(c, n) \/ StartLater(c, n) PROVE pc' # [pc EXCEPT ![c] = "op"]
    BY <1>1, <2>1 DEF Own, TypeOK, StartNow, StartLater, Goto
  <2> QED BY <2>1 DEF Enters, Free, Return, Continue
<1>7. OsifTypes' /\ OsifFrame(c)
  BY <1>1, <1>5, <1>6 DEF Own, OsifTypes, OsifFrame, NoCall, CallOp
<1>8. /\ call'[c].op \in {"none", "settle"}
      /\ call'[c].op = "settle" => call'[c].node = n /\ n \in Vdevs /\ pc'[c] # "op"
      /\ pc'[c] \in {"op", "trans", "queued"} /\ at'[c] = n /\ hold'[c] = s
      /\ todo'[c] = {} /\ quiet'[c] = {} /\ down'[c] = {}
  BY <1>1, <1>3, <1>5, <1>6 DEF Own, TypeOK, OsifTypes, NoCall
<1>9. ~Private(c)'
  BY <1>8 DEF Private
<1>10. PrivateInv(c)' /\ StageInv(c)' /\ DownInv(c)' /\ SettleInv(c)'
  BY <1>8, <1>9 DEF PrivateInv, StageInv, DownInv, SettleInv
<1>11. HoldInv(c)'
  BY <1>2, <1>4, <1>5, <1>8 DEF HoldInv, InTransOrOp, Holds
<1> QED BY <1>3, <1>5, <1>7, <1>9, <1>10, <1>11, OsifLocalCall DEF OsifClientInv

LEMMA OsifStops ==
  ASSUME IInv, OsifIInv, NEW c \in Client, DscFrame(c), GrantFrame(c), NEW n \in Node, SyncStops(c, n)
  PROVE  OsifIInv'
<1>1. Own(c)
  BY OwnPart
<1>2. /\ pc[c] = "trans" /\ at[c] = n /\ Holds(c, n) /\ call[c].op = "none"
      /\ \A m \in Node \ {n} : owner[m] # c
      /\ UNCHANGED <<slot, down, call, owner, todo>>
  BY DEF SyncStops, MayStop, Release, EndTrans, Free, ctxVars
<1>3. \/ /\ owner[n] = c /\ UNCHANGED hold
         /\ pc' = [pc EXCEPT ![c] = "owner"] /\ at' = [at EXCEPT ![c] = n]
      \/ /\ owner[n] # c /\ hold' = [hold EXCEPT ![c] = 0]
         /\ pc' = [pc EXCEPT ![c] = "idle"]
  BY DEF SyncStops, EndTrans, Goto, Release, Take
<1>4. OsifTypes' /\ OsifFrame(c)
  BY <1>1, <1>2, <1>3 DEF Own, OsifTypes, OsifFrame
<1>5. \A t \in Slot : KeptBy(c, t) => KeptBy(c, t)'
  BY <1>2, <1>3 DEF KeptBy, Private, OwnsSlot
<1>6. PrivateInv(c)' /\ DownInv(c)' /\ SettleInv(c)' /\ ~Private(c)'
  BY <1>1, <1>2 DEF Own, PrivateInv, DownInv, SettleInv, Private
<1>7. StageInv(c)' /\ HoldInv(c)'
  BY <1>1, <1>2, <1>3 DEF Own, TypeOK, OsifTypes, StageInv, HoldInv, InTransOrOp, Holds, Free
<1> QED BY <1>2, <1>4, <1>5, <1>6, <1>7, OsifLocalCall DEF OsifClientInv

LEMMA OsifOpStop ==
  ASSUME IInv, OsifIInv, NEW c \in Client, DscFrame(c), GrantFrame(c), SyncOpStop(c)
  PROVE  OsifIInv'
<1>1. Own(c)
  BY OwnPart
<1>2. /\ pc[c] = "op" /\ pc' = [pc EXCEPT ![c] = "idle"] /\ hold' = [hold EXCEPT ![c] = 0]
      /\ UNCHANGED <<slot, down, call, owner>>
  BY DEF SyncOpStop, OpStop, Goto, Take, ctxVars
<1>3. call[c].op = "none"
  BY <1>1, <1>2 DEF Own, StageInv, CallOp
<1>4. OsifTypes' /\ OsifFrame(c)
  BY <1>1, <1>2 DEF Own, OsifTypes, OsifFrame
<1>5. (\A t \in Slot : ~KeptBy(c, t)) /\ down[c] = {}
  BY <1>1, <1>2, <1>3, AtRest DEF KeptBy, Private
<1>6. pc'[c] = "idle" /\ hold'[c] = 0
  BY <1>1, <1>2 DEF Own, TypeOK, OsifTypes
<1>7. /\ PrivateInv(c)' /\ DownInv(c)' /\ SettleInv(c)' /\ StageInv(c)' /\ HoldInv(c)'
      /\ ~Private(c)'
  BY <1>2, <1>3, <1>5, <1>6
     DEF PrivateInv, DownInv, SettleInv, Private, StageInv, HoldInv, InTransOrOp
<1> QED BY <1>2, <1>4, <1>5, <1>7, OsifLocalCall DEF OsifClientInv

\* The steps of a flush; what they do to the flush itself is left open.
LEMMA OsifFlush ==
  ASSUME IInv, OsifIInv, NEW c \in Client, DscFrame(c), GrantFrame(c),
         pc[c] \in {"trans", "flush", "blocked"}, call[c].op \in {"none", "settle"},
         pc'[c] \in {"trans", "flush", "blocked"}, UNCHANGED <<slot, hold, down, owner>>,
         UNCHANGED call \/ Return(c), at'[c] = at[c], SettleInv(c)'
  PROVE  OsifIInv'
<1>1. Own(c)
  BY OwnPart
<1>2. OsifTypes' /\ OsifFrame(c)
  BY <1>1 DEF Own, OsifTypes, OsifFrame, Return, NoCall, CallOp
<1>3. call'[c].op = "none" \/ call'[c] = call[c]
  BY <1>1 DEF Own, OsifTypes, Return, NoCall
<1>4. \A t \in Slot : KeptBy(c, t) => KeptBy(c, t)'
  BY DEF KeptBy, Private, OwnsSlot
<1>5. PrivateInv(c)' /\ DownInv(c)' /\ ~Private(c)'
  BY <1>1, <1>3 DEF Own, PrivateInv, DownInv, Private
<1>6. StageInv(c)' /\ HoldInv(c)'
  BY <1>1, <1>3 DEF Own, StageInv, HoldInv, InTransOrOp, Holds
<1> QED BY <1>2, <1>4, <1>5, <1>6, OsifLocalCall DEF OsifClientInv

LEMMA OsifVisits ==
  ASSUME IInv, OsifIInv, NEW c \in Client, DscFrame(c), GrantFrame(c), NEW n \in Node,
         NEW K \in SUBSET Node, SyncVisits(c, n, K)
  PROVE  OsifIInv'
<1>1. Own(c)
  BY OwnPart
<1>2. /\ pc[c] \in {"trans", "flush"} /\ call[c].op \in {"none", "settle"}
      /\ UNCHANGED <<slot, hold, down, call, owner, at>>
  BY <1>1 DEF SyncVisits, Free, Own, StageInv, CallOp, Visit, ctxVars, osifVars
<1>3. /\ todo'[c] = (todo[c] \ {n}) \cup K
      /\ \/ quiet'[c] = quiet[c] \cup {n} /\ pc'[c] = "flush"
         \/ quiet'[c] = quiet[c] /\ pc'[c] = "blocked" /\ on'[c] = n
  BY <1>1 DEF SyncVisits, Visit, Own, TypeOK
<1>4. ASSUME call[c].op = "settle" PROVE SettleInv(c)'
  <2>1. at[c] \in Vdevs /\ Up(at[c]) = {PsocOf[at[c]], Driver}
        /\ PsocOf[at[c]] # at[c] /\ PsocOf[at[c]] # Driver /\ at[c] # Driver
    BY <1>1, <1>4, UpFacts, DscAssumption DEF Own, StageInv
  <2>2. pc[c] = "trans" => todo[c] = {}
    BY <1>1 DEF Own, ClientInv, FlushInLineage
  <2>3. CASE n = at[c] /\ K = {} /\ n \notin quiet[c] /\ pc[c] = "trans"
    BY <1>1, <1>2, <1>3, <1>4, <2>1, <2>3 DEF Own, SettleInv
  <2>4. CASE /\ n = PsocOf[at[c]] /\ K = {Driver} /\ pc[c] = "trans"
             /\ at[c] \in quiet[c] /\ n \notin quiet[c]
    BY <1>1, <1>2, <1>3, <1>4, <2>1, <2>2, <2>4 DEF Own, SettleInv
  <2>5. CASE /\ n = Driver /\ K = {} /\ pc[c] = "flush" /\ Driver \in todo[c]
             /\ at[c] \in quiet[c]
    BY <1>1, <1>2, <1>3, <1>4, <2>1, <2>5 DEF Own, SettleInv
  <2> QED BY <1>4, <2>3, <2>4, <2>5 DEF SyncVisits
<1>5. SettleInv(c)'
  BY <1>2, <1>4 DEF SettleInv
<1> QED BY <1>2, <1>3, <1>5, OsifFlush

LEMMA OsifFlushReturn ==
  ASSUME IInv, OsifIInv, NEW c \in Client, DscFrame(c), GrantFrame(c),
         SyncWaitForOpsReturn(c) \/ SyncOpsEventWait(c)
  PROVE  OsifIInv'
<1>1. Own(c)
  BY OwnPart
<1>2. CASE SyncWaitForOpsReturn(c)
  <2>1. /\ pc[c] = "flush" /\ pc'[c] = "trans" /\ todo'[c] = {}
        /\ UNCHANGED <<slot, hold, down, owner, at, quiet>> /\ (UNCHANGED call \/ Return(c))
    BY <1>1, <1>2 DEF SyncWaitForOpsReturn, WaitForOpsReturn, ctxVars, Own, TypeOK
  <2>2. call[c].op \in {"none", "settle"}
    BY <1>1, <2>1 DEF Own, StageInv, CallOp
  <2>3. call'[c].op = "none" \/ call'[c] = call[c]
    BY <1>1, <2>1 DEF Own, OsifTypes, Return, NoCall
  <2>4. SettleInv(c)'
    BY <1>1, <2>1, <2>3 DEF Own, SettleInv
  <2> QED BY <2>1, <2>2, <2>4, OsifFlush
<1>3. CASE SyncOpsEventWait(c)
  <2>1. /\ pc[c] = "blocked" /\ pc'[c] = "flush" /\ quiet'[c] = quiet[c] \cup {on[c]}
        /\ UNCHANGED <<slot, hold, down, call, owner, at, todo>>
    BY <1>1, <1>3 DEF SyncOpsEventWait, OpsEventWait, osifVars, ctxVars, Own, TypeOK
  <2>2. call[c].op \in {"none", "settle"}
    BY <1>1, <2>1 DEF Own, StageInv, CallOp
  <2>3. SettleInv(c)'
    BY <1>1, <2>1, <2>2 DEF Own, SettleInv
  <2> QED BY <2>1, <2>2, <2>3, OsifFlush
<1> QED BY <1>2, <1>3

LEMMA OsifTranWait ==
  ASSUME IInv, OsifIInv, NEW c \in Client, DscFrame(c), GrantFrame(c), SyncTranWait(c)
  PROVE  OsifIInv'
<1>1. Own(c)
  BY OwnPart
<1>2. pc[c] = "queued" /\ UNCHANGED <<slot, down, owner, todo, quiet>>
  BY DEF SyncTranWait, TranWait, ctxVars, walkVars
<1>3. call[c].op \in {"none", "settle"}
  BY <1>1, <1>2 DEF Own, StageInv, CallOp
<1>4. \/ /\ pc'[c] = "idle" /\ hold'[c] = 0 /\ call'[c].op = "none"
         /\ Take(c, 0) /\ Return(c)
      \/ /\ tran[c] = "triggered"
         /\ pc'[c] = "trans" /\ at'[c] = at[c] /\ UNCHANGED <<hold, call>>
  BY <1>1 DEF SyncTranWait, TranWait, Goto, Take, Return, NoCall, Own, TypeOK, OsifTypes
<1>5. OsifTypes' /\ OsifFrame(c)
  BY <1>1, <1>2, <1>4 DEF Own, OsifTypes, OsifFrame, Take, Return, NoCall, CallOp
<1>6. /\ todo[c] = {} /\ quiet[c] = {} /\ down[c] = {}
      /\ \A t \in Slot : ~KeptBy(c, t)
  BY <1>1, <1>2, <1>3, AtRest DEF KeptBy, Private
<1>7. PrivateInv(c)' /\ DownInv(c)' /\ ~Private(c)' /\ SettleInv(c)'
  BY <1>2, <1>3, <1>4, <1>6 DEF PrivateInv, DownInv, Private, SettleInv
<1>8. StageInv(c)' /\ HoldInv(c)'
  BY <1>1, <1>2, <1>3, <1>4 DEF Own, StageInv, HoldInv, InTransOrOp, Holds
<1> QED BY <1>2, <1>5, <1>6, <1>7, <1>8, OsifLocalCall DEF OsifClientInv

LEMMA OsifLookups ==
  ASSUME IInv, OsifIInv, NEW c \in Client, DscFrame(c), GrantFrame(c),
         Refuses(c) \/ \E n \in Node : SyncWaitLookup(c, n)
  PROVE  OsifIInv'
<1>1. Own(c)
  BY OwnPart
<1>2. UNCHANGED <<vars, slot, hold, down>> /\ call[c].op \in {"none", "found"}
  BY DEF Refuses, SyncRefused, SyncWaitLookup, Free
<1>3. pc[c] = "idle"
  BY <1>1 DEF Own, StageInv, Refuses, SyncWaitLookup
<1>4. \/ call' = [call EXCEPT ![c] = NoCall]
      \/ \E n \in WaitNodes, s \in Slot :
           /\ slot[s].key = n
           /\ call' = [call EXCEPT ![c] = [op |-> "found", slot |-> s, node |-> n]]
  BY FoundFacts DEF Refuses, SyncRefused, Return, SyncWaitLookup, Continue
<1>5. WaitNodes \subseteq Node
  BY OsifAssumption
<1>6. OsifTypes' /\ OsifFrame(c)
  BY <1>1, <1>2, <1>4, <1>5 DEF Own, OsifTypes, OsifFrame, NoCall, CallOp
<1>7. \/ call'[c].op = "none"
      \/ /\ call'[c].op = "found" /\ call'[c].node \in WaitNodes
         /\ call'[c].slot \in Slot /\ slot[call'[c].slot].key = call'[c].node
  BY <1>1, <1>4 DEF Own, OsifTypes, NoCall
<1>8. (\A t \in Slot : ~KeptBy(c, t)) /\ down[c] = {} /\ hold[c] = 0
  BY <1>1, <1>2, <1>3, AtRest DEF KeptBy, Private, Own, HoldInv
<1>9. /\ PrivateInv(c)' /\ DownInv(c)' /\ SettleInv(c)' /\ StageInv(c)' /\ HoldInv(c)'
      /\ ~Private(c)'
  BY <1>2, <1>3, <1>7, <1>8
     DEF PrivateInv, DownInv, SettleInv, Private, StageInv, HoldInv, InTransOrOp, vars
<1> QED BY <1>2, <1>6, <1>8, <1>9, OsifLocalCall DEF OsifClientInv, vars

LEMMA OsifOrphans ==
  ASSUME IInv, OsifIInv, NEW c \in Client, DscFrame(c), GrantFrame(c), NEW n \in Node, Orphans(c, n)
  PROVE  OsifIInv'
<1>1. Own(c)
  BY OwnPart
<1>2. /\ call[c].op = "got" /\ call[c].node = n /\ UNCHANGED <<vars, slot, hold, down>>
      /\ call' = [call EXCEPT ![c] = [op |-> "put", slot |-> call[c].slot, node |-> n]]
  BY DEF Orphans, Got, SyncOrphaned, Continue
<1>3. OsifTypes' /\ OsifFrame(c)
  BY <1>1, <1>2 DEF Own, OsifTypes, OsifFrame, CallOp
<1>4. /\ call'[c].op = "put" /\ call'[c].slot = call[c].slot /\ call'[c].node = n
      /\ \A d \in Client : d # c => call'[d] = call[d]
  BY <1>1, <1>2 DEF Own, OsifTypes
<1>5. Private(c) /\ Private(c)'
  BY <1>2, <1>4 DEF Private
<1>6. \A t \in Slot : KeptBy(c, t) => KeptBy(c, t)'
  BY <1>2, <1>4, <1>5 DEF KeptBy, OwnsSlot, vars
<1>7. PrivateInv(c)'
  BY <1>1, <1>2, <1>4, <1>5 DEF Own, PrivateInv, Private
<1>8. StageInv(c)' /\ HoldInv(c)' /\ DownInv(c)' /\ SettleInv(c)'
  BY <1>1, <1>2, <1>4
     DEF Own, StageInv, HoldInv, InTransOrOp, Holds, Free, DownInv, SettleInv, vars
<1> QED BY <1>2, <1>3, <1>4, <1>5, <1>6, <1>7, <1>8, OsifLocalCall DEF OsifClientInv, vars

LEMMA OsifOpens ==
  ASSUME IInv, OsifIInv, NEW c \in Client, DscFrame(c), GrantFrame(c), NEW n \in Node, Opens(c, n)
  PROVE  OsifIInv'
<1>1. Own(c)
  BY OwnPart
<1>2. /\ call[c].op = "made" /\ pc[c] = "owner" /\ at[c] = n /\ slot[call[c].slot].ctx = n
      /\ UNCHANGED <<slot, down, owner>>
      /\ hold' = [hold EXCEPT ![c] = call[c].slot] /\ call' = [call EXCEPT ![c] = NoCall]
      /\ pc' = [pc EXCEPT ![c] = "trans"] /\ at' = [at EXCEPT ![c] = n]
  BY DEF Opens, Made, StartNow, Goto, SyncOpened, Take, Return, ctxVars
<1>3. call[c].slot \in Slot /\ owner[n] = c /\ hold[c] = 0
  BY <1>1, <1>2, TableFacts
     DEF Own, PrivateInv, Private, ClientInv, OwnedIdleIsUnused, OwnsIdle, HoldInv, Free
<1>4. OsifTypes' /\ OsifFrame(c)
  BY <1>1, <1>2, <1>3 DEF Own, OsifTypes, OsifFrame, NoCall, CallOp
<1>5. /\ call'[c].op = "none" /\ hold'[c] = call[c].slot /\ pc'[c] = "trans" /\ at'[c] = n
  BY <1>1, <1>2 DEF Own, TypeOK, OsifTypes, NoCall
<1>6. \A t \in Slot : KeptBy(c, t) => KeptBy(c, t)'
  BY <1>1, <1>2, <1>3, <1>5 DEF Own, KeptBy, Private, OwnsSlot
<1>7. /\ ~Private(c)' /\ PrivateInv(c)' /\ StageInv(c)' /\ HoldInv(c)' /\ DownInv(c)'
      /\ SettleInv(c)'
  BY <1>1, <1>2, <1>3, <1>5 DEF Own, Private, PrivateInv, StageInv, HoldInv,
     InTransOrOp, Holds, Free, DownInv, SettleInv
<1> QED BY <1>2, <1>4, <1>6, <1>7, OsifLocalCall DEF OsifClientInv

-----------------------------------------------------------------------------
(* The steps that change a slot.                                           *)

\* The slot of a context that c owns is no other client's.
LEMMA OwnedSlot ==
  ASSUME IInv, OsifIInv, NEW c \in Client, NEW s \in Slot, NEW n \in Node,
         slot[s].ctx = n, owner[n] = c
  PROVE  /\ slot[s].key = NoNode
         /\ \A d \in Client : d # c => /\ ~(Private(d) /\ call[d].slot = s)
                                       /\ s \notin down[d]
<1>1. c # NoClient /\ n # NoNode /\ OsifTypes
  BY DscAssumption, TableFacts DEF OsifIInv
<1>2. slot[s].key = NoNode
  BY <1>1 DEF OsifIInv, SlotInv, Usable
<1>3. ASSUME NEW d \in Client, d # c, Private(d), call[d].slot = s PROVE FALSE
  <2>1. Own(d)
    BY OwnPart
  <2>2. call[d].op = "made" /\ call[d].node = n
    BY <1>1, <1>3, <2>1 DEF Own, PrivateInv
  <2>3. (pc[d] = "owner" /\ at[d] = n) \/ Usable(n)
    BY <2>1, <2>2 DEF Own, StageInv
  <2>4. ~Usable(n)
    BY <1>1 DEF Usable
  <2>5. owner[n] = d
    BY <2>1, <2>3, <2>4 DEF Own, ClientInv, OwnedIdleIsUnused, OwnsIdle
  <2> QED BY <1>3, <2>5
<1>4. ASSUME NEW d \in Client, d # c, s \in down[d] PROVE FALSE
  <2>1. Own(d)
    BY OwnPart
  <2>2. call[d].op \in {"destroy", "put"} /\ call[d].slot = s
    BY <1>4, <2>1 DEF Own, DownInv
  <2> QED BY <1>3, <1>4, <2>2 DEF Private
<1> QED BY <1>2, <1>3, <1>4

\* The slot of a call in progress is no other client's.
LEMMA PrivateSlot ==
  ASSUME IInv, OsifIInv, NEW c \in Client, Private(c)
  PROVE  /\ call[c].slot \in Slot /\ slot[call[c].slot].use
         /\ slot[call[c].slot].key = NoNode /\ call[c].node \in Node
         /\ slot[call[c].slot].ctx = IF call[c].op = "made" THEN call[c].node ELSE NoNode
         /\ \A d \in Client : d # c =>
              /\ Private(d) => call[d].slot # call[c].slot
              /\ call[d].op = "found" => call[d].slot # call[c].slot
              /\ call[d].op = "destroy" => call[d].node \in Node
              /\ call[c].op # "made" =>
                   /\ call[c].slot \notin down[d]
                   /\ InTransOrOp(d) => hold[d] # call[c].slot
<1>1. Own(c)
  BY OwnPart
<1>2. /\ call[c].slot \in Slot /\ slot[call[c].slot].use
      /\ slot[call[c].slot].key = NoNode /\ call[c].node \in Node
      /\ slot[call[c].slot].ctx = IF call[c].op = "made" THEN call[c].node ELSE NoNode
  BY <1>1, TableFacts DEF Own, PrivateInv
<1>3. ASSUME NEW d \in Client, d # c
      PROVE  /\ Private(d) => call[d].slot # call[c].slot
             /\ call[d].op = "found" => call[d].slot # call[c].slot
             /\ call[d].op = "destroy" => call[d].node \in Node
             /\ call[c].op # "made" =>
                  /\ call[c].slot \notin down[d]
                  /\ InTransOrOp(d) => hold[d] # call[c].slot
  <2>1. Own(d)
    BY OwnPart
  <2>2. Private(d) => call[d].slot # call[c].slot
    BY <1>1, <1>3 DEF Own, PrivateInv
  <2>3. call[d].op = "found" => call[d].slot # call[c].slot
    BY <1>2, <2>1, OsifAssumption DEF Own, StageInv
  <2>4. call[d].op = "destroy" => call[d].node \in Node
    BY <2>1 DEF Own, PrivateInv, Private
  <2>5. call[c].op # "made" => call[c].slot \notin down[d]
    BY <1>2, <2>1, <2>2 DEF Own, DownInv, Private
  <2>6. call[c].op # "made" => (InTransOrOp(d) => hold[d] # call[c].slot)
    BY <1>2, <2>1 DEF Own, HoldInv, Holds
  <2> QED BY <2>2, <2>3, <2>4, <2>5, <2>6
<1> QED BY <1>2, <1>3

LEMMA OsifGets ==
  ASSUME IInv, OsifIInv, NEW c \in Client, DscFrame(c), GrantFrame(c), NEW n \in Node, SyncGet(c, n)
  PROVE  OsifIInv'
<1>1. Own(c)
  BY OwnPart
<1> DEFINE F == {t \in Table(n) : ~slot[t].use}
<1>2. Min(F) \in F
  <2>1. F \in SUBSET Slot /\ F # {}
    BY TableFacts DEF SyncGet
  <2> QED BY <2>1, FirstSlot
<1>3. PICK s \in Slot : s = Min(F) /\ s \in Table(n) /\ ~slot[s].use
  BY <1>2, TableFacts
<1>4. /\ slot' = [slot EXCEPT ![s].use = TRUE]
      /\ call' = [call EXCEPT ![c] = [op |-> "got", slot |-> s, node |-> n]]
      /\ call[c].op = "none" /\ pc[c] \in {"idle", "trans"}
      /\ UNCHANGED <<vars, hold, down>>
  BY <1>3 DEF SyncGet, Continue, Free
<1> HIDE DEF F
<1>5. slot[s].ctx = NoNode /\ slot[s].key = NoNode /\ SlotInv(s)
  BY <1>3 DEF OsifIInv, SlotInv
<1>6. /\ slot'[s].use /\ slot'[s].ctx = NoNode /\ slot'[s].key = NoNode
      /\ \A t \in Slot : t # s => slot'[t] = slot[t]
  BY <1>1, <1>4, <1>5 DEF Own, OsifTypes
<1>7. OsifTypes' /\ OsifFrame(c)
  BY <1>1, <1>4, ZenonT(60) DEF Own, OsifTypes, OsifFrame, CallOp
<1>8. /\ call'[c].op = "got" /\ call'[c].slot = s /\ call'[c].node = n
      /\ \A d \in Client : d # c => call'[d] = call[d]
  BY <1>1, <1>4 DEF Own, OsifTypes
<1>9. ASSUME NEW d \in Client, d # c
      PROVE  /\ Private(d) => call[d].slot # s
             /\ s \notin down[d]
             /\ call[d].op = "destroy" => call[d].node # NoNode
  <2>1. Own(d)
    BY OwnPart
  <2> QED BY <1>3, <2>1 DEF Own, PrivateInv, DownInv, Private
<1>10. SlotSafe(c, s) /\ SlotInv(s)'
  BY <1>5, <1>6, <1>8, <1>9 DEF SlotSafe, SlotInv
<1>11. \A m \in Node : ~Unregister(c, m)
  BY <1>1, <1>4 DEF Own, TypeOK, Unregister, Usable, vars
<1>12. \A t \in Slot : t = s \/ KeptBy(c, t) => KeptBy(c, t)'
  BY <1>4, <1>6, <1>8 DEF KeptBy, Private, OwnsSlot, vars
<1>13. PrivateInv(c)'
  BY <1>3, <1>6, <1>8, <1>9 DEF PrivateInv, Private
<1>14. StageInv(c)' /\ SettleInv(c)'
  BY <1>1, <1>4, <1>8 DEF Own, StageInv, SettleInv, vars
<1>15. HoldInv(c)'
  <2>1. InTransOrOp(c) => hold[c] \in Slot /\ slot'[hold[c]].ctx = slot[hold[c]].ctx
    BY <1>1, <1>5, <1>6 DEF Own, HoldInv, Holds
  <2>2. pc[c] = "idle" => hold[c] = 0
    BY <1>1, <1>4 DEF Own, HoldInv
  <2> QED BY <1>1, <1>4, <1>8, <2>1, <2>2 DEF Own, HoldInv, InTransOrOp, Holds, Free, vars
<1>16. DownInv(c)'
  BY <1>1, <1>3, <1>4, <1>6, <1>8 DEF Own, DownInv, vars
<1> QED BY <1>6, <1>7, <1>10, <1>11, <1>12, <1>13, <1>14, <1>15, <1>16, OsifLocal, TableFacts
       DEF OsifClientInv

LEMMA OsifCreates ==
  ASSUME IInv, OsifIInv, NEW c \in Client, DscFrame(c), GrantFrame(c), NEW n \in Node, Creates(c, n)
  PROVE  OsifIInv'
<1>1. Own(c)
  BY OwnPart
<1>2. call[c].op = "got" /\ call[c].node = n /\ Private(c)
  BY DEF Creates, Got, Private
<1>3. PICK s \in Slot : s = call[c].slot
  BY <1>2, PrivateSlot
<1>4. /\ slot' = [slot EXCEPT ![s].ctx = n] /\ UNCHANGED <<hold, down>>
      /\ call' = [call EXCEPT ![c] = [op |-> "made", slot |-> s, node |-> n]]
  BY <1>3 DEF Creates, SyncCreated, Continue
<1>5. slot[s].use /\ slot[s].key = NoNode /\ slot[s].ctx = NoNode /\ s \in Table(n)
  BY <1>1, <1>2, <1>3 DEF Own, PrivateInv
<1>6. /\ slot'[s].use /\ slot'[s].ctx = n /\ slot'[s].key = NoNode
      /\ \A t \in Slot : t # s => slot'[t] = slot[t]
  BY <1>1, <1>4, <1>5 DEF Own, OsifTypes
<1>7. OsifTypes' /\ OsifFrame(c)
  BY <1>1, <1>4, SMTT(60) DEF Own, OsifTypes, OsifFrame, CallOp
<1>8. /\ call'[c].op = "made" /\ call'[c].slot = s /\ call'[c].node = n
      /\ \A d \in Client : d # c => call'[d] = call[d]
  BY <1>1, <1>4 DEF Own, OsifTypes
<1>9. /\ n \notin attached /\ n \in attached'
      /\ \/ /\ pc[c] = "idle" /\ pc'[c] = "owner" /\ at'[c] = n
            /\ owner' = [owner EXCEPT ![n] = c]
         \/ pc[c] = "trans" /\ UNCHANGED <<pc, at, owner>>
  BY <1>1 DEF Creates, ContextInit, Goto, Own, TypeOK
<1>10. owner[n] = NoClient
  BY <1>9 DEF IInv, ClientInv, OwnedIsReached, TypeOK
<1>11. \A t \in Slot : slot[t].ctx # n
  BY <1>9, TableFacts DEF OsifIInv, SlotInv
<1>12. ASSUME NEW d \in Client, d # c, call[d].op = "destroy" PROVE call[d].node # n
  <2>1. Own(d)
    BY OwnPart
  <2>2. pc[d] = "destroy" /\ on[d] = call[d].node /\ on[d] \in Node
    BY <1>12, <2>1 DEF Own, StageInv, TypeOK
  <2>3. owner[on[d]] = d
    BY <2>1, <2>2 DEF Own, ClientInv, DestroyedIsUnused
  <2> QED BY <1>10, <2>1, <2>2, <2>3 DEF Own
<1>13. SlotSafe(c, s)
  <2>1. ASSUME NEW d \in Client, d # c PROVE InTransOrOp(d)' => InTransOrOp(d)
    <3>1. UNCHANGED tran /\ call'[d] = call[d]
      BY <1>8, <2>1 DEF Creates, ContextInit
    <3> QED BY <2>1, <3>1 DEF InTransOrOp, DscFrame, Free
  <2> QED BY <1>2, <1>3, <1>5, <1>6, <1>8, <1>12, <2>1, PrivateSlot DEF SlotSafe
<1>14. SlotInv(s)'
  BY <1>5, <1>6, <1>9, <1>11, TableFacts DEF SlotInv
<1>15. \A m \in Node : ~Unregister(c, m)
  BY <1>1, <1>9 DEF Own, TypeOK, Unregister, Usable
<1>16. \A m \in Node : owner[m] = c => owner'[m] = c
  BY <1>1, <1>9 DEF Own, TypeOK
<1>17. \A t \in Slot : t = s \/ KeptBy(c, t) => KeptBy(c, t)'
  BY <1>1, <1>3, <1>4, <1>5, <1>6, <1>8, <1>16 DEF Own, KeptBy, Private, OwnsSlot
<1>18. PrivateInv(c)'
  BY <1>2, <1>3, <1>5, <1>6, <1>8, PrivateSlot DEF PrivateInv, Private
<1>19. StageInv(c)' /\ SettleInv(c)'
  BY <1>8, <1>9, <1>10 DEF StageInv, SettleInv, Usable
<1>20. HoldInv(c)'
  <2>1. pc[c] = "trans" => hold[c] # 0 /\ slot'[hold[c]].ctx = at[c]
    BY <1>1, <1>5, <1>6 DEF Own, HoldInv, InTransOrOp, Holds
  <2>2. pc[c] = "idle" => hold[c] = 0
    BY <1>1, <1>2 DEF Own, HoldInv
  <2> QED BY <1>4, <1>8, <1>9, <2>1, <2>2 DEF HoldInv, InTransOrOp, Holds, Free
<1>21. DownInv(c)'
  BY <1>1, <1>2, <1>4, <1>5, <1>6, <1>16 DEF Own, DownInv
<1> QED BY <1>6, <1>7, <1>13, <1>14, <1>15, <1>17, <1>18, <1>19, <1>20, <1>21,
          OsifLocal, TableFacts
       DEF OsifClientInv

LEMMA OsifPuts ==
  ASSUME IInv, OsifIInv, NEW c \in Client, DscFrame(c), GrantFrame(c), SyncPut(c)
  PROVE  OsifIInv'
<1>1. Own(c)
  BY OwnPart
<1>2. call[c].op = "put" /\ Private(c) /\ UNCHANGED vars
  BY DEF SyncPut, Private
<1>3. PICK s \in Slot : s = call[c].slot
  BY <1>2, PrivateSlot
<1>4. /\ slot' = [slot EXCEPT ![s] = Empty] /\ call' = [call EXCEPT ![c] = NoCall]
      /\ hold' = [hold EXCEPT ![c] = IF @ = s THEN 0 ELSE @]
      /\ down' = [down EXCEPT ![c] = @ \ {s}]
  BY <1>3 DEF SyncPut, Return
<1>5. slot[s].use /\ slot[s].key = NoNode /\ slot[s].ctx = NoNode
  BY <1>2, <1>3, PrivateSlot
<1>6. /\ ~slot'[s].use /\ slot'[s].ctx = NoNode /\ slot'[s].key = NoNode
      /\ \A t \in Slot : t # s => slot'[t] = slot[t]
  BY <1>1, <1>4 DEF Own, OsifTypes, Empty
<1>7. OsifTypes' /\ OsifFrame(c)
  BY <1>1, <1>4 DEF Own, OsifTypes, OsifFrame, CallOp, NoCall, Empty
<1>8. /\ call'[c].op = "none" /\ hold'[c] = (IF hold[c] = s THEN 0 ELSE hold[c])
      /\ down'[c] = down[c] \ {s}
  BY <1>1, <1>4 DEF Own, OsifTypes, NoCall
<1>9. SlotSafe(c, s)
  BY <1>1, <1>2, <1>3, <1>5, <1>6, <1>8, PrivateSlot DEF SlotSafe, Own, Private
<1>10. SlotInv(s)'
  BY <1>6 DEF SlotInv
<1>11. \A m \in Node : ~Unregister(c, m)
  BY <1>1, <1>2 DEF Own, TypeOK, Unregister, Usable, vars
<1>12. \A t \in Slot : (t = s \/ KeptBy(c, t)) /\ slot'[t].use => KeptBy(c, t)'
  BY <1>2, <1>3, <1>6, <1>8 DEF KeptBy, Private, OwnsSlot, vars
<1>13. PrivateInv(c)' /\ StageInv(c)' /\ SettleInv(c)'
  BY <1>1, <1>2, <1>8 DEF Own, PrivateInv, Private, StageInv, SettleInv, vars
<1>14. HoldInv(c)'
  <2>1. pc[c] = "trans" => hold[c] # 0 /\ hold[c] # s /\ slot'[hold[c]].ctx = at[c]
    BY <1>1, <1>5, <1>6 DEF Own, HoldInv, InTransOrOp, Holds
  <2>2. pc[c] = "idle" => hold'[c] = 0
    BY <1>1, <1>2, <1>3, <1>8 DEF Own, HoldInv
  <2>3. pc[c] \in {"idle", "trans"}
    BY <1>1, <1>2 DEF Own, StageInv
  <2> QED BY <1>2, <1>8, <2>1, <2>2, <2>3 DEF HoldInv, InTransOrOp, Holds, Free, vars
<1>15. DownInv(c)'
  BY <1>1, <1>2, <1>3, <1>6, <1>8 DEF Own, DownInv, vars
<1> QED BY <1>6, <1>7, <1>9, <1>10, <1>11, <1>12, <1>13, <1>14, <1>15, OsifLocal, TableFacts
       DEF OsifClientInv

LEMMA OsifDetaches ==
  ASSUME IInv, OsifIInv, NEW c \in Client, DscFrame(c), GrantFrame(c), SyncDetach(c)
  PROVE  OsifIInv'
<1>1. Own(c)
  BY OwnPart
<1>2. /\ pc[c] = "destroy" /\ owner' = [owner EXCEPT ![on[c]] = NoClient]
      /\ \/ at[c] = on[c] /\ pc'[c] = "idle"
         \/ at[c] # on[c] /\ pc'[c] = "trans" /\ at'[c] = at[c]
      /\ UNCHANGED <<slot, hold, down>>
      /\ call' = [call EXCEPT ![c] = [op |-> "put", slot |-> call[c].slot,
                                      node |-> call[c].node]]
  BY <1>1 DEF SyncDetach, ContextDetach, Goto, Continue, Own, TypeOK
<1>3. /\ call[c].op = "destroy" /\ Private(c) /\ on[c] = call[c].node
      /\ \A t \in Slot : slot[t].ctx # on[c]
  BY <1>1, <1>2 DEF Own, StageInv, Private
<1>4. OsifTypes' /\ OsifFrame(c)
  BY <1>1, <1>2 DEF Own, OsifTypes, OsifFrame, CallOp
<1>5. /\ call'[c].op = "put" /\ call'[c].slot = call[c].slot /\ call'[c].node = call[c].node
      /\ \A d \in Client : d # c => call'[d] = call[d]
  BY <1>1, <1>2 DEF Own, OsifTypes
<1>6. \A t \in Slot : slot[t].ctx \in Node => owner'[slot[t].ctx] = owner[slot[t].ctx]
  BY <1>1, <1>2, <1>3 DEF Own, TypeOK
<1>7. \A m \in Node : ~Unregister(c, m)
  BY <1>2 DEF Unregister
<1>8. Private(c)' /\ \A t \in Slot : KeptBy(c, t) => KeptBy(c, t)'
  BY <1>1, <1>2, <1>3, <1>5, <1>6 DEF Own, KeptBy, Private, OwnsSlot
<1>9. \A d \in Client : d # c /\ Private(d) => call'[c].slot # call[d].slot
  BY <1>1, <1>3, <1>5 DEF Own, PrivateInv
<1>10. PrivateInv(c)'
  BY <1>1, <1>2, <1>3, <1>5 DEF Own, PrivateInv, Private
<1>11. StageInv(c)' /\ SettleInv(c)' /\ HoldInv(c)'
  BY <1>1, <1>2, <1>3, <1>5 DEF Own, StageInv, SettleInv, HoldInv, InTransOrOp, Holds, Free
<1>12. DownInv(c)'
  BY <1>1, <1>2, <1>3, <1>5, <1>6 DEF Own, DownInv
<1>13. 0 \in Slot \cup {0} /\ 0 \notin Slot
  BY TableFacts
<1>14. \A t \in Slot : (t = 0 \/ KeptBy(c, t)) /\ slot'[t].use /\ slot'[t].key = NoNode
                        => KeptBy(c, t)'
  BY <1>8, <1>13
<1>15. \A t \in Slot : t # 0 => slot'[t] = slot[t]
  BY <1>2
<1> QED BY <1>4, <1>7, <1>9, <1>10, <1>11, <1>12, <1>13, <1>14, <1>15, OsifLocal
       DEF OsifClientInv

LEMMA OsifAborts ==
  ASSUME IInv, OsifIInv, NEW c \in Client, DscFrame(c), GrantFrame(c), SyncAbort(c)
  PROVE  OsifIInv'
<1>1. Own(c)
  BY OwnPart
<1>2. /\ pc[c] = "destroy" /\ UNCHANGED <<attached, owner, pc, at, todo, on, quiet>>
      /\ UNCHANGED <<slot, hold, down, call>>
  BY DEF SyncAbort, FlushAbort, ctxVars, walkVars, osifVars
<1>3. OsifTypes' /\ OsifFrame(c)
  BY <1>1, <1>2 DEF Own, OsifTypes, OsifFrame
<1>4. \A t \in Slot : KeptBy(c, t) => KeptBy(c, t)'
  BY <1>2 DEF KeptBy, Private, OwnsSlot
<1>5. PrivateInv(c)' /\ StageInv(c)' /\ DownInv(c)' /\ SettleInv(c)'
  BY <1>1, <1>2 DEF Own, PrivateInv, Private, StageInv, DownInv, SettleInv, Usable
<1>6. HoldInv(c)'
  BY <1>1, <1>2 DEF Own, HoldInv, InTransOrOp, Holds, Free
<1>7. Private(c)' => Private(c) /\ call'[c].slot = call[c].slot
  BY <1>2 DEF Private
<1> QED BY <1>2, <1>3, <1>4, <1>5, <1>6, <1>7, OsifLocalCall DEF OsifClientInv

\* Nobody works on a context that its owner is about to destroy.
LEMMA DestroyedSlot ==
  ASSUME IInv, OsifIInv, NEW c \in Client, NEW n \in Node, ContextFlush(c, n),
         NEW d \in Client, d # c, InTransOrOp(d)
  PROVE  at[d] # n
<1>1. Own(c) /\ Own(d)
  BY OwnPart
<1>2. /\ owner[n] = c
      /\ \/ pc[c] = "owner" /\ at[c] = n
         \/ pc[c] = "trans" /\ at[c] \in Up(n) /\ n \in quiet[c]
  BY DEF ContextFlush
<1>3. ops[n] = 0
  BY <1>1, <1>2 DEF Own, ClientInv, OwnedIdleIsUnused, OwnsIdle
<1>4. active[n] # d
  <2>1. CASE pc[c] = "owner" /\ at[c] = n
    BY <1>1, <2>1 DEF Own, ClientInv, OwnedIdleIsUnused, OwnsIdle
  <2>2. CASE pc[c] = "trans" /\ at[c] \in Up(n)
    <3>1. active[at[c]] = c
      BY <1>1, <2>2 DEF Own, ClientInv, RunsTrans
    <3> QED BY <1>1, <2>2, <3>1 DEF IInv, ActiveExcludes, TransActive, Own
  <2> QED BY <1>2, <2>1, <2>2
<1> SUFFICES ASSUME at[d] = n PROVE FALSE
  OBVIOUS
<1>5. CASE pc[d] = "op"
  <2>1. d \in OpsAt(n)
    BY <1>5 DEF OpsAt
  <2>2. ops[n] # 0
    BY <2>1, OpsPositive DEF IInv
  <2> QED BY <1>3, <2>2
<1>6. CASE pc[d] = "owner"
  BY <1>1, <1>2, <1>6 DEF Own, ClientInv, OwnedIdleIsUnused, OwnsIdle
<1>7. CASE \/ pc[d] \in {"trans", "flush", "blocked"} \/ (pc[d] = "destroy" /\ on[d] # at[d])
           \/ pc[d] = "queued" /\ tran[d] = "triggered"
  BY <1>1, <1>4, <1>7 DEF Own, ClientInv, RunsTrans
<1> QED BY <1>5, <1>6, <1>7 DEF InTransOrOp

LEMMA OsifDestroys ==
  ASSUME IInv, OsifIInv, NEW c \in Client, DscFrame(c), GrantFrame(c), NEW n \in Node, NEW s \in Slot, Destroys(c, s, n)
  PROVE  OsifIInv'
<1>1. Own(c)
  BY OwnPart
<1>2. /\ slot[s].ctx = n /\ owner[n] = c
      /\ \/ pc[c] = "owner" /\ at[c] = n
         \/ pc[c] = "trans" /\ at[c] \in Up(n)
      /\ \/ call[c].op = "made" /\ pc[c] = "owner" /\ s = call[c].slot
         \/ call[c].op = "none"
  BY DEF Destroys, Made, Owned, Free, ContextFlush
<1>3. /\ slot' = [slot EXCEPT ![s].ctx = NoNode] /\ UNCHANGED <<hold, down, owner, at>>
      /\ call' = [call EXCEPT ![c] = [op |-> "destroy", slot |-> s, node |-> n]]
      /\ pc'[c] = "destroy" /\ on'[c] = n
  BY <1>1 DEF Destroys, SyncDestroying, Continue, ContextFlush, ctxVars, Own, TypeOK
<1>4. /\ slot[s].use /\ slot[s].key = NoNode /\ s \in Table(n)
      /\ \A t \in Slot : slot[t].ctx = n => t = s
  BY <1>2, OwnedSlot, TableFacts DEF OsifIInv, SlotInv
<1>5. /\ slot'[s].use /\ slot'[s].ctx = NoNode /\ slot'[s].key = NoNode
      /\ \A t \in Slot : t # s => slot'[t] = slot[t]
  BY <1>1, <1>3, <1>4 DEF Own, OsifTypes
<1>6. OsifTypes' /\ OsifFrame(c)
  BY <1>1, <1>3 DEF Own, OsifTypes, OsifFrame, CallOp
<1>7. /\ call'[c].op = "destroy" /\ call'[c].slot = s /\ call'[c].node = n
      /\ \A d \in Client : d # c => call'[d] = call[d]
  BY <1>1, <1>3 DEF Own, OsifTypes
<1>8. ASSUME NEW d \in Client, d # c
      PROVE  /\ ~(Private(d) /\ call[d].slot = s) /\ s \notin down[d]
             /\ InTransOrOp(d)' => hold[d] # s
             /\ call[d].op = "destroy" => call[d].node # NoNode
  <2>1. Own(d)
    BY OwnPart
  <2>2. InTransOrOp(d)' => hold[d] # s
    <3>1. InTransOrOp(d)' => InTransOrOp(d)
      <4>1. UNCHANGED tran /\ call'[d] = call[d]
        BY <1>7, <1>8 DEF Destroys, ContextFlush, transVars
      <4> QED BY <1>8, <4>1 DEF InTransOrOp, DscFrame, Free
    <3> QED BY <1>2, <1>8, <2>1, <3>1, DestroyedSlot DEF Destroys, Own, HoldInv, Holds
  <2> QED BY <1>2, <1>8, <2>1, <2>2, OwnedSlot DEF Own, PrivateInv, Private
<1>9. SlotSafe(c, s)
  BY <1>4, <1>5, <1>7, <1>8 DEF SlotSafe
<1>10. SlotInv(s)'
  BY <1>5 DEF SlotInv
<1>11. \A m \in Node : ~Unregister(c, m)
  BY <1>1, <1>3 DEF Own, TypeOK, Unregister, Usable
<1>12. \A t \in Slot : t = s \/ KeptBy(c, t) => KeptBy(c, t)'
  BY <1>2, <1>3, <1>5, <1>7 DEF KeptBy, Private, OwnsSlot
<1>13. PrivateInv(c)'
  BY <1>4, <1>5, <1>7, <1>8 DEF PrivateInv, Private
<1>14. StageInv(c)' /\ SettleInv(c)'
  BY <1>1, <1>3, <1>4, <1>5, <1>7 DEF Own, StageInv, SettleInv
<1>15. HoldInv(c)'
  <2>1. CASE pc[c] = "owner" /\ at[c] = n
    <3>1. hold[c] \in {0, s}
      BY <1>1, <1>2, <1>4, <2>1 DEF Own, HoldInv, InTransOrOp, Holds, Free
    <3> QED BY <1>3, <1>7, <2>1, <3>1 DEF HoldInv, InTransOrOp
  <2>2. CASE pc[c] = "trans" /\ at[c] \in Up(n)
    <3>1. at[c] # n
      BY <2>2, UpFacts
    <3>2. hold[c] # 0 /\ slot'[hold[c]].ctx = at[c]
      BY <1>1, <1>2, <1>5, <2>2, <3>1 DEF Own, HoldInv, InTransOrOp, Holds
    <3> QED BY <1>3, <3>1, <3>2 DEF HoldInv, InTransOrOp, Holds
  <2> QED BY <1>2, <2>1, <2>2
<1>16. DownInv(c)'
  BY <1>1, <1>2, <1>3, <1>5, <1>7 DEF Own, DownInv
<1> QED BY <1>5, <1>6, <1>9, <1>10, <1>11, <1>12, <1>13, <1>14, <1>15, <1>16,
          OsifLocal, TableFacts
       DEF OsifClientInv

LEMMA OsifRegistersOwn ==
  ASSUME IInv, OsifIInv, NEW c \in Client, DscFrame(c), GrantFrame(c), NEW n \in Node,
         Free(c), down[c] = {}, Register(c, n),
         slot' = [slot EXCEPT ![hold[c]].key = n], UNCHANGED <<hold, down, call>>
  PROVE  OsifIInv'
<1>1. Own(c)
  BY OwnPart
<1>2. /\ pc[c] = "trans" /\ at[c] = n /\ owner[n] = c
      /\ owner' = [owner EXCEPT ![n] = NoClient] /\ UNCHANGED <<attached, pc, at>>
  BY DEF Register
<1>3. PICK s \in Slot : s = hold[c] /\ slot[s].ctx = n
  BY <1>1, <1>2 DEF Own, HoldInv, InTransOrOp, Holds
<1>4. /\ slot[s].use /\ slot[s].key = NoNode /\ s \in Table(n) /\ n \in attached
      /\ \A t \in Slot : slot[t].ctx = n => t = s
  BY <1>2, <1>3, OwnedSlot, TableFacts DEF OsifIInv, SlotInv
<1>5. /\ slot'[s].use /\ slot'[s].ctx = n /\ slot'[s].key = n
      /\ \A t \in Slot : t # s => slot'[t] = slot[t]
  BY <1>1, <1>3, <1>4 DEF Own, OsifTypes
<1>6. OsifTypes' /\ OsifFrame(c)
  BY <1>1, <1>3 DEF Own, OsifTypes, OsifFrame
<1>7. ASSUME NEW d \in Client, d # c
      PROVE  /\ ~(Private(d) /\ call[d].slot = s) /\ s \notin down[d]
             /\ call[d].op = "found" => call[d].slot # s
             /\ call[d].op = "destroy" => call[d].node # n
  <2>1. Own(d)
    BY OwnPart
  <2>2. call[d].op = "found" => call[d].slot # s
    BY <1>4, <2>1, OsifAssumption DEF Own, StageInv
  <2>3. call[d].op = "destroy" => call[d].node # n
    BY <1>3, <2>1 DEF Own, StageInv
  <2> QED BY <1>2, <1>3, <1>7, <2>2, <2>3, OwnedSlot
<1>8. ~Private(c)'
  BY DEF Free, Private
<1>9. SlotSafe(c, s)
  BY <1>3, <1>5, <1>7, <1>8 DEF SlotSafe
<1>10. SlotInv(s)'
  <2>1. n \in attached' /\ owner'[n] = NoClient
    BY <1>1, <1>2, <1>4 DEF Own, TypeOK
  <2>2. \A t \in Slot : slot'[t].ctx = n => t = s
    BY <1>4, <1>5
  <2> QED BY <1>4, <1>5, <2>1, <2>2 DEF SlotInv, Usable
<1>11. \A m \in Node : ~Unregister(c, m)
  BY <1>1, <1>2 DEF Own, TypeOK, Unregister, Usable
<1>12. \A t \in Slot : t = s \/ KeptBy(c, t) => t = s
  BY <1>3 DEF KeptBy, Private, OwnsSlot, Free
<1>13. PrivateInv(c)' /\ StageInv(c)' /\ SettleInv(c)' /\ DownInv(c)'
  BY <1>2, <1>8 DEF PrivateInv, StageInv, SettleInv, DownInv, Free
<1>14. HoldInv(c)'
  BY <1>1, <1>2, <1>3, <1>5 DEF Own, HoldInv, InTransOrOp, Holds
<1>15. \A t \in Slot : (t = s \/ KeptBy(c, t)) /\ slot'[t].use /\ slot'[t].key = NoNode
                        => KeptBy(c, t)'
  BY <1>1, <1>5, <1>12 DEF Own
<1> QED BY <1>5, <1>6, <1>9, <1>10, <1>11, <1>13, <1>14, <1>15, OsifLocal, TableFacts
       DEF OsifClientInv

LEMMA OsifRegistersOpened ==
  ASSUME IInv, OsifIInv, NEW c \in Client, DscFrame(c), GrantFrame(c), NEW n \in Node,
         call[c].op = "made", pc[c] = "trans", call[c].node = n,
         slot' = [slot EXCEPT ![call[c].slot].key = n], Return(c),
         UNCHANGED <<vars, hold, down>>
  PROVE  OsifIInv'
<1>1. Own(c) /\ Private(c) /\ Usable(n)
  BY OwnPart DEF Own, Private, StageInv
<1>2. PICK s \in Slot : s = call[c].slot
  BY <1>1, PrivateSlot
<1>3. slot[s].use /\ slot[s].key = NoNode /\ slot[s].ctx = n /\ SlotInv(s)
  BY <1>1, <1>2, PrivateSlot DEF OsifIInv
<1>4. /\ slot'[s].use /\ slot'[s].ctx = n /\ slot'[s].key = n
      /\ \A t \in Slot : t # s => slot'[t] = slot[t]
  BY <1>1, <1>2, <1>3 DEF Own, OsifTypes
<1>5. OsifTypes' /\ OsifFrame(c) /\ call'[c].op = "none"
  BY <1>1, <1>2 DEF Own, OsifTypes, OsifFrame, Return, NoCall, CallOp
<1>6. ASSUME NEW d \in Client, d # c
      PROVE  /\ ~(Private(d) /\ call[d].slot = s) /\ s \notin down[d]
             /\ call[d].op = "found" => call[d].slot # s
             /\ call[d].op = "destroy" => call[d].node # n
  <2>1. Own(d)
    BY OwnPart
  <2>2. call[d].op = "destroy" => call[d].node # n
    BY <1>3, <2>1 DEF Own, StageInv
  <2>3. (Private(d) => call[d].slot # s) /\ (call[d].op = "found" => call[d].slot # s)
    BY <1>1, <1>2, <1>6, PrivateSlot
  <2>4. s \notin down[d]
    BY <1>1, <1>3, <2>1, <2>3 DEF Own, DownInv, Private, Usable
  <2> QED BY <2>2, <2>3, <2>4
<1>7. ~Private(c)'
  BY <1>5 DEF Private
<1>8. SlotSafe(c, s)
  BY <1>3, <1>4, <1>6, <1>7 DEF SlotSafe
<1>9. SlotInv(s)'
  BY <1>1, <1>3, <1>4, TableFacts DEF SlotInv, Usable, vars
<1>10. \A m \in Node : ~Unregister(c, m)
  BY <1>1 DEF Own, TypeOK, Unregister, Usable, vars
<1>11. s \notin down[c]
  BY <1>1, <1>3 DEF Own, DownInv, Usable
<1>12. \A t \in Slot : (t = s \/ KeptBy(c, t)) /\ slot'[t].use /\ slot'[t].key = NoNode
                        => KeptBy(c, t)'
  <2>1. n # NoNode
    BY <1>1 DEF Own
  <2> QED BY <1>2, <1>4, <2>1 DEF KeptBy, Private, OwnsSlot, vars
<1>13. PrivateInv(c)' /\ StageInv(c)' /\ SettleInv(c)'
  BY <1>5, <1>7 DEF PrivateInv, StageInv, SettleInv, vars
<1>14. HoldInv(c)'
  <2>1. hold[c] # 0 /\ slot'[hold[c]].ctx = at[c]
    BY <1>1, <1>3, <1>4 DEF Own, HoldInv, InTransOrOp, Holds
  <2> QED BY <1>5, <2>1 DEF HoldInv, InTransOrOp, Holds, Free, vars
<1>15. DownInv(c)'
  <2>1. ASSUME NEW t \in down[c]
        PROVE  /\ slot'[t].use /\ slot'[t].key = NoNode
               /\ slot'[t].ctx \in Node /\ owner'[slot'[t].ctx] = c
    <3>1. t \in Slot /\ t # s /\ owner' = owner
      BY <1>1, <1>11 DEF Own, vars
    <3> QED BY <1>1, <1>4, <3>1 DEF Own, DownInv
  <2> QED BY <2>1 DEF DownInv
<1> QED BY <1>4, <1>5, <1>8, <1>9, <1>10, <1>12, <1>13, <1>14, <1>15, OsifLocal, TableFacts
       DEF OsifClientInv

LEMMA OsifUnregisters ==
  ASSUME IInv, OsifIInv, NEW c \in Client, DscFrame(c), GrantFrame(c),
         NEW n \in Node, SyncUnwaited(c, n), SyncUnregister(c, n)
  PROVE  OsifIInv'
<1>1. Own(c) /\ Unregister(c, n)
  BY OwnPart, UnregisterFacts
<1>2. PICK s \in Slot : /\ Found(n, s) /\ slot' = [slot EXCEPT ![s].key = NoNode]
                        /\ down' = [down EXCEPT ![c] = @ \cup {s}]
                        /\ UNCHANGED <<hold, call>>
  BY DEF SyncUnregister
<1>3. slot[s].key = n /\ slot[s].use /\ slot[s].ctx = n /\ SlotInv(s)
  BY <1>2, FoundFacts, FoundIsUsable DEF OsifIInv
<1>4. /\ pc[c] = "trans" /\ n \in Churn /\ owner[n] = NoClient /\ call[c].op = "none"
      /\ owner' = [owner EXCEPT ![n] = c] /\ UNCHANGED <<attached, pc, at>>
  BY <1>1 DEF Unregister, Usable, SyncUnregister, Free
<1>5. /\ slot'[s].use /\ slot'[s].ctx = n /\ slot'[s].key = NoNode
      /\ \A t \in Slot : t # s => slot'[t] = slot[t]
  BY <1>1, <1>2, <1>3 DEF Own, OsifTypes
<1>6. OsifTypes' /\ OsifFrame(c) /\ down'[c] = down[c] \cup {s}
  BY <1>1, <1>2 DEF Own, OsifTypes, OsifFrame
<1>7. ASSUME NEW d \in Client, d # c
      PROVE  /\ ~(Private(d) /\ call[d].slot = s) /\ s \notin down[d]
             /\ call[d].op = "found" => call[d].slot # s
             /\ call[d].op = "destroy" => call[d].node # n
  <2>1. Own(d)
    BY OwnPart
  <2>2. n # NoNode
    BY <2>1 DEF Own
  <2>3. ~SyncWaits(d, n)
    BY DEF SyncUnwaited
  <2> QED BY <1>3, <1>4, <2>1, <2>2, <2>3 DEF Own, StageInv, PrivateInv, DownInv, SyncWaits
<1>8. ~Private(c)'
  BY <1>2, <1>4 DEF Private
<1>9. SlotSafe(c, s)
  BY <1>3, <1>5, <1>7, <1>8 DEF SlotSafe
<1>10. SlotInv(s)'
  BY <1>3, <1>4, <1>5, TableFacts DEF SlotInv
<1>11. \A m \in Node : Unregister(c, m) => m = n
  BY <1>1, <1>4 DEF Own, TypeOK, Unregister, Usable
<1>12. owner'[n] = c /\ \A m \in Node : owner[m] = c => owner'[m] = c
  BY <1>1, <1>4 DEF Own, TypeOK
<1>13. \A t \in Slot : t = s \/ KeptBy(c, t) => KeptBy(c, t)'
  BY <1>2, <1>4, <1>5, <1>6, <1>12 DEF KeptBy, Private, OwnsSlot
<1>14. PrivateInv(c)' /\ StageInv(c)' /\ SettleInv(c)'
  BY <1>2, <1>4, <1>8 DEF PrivateInv, StageInv, SettleInv
<1>15. HoldInv(c)'
  <2>1. hold[c] # 0 /\ slot'[hold[c]].ctx = at[c]
    BY <1>1, <1>3, <1>4, <1>5 DEF Own, HoldInv, InTransOrOp, Holds
  <2> QED BY <1>2, <1>4, <2>1 DEF HoldInv, InTransOrOp, Holds
<1>16. DownInv(c)'
  BY <1>1, <1>2, <1>4, <1>5, <1>6, <1>12 DEF Own, DownInv
<1> QED BY <1>3, <1>5, <1>6, <1>9, <1>10, <1>11, <1>13, <1>14, <1>15, <1>16,
          OsifLocal, TableFacts
       DEF OsifClientInv

-----------------------------------------------------------------------------
(* The theorems.                                                           *)

LEMMA OsifUnchanged ==
  ASSUME OsifIInv, UNCHANGED <<attached, owner, tran, pc, at, todo, on, quiet, osifVars>>
  PROVE  OsifIInv'
<1> USE DEF osifVars
<1>1. OsifTypes' /\ StayingIsUsable'
  BY DEF OsifIInv, OsifTypes, StayingIsUsable, Usable
<1>2. \A s \in Slot : SlotInv(s)' /\ SlotKept(s)'
  BY DEF OsifIInv, SlotInv, SlotKept, KeptBy, Private, OwnsSlot, Usable
<1>3. ASSUME NEW c \in Client PROVE OsifClientInv(c)'
  <2>1. OsifClientInv(c)
    BY DEF OsifIInv
  <2>2. PrivateInv(c)' /\ StageInv(c)' /\ DownInv(c)' /\ SettleInv(c)'
    BY <2>1 DEF OsifClientInv, PrivateInv, Private, StageInv, DownInv, SettleInv, Usable
  <2>3. HoldInv(c)'
    BY <2>1 DEF OsifClientInv, HoldInv, InTransOrOp, Holds, Free
  <2> QED BY <2>2, <2>3 DEF OsifClientInv
<1> QED BY <1>1, <1>2, <1>3 DEF OsifIInv

LEMMA ContractUnregisters ==
  ASSUME NEW c \in Client, SyncContractStep(c), ~SyncCall(c)
  PROVE  \E n \in Node : SyncUnwaited(c, n) /\ SyncUnregister(c, n)
  BY UpFacts
     DEF SyncContractStep, DriverSyncUnregister, PsocSyncUnregister, VdevSyncUnregister

LEMMA OsifContractIsNext ==
  ASSUME [OsifContractNext]_allVars PROVE [OsifNext]_allVars
  BY DEF OsifContractNext, OsifNext, SyncContractStep, SyncStep

\* Seen without its tables, a step of the registry is a step of DSC.
LEMMA OsifStepIsDsc ==
  ASSUME OsifIInv, [OsifContractNext]_allVars
  PROVE  [ContractNext]_vars
<1>1. CASE UNCHANGED allVars
  BY <1>1 DEF allVars
<1>2. CASE DriverStateChange
  BY <1>2 DEF ContractNext
<1>3. ASSUME NEW c \in Client, SyncContractStep(c) PROVE [ContractNext]_vars
  <2>1. CASE SyncCall(c)
    BY <2>1, SyncCallIsDsc DEF ContractNext, ContractStep
  <2>2. ASSUME NEW n \in Node, SyncUnwaited(c, n), SyncUnregister(c, n) PROVE ContractStep(c)
    BY <2>2, UnregisterFacts DEF ContractStep, SyncUnwaited
  <2> QED BY <1>3, <2>1, <2>2, ContractUnregisters DEF ContractNext
<1> QED BY <1>1, <1>2, <1>3 DEF OsifContractNext

LEMMA OsifInvStep ==
  ASSUME IInv, OsifIInv, QueueHeld, IInv', [OsifContractNext]_allVars
  PROVE  OsifIInv' /\ QueueHeld'
<1>1. CASE UNCHANGED allVars
  BY <1>1, OsifUnchanged DEF allVars, vars, osifVars, QueueHeld, Holds
<1>2. CASE DriverStateChange /\ UNCHANGED osifVars
  BY <1>2, OsifUnchanged
     DEF DriverStateChange, ctxVars, transVars, walkVars, osifVars, QueueHeld, Holds
<1>3. ASSUME NEW c \in Client, SyncContractStep(c) PROVE OsifIInv' /\ QueueHeld'
  <2>0. SyncStep(c)
    BY <1>3 DEF SyncContractStep, SyncStep
  <2>1. DscFrame(c) /\ GrantFrame(c)
    BY <2>0, SyncIsDsc, FrameOf, GrantsHeld
  <2>2. ASSUME SyncResume(c) PROVE OsifIInv'
    BY <2>1, <2>2, OsifLookups, OsifOpStop, OsifPuts, OsifAborts, OsifDetaches, OsifTranWait,
       OsifFlushReturn DEF SyncResume
  <2>3. ASSUME NEW n \in Node, SyncCallsOn(c, n) PROVE OsifIInv'
    <3>1. CASE SyncRegister(c, n)
      BY <2>1, <3>1, OsifRegistersOwn, OsifRegistersOpened DEF SyncRegister
    <3>2. CASE SyncWaitLookup(c, n)
      BY <2>1, <3>2, OsifLookups
    <3>3. CASE \E s \in Slot : Destroys(c, s, n) \/ Enters(c, s, n)
      BY <2>1, <3>3, OsifDestroys, OsifEnters
    <3>4. CASE \E K \in SUBSET Node : SyncVisits(c, n, K)
      BY <2>1, <3>4, OsifVisits
    <3> QED BY <2>1, <2>3, <3>1, <3>2, <3>3, <3>4, OsifGets, OsifCreates, OsifOrphans,
              OsifOpens, OsifStops DEF SyncCallsOn
  <2>4. ASSUME SyncCall(c) PROVE OsifIInv'
    BY <2>2, <2>3, <2>4, SyncCallCases
  <2>5. ASSUME NEW n \in Node, SyncUnwaited(c, n), SyncUnregister(c, n) PROVE OsifIInv'
    BY <2>1, <2>5, OsifUnregisters
  <2>6. OsifIInv'
    BY <1>3, <2>4, <2>5, ContractUnregisters
  <2> QED BY <2>0, <2>6, QueueHeldStep
<1> QED BY <1>1, <1>2, <1>3 DEF OsifContractNext

\* At the start each context that exists has a slot of its own.
LEMMA InitTables ==
  ASSUME OsifInit
  PROVE  LET N == {Driver} \cup (Node \ Churn)
         IN \E f \in [N -> Slot] :
              /\ \A n \in N : /\ f[n] \in Table(n)
                              /\ slot[f[n]] = [use |-> TRUE, key |-> n, ctx |-> n]
              /\ \A s \in Slot : slot[s] = Empty \/ \E n \in N : f[n] = s
              /\ DOMAIN slot = Slot /\ slot = [s \in Slot |-> slot[s]]
<1> DEFINE N == {Driver} \cup (Node \ Churn)
           Fits(g) == \A n, m \in N : g[n] \in Table(n) /\ (g[n] = g[m] => n = m)
           f == CHOOSE g \in [N -> Slot] : Fits(g)
<1>1. f \in [N -> Slot] /\ Fits(f)
  <2>1. \E g \in [N -> Slot] : Fits(g)
    BY TablesFit
  <2> QED BY <2>1
<1>2. slot = [s \in Slot |->
                IF \E n \in N : f[n] = s
                THEN LET n == CHOOSE n \in N : f[n] = s
                     IN [use |-> TRUE, key |-> n, ctx |-> n]
                ELSE Empty]
  BY DEF OsifInit
<1>3. \A n, m \in N : f[n] \in Table(n) /\ (f[n] = f[m] => n = m)
  BY <1>1
<1>4. f \in [N -> Slot]
  BY <1>1
<1> HIDE DEF f, Fits
<1>5. \A n \in N : slot[f[n]] = [use |-> TRUE, key |-> n, ctx |-> n]
  <2> SUFFICES ASSUME NEW n \in N PROVE slot[f[n]] = [use |-> TRUE, key |-> n, ctx |-> n]
    OBVIOUS
  <2>1. n = CHOOSE m \in N : f[m] = f[n]
    BY <1>3
  <2>2. f[n] \in Slot
    BY <1>4
  <2>3. slot[f[n]] = LET m == CHOOSE m \in N : f[m] = f[n]
                     IN [use |-> TRUE, key |-> m, ctx |-> m]
    BY <1>2, <2>2
  <2> QED BY <2>1, <2>3
<1>6. \A s \in Slot : slot[s] = Empty \/ \E n \in N : f[n] = s
  BY <1>2
<1>7. DOMAIN slot = Slot /\ slot = [s \in Slot |-> slot[s]]
  BY <1>2
<1> HIDE DEF N
<1>8. \E g \in [N -> Slot] :
        /\ \A n \in N : /\ g[n] \in Table(n)
                        /\ slot[g[n]] = [use |-> TRUE, key |-> n, ctx |-> n]
        /\ \A s \in Slot : slot[s] = Empty \/ \E n \in N : g[n] = s
        /\ DOMAIN slot = Slot /\ slot = [s \in Slot |-> slot[s]]
  BY <1>3, <1>4, <1>5, <1>6, <1>7
<1> QED BY <1>8 DEF N

LEMMA OsifInvInit == OsifInit => OsifIInv
<1> SUFFICES ASSUME OsifInit PROVE OsifIInv
  OBVIOUS
<1> DEFINE N == {Driver} \cup (Node \ Churn)
<1>1. PICK f \in [N -> Slot] :
        /\ \A n \in N : /\ f[n] \in Table(n)
                        /\ slot[f[n]] = [use |-> TRUE, key |-> n, ctx |-> n]
        /\ \A s \in Slot : slot[s] = Empty \/ \E n \in N : f[n] = s
        /\ DOMAIN slot = Slot /\ slot = [s \in Slot |-> slot[s]]
  BY InitTables
<1>3. \A n \in N : f[n] \in Table(n)
  BY <1>1
<1>5. \A n \in N : slot[f[n]] = [use |-> TRUE, key |-> n, ctx |-> n]
  BY <1>1
<1>6. \A s \in Slot : slot[s] = Empty \/ \E n \in N : f[n] = s
  BY <1>1
<1>7. N \subseteq Node /\ attached = N
  BY UpFacts DEF OsifInit, Init
<1>8. \A n \in N : Usable(n)
  BY <1>7 DEF Usable, OsifInit, Init
<1> HIDE DEF N
<1>9. /\ hold = [c \in Client |-> 0] /\ down = [c \in Client |-> {}]
      /\ call = [c \in Client |-> NoCall] /\ pc = [c \in Client |-> "idle"]
  BY DEF OsifInit, Init
<1>10. OsifTypes
  <2>1. \A s \in Slot : slot[s] \in [use : BOOLEAN, key : Node \cup {NoNode},
                                     ctx : Node \cup {NoNode}]
    <3> SUFFICES ASSUME NEW s \in Slot
                 PROVE  slot[s] \in [use : BOOLEAN, key : Node \cup {NoNode},
                                     ctx : Node \cup {NoNode}]
      OBVIOUS
    <3>1. CASE slot[s] = Empty
      BY <3>1 DEF Empty
    <3>2. CASE slot[s] # Empty
      <4>1. PICK n \in N : f[n] = s
        BY <1>6, <3>2
      <4>2. slot[s] = [use |-> TRUE, key |-> n, ctx |-> n] /\ n \in Node
        BY <1>5, <1>7, <4>1
      <4> QED BY <4>2
    <3> QED BY <3>1, <3>2
  <2>2. slot \in [Slot -> [use : BOOLEAN, key : Node \cup {NoNode}, ctx : Node \cup {NoNode}]]
    BY <1>1, <2>1
  <2> QED BY <1>9, <2>2 DEF OsifTypes, NoCall, CallOp
<1>11. StayingIsUsable
  BY <1>8 DEF StayingIsUsable, N
<1>12. ASSUME NEW s \in Slot PROVE SlotInv(s) /\ SlotKept(s)
  <2>1. CASE slot[s] = Empty
    BY <2>1 DEF Empty, SlotInv, SlotKept
  <2>2. ASSUME NEW n \in N, f[n] = s PROVE SlotInv(s) /\ SlotKept(s)
    <3>1. slot[s] = [use |-> TRUE, key |-> n, ctx |-> n] /\ n # NoNode /\ s \in Table(n)
      BY <1>3, <1>5, <1>7, <2>2, OsifAssumption
    <3>2. ASSUME NEW t \in Slot, slot[t].ctx = n PROVE t = s
      <4>1. slot[t] # Empty
        BY <3>1, <3>2 DEF Empty
      <4>2. PICK m \in N : f[m] = t
        BY <1>6, <4>1
      <4>3. slot[f[m]] = [use |-> TRUE, key |-> m, ctx |-> m]
        BY <1>5
      <4>4. m = n
        BY <3>2, <4>2, <4>3
      <4> QED BY <2>2, <4>2, <4>4
    <3> QED BY <1>7, <1>8, <3>1, <3>2 DEF SlotInv, SlotKept
  <2> QED BY <1>6, <2>1, <2>2
<1>13. ASSUME NEW c \in Client PROVE OsifClientInv(c)
  BY <1>9 DEF OsifClientInv, PrivateInv, Private, StageInv, HoldInv, InTransOrOp,
              DownInv, SettleInv, NoCall
<1> QED BY <1>10, <1>11, <1>12, <1>13 DEF OsifIInv

\* Every step of the registry keeps the invariants, so that the DSC
\* underneath is used as its contract asks: osif_sync.h's callers cannot name
\* a context that is not registered, and the owner of one is alone with it.
\* Callers may wait on contexts that come and go, and destroy what they have
\* waited for; they only keep to SyncUnwaited.
THEOREM OsifInvariance == OsifContractSpec => [](IInv /\ OsifIInv /\ QueueHeld)
<1>1. OsifInit => IInv /\ OsifIInv /\ QueueHeld
  <2>1. OsifInit => QueueHeld
    BY DEF OsifInit, Init, QueueHeld
  <2> QED BY <2>1, OsifInvInit, InvInit DEF OsifInit
<1>2. IInv /\ OsifIInv /\ QueueHeld /\ [OsifContractNext]_allVars
        => (IInv /\ OsifIInv /\ QueueHeld)'
  <2> SUFFICES ASSUME IInv, OsifIInv, QueueHeld, [OsifContractNext]_allVars
               PROVE  IInv' /\ OsifIInv' /\ QueueHeld'
    OBVIOUS
  <2>1. [ContractNext]_vars
    BY OsifStepIsDsc
  <2>2. IInv'
    BY <2>1, InvStep
  <2> QED BY <2>2, OsifInvStep
<1> QED BY <1>1, <1>2, PTL DEF OsifContractSpec

\* Every table entry and every slot pointer the callbacks keep is in order
\* (OsifInv), for tables of any size and any tree, for slots that are freed
\* and taken again and for start_waits on contexts that go.
THEOREM OsifSafe == OsifContractSpec => []OsifInv
<1>1. IInv /\ OsifIInv => OsifInv
  <2> SUFFICES ASSUME IInv, OsifIInv PROVE OsifInv
    OBVIOUS
  <2>1. OsifTypeOK
    <3>1. ASSUME NEW c \in Client, pc[c] = "idle", Free(c)
          PROVE  hold[c] = 0 /\ down[c] = {}
      <4>1. Own(c)
        BY OwnPart
      <4> QED BY <3>1, <4>1, AtRest DEF Own, HoldInv, Free
    <3> QED BY <3>1 DEF OsifTypeOK, OsifIInv, OsifTypes
  <2>2. RegisteredIsUsable
    BY FoundFacts, FoundIsUsable DEF RegisteredIsUsable
  <2>3. HeldSlotStays
    <3> SUFFICES ASSUME NEW c \in Client, pc[c] = "op" \/ \E n \in Node : RunsTrans(c, n)
                 PROVE  Holds(c, at[c])
      BY DEF HeldSlotStays
    <3>1. InTransOrOp(c)
      BY DEF InTransOrOp, RunsTrans
    <3> QED BY <3>1 DEF OsifIInv, OsifClientInv, HoldInv
  <2>4. NoSlotLeaked
    <3> SUFFICES ASSUME NEW s \in Slot, slot[s].use, slot[s].key = NoNode
                 PROVE  \E c \in Client : hold[c] = s \/ s \in down[c] \/ call[c].slot = s
      BY DEF NoSlotLeaked
    <3>1. PICK c \in Client : KeptBy(c, s)
      BY DEF OsifIInv, SlotKept
    <3> QED BY <3>1 DEF KeptBy, OwnsSlot
  <2> QED BY <2>1, <2>2, <2>3, <2>4 DEF OsifInv
<1> QED BY <1>1, OsifInvariance, PTL

\* A vdev transition that has started is handed to the caller by the end of
\* its last wait.
LEMMA SettleEnds ==
  ASSUME IInv, OsifIInv, NEW c \in Client, NEW d \in Client, SyncStep(d),
         call[c].op = "settle", call'[c].op = "none", pc'[c] = "trans"
  PROVE  SyncWaitForOpsReturn(c) /\ Driver \in quiet[c]
<1>1. OsifTypes /\ TypeOK
  BY DEF IInv, OsifIInv
<1>2. ASSUME \/ UNCHANGED call
             \/ call[d].op # "settle" /\ \E x : call' = [call EXCEPT ![d] = x]
      PROVE  FALSE
  BY <1>1, <1>2 DEF OsifTypes
<1>3. ASSUME NEW n \in Node, SyncActsOn(d, n) PROVE FALSE
  <2>1. CASE \E s \in Slot : Destroys(d, s, n) \/ Enters(d, s, n)
    BY <1>2, <2>1 DEF Destroys, Made, Owned, Free, SyncDestroying, Continue, Enters, Return
  <2>2. CASE SyncRegister(d, n) \/ SyncUnregister(d, n)
    BY <1>2, <2>2 DEF SyncRegister, SyncUnregister, Free, Return
  <2>3. CASE SyncGet(d, n) \/ SyncWaitLookup(d, n)
    BY <1>2, <2>3 DEF SyncGet, SyncWaitLookup, Free, Continue
  <2>4. CASE Creates(d, n) \/ Orphans(d, n) \/ Opens(d, n)
    BY <1>2, <2>4 DEF Creates, Orphans, Opens, Got, Made, SyncCreated, SyncOrphaned,
                      SyncOpened, Continue, Return
  <2>5. CASE SyncStops(d, n) \/ \E K \in SUBSET Node : SyncVisits(d, n, K)
    BY <1>2, <2>5 DEF SyncStops, Release, SyncVisits, osifVars
  <2> QED BY <1>3, <2>1, <2>2, <2>3, <2>4, <2>5 DEF SyncActsOn
<1>4. CASE \/ Refuses(d) \/ SyncOpStop(d) \/ SyncPut(d) \/ SyncOpsEventWait(d)
           \/ SyncAbort(d)
  BY <1>2, <1>4 DEF Refuses, SyncRefused, SyncOpStop, SyncPut, SyncOpsEventWait, SyncAbort,
                    Return, osifVars
<1>5. CASE SyncDetach(d)
  <2>1. call[d].op = "destroy"
    BY <1>5 DEF SyncDetach, ContextDetach, OsifIInv, OsifClientInv, StageInv
  <2> QED BY <1>2, <1>5, <2>1 DEF SyncDetach, Continue
<1>6. CASE SyncTranWait(d)
  <2>1. d = c /\ tran[c] = "aborted"
    BY <1>1, <1>6 DEF SyncTranWait, Return, OsifTypes
  <2>2. pc'[c] = "idle"
    BY <1>1, <1>6, <2>1 DEF SyncTranWait, TranWait, Goto, TypeOK
  <2> QED BY <2>2
<1>7. CASE SyncWaitForOpsReturn(d)
  BY <1>1, <1>7 DEF SyncWaitForOpsReturn, Return, OsifTypes
<1> QED BY <1>3, <1>4, <1>5, <1>6, <1>7, SyncCases DEF SyncResume

\* When the start of a vdev transition returns, the vdev, its psoc and the
\* driver have no operation in flight: the three waits of
\* osif_vdev_sync_trans_start take effect together.
THEOREM OsifSettled == OsifContractSpec => SettledIsIsolated
<1> DEFINE Isolated ==
      \A c \in Client :
        call[c].op = "settle" /\ call'[c].op = "none" /\ pc'[c] = "trans"
          => \A n \in {at[c]} \cup Up(at[c]) : ops'[n] = 0
<1>1. IInv /\ OsifIInv /\ [OsifContractNext]_allVars => [Isolated]_allVars
  <2> SUFFICES ASSUME IInv, OsifIInv, OsifNext, NEW c \in Client,
                      call[c].op = "settle", call'[c].op = "none", pc'[c] = "trans"
               PROVE  \A n \in {at[c]} \cup Up(at[c]) : ops'[n] = 0
    BY OsifContractIsNext DEF Isolated
  <2>1. Own(c)
    BY OwnPart
  <2>2. SyncWaitForOpsReturn(c) /\ Driver \in quiet[c]
    BY SettleEnds DEF OsifNext, osifVars
  <2>3. UNCHANGED ops
    BY <2>2 DEF SyncWaitForOpsReturn, WaitForOpsReturn, opsVars
  <2>4. at[c] \in Vdevs /\ Up(at[c]) = {PsocOf[at[c]], Driver}
    BY <2>1, UpFacts DEF Own, StageInv
  <2>5. {at[c], PsocOf[at[c]], Driver} \subseteq quiet[c]
    BY <2>1, <2>2, <2>4 DEF Own, SettleInv
  <2> QED BY <2>1, <2>3, <2>4, <2>5 DEF Own, ClientInv
<1> QED BY <1>1, OsifInvariance, PTL DEF OsifContractSpec, SettledIsIsolated

\* The registry uses DSC within the contract DSC's own results assume.
THEOREM OsifRefinesDsc == OsifContractSpec => ImplementsDsc
<1>1. OsifInit => Init
  BY DEF OsifInit
<1>2. OsifIInv /\ [OsifContractNext]_allVars => [ContractNext]_vars
  BY OsifStepIsDsc
<1> QED BY <1>1, <1>2, OsifInvariance, PTL
       DEF OsifContractSpec, ImplementsDsc, ContractSpec
=============================================================================
