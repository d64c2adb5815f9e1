---------------------------- MODULE DscInvProofs ----------------------------
(***************************************************************************)
(* Proofs about Dsc, for any tree of contexts and any finite set of        *)
(* clients: its invariant is inductive, and the properties that follow;    *)
(* what is granted, to whom and in which order, and that every step is a   *)
(* step of the abstract lock.                                              *)
(***************************************************************************)
EXTENDS DscRefine, FiniteSetTheorems, TLAPS

(* The tree.                                                               *)

LEMMA UpFacts ==
  /\ Up(Driver) = {}
  /\ \A p \in Psocs : Up(p) = {Driver}
  /\ \A v \in Vdevs : Up(v) = {PsocOf[v], Driver} /\ PsocOf[v] \in Psocs
  /\ \A n \in Node : n \notin Up(n) /\ Up(n) \subseteq Node
  /\ Psocs \subseteq Node /\ Vdevs \subseteq Node /\ Driver \in Node
  BY DscAssumption DEF Up, Node

\* A branch is a chain.
LEMMA UpChain ==
  ASSUME NEW n \in Node, NEW a \in Up(n), NEW b \in Up(n)
  PROVE  a = b \/ a \in Up(b) \/ b \in Up(a)
  BY UpFacts DEF Node

LEMMA UpTransitive ==
  ASSUME NEW n \in Node, NEW a \in Up(n), NEW b \in Up(a)
  PROVE  b \in Up(n)
  BY UpFacts DEF Node

LEMMA LineageFacts ==
  ASSUME NEW n \in Node, NEW m \in Node
  PROVE  /\ n \in Lineage(n)
         /\ m \in Lineage(n) <=> m = n \/ m \in Up(n) \/ n \in Up(m)
         /\ m \in Lineage(n) <=> n \in Lineage(m)
  BY UpFacts DEF Lineage, Below

LEMMA LineageInNode == \A n \in Node : Lineage(n) \subseteq Node
  BY UpFacts DEF Lineage, Below

\* Transitions in one lineage are the same transition.
LEMMA ActiveUnique ==
  ASSUME TypeOK, ActiveExcludes, NEW n \in Node, NEW m \in Node,
         m \in Lineage(n), TransActive(active, n), TransActive(active, m)
  PROVE  m = n
  BY LineageFacts DEF ActiveExcludes

-----------------------------------------------------------------------------
(* The steps of Next by what they do rather than by the level they are on. *)

\* Nothing on n, above it or below it stops a new transition or operation.
CanStart(n) ==
  /\ ~TransActiveOrQueued(n)
  /\ \A m \in Up(n) : ~TransActiveOrQueued(m)
  /\ \A m \in Below(n) \cap attached : ~TransActive(active, m)

Stops(c) ==
  \/ DriverTransStop(c)
  \/ \E p \in Psocs : PsocTransStop(c, p)
  \/ \E v \in Vdevs : VdevTransStop(c, v)

\* A visit of wait_for_ops, by a holder above or on n, or below it.
Visits(c, n, K) ==
  /\ Visit(c, n, K)
  /\ pc[c] \in {"trans", "flush"}
  /\ n \in Lineage(at[c]) /\ K \subseteq Lineage(at[c])

CallsOn(c, n) ==
  \/ MayStart(c, n) /\ CanStart(n) /\ StartNow(c, n)
  \/ MayCall(c, n) /\ ~CanStart(n) /\ StartLater(c, n)
  \/ MayCall(c, n) /\ CanStart(n) /\ OpsInsert(c, n)
  \/ \E K \in SUBSET Node : Visits(c, n, K)
  \/ ContextInit(c, n) \/ ContextFlush(c, n) \/ Register(c, n)

ActsOn(c, n) ==
  \/ MayStart(c, n) /\ CanStart(n) /\ StartNow(c, n)
  \/ MayCall(c, n) /\ ~CanStart(n) /\ StartLater(c, n)
  \/ MayCall(c, n) /\ CanStart(n) /\ OpsInsert(c, n)
  \/ \E K \in SUBSET Node : Visits(c, n, K)
  \/ ContextInit(c, n) \/ ContextFlush(c, n)
  \/ Register(c, n) \/ Unregister(c, n)

LEMMA CanStartDriver == ASSUME TypeOK PROVE DriverCanTrans <=> CanStart(Driver)
<1>1. \A n \in attached \ {Driver} : n \in Below(Driver)
  BY UpFacts DEF TypeOK, Below, Node
<1>2. Driver \notin Below(Driver)
  BY UpFacts DEF Below
<1> QED BY <1>1, <1>2, UpFacts
     DEF DriverCanTrans, DriverTransActiveDownTree, CanStart

LEMMA CanStartPsoc ==
  ASSUME NEW p \in Psocs
  PROVE  /\ PsocCanTrans(p) = "SUCCESS" => CanStart(p)
         /\ PsocCanTrans(p) = "E_AGAIN" => ~CanStart(p)
<1>1. CanStart(p) <=> /\ ~TransActiveOrQueued(Driver) /\ ~TransActiveOrQueued(p)
                      /\ ~PsocTransActiveDownTree(active, p)
  <2>1. Below(p) = VdevsOf(p)
    BY UpFacts, DscAssumption DEF Below, VdevsOf, Node
  <2> QED BY <2>1, UpFacts DEF CanStart, PsocTransActiveDownTree
<1> QED BY <1>1 DEF PsocCanTrans

LEMMA CanStartVdev ==
  ASSUME NEW v \in Vdevs
  PROVE  /\ VdevCanTrans(v) = "SUCCESS" => CanStart(v)
         /\ VdevCanTrans(v) = "E_BUSY" => ~CanStart(v)
<1>1. CanStart(v) <=> /\ ~TransActiveOrQueued(Driver) /\ ~TransActiveOrQueued(v)
                      /\ ~TransActiveOrQueued(PsocOf[v])
  <2>1. Below(v) = {}
    BY UpFacts, DscAssumption DEF Below, Node
  <2> QED BY <2>1, UpFacts DEF CanStart
<1> QED BY <1>1 DEF VdevCanTrans

LEMMA CallCases ==
  ASSUME TypeOK, NEW c \in Client, FlushInLineage(c), ClientCall(c)
  PROVE  Stops(c) \/ Resume(c) \/ \E n \in Node : CallsOn(c, n)
<1> USE UpFacts
<1>0. ASSUME NEW n \in Node, Flushes(c, n)
      PROVE  n \in Lineage(at[c]) /\ pc[c] \in {"trans", "flush"}
  BY <1>0, LineageFacts DEF Flushes, Arrives, FlushInLineage, TypeOK
<1>1. ASSUME DriverCall(c)
      PROVE  Stops(c) \/ CallsOn(c, Driver)
  <2>1. CASE DriverWaitForOps(c)
    <3>1. Psocs \cap attached \in SUBSET Node
      OBVIOUS
    <3>2. Psocs \cap attached \subseteq Lineage(at[c])
      BY <2>1 DEF DriverWaitForOps, Lineage, Below
    <3>3. Visits(c, Driver, Psocs \cap attached)
      BY <1>0, <2>1, <3>2 DEF DriverWaitForOps, Visits
    <3> QED BY <3>1, <3>3 DEF CallsOn
  <2>2. CASE DriverTransStart(c) \/ DriverTransStartWait(c) \/ DriverOpStart(c)
    BY <2>2, CanStartDriver
       DEF DriverTransStart, DriverTransStartWait, DriverOpStart, CallsOn, MayStart
  <2>3. CASE DriverTransStop(c) \/ DriverCreate(c) \/ DriverDestroy(c)
    BY <2>3 DEF DriverCreate, DriverDestroy, Stops, CallsOn
  <2> QED BY <1>1, <2>1, <2>2, <2>3 DEF DriverCall
<1>2. ASSUME NEW p \in Psocs, PsocCall(c, p)
      PROVE  Stops(c) \/ CallsOn(c, p)
  <2>1. CASE PsocWaitForOps(c, p)
    <3>1. VdevsOf(p) \cap attached \in SUBSET Node
      BY DEF VdevsOf
    <3>2. p \in Lineage(at[c]) /\ at[c] \in Node \ Vdevs
      BY <1>0, <2>1 DEF PsocWaitForOps, TypeOK
    <3>3. at[c] = p \/ at[c] = Driver
      BY <3>2, LineageFacts, DscAssumption DEF Node
    <3>4. VdevsOf(p) \cap attached \subseteq Lineage(at[c])
      BY <3>3 DEF Lineage, Below, VdevsOf
    <3>5. Visits(c, p, VdevsOf(p) \cap attached)
      BY <1>0, <2>1, <3>4 DEF PsocWaitForOps, Visits
    <3> QED BY <3>1, <3>5 DEF CallsOn
  <2>2. CASE PsocTransStart(c, p) \/ PsocTransStartWait(c, p) \/ PsocOpStart(c, p)
    BY <2>2, CanStartPsoc
       DEF PsocTransStart, PsocTransStartWait, PsocOpStart, CallsOn, MayStart
  <2>3. CASE PsocTransStop(c, p) \/ PsocCreate(c, p) \/ PsocDestroy(c, p)
    BY <2>3 DEF PsocCreate, PsocDestroy, Stops, CallsOn
  <2> QED BY <1>2, <2>1, <2>2, <2>3 DEF PsocCall
<1>3. ASSUME NEW v \in Vdevs, VdevCall(c, v)
      PROVE  Stops(c) \/ \E n \in Node : CallsOn(c, n)
  <2>1. CASE VdevWaitForOps(c, v)
    <3>1. Visits(c, v, {})
      BY <1>0, <2>1 DEF VdevWaitForOps, Visits
    <3> QED BY <3>1 DEF CallsOn
  <2>2. CASE VdevWaitForUptreeOps(c, v)
    <3>0. at[c] = v /\ {PsocOf[v], Driver} \subseteq Lineage(v)
      BY <2>2 DEF VdevWaitForUptreeOps, Lineage
    <3>1. Visits(c, PsocOf[v], {Driver}) \/ Visits(c, Driver, {})
      BY <2>2, <3>0 DEF VdevWaitForUptreeOps, Visits, Arrives
    <3>2. CallsOn(c, PsocOf[v]) \/ CallsOn(c, Driver)
      BY <3>1 DEF CallsOn
    <3> QED BY <3>2
  <2>3. CASE VdevTransStart(c, v) \/ VdevTransStartWait(c, v) \/ VdevOpStart(c, v)
    BY <2>3, CanStartVdev
       DEF VdevTransStart, VdevTransStartWait, VdevOpStart, CallsOn, MayStart
  <2>4. CASE VdevTransStop(c, v) \/ VdevCreate(c, v) \/ VdevDestroy(c, v)
    BY <2>4 DEF VdevCreate, VdevDestroy, Stops, CallsOn
  <2> QED BY <1>3, <2>1, <2>2, <2>3, <2>4 DEF VdevCall
<1>4. ASSUME NEW n \in Node, Register(c, n)
      PROVE  CallsOn(c, n)
  BY <1>4 DEF CallsOn
<1> QED BY <1>1, <1>2, <1>3, <1>4 DEF ClientCall

LEMMA ClientCases ==
  ASSUME TypeOK, NEW c \in Client, FlushInLineage(c), ClientStep(c)
  PROVE  Stops(c) \/ Resume(c) \/ \E n \in Node : ActsOn(c, n)
<1>1. ASSUME NEW n \in Node, CallsOn(c, n) \/ Unregister(c, n) PROVE ActsOn(c, n)
  BY <1>1 DEF CallsOn, ActsOn
<1> QED BY <1>1, CallCases DEF ClientStep

LEMMA NextCases ==
  ASSUME TypeOK, \A c \in Client : FlushInLineage(c), [Next]_vars
  PROVE  \/ UNCHANGED vars
         \/ DriverStateChange
         \/ \E c \in Client : Stops(c)
         \/ \E c \in Client : Resume(c)
         \/ \E c \in Client : \E n \in Node : ActsOn(c, n)
  BY ClientCases DEF Next

LEMMA ContractIsNext == ASSUME [ContractNext]_vars PROVE [Next]_vars
  BY DEF ContractNext, ContractStep, Next, ClientStep

-----------------------------------------------------------------------------
(* Type correctness.                                                       *)

LEMMA TypeGoto ==
  ASSUME TypeOK, NEW c \in Client, NEW n \in Node, NEW l \in Label, Goto(c, l, n)
  PROVE  pc' \in [Client -> Label] /\ at' \in [Client -> Node]
  BY DEF TypeOK, Goto

LEMMA TypeTrigger ==
  ASSUME TypeOK, NEW act \in [Node -> Client \cup {NoClient}],
         NEW S \in SUBSET Node, TransTrigger(act, S)
  PROVE  /\ active' \in [Node -> Client \cup {NoClient}]
         /\ queue' \in [Node -> Seq(Client)]
         /\ tran' \in [Client -> {"none", "queued", "triggered", "aborted"}]
<1> DEFINE T == {n \in S : TransQueued(n)}
<1>1. \A n \in T : Head(queue[n]) \in Client /\ Tail(queue[n]) \in Seq(Client)
  BY DEF TypeOK, TransQueued
<1>2. active' = [n \in Node |-> IF n \in T THEN Head(queue[n]) ELSE act[n]]
  BY DEF TransTrigger
<1>3. queue' = [n \in Node |-> IF n \in T THEN Tail(queue[n]) ELSE queue[n]]
  BY DEF TransTrigger
<1>4. tran' = [c \in Client |-> IF \E n \in T : Head(queue[n]) = c
                                THEN "triggered" ELSE tran[c]]
  BY DEF TransTrigger
<1> HIDE DEF T
<1>5. active' \in [Node -> Client \cup {NoClient}]
  BY <1>1, <1>2
<1>6. queue' \in [Node -> Seq(Client)]
  BY <1>1, <1>3 DEF TypeOK
<1>7. tran' \in [Client -> {"none", "queued", "triggered", "aborted"}]
  BY <1>4 DEF TypeOK
<1> QED BY <1>5, <1>6, <1>7

LEMMA TypeStop ==
  ASSUME TypeOK, NEW c \in Client, NEW n \in Node, NEW S \in SUBSET Node,
         TransTrigger(TransStop(n), S), EndTrans(c, n)
  PROVE  TypeOK'
<1>1. TransStop(n) \in [Node -> Client \cup {NoClient}]
  BY DEF TypeOK, TransStop
<1>2. /\ active' \in [Node -> Client \cup {NoClient}]
      /\ queue' \in [Node -> Seq(Client)]
      /\ tran' \in [Client -> {"none", "queued", "triggered", "aborted"}]
  BY <1>1, TypeTrigger
<1>3. pc' \in [Client -> Label] /\ at' \in [Client -> Node]
  <2>1. "owner" \in Label /\ "idle" \in Label /\ Driver \in Node
    BY DEF Label, Node
  <2>2. Goto(c, "owner", n) \/ Goto(c, "idle", Driver)
    BY DEF EndTrans
  <2> QED BY <2>1, <2>2, TypeGoto
<1> QED BY <1>2, <1>3 DEF TypeOK, EndTrans, ctxVars, opsVars

LEMMA TypeVisit ==
  ASSUME TypeOK, NEW c \in Client, NEW n \in Node, NEW K \in SUBSET Node,
         Visit(c, n, K)
  PROVE  TypeOK'
<1>1. todo' \in [Client -> SUBSET Node]
  BY DEF TypeOK, Visit
<1>2. /\ quiet' \in [Client -> SUBSET Node] /\ event' \in [Node -> BOOLEAN]
      /\ pc' \in [Client -> Label] /\ on' \in [Client -> Node]
  <2>1. CASE /\ quiet' = [quiet EXCEPT ![c] = @ \cup {n}]
             /\ pc' = [pc EXCEPT ![c] = "flush"]
             /\ UNCHANGED <<event, on>>
    <3>1. quiet[c] \cup {n} \in SUBSET Node
      BY DEF TypeOK
    <3> QED BY <2>1, <3>1 DEF TypeOK, Label
  <2>2. CASE /\ event' = [event EXCEPT ![n] = FALSE]
             /\ pc' = [pc EXCEPT ![c] = "blocked"]
             /\ on' = [on EXCEPT ![c] = n]
             /\ UNCHANGED quiet
    BY <2>2 DEF TypeOK, Label
  <2> QED BY <2>1, <2>2 DEF Visit
<1> QED BY <1>1, <1>2 DEF TypeOK, Visit, ctxVars, transVars

LEMMA TypeStops ==
  ASSUME TypeOK, NEW c \in Client, Stops(c)
  PROVE  TypeOK'
<1> USE UpFacts
<1>1. CASE DriverTransStop(c)
  <2>1. DriverTriggerTrans \in SUBSET Node
    BY DEF DriverTriggerTrans
  <2> QED BY <1>1, <2>1, TypeStop DEF DriverTransStop
<1>2. ASSUME NEW p \in Psocs, PsocTransStop(c, p) PROVE TypeOK'
  <2>1. PsocStopped(p) \in Node
    BY DEF PsocStopped
  <2>2. PsocTriggerTrans(TransStop(PsocStopped(p)), p) \in SUBSET Node
    BY DEF PsocTriggerTrans, DriverTransTriggerChecked, VdevsOf
  <2> QED BY <1>2, <2>1, <2>2, TypeStop DEF PsocTransStop
<1>3. ASSUME NEW v \in Vdevs, VdevTransStop(c, v) PROVE TypeOK'
  <2>1. VdevTriggerTrans(TransStop(v), v) \in SUBSET Node
    BY DEF VdevTriggerTrans, DriverTransTriggerChecked, PsocTransTriggerChecked
  <2> QED BY <1>3, <2>1, TypeStop DEF VdevTransStop
<1> QED BY <1>1, <1>2, <1>3 DEF Stops

\* An operation in flight is counted.
LEMMA OpsPositive ==
  ASSUME OpsCounted, NEW n \in Node, NEW c \in OpsAt(n)
  PROVE  ops[n] \in Nat \ {0} /\ Cardinality(OpsAt(n) \ {c}) = ops[n] - 1
<1>1. IsFiniteSet(OpsAt(n))
  BY ClientFinite, FS_Subset DEF OpsAt
<1>2. Cardinality(OpsAt(n)) \in Nat /\ Cardinality(OpsAt(n)) # 0
  BY <1>1, FS_CardinalityType, FS_EmptySet
<1>3. Cardinality(OpsAt(n) \ {c}) = Cardinality(OpsAt(n)) - 1
  BY <1>1, FS_RemoveElement
<1> QED BY <1>2, <1>3 DEF OpsCounted

LEMMA TypeResume ==
  ASSUME TypeOK, OpsCounted, NEW c \in Client, Resume(c)
  PROVE  TypeOK'
<1> USE UpFacts DEF TypeOK, Label, ctxVars, transVars, opsVars, walkVars
<1>1. CASE TranWait(c)
  <2>1. Goto(c, "idle", Driver) \/ Goto(c, "trans", at[c])
    BY <1>1 DEF TranWait
  <2>2. pc' \in [Client -> Label] /\ at' \in [Client -> Node]
    BY <2>1, TypeGoto
  <2> QED BY <1>1, <2>2 DEF TranWait
<1>2. CASE OpsEventWait(c)
  <2>1. quiet[c] \cup {on[c]} \in SUBSET Node
    OBVIOUS
  <2> QED BY <1>2, <2>1 DEF OpsEventWait
<1>3. CASE WaitForOpsReturn(c)
  BY <1>3 DEF WaitForOpsReturn
<1>4. CASE OpStop(c)
  <2>1. Goto(c, "idle", Driver)
    BY <1>4 DEF OpStop
  <2>2. pc' \in [Client -> Label] /\ at' \in [Client -> Node]
    BY <2>1, TypeGoto
  <2>3. at[c] \in Node /\ c \in OpsAt(at[c])
    BY <1>4 DEF OpStop, OpsAt
  <2>4. ops[at[c]] \in Nat \ {0}
    BY <2>3, OpsPositive
  <2>5. ops' \in [Node -> Nat]
    BY <1>4, <2>4 DEF OpStop
  <2>6. event' \in [Node -> BOOLEAN]
    BY <1>4 DEF OpStop
  <2> QED BY <1>4, <2>2, <2>5, <2>6 DEF OpStop
<1>5. CASE ContextDetach(c)
  <2>1. Goto(c, "idle", Driver) \/ Goto(c, "trans", at[c])
    BY <1>5 DEF ContextDetach
  <2>2. pc' \in [Client -> Label] /\ at' \in [Client -> Node]
    BY <2>1, TypeGoto
  <2> QED BY <1>5, <2>2 DEF ContextDetach
<1>6. CASE FlushAbort(c)
  <2>1. TransAbort(on[c]) /\ on[c] \in Node
    BY <1>6 DEF FlushAbort
  <2>2. queue[on[c]] \in Seq(Client) /\ queue[on[c]] # <<>>
    BY <2>1 DEF TransAbort, TransQueued
  <2>3. Tail(queue[on[c]]) \in Seq(Client)
    BY <2>2
  <2>4. queue' \in [Node -> Seq(Client)]
    BY <2>1, <2>3 DEF TransAbort
  <2>5. tran' \in [Client -> {"none", "queued", "triggered", "aborted"}]
    BY <2>1 DEF TransAbort
  <2> QED BY <1>6, <2>1, <2>4, <2>5 DEF FlushAbort, TransAbort
<1> QED BY <1>1, <1>2, <1>3, <1>4, <1>5, <1>6 DEF Resume

LEMMA TypeActsOn ==
  ASSUME TypeOK, NEW c \in Client, NEW n \in Node, ActsOn(c, n)
  PROVE  TypeOK'
<1>1. CASE StartNow(c, n)
  BY <1>1 DEF TypeOK, StartNow, TransStart, Goto, Label, ctxVars, opsVars, walkVars
<1>2. CASE StartLater(c, n)
  BY <1>2 DEF TypeOK, StartLater, TransQueue, Goto, Label, ctxVars, opsVars, walkVars
<1>3. CASE OpsInsert(c, n)
  BY <1>3, SMTT(60) DEF TypeOK, OpsInsert, Goto, Label, ctxVars, transVars, walkVars
<1>4. CASE \E K \in SUBSET Node : Visits(c, n, K)
  BY <1>4, TypeVisit DEF Visits
<1>5. CASE ContextInit(c, n)
  <2>1. /\ pc' \in [Client -> Label] /\ at' \in [Client -> Node]
        /\ owner' \in [Node -> Client \cup {NoClient}]
    <3>1. CASE pc[c] = "idle" /\ Goto(c, "owner", n) /\ owner' = [owner EXCEPT ![n] = c]
      BY <3>1 DEF TypeOK, Goto, Label
    <3>2. CASE UNCHANGED <<pc, at, owner>>
      BY <3>2 DEF TypeOK
    <3> QED BY <1>5, <3>1, <3>2 DEF ContextInit
  <2>2. /\ active' \in [Node -> Client \cup {NoClient}]
        /\ queue' \in [Node -> Seq(Client)] /\ attached' \subseteq Node
        /\ ops' \in [Node -> Nat] /\ event' \in [Node -> BOOLEAN]
    BY <1>5 DEF TypeOK, ContextInit
  <2> QED BY <1>5, <2>1, <2>2 DEF TypeOK, ContextInit, walkVars
<1>6. CASE ContextFlush(c, n)
  BY <1>6 DEF TypeOK, ContextFlush, Label, ctxVars, transVars, opsVars
<1>7. CASE Register(c, n)
  BY <1>7 DEF TypeOK, Register, transVars, opsVars, walkVars
<1>8. CASE Unregister(c, n)
  BY <1>8 DEF TypeOK, Unregister, transVars, opsVars, walkVars
<1> QED BY <1>1, <1>2, <1>3, <1>4, <1>5, <1>6, <1>7, <1>8 DEF ActsOn

LEMMA TypeStep == IInv /\ [Next]_vars => TypeOK'
<1> SUFFICES ASSUME TypeOK, OpsCounted, \A c \in Client : FlushInLineage(c),
                    [Next]_vars
             PROVE  TypeOK'
  BY DEF IInv, ClientInv
<1>1. CASE UNCHANGED vars
  BY <1>1 DEF TypeOK, vars
<1>2. CASE DriverStateChange
  BY <1>2 DEF TypeOK, DriverStateChange, ctxVars, transVars, opsVars, walkVars
<1> QED BY <1>1, <1>2, NextCases, TypeStops, TypeResume, TypeActsOn

-----------------------------------------------------------------------------
(* Most steps are local: client c changes its own state and one context n  *)
(* in a way that no other client who owns it or holds it notices.  Then    *)
(* the other clients keep their part of the invariant.                     *)

LocalStep(c, n) ==
  /\ \A d \in Client : d # c =>
       /\ pc'[d] = pc[d] /\ at'[d] = at[d] /\ on'[d] = on[d]
       /\ todo'[d] = todo[d] /\ quiet'[d] = quiet[d]
       /\ tran'[d] = "triggered" <=> tran[d] = "triggered"
  /\ \A m \in Node : m # n =>
       /\ owner'[m] = owner[m] /\ active'[m] = active[m]
       /\ queue'[m] = queue[m] /\ ops'[m] = ops[m] /\ event'[m] = event[m]
       /\ m \in attached' <=> m \in attached
  /\ active'[n] = active[n] \/ {active[n], active'[n]} \subseteq {NoClient, c}
  /\ \/ {owner[n], owner'[n]} \subseteq {NoClient, c}
     \/ /\ owner'[n] = owner[n] /\ active'[n] = active[n]
        /\ queue'[n] = queue[n] /\ (ops[n] = 0 => ops'[n] = 0)
        /\ n \in attached' <=> n \in attached

\* The step leaves the flushes of the others alone.
KeepsFlushes(c, n) ==
  /\ \A d \in Client : d # c /\ n \in quiet[d] => ops'[n] = 0
  /\ \A d \in Client : d # c /\ pc[d] = "blocked" /\ on[d] = n =>
       n \in attached' /\ (event'[n] <=> ops'[n] = 0)
  /\ OwnsIdle(c)' => (OwnsIdle(c) /\ at'[c] = at[c]) \/ at'[c] \notin attached

LEMMA LocalInv ==
  ASSUME IInv, NEW c \in Client, NEW n \in Node, TypeOK', OpsCounted', QueuesWait',
         LocalStep(c, n), KeepsFlushes(c, n), ClientInv(c)',
         n \notin attached' => active'[n] = NoClient /\ queue'[n] = <<>> /\ ops'[n] = 0,
         active'[n] = active[n] \/ active'[n] = NoClient
           \/ \A m \in Lineage(n) : m = n \/ active[m] = NoClient
  PROVE  IInv'
<1>1. TypeOK /\ c # NoClient
  BY DscAssumption DEF IInv
<1>2. FreedIsUnused'
  BY DEF IInv, FreedIsUnused, LocalStep
<1>3. ActiveExcludes'
  <2>1. \A m \in Node : m # n => active'[m] = active[m]
    BY DEF LocalStep
  <2>2. CASE active'[n] = active[n] \/ active'[n] = NoClient
    BY <2>1, <2>2, UpFacts DEF IInv, ActiveExcludes, TransActive
  <2>3. CASE \A m \in Lineage(n) : m = n \/ active[m] = NoClient
    <3>1. \A m \in Node : m \in Up(n) \/ n \in Up(m) => active'[m] = NoClient
      BY <2>1, <2>3, LineageFacts, UpFacts
    <3> QED BY <2>1, <3>1, UpFacts DEF IInv, ActiveExcludes, TransActive
  <2> QED BY <2>2, <2>3
<1>4. ASSUME NEW d \in Client, d # c PROVE ClientInv(d)'
  <2>1. /\ pc'[d] = pc[d] /\ at'[d] = at[d] /\ on'[d] = on[d]
        /\ todo'[d] = todo[d] /\ quiet'[d] = quiet[d]
        /\ tran'[d] = "triggered" <=> tran[d] = "triggered"
    BY <1>4 DEF LocalStep
  <2>2. \A m \in Node : /\ active'[m] = d <=> active[m] = d
                        /\ owner'[m] = d <=> owner[m] = d
    BY <1>4, DscAssumption DEF LocalStep
  <2>3. ClientInv(d) /\ at[d] \in Node /\ on[d] \in Node
    BY <1>1 DEF IInv, TypeOK
  <2>4. \A m \in Node : owner[m] = d =>
          /\ active'[m] = active[m] /\ queue'[m] = queue[m]
          /\ ops[m] = 0 => ops'[m] = 0
          /\ m \in attached' <=> m \in attached
    BY <1>4, DscAssumption DEF LocalStep
  <2>5. \A m \in Node : active'[m] = d <=> RunsTrans(d, m)'
    BY <2>1, <2>2, <2>3 DEF ClientInv, RunsTrans
  <2>6. \A m \in quiet'[d] : ops'[m] = 0
    <3>1. quiet[d] \subseteq Node
      BY <1>1 DEF TypeOK
    <3> QED BY <1>4, <2>1, <2>3, <3>1 DEF ClientInv, LocalStep, KeepsFlushes
  <2>7. OwnedIsReached(d)'
    <3> SUFFICES ASSUME NEW m \in Node, owner'[m] = d
                 PROVE  /\ m \in attached'
                        /\ \/ /\ at'[d] = m /\ queue'[m] = <<>>
                              /\ pc'[d] \in {"owner", "trans", "flush", "blocked", "destroy"}
                           \/ /\ at'[d] \in Up(m) /\ active'[at'[d]] = d
                              /\ pc'[d] \in {"trans", "flush", "blocked", "destroy"}
      BY DEF OwnedIsReached
    <3> QED BY <2>1, <2>2, <2>3, <2>4 DEF ClientInv, OwnedIsReached
  <2>8. OwnedIdleIsUnused(d)' /\ DestroyedIsUnused(d)'
    BY <2>1, <2>2, <2>3, <2>4 DEF ClientInv, OwnedIdleIsUnused, DestroyedIsUnused, OwnsIdle
  <2>9. FlushInLineage(d)'
    BY <2>1, <2>2, <2>3 DEF ClientInv, FlushInLineage
  <2>10. BlockedIsWoken(d)'
    <3> SUFFICES ASSUME pc[d] = "blocked"
                 PROVE  /\ on[d] \in Lineage(at[d]) \cap attached'
                        /\ \A e \in Client : OwnsIdle(e)' => at'[e] # on[d]
                        /\ event'[on[d]] <=> ops'[on[d]] = 0
      BY <2>1 DEF BlockedIsWoken
    <3>1. /\ on[d] \in Lineage(at[d]) /\ on[d] \in attached
          /\ \A e \in Client : OwnsIdle(e) => at[e] # on[d]
          /\ event[on[d]] <=> ops[on[d]] = 0
      BY <2>3 DEF ClientInv, BlockedIsWoken
    <3>2. on[d] \in attached' /\ (event'[on[d]] <=> ops'[on[d]] = 0)
      BY <1>4, <2>3, <3>1 DEF LocalStep, KeepsFlushes
    <3>3. \A e \in Client : OwnsIdle(e)' =>
            (OwnsIdle(e) /\ at'[e] = at[e]) \/ at'[e] \notin attached
      BY DEF LocalStep, KeepsFlushes, OwnsIdle
    <3> QED BY <3>1, <3>2, <3>3
  <2> QED BY <2>5, <2>6, <2>7, <2>8, <2>9, <2>10 DEF ClientInv
<1> QED BY <1>2, <1>3, <1>4 DEF IInv

LEMMA QueueMembers ==
  ASSUME TypeOK, QueuesWait
  PROVE  \A m \in Node : \A i \in DOMAIN queue[m] :
           /\ queue[m][i] \in Client
           /\ pc[queue[m][i]] = "queued" /\ tran[queue[m][i]] = "queued"
           /\ at[queue[m][i]] = m
           /\ \A j \in DOMAIN queue[m] : queue[m][i] = queue[m][j] => i = j
<1>1. \A m \in Node : \A i \in DOMAIN queue[m] : queue[m][i] \in Client
  BY DEF TypeOK
<1> QED BY <1>1 DEF QueuesWait, Waits

\* A queue that does not change is sound if its waiters stay waiters.
LEMMA SameQueues ==
  ASSUME TypeOK, QueuesWait, UNCHANGED queue,
         \A d \in Client : Waits(d) => Waits(d)' /\ at'[d] = at[d]
  PROVE  QueuesWait'
  BY QueueMembers DEF QueuesWait, Waits

\* The operations in flight do not change.
LEMMA SameOps ==
  ASSUME OpsCounted, UNCHANGED ops,
         \A d \in Client : (pc[d] = "op" \/ pc'[d] = "op") => pc'[d] = pc[d] /\ at'[d] = at[d]
  PROVE  OpsCounted'
<1>1. \A m \in Node : OpsAt(m)' = OpsAt(m)
  BY DEF OpsAt
<1> QED BY <1>1 DEF OpsCounted

\* What an idle client, or the owner of a context that has no transition,
\* cannot be in the middle of.
LEMMA StartFacts ==
  ASSUME IInv, NEW c \in Client, NEW n \in Node, MayStart(c, n)
  PROVE  /\ n \in attached /\ pc[c] \in {"idle", "owner"} /\ quiet[c] = {}
         /\ pc[c] = "owner" => at[c] = n /\ queue[n] = <<>>
         /\ owner[n] \in {NoClient, c}
         /\ \A m \in Node : owner[m] = c => m = n /\ pc[c] = "owner"
         /\ \A m \in Node : active[m] # c
<1>1. TypeOK /\ ClientInv(c)
  BY DEF IInv
<1>2. pc[c] \in {"idle", "owner"} /\ quiet[c] = {} /\ \A m \in Node : active[m] # c
  BY <1>1 DEF MayStart, MayCall, ClientInv, FlushInLineage, RunsTrans
<1>3. CASE MayCall(c, n)
  BY <1>1, <1>2, <1>3 DEF MayCall, Usable, ClientInv, OwnedIsReached
<1>4. CASE pc[c] = "owner" /\ at[c] = n
  <2>1. owner[n] = c
    BY <1>1, <1>4 DEF ClientInv, OwnedIdleIsUnused, OwnsIdle
  <2>2. \A m \in Node : owner[m] = c => m = n
    BY <1>1, <1>4 DEF ClientInv, OwnedIsReached
  <2> QED BY <1>1, <1>2, <1>4, <2>1, <2>2, UpFacts DEF ClientInv, OwnedIsReached
<1> QED BY <1>3, <1>4 DEF MayStart

\* What CanStart promises, also of contexts that do not exist.
LEMMA CanStartFacts ==
  ASSUME IInv, NEW n \in Node, CanStart(n)
  PROVE  queue[n] = <<>> /\ \A m \in Lineage(n) : active[m] = NoClient
  BY LineageFacts, LineageInNode
     DEF CanStart, IInv, FreedIsUnused, TransActiveOrQueued, TransActive, TransQueued, Below

LEMMA InvStartNow ==
  ASSUME IInv, NEW c \in Client, NEW n \in Node,
         MayStart(c, n), CanStart(n), StartNow(c, n)
  PROVE  IInv'
<1>1. TypeOK /\ TypeOK' /\ ClientInv(c) /\ c # NoClient /\ n \in Lineage(n)
  <2>1. ActsOn(c, n)
    BY DEF ActsOn
  <2> QED BY <2>1, TypeActsOn, DscAssumption, LineageFacts DEF IInv
<1>2. queue[n] = <<>> /\ \A m \in Lineage(n) : active[m] = NoClient
  BY CanStartFacts
<1>3. /\ UNCHANGED <<attached, owner, queue, tran, ops, event, flags, todo, on, quiet>>
      /\ pc'[c] = "trans" /\ at'[c] = n /\ active'[n] = c
      /\ \A d \in Client : d # c => pc'[d] = pc[d] /\ at'[d] = at[d]
      /\ \A m \in Node : m # n => active'[m] = active[m]
  BY <1>1 DEF StartNow, TransStart, Goto, ctxVars, opsVars, walkVars, TypeOK
<1>4. /\ n \in attached /\ pc[c] \in {"idle", "owner"} /\ quiet[c] = {}
      /\ owner[n] \in {NoClient, c}
      /\ \A m \in Node : owner[m] = c => m = n
      /\ \A m \in Node : active[m] # c
  BY StartFacts
<1>5. LocalStep(c, n)
  BY <1>1, <1>2, <1>3, <1>4 DEF LocalStep
<1>6. KeepsFlushes(c, n)
  BY <1>1, <1>3 DEF KeepsFlushes, OwnsIdle, IInv, FlushedIsQuiet, ClientInv, BlockedIsWoken
<1>7. ClientInv(c)'
  <2>1. \A m \in Node : active'[m] = c <=> RunsTrans(c, m)'
    BY <1>3, <1>4 DEF RunsTrans
  <2> QED BY <1>1, <1>2, <1>3, <1>4, <2>1
     DEF ClientInv, OwnedIsReached, OwnedIdleIsUnused, DestroyedIsUnused,
         FlushInLineage, BlockedIsWoken, OwnsIdle
<1>8. OpsCounted'
  BY <1>3, <1>4, SameOps DEF IInv
<1>9. QueuesWait'
  BY <1>1, <1>3, <1>4, SameQueues DEF IInv, Waits
<1> QED BY <1>1, <1>2, <1>3, <1>4, <1>5, <1>6, <1>7, <1>8, <1>9, LocalInv

LEMMA InvStartLater ==
  ASSUME IInv, NEW c \in Client, NEW n \in Node,
         MayCall(c, n), ~CanStart(n), StartLater(c, n)
  PROVE  IInv'
<1>1. TypeOK /\ TypeOK' /\ ClientInv(c) /\ c # NoClient /\ pc[c] = "idle"
  <2>1. ActsOn(c, n)
    BY DEF ActsOn
  <2> QED BY <2>1, TypeActsOn, DscAssumption DEF IInv, MayCall
<1>2. /\ UNCHANGED <<attached, owner, active, ops, event, flags, todo, on, quiet>>
      /\ pc'[c] = "queued" /\ at'[c] = n /\ tran'[c] = "queued"
      /\ \A d \in Client : d # c => pc'[d] = pc[d] /\ at'[d] = at[d] /\ tran'[d] = tran[d]
      /\ queue'[n] = Append(queue[n], c)
      /\ \A m \in Node : m # n => queue'[m] = queue[m]
  BY <1>1 DEF StartLater, TransQueue, Goto, ctxVars, opsVars, walkVars, TypeOK
<1>3. /\ n \in attached /\ quiet[c] = {}
      /\ owner[n] = NoClient
      /\ \A m \in Node : owner[m] # c /\ active[m] # c
  BY <1>1, StartFacts DEF MayStart, MayCall, Usable
<1>5. LocalStep(c, n)
  BY <1>1, <1>2, <1>3 DEF LocalStep
<1>6. KeepsFlushes(c, n)
  BY <1>1, <1>2 DEF KeepsFlushes, OwnsIdle, IInv, ClientInv, BlockedIsWoken
<1>7. ClientInv(c)'
  <2>1. \A m \in Node : active'[m] = c <=> RunsTrans(c, m)'
    BY <1>2, <1>3 DEF RunsTrans
  <2> QED BY <1>1, <1>2, <1>3, <2>1
     DEF ClientInv, OwnedIsReached, OwnedIdleIsUnused, DestroyedIsUnused,
         FlushInLineage, BlockedIsWoken, OwnsIdle
<1>8. OpsCounted'
  BY <1>1, <1>2, SameOps DEF IInv
<1>9. QueuesWait'
  <2> DEFINE q == queue[n]
  <2>1. \A m \in Node : \A i \in DOMAIN queue[m] :
          /\ queue[m][i] # c
          /\ pc'[queue[m][i]] = "queued" /\ tran'[queue[m][i]] = "queued"
          /\ at'[queue[m][i]] = m
          /\ \A j \in DOMAIN queue[m] : queue[m][i] = queue[m][j] => i = j
    BY <1>1, <1>2, QueueMembers DEF IInv
  <2>2. q \in Seq(Client) /\ queue'[n] = Append(q, c)
    BY <1>1, <1>2 DEF TypeOK
  <2>3. \A i \in DOMAIN q :
          /\ q[i] # c
          /\ pc'[q[i]] = "queued" /\ tran'[q[i]] = "queued" /\ at'[q[i]] = n
          /\ \A j \in DOMAIN q : q[i] = q[j] => i = j
    BY <2>1
  <2> HIDE DEF q
  <2>4. /\ DOMAIN queue'[n] = DOMAIN q \cup {Len(q) + 1} /\ Len(q) + 1 \notin DOMAIN q
        /\ \A i \in DOMAIN q : queue'[n][i] = q[i]
        /\ queue'[n][Len(q) + 1] = c
    BY <2>2
  <2>5. \A i \in DOMAIN queue'[n] :
          /\ pc'[queue'[n][i]] = "queued" /\ tran'[queue'[n][i]] = "queued"
          /\ at'[queue'[n][i]] = n
          /\ \A j \in DOMAIN queue'[n] : queue'[n][i] = queue'[n][j] => i = j
    BY <1>2, <2>3, <2>4
  <2> QED BY <1>2, <2>1, <2>5, SMTT(60) DEF QueuesWait, Waits
<1> QED BY <1>1, <1>2, <1>3, <1>5, <1>6, <1>7, <1>8, <1>9, LocalInv

LEMMA InvOpsInsert ==
  ASSUME IInv, NEW c \in Client, NEW n \in Node, MayCall(c, n), CanStart(n),
         OpsInsert(c, n)
  PROVE  IInv'
<1>1. TypeOK /\ TypeOK' /\ ClientInv(c) /\ c # NoClient /\ pc[c] = "idle"
  <2>1. ActsOn(c, n)
    BY DEF ActsOn
  <2> QED BY <2>1, TypeActsOn, DscAssumption DEF IInv, MayCall
<1>2. /\ UNCHANGED <<attached, owner, active, queue, tran, event, flags, todo, on, quiet>>
      /\ pc'[c] = "op" /\ at'[c] = n
      /\ \A d \in Client : d # c => pc'[d] = pc[d] /\ at'[d] = at[d]
      /\ ops'[n] = ops[n] + 1
      /\ \A m \in Node : m # n => ops'[m] = ops[m]
  BY <1>1 DEF OpsInsert, Goto, ctxVars, transVars, walkVars, TypeOK
<1>3. /\ n \in attached /\ quiet[c] = {} /\ owner[n] = NoClient
      /\ \A m \in Node : owner[m] # c /\ active[m] # c
  BY <1>1, StartFacts DEF MayStart, MayCall, Usable
<1>4. ASSUME NEW d \in Client, n \in quiet[d] \/ (pc[d] = "blocked" /\ on[d] = n)
      PROVE  FALSE
  <2>1. at[d] \in Node /\ n \in Lineage(at[d]) /\ active[at[d]] = d
    <3>1. ClientInv(d) /\ at[d] \in Node
      BY <1>1 DEF IInv, TypeOK
    <3>2. CASE n \in quiet[d]
      BY <3>1, <3>2 DEF ClientInv, FlushInLineage
    <3>3. CASE pc[d] = "blocked" /\ on[d] = n
      BY <3>1, <3>3 DEF ClientInv, BlockedIsWoken, RunsTrans
    <3> QED BY <1>4, <3>1, <3>2, <3>3
  <2>2. active[at[d]] = NoClient
    BY <2>1, CanStartFacts, LineageFacts
  <2> QED BY <2>1, <2>2, DscAssumption
<1>5. LocalStep(c, n)
  BY <1>2, <1>3 DEF LocalStep
<1>6. KeepsFlushes(c, n)
  BY <1>2, <1>4 DEF KeepsFlushes, OwnsIdle
<1>7. ClientInv(c)'
  <2>1. \A m \in Node : active'[m] = c <=> RunsTrans(c, m)'
    BY <1>2, <1>3 DEF RunsTrans
  <2>2. FlushInLineage(c)'
    BY <1>1, <1>2, <1>3 DEF ClientInv, FlushInLineage
  <2> QED BY <1>1, <1>2, <1>3, <2>1, <2>2
     DEF ClientInv, OwnedIsReached, OwnedIdleIsUnused, DestroyedIsUnused,
         BlockedIsWoken, OwnsIdle
<1>8. OpsCounted'
  <2>1. OpsAt(n)' = OpsAt(n) \cup {c} /\ c \notin OpsAt(n)
    BY <1>1, <1>2 DEF OpsAt
  <2>2. \A m \in Node : m # n => OpsAt(m)' = OpsAt(m)
    <3>1. \A m \in Node : \A d \in Client :
            m # n => (pc'[d] = "op" /\ at'[d] = m <=> pc[d] = "op" /\ at[d] = m)
      BY <1>1, <1>2
    <3> QED BY <3>1 DEF OpsAt
  <2>3. IsFiniteSet(OpsAt(n))
    BY ClientFinite, FS_Subset DEF OpsAt
  <2>4. Cardinality(OpsAt(n) \cup {c}) = Cardinality(OpsAt(n)) + 1
    BY <2>1, <2>3, FS_AddElement
  <2> QED BY <1>2, <2>1, <2>2, <2>4 DEF IInv, OpsCounted
<1>9. QueuesWait'
  BY <1>1, <1>2, SameQueues DEF IInv, Waits
<1> QED BY <1>1, <1>2, <1>3, <1>5, <1>6, <1>7, <1>8, <1>9, LocalInv

LEMMA InvVisits ==
  ASSUME IInv, NEW c \in Client, NEW n \in Node, NEW K \in SUBSET Node,
         Visits(c, n, K)
  PROVE  IInv'
<1>1. TypeOK /\ TypeOK' /\ ClientInv(c) /\ c # NoClient
  BY TypeVisit, DscAssumption DEF IInv, Visits
<1>2. /\ UNCHANGED <<attached, owner, active, queue, tran, ops, flags, at>>
      /\ todo'[c] = (todo[c] \ {n}) \cup K
      /\ \A d \in Client : d # c =>
           /\ pc'[d] = pc[d] /\ on'[d] = on[d]
           /\ todo'[d] = todo[d] /\ quiet'[d] = quiet[d]
      /\ \A m \in Node : m # n => event'[m] = event[m]
  BY <1>1 DEF Visits, Visit, ctxVars, transVars, TypeOK
<1>3. \/ /\ ops[n] = 0 /\ event'[n] = event[n]
         /\ pc'[c] = "flush" /\ quiet'[c] = quiet[c] \cup {n} /\ on'[c] = on[c]
      \/ /\ ops[n] # 0 /\ event'[n] = FALSE
         /\ pc'[c] = "blocked" /\ quiet'[c] = quiet[c] /\ on'[c] = n
  BY <1>1 DEF Visits, Visit, TypeOK
<1>4. /\ pc[c] \in {"trans", "flush"} /\ at[c] \in Node /\ active[at[c]] = c
      /\ n \in Lineage(at[c]) /\ K \subseteq Lineage(at[c])
  BY <1>1 DEF Visits, ClientInv, RunsTrans, TypeOK
<1>5. LocalStep(c, n)
  BY <1>2 DEF LocalStep
<1>6. KeepsFlushes(c, n)
  BY <1>2, <1>3 DEF KeepsFlushes, OwnsIdle, IInv, ClientInv, BlockedIsWoken
<1>7. ClientInv(c)'
  <2>1. \A m \in Node : active'[m] = c <=> RunsTrans(c, m)'
    BY <1>1, <1>2, <1>3, <1>4 DEF ClientInv, RunsTrans
  <2>2. \A m \in quiet'[c] : ops'[m] = 0
    BY <1>1, <1>2, <1>3 DEF ClientInv
  <2>3. FlushInLineage(c)'
    BY <1>1, <1>2, <1>3, <1>4 DEF ClientInv, FlushInLineage
  <2>4. BlockedIsWoken(c)'
    <3>1. \A d \in Client : OwnsIdle(d)' => OwnsIdle(d)
      BY <1>2, <1>3 DEF OwnsIdle
    <3>2. \A d \in Client : OwnsIdle(d) => ops[at[d]] = 0
      BY DEF IInv, ClientInv, OwnedIdleIsUnused
    <3>3. ops[n] # 0 => n \in attached
      BY DEF IInv, FreedIsUnused
    <3> QED BY <1>2, <1>3, <1>4, <3>1, <3>2, <3>3 DEF BlockedIsWoken
  <2>5. OwnedIsReached(c)'
    BY <1>1, <1>2, <1>3, <1>4 DEF ClientInv, OwnedIsReached
  <2> QED BY <1>3, <2>1, <2>2, <2>3, <2>4, <2>5
     DEF ClientInv, OwnedIdleIsUnused, DestroyedIsUnused, OwnsIdle
<1>8. OpsCounted'
  BY <1>2, <1>3, <1>4, SameOps DEF IInv
<1>9. QueuesWait'
  BY <1>1, <1>2, <1>3, <1>4, SameQueues DEF IInv, Waits
<1>10. n \notin attached' => active'[n] = NoClient /\ queue'[n] = <<>> /\ ops'[n] = 0
  BY <1>2 DEF IInv, FreedIsUnused
<1> QED BY <1>1, <1>2, <1>5, <1>6, <1>7, <1>8, <1>9, <1>10, LocalInv

LEMMA InvContextInit ==
  ASSUME IInv, NEW c \in Client, NEW n \in Node, ContextInit(c, n)
  PROVE  IInv'
<1>1. TypeOK /\ TypeOK' /\ ClientInv(c) /\ c # NoClient
  <2>1. ActsOn(c, n)
    BY DEF ActsOn
  <2> QED BY <2>1, TypeActsOn, DscAssumption DEF IInv
<1>2. /\ n \notin attached /\ attached' = attached \cup {n}
      /\ active[n] = NoClient /\ queue[n] = <<>> /\ ops[n] = 0
  BY DEF ContextInit, IInv, FreedIsUnused
<1>3. /\ UNCHANGED <<tran, flags, todo, on, quiet, active, queue, ops>>
      /\ event'[n] = FALSE /\ \A m \in Node : m # n => event'[m] = event[m]
  <2>1. /\ active' = [active EXCEPT ![n] = NoClient]
        /\ queue' = [queue EXCEPT ![n] = <<>>]
        /\ ops' = [ops EXCEPT ![n] = 0] /\ event' = [event EXCEPT ![n] = FALSE]
        /\ UNCHANGED <<tran, flags, todo, on, quiet>>
    BY DEF ContextInit, walkVars
  <2>2. UNCHANGED active
    BY <1>1, <1>2, <2>1 DEF TypeOK
  <2>3. UNCHANGED queue
    BY <1>1, <1>2, <2>1 DEF TypeOK
  <2>4. UNCHANGED ops
    BY <1>1, <1>2, <2>1 DEF TypeOK
  <2> QED BY <1>1, <2>1, <2>2, <2>3, <2>4 DEF TypeOK
<1>4. owner[n] = NoClient
  BY <1>1, <1>2 DEF IInv, ClientInv, OwnedIsReached, TypeOK
<1>5. /\ owner'[n] \in {NoClient, c} /\ \A m \in Node : m # n => owner'[m] = owner[m]
      /\ \A d \in Client : d # c => pc'[d] = pc[d] /\ at'[d] = at[d]
      /\ \/ pc[c] = "idle" /\ pc'[c] = "owner" /\ at'[c] = n /\ owner'[n] = c
         \/ pc[c] = "trans" /\ UNCHANGED <<pc, at, owner>>
  <2>1. CASE /\ pc[c] = "idle" /\ Goto(c, "owner", n)
             /\ owner' = [owner EXCEPT ![n] = c]
    BY <1>1, <2>1 DEF Goto, TypeOK
  <2>2. CASE pc[c] = "trans" /\ UNCHANGED <<pc, at, owner>>
    BY <1>4, <2>2
  <2> QED BY <2>1, <2>2 DEF ContextInit
<1>6. \A d \in Client : pc[d] = "blocked" => on[d] # n
  BY <1>2 DEF IInv, ClientInv, BlockedIsWoken
<1>7. LocalStep(c, n)
  BY <1>1, <1>2, <1>3, <1>4, <1>5 DEF LocalStep
<1>8. KeepsFlushes(c, n)
  BY <1>2, <1>3, <1>5, <1>6 DEF KeepsFlushes, OwnsIdle
<1>9. ClientInv(c)'
  <2>1. CASE pc[c] = "idle" /\ pc'[c] = "owner" /\ at'[c] = n /\ owner'[n] = c
    <3>1. \A m \in Node : owner[m] # c /\ active[m] # c
      BY <1>1, <2>1 DEF ClientInv, OwnedIsReached, RunsTrans
    <3>2. \A m \in Node : active'[m] = c <=> RunsTrans(c, m)'
      BY <1>3, <2>1, <3>1 DEF RunsTrans
    <3>3. FlushInLineage(c)' /\ \A m \in quiet'[c] : ops'[m] = 0
      BY <1>1, <1>3, <2>1 DEF ClientInv, FlushInLineage
    <3>4. OwnedIsReached(c)'
      BY <1>2, <1>3, <1>5, <2>1, <3>1 DEF OwnedIsReached
    <3> QED BY <1>2, <1>3, <2>1, <3>2, <3>3, <3>4
       DEF ClientInv, OwnedIdleIsUnused, DestroyedIsUnused, BlockedIsWoken, OwnsIdle
  <2>2. CASE pc[c] = "trans" /\ UNCHANGED <<pc, at, owner>>
    <3>1. \A m \in Node : active'[m] = c <=> RunsTrans(c, m)'
      BY <1>1, <1>3, <2>2 DEF ClientInv, RunsTrans
    <3>2. FlushInLineage(c)' /\ \A m \in quiet'[c] : ops'[m] = 0
      BY <1>1, <1>3, <2>2 DEF ClientInv, FlushInLineage
    <3>3. OwnedIsReached(c)'
      BY <1>1, <1>2, <1>3, <2>2 DEF ClientInv, OwnedIsReached
    <3> QED BY <2>2, <3>1, <3>2, <3>3
       DEF ClientInv, OwnedIdleIsUnused, DestroyedIsUnused, BlockedIsWoken, OwnsIdle
  <2> QED BY <1>5, <2>1, <2>2
<1>10. OpsCounted'
  BY <1>3, <1>5, SameOps DEF IInv
<1>11. QueuesWait'
  BY <1>1, <1>3, <1>5, SameQueues DEF IInv, Waits
<1> QED BY <1>1, <1>2, <1>3, <1>7, <1>8, <1>9, <1>10, <1>11, LocalInv

\* Steps that change who owns n and nothing else.
LEMMA InvOwner ==
  ASSUME IInv, NEW c \in Client, NEW n \in Node, TypeOK',
         UNCHANGED <<attached, transVars, opsVars, flags, pc, at, walkVars>>,
         \A m \in Node : m # n => owner'[m] = owner[m],
         {owner[n], owner'[n]} \subseteq {NoClient, c},
         pc[c] = "trans", OwnedIsReached(c)'
  PROVE  IInv'
<1>1. TypeOK /\ ClientInv(c)
  BY DEF IInv
<1>2. UNCHANGED <<attached, active, queue, tran, ops, event, flags, pc, at, todo, on, quiet>>
  BY DEF transVars, opsVars, walkVars
<1>3. LocalStep(c, n)
  BY <1>2 DEF LocalStep
<1>4. KeepsFlushes(c, n)
  BY <1>1, <1>2 DEF KeepsFlushes, OwnsIdle, IInv, ClientInv, BlockedIsWoken
<1>5. ClientInv(c)'
  BY <1>1, <1>2
     DEF ClientInv, RunsTrans, OwnedIdleIsUnused, DestroyedIsUnused,
         FlushInLineage, BlockedIsWoken, OwnsIdle
<1>6. OpsCounted'
  BY <1>2, SameOps DEF IInv
<1>7. QueuesWait'
  BY <1>1, <1>2, SameQueues DEF IInv, Waits
<1>8. n \notin attached' => active'[n] = NoClient /\ queue'[n] = <<>> /\ ops'[n] = 0
  BY <1>2 DEF IInv, FreedIsUnused
<1> QED BY <1>2, <1>3, <1>4, <1>5, <1>6, <1>7, <1>8, LocalInv

LEMMA InvRegister ==
  ASSUME IInv, NEW c \in Client, NEW n \in Node, Register(c, n)
  PROVE  IInv'
<1>1. TypeOK /\ TypeOK' /\ ClientInv(c)
  <2>1. ActsOn(c, n)
    BY DEF ActsOn
  <2> QED BY <2>1, TypeActsOn DEF IInv
<1>2. /\ owner[n] = c /\ owner'[n] = NoClient /\ pc[c] = "trans"
      /\ \A m \in Node : m # n => owner'[m] = owner[m]
  BY <1>1 DEF Register, TypeOK
<1>3. OwnedIsReached(c)'
  BY <1>1, <1>2, DscAssumption DEF ClientInv, OwnedIsReached, Register, transVars
<1> QED BY <1>1, <1>2, <1>3, InvOwner DEF Register

LEMMA InvUnregister ==
  ASSUME IInv, NEW c \in Client, NEW n \in Node, Unwaited(c, n), Unregister(c, n)
  PROVE  IInv'
<1>1. TypeOK /\ TypeOK' /\ ClientInv(c)
  <2>1. ActsOn(c, n)
    BY DEF ActsOn
  <2> QED BY <2>1, TypeActsOn DEF IInv
<1>2. /\ owner[n] = NoClient /\ owner'[n] = c /\ pc[c] = "trans"
      /\ \A m \in Node : m # n => owner'[m] = owner[m]
  BY <1>1 DEF Unregister, Usable, TypeOK
<1>3. /\ n \in attached /\ active[at[c]] = c
      /\ at[c] \in Up(n) \/ (at[c] = n /\ queue[n] = <<>>)
  <2>1. n \in attached /\ active[at[c]] = c /\ (at[c] \in Up(n) \/ at[c] = n)
    BY <1>1 DEF Unregister, Usable, ClientInv, RunsTrans, TypeOK
  <2>2. at[c] = n => queue[n] = <<>>
    BY <1>2, <2>1 DEF Unwaited, TransQueued
  <2> QED BY <2>1, <2>2
<1>4. OwnedIsReached(c)'
  BY <1>1, <1>2, <1>3 DEF ClientInv, OwnedIsReached, Unregister, transVars
<1> QED BY <1>1, <1>2, <1>4, InvOwner DEF Unregister

\* Steps of a client that change no context.
LEMMA InvClientOnly ==
  ASSUME IInv, NEW c \in Client, TypeOK',
         UNCHANGED <<ctxVars, active, queue, opsVars, flags>>,
         \A d \in Client : d # c =>
           /\ pc'[d] = pc[d] /\ at'[d] = at[d] /\ tran'[d] = tran[d]
           /\ todo'[d] = todo[d] /\ on'[d] = on[d] /\ quiet'[d] = quiet[d],
         ~Waits(c), pc[c] # "op", pc'[c] # "op", ~OwnsIdle(c)', ClientInv(c)'
  PROVE  IInv'
<1>1. TypeOK /\ ClientInv(c) /\ at[c] \in Node
  BY DEF IInv, TypeOK
<1>2. UNCHANGED <<attached, owner, active, queue, ops, event, flags>>
  BY DEF ctxVars, opsVars
<1>3. LocalStep(c, at[c])
  BY <1>2 DEF LocalStep
<1>4. KeepsFlushes(c, at[c])
  BY <1>1, <1>2 DEF KeepsFlushes, OwnsIdle, IInv, ClientInv, BlockedIsWoken
<1>5. OpsCounted'
  BY <1>2, SameOps DEF IInv
<1>6. QueuesWait'
  BY <1>1, <1>2, SameQueues DEF IInv, Waits
<1>7. at[c] \notin attached' =>
        active'[at[c]] = NoClient /\ queue'[at[c]] = <<>> /\ ops'[at[c]] = 0
  BY <1>1, <1>2 DEF IInv, FreedIsUnused
<1> QED BY <1>1, <1>2, <1>3, <1>4, <1>5, <1>6, <1>7, LocalInv

LEMMA InvTranWait ==
  ASSUME IInv, NEW c \in Client, TranWait(c)
  PROVE  IInv'
<1>1. TypeOK /\ TypeOK' /\ ClientInv(c) /\ c # NoClient
  BY TypeResume, DscAssumption DEF IInv, Resume
<1>2. /\ UNCHANGED <<attached, owner, active, queue, ops, event, flags, todo, on, quiet>>
      /\ \A d \in Client : d # c =>
           /\ pc'[d] = pc[d] /\ at'[d] = at[d] /\ tran'[d] = tran[d]
      /\ pc[c] = "queued" /\ tran'[c] = "none"
      /\ \/ tran[c] = "aborted" /\ pc'[c] = "idle"
         \/ tran[c] = "triggered" /\ pc'[c] = "trans" /\ at'[c] = at[c]
  BY <1>1 DEF TranWait, Goto, ctxVars, opsVars, walkVars, TypeOK
<1>3. \A m \in Node : active'[m] = c <=> RunsTrans(c, m)'
  BY <1>1, <1>2 DEF ClientInv, RunsTrans
<1>4. quiet[c] = {} /\ todo[c] = {} /\ \A m \in Node : owner[m] # c
  BY <1>1, <1>2 DEF ClientInv, FlushInLineage, OwnedIsReached
<1>5. ClientInv(c)'
  BY <1>2, <1>3, <1>4
     DEF ClientInv, OwnedIsReached, OwnedIdleIsUnused, DestroyedIsUnused,
         FlushInLineage, BlockedIsWoken, OwnsIdle
<1> QED BY <1>1, <1>2, <1>5, InvClientOnly DEF Waits, OwnsIdle, ctxVars, opsVars

LEMMA InvOpsEventWait ==
  ASSUME IInv, NEW c \in Client, OpsEventWait(c)
  PROVE  IInv'
<1>1. TypeOK /\ TypeOK' /\ ClientInv(c)
  BY TypeResume DEF IInv, Resume
<1>2. /\ UNCHANGED <<attached, owner, active, queue, tran, ops, event, flags, at, todo>>
      /\ \A d \in Client : d # c => pc'[d] = pc[d] /\ on'[d] = on[d] /\ quiet'[d] = quiet[d]
      /\ pc[c] = "blocked" /\ event[on[c]] /\ pc'[c] = "flush"
      /\ quiet'[c] = quiet[c] \cup {on[c]}
  BY <1>1 DEF OpsEventWait, ctxVars, opsVars, transVars, TypeOK
<1>3. \A m \in Node : active'[m] = c <=> RunsTrans(c, m)'
  BY <1>1, <1>2 DEF ClientInv, RunsTrans
<1>4. ops[on[c]] = 0 /\ on[c] \in Lineage(at[c]) /\ active[at[c]] = c
  BY <1>1, <1>2 DEF ClientInv, BlockedIsWoken, RunsTrans, TypeOK
<1>5. \A m \in quiet'[c] : ops'[m] = 0
  BY <1>1, <1>2, <1>4 DEF ClientInv
<1>6. FlushInLineage(c)' /\ OwnedIsReached(c)'
  BY <1>1, <1>2, <1>4 DEF ClientInv, FlushInLineage, OwnedIsReached
<1>7. ClientInv(c)'
  BY <1>2, <1>3, <1>5, <1>6
     DEF ClientInv, OwnedIdleIsUnused, DestroyedIsUnused, BlockedIsWoken, OwnsIdle
<1> QED BY <1>1, <1>2, <1>7, InvClientOnly DEF Waits, OwnsIdle, ctxVars, opsVars

LEMMA InvWaitForOpsReturn ==
  ASSUME IInv, NEW c \in Client, WaitForOpsReturn(c)
  PROVE  IInv'
<1>1. TypeOK /\ TypeOK' /\ ClientInv(c)
  BY TypeResume DEF IInv, Resume
<1>2. /\ UNCHANGED <<attached, owner, active, queue, tran, ops, event, flags, at, on, quiet>>
      /\ \A d \in Client : d # c => pc'[d] = pc[d] /\ todo'[d] = todo[d]
      /\ pc[c] = "flush" /\ pc'[c] = "trans" /\ todo'[c] = {}
  BY <1>1 DEF WaitForOpsReturn, ctxVars, opsVars, transVars, TypeOK
<1>3. \A m \in Node : active'[m] = c <=> RunsTrans(c, m)'
  BY <1>1, <1>2 DEF ClientInv, RunsTrans
<1>4. FlushInLineage(c)' /\ OwnedIsReached(c)'
  BY <1>1, <1>2 DEF ClientInv, FlushInLineage, OwnedIsReached
<1>5. ClientInv(c)'
  BY <1>1, <1>2, <1>3, <1>4
     DEF ClientInv, OwnedIdleIsUnused, DestroyedIsUnused, BlockedIsWoken, OwnsIdle
<1> QED BY <1>1, <1>2, <1>5, InvClientOnly DEF Waits, OwnsIdle, ctxVars, opsVars

LEMMA InvOpStop ==
  ASSUME IInv, NEW c \in Client, OpStop(c)
  PROVE  IInv'
<1> DEFINE n == at[c]
<1>1. TypeOK /\ TypeOK' /\ ClientInv(c) /\ n \in Node /\ c \in OpsAt(n)
  BY TypeResume DEF IInv, Resume, TypeOK, OpsAt, OpStop
<1>2. /\ UNCHANGED <<attached, owner, active, queue, tran, flags, todo, on, quiet>>
      /\ pc[c] = "op" /\ pc'[c] = "idle"
      /\ \A d \in Client : d # c => pc'[d] = pc[d] /\ at'[d] = at[d]
      /\ ops'[n] = ops[n] - 1 /\ (event'[n] <=> event[n] \/ ops[n] = 1)
      /\ \A m \in Node : m # n => ops'[m] = ops[m] /\ event'[m] = event[m]
  BY <1>1 DEF OpStop, Goto, ctxVars, transVars, walkVars, TypeOK
<1>3. ops[n] \in Nat \ {0} /\ Cardinality(OpsAt(n) \ {c}) = ops[n] - 1
  BY <1>1, OpsPositive DEF IInv
<1>4. quiet[c] = {} /\ todo[c] = {} /\ \A m \in Node : owner[m] # c /\ active[m] # c
  BY <1>1, <1>2 DEF ClientInv, FlushInLineage, OwnedIsReached, RunsTrans
<1> HIDE DEF n
<1>5. LocalStep(c, n)
  BY <1>2, <1>3 DEF LocalStep
<1>6. KeepsFlushes(c, n)
  <2>1. \A d \in Client : n \notin quiet[d]
    BY <1>3 DEF IInv, ClientInv
  <2>2. \A d \in Client : pc[d] = "blocked" /\ on[d] = n => n \in attached /\ ~event[n]
    BY <1>3 DEF IInv, ClientInv, BlockedIsWoken
  <2>3. ops'[n] = 0 <=> ops[n] = 1
    BY <1>2, <1>3
  <2> QED BY <1>2, <2>1, <2>2, <2>3 DEF KeepsFlushes, OwnsIdle
<1>7. ClientInv(c)'
  <2>1. \A m \in Node : active'[m] = c <=> RunsTrans(c, m)'
    BY <1>2, <1>4 DEF RunsTrans
  <2> QED BY <1>2, <1>4, <2>1
     DEF ClientInv, OwnedIsReached, OwnedIdleIsUnused, DestroyedIsUnused,
         FlushInLineage, BlockedIsWoken, OwnsIdle
<1>8. OpsCounted'
  <2>1. \A m \in Node : OpsAt(m)' = OpsAt(m) \ {c}
    <3>1. \A m \in Node : \A d \in Client :
            pc'[d] = "op" /\ at'[d] = m <=> pc[d] = "op" /\ at[d] = m /\ d # c
      BY <1>2
    <3> QED BY <3>1 DEF OpsAt
  <2>2. \A m \in Node : m # n => OpsAt(m) \ {c} = OpsAt(m)
    BY <1>1 DEF OpsAt
  <2> QED BY <1>2, <1>3, <2>1, <2>2 DEF IInv, OpsCounted
<1>9. QueuesWait'
  BY <1>1, <1>2, SameQueues DEF IInv, Waits
<1>10. n \notin attached' => active'[n] = NoClient /\ queue'[n] = <<>> /\ ops'[n] = 0
  BY <1>1, <1>2, <1>3 DEF IInv, FreedIsUnused
<1> QED BY <1>1, <1>2, <1>5, <1>6, <1>7, <1>8, <1>9, <1>10, LocalInv

\* While a client holds a transition above n no other client runs one in the
\* lineage of n unless n itself is active.
LEMMA HolderAbove ==
  ASSUME IInv, NEW n \in Node, NEW c \in Client, NEW d \in Client, c # d,
         NEW a \in Up(n), active[a] = c,
         NEW b \in Lineage(n), active[b] = d
  PROVE  FALSE
<1>1. a \in Node /\ b \in Node /\ c # NoClient /\ d # NoClient
  BY UpFacts, LineageInNode, DscAssumption
<1>2. a \in Lineage(b)
  <2>1. CASE b = n
    BY <1>1, <2>1, LineageFacts
  <2>2. CASE b \in Up(n)
    BY <1>1, <2>2, UpChain, LineageFacts
  <2>3. CASE n \in Up(b)
    BY <1>1, <2>3, UpTransitive, LineageFacts
  <2> QED BY <1>1, <2>1, <2>2, <2>3, LineageFacts
<1>3. a = b
  BY <1>1, <1>2, ActiveUnique DEF IInv, TransActive
<1> QED BY <1>3

LEMMA InvContextFlush ==
  ASSUME IInv, NEW c \in Client, NEW n \in Node, ContextFlush(c, n)
  PROVE  IInv'
<1>1. TypeOK /\ TypeOK' /\ ClientInv(c) /\ c # NoClient /\ n \notin Up(n)
  <2>1. ActsOn(c, n)
    BY DEF ActsOn
  <2> QED BY <2>1, TypeActsOn, DscAssumption, UpFacts DEF IInv
<1>2. /\ UNCHANGED <<attached, owner, active, queue, tran, ops, event, flags, at, todo, quiet>>
      /\ pc'[c] = "destroy" /\ on'[c] = n
      /\ \A d \in Client : d # c => pc'[d] = pc[d] /\ on'[d] = on[d]
  BY <1>1 DEF ContextFlush, ctxVars, transVars, opsVars, TypeOK
<1>3. /\ owner[n] = c
      /\ \/ pc[c] = "owner" /\ at[c] = n
         \/ pc[c] = "trans" /\ at[c] \in Up(n) /\ n \in quiet[c]
  BY DEF ContextFlush
<1>4. n \in attached /\ active[n] = NoClient /\ ops[n] = 0
  <2>1. n \in attached
    BY <1>1, <1>3 DEF ClientInv, OwnedIsReached
  <2>2. CASE pc[c] = "owner" /\ at[c] = n
    BY <1>1, <2>1, <2>2 DEF ClientInv, OwnedIdleIsUnused, OwnsIdle
  <2>3. CASE pc[c] = "trans" /\ at[c] \in Up(n) /\ n \in quiet[c]
    <3>1. active[at[c]] = c
      BY <1>1, <2>3 DEF ClientInv, RunsTrans, TypeOK
    <3> QED BY <1>1, <2>1, <2>3, <3>1 DEF IInv, ClientInv, ActiveExcludes, TransActive
  <2> QED BY <1>3, <2>2, <2>3
<1>6. LocalStep(c, n)
  BY <1>2, <1>3, <1>4 DEF LocalStep
<1>7. KeepsFlushes(c, n)
  BY <1>1, <1>2, <1>3, <1>4 DEF KeepsFlushes, OwnsIdle, IInv, ClientInv, BlockedIsWoken
<1>8. ClientInv(c)'
  <2>1. \A m \in Node : active'[m] = c <=> RunsTrans(c, m)'
    BY <1>1, <1>2, <1>3 DEF ClientInv, RunsTrans
  <2>2. FlushInLineage(c)' /\ \A m \in quiet'[c] : ops'[m] = 0
    BY <1>1, <1>2, <1>3 DEF ClientInv, FlushInLineage
  <2>3. OwnedIsReached(c)'
    BY <1>1, <1>2, <1>3 DEF ClientInv, OwnedIsReached
  <2>4. OwnedIdleIsUnused(c)' /\ DestroyedIsUnused(c)' /\ BlockedIsWoken(c)'
    BY <1>1, <1>2, <1>3, <1>4
       DEF OwnedIdleIsUnused, DestroyedIsUnused, BlockedIsWoken, OwnsIdle
  <2> QED BY <2>1, <2>2, <2>3, <2>4 DEF ClientInv
<1>9. OpsCounted'
  BY <1>2, <1>3, SameOps DEF IInv
<1>10. QueuesWait'
  BY <1>1, <1>2, <1>3, SameQueues DEF IInv, Waits
<1> QED BY <1>1, <1>2, <1>4, <1>6, <1>7, <1>8, <1>9, <1>10, LocalInv

\* The rest of a queue once its first waiter is gone.
LEMMA TailFacts ==
  ASSUME NEW q \in Seq(Client), q # <<>>
  PROVE  /\ Head(q) = q[1] /\ 1 \in DOMAIN q
         /\ \A i \in DOMAIN Tail(q) :
              i \in Nat /\ i + 1 \in DOMAIN q /\ i + 1 # 1 /\ Tail(q)[i] = q[i + 1]
  OBVIOUS

\* What the abort of one waiter does.
LEMMA AbortFacts ==
  ASSUME IInv, NEW c \in Client, FlushAbort(c)
  PROVE  /\ on[c] \in Node /\ pc[c] = "destroy" /\ owner[on[c]] = c
         /\ at[c] \in Up(on[c]) /\ active[at[c]] = c
         /\ UNCHANGED <<attached, owner, active, ops, event, flags, pc, at, todo, on, quiet>>
         /\ queue[on[c]] # <<>> /\ queue[on[c]] \in Seq(Client)
         /\ queue' = [queue EXCEPT ![on[c]] = Tail(@)]
         /\ tran' = [tran EXCEPT ![Head(queue[on[c]])] = "aborted"]
<1>1. TypeOK /\ ClientInv(c)
  BY DEF IInv
<1>2. pc[c] = "destroy" /\ TransAbort(on[c]) /\ on[c] \in Node
  BY <1>1 DEF FlushAbort, TypeOK
<1>3. queue[on[c]] # <<>> /\ queue[on[c]] \in Seq(Client)
  BY <1>1, <1>2 DEF TransAbort, TransQueued, TypeOK
<1>4. owner[on[c]] = c /\ at[c] \in Up(on[c]) \cup {on[c]}
  BY <1>1, <1>2 DEF ClientInv, DestroyedIsUnused
\* Nobody waits on the context of an owner that runs no transition.
<1>5. at[c] \in Up(on[c]) /\ active[at[c]] = c
  BY <1>1, <1>2, <1>3, <1>4 DEF ClientInv, OwnedIsReached
<1> QED BY <1>2, <1>3, <1>4, <1>5
     DEF FlushAbort, TransAbort, ctxVars, opsVars, walkVars

LEMMA InvFlushAbort ==
  ASSUME IInv, NEW c \in Client, FlushAbort(c)
  PROVE  IInv'
<1> DEFINE n == on[c]
<1>1. TypeOK /\ TypeOK' /\ ClientInv(c) /\ n \in Node /\ n \notin Up(n)
  BY TypeResume, UpFacts DEF IInv, Resume, TypeOK
<1>2. /\ UNCHANGED <<attached, owner, active, ops, event, flags, pc, at, todo, on, quiet>>
      /\ queue[n] # <<>> /\ queue[n] \in Seq(Client) /\ queue'[n] = Tail(queue[n])
      /\ \A m \in Node : m # n => queue'[m] = queue[m]
  <2>1. queue' = [queue EXCEPT ![n] = Tail(@)] /\ queue \in [Node -> Seq(Client)]
    BY <1>1, AbortFacts DEF TypeOK
  <2>2. queue'[n] = Tail(queue[n]) /\ \A m \in Node : m # n => queue'[m] = queue[m]
    BY <1>1, <2>1
  <2> QED BY <2>2, AbortFacts
<1>3. pc[c] = "destroy" /\ owner[n] = c /\ at[c] \in Up(n) /\ active[at[c]] = c
  BY AbortFacts
<1>4. /\ Head(queue[n]) = queue[n][1] /\ 1 \in DOMAIN queue[n]
      /\ \A i \in DOMAIN queue'[n] :
           /\ i \in Nat /\ i + 1 \in DOMAIN queue[n] /\ i + 1 # 1
           /\ queue'[n][i] = queue[n][i + 1]
  BY <1>2, TailFacts
<1>5. /\ Head(queue[n]) \in Client /\ tran[Head(queue[n])] = "queued"
      /\ pc[Head(queue[n])] = "queued" /\ at[Head(queue[n])] = n
      /\ tran'[Head(queue[n])] = "aborted"
      /\ \A d \in Client : d # Head(queue[n]) => tran'[d] = tran[d]
  <2>1. /\ Head(queue[n]) \in Client /\ tran[Head(queue[n])] = "queued"
        /\ pc[Head(queue[n])] = "queued" /\ at[Head(queue[n])] = n
    BY <1>1, <1>4, QueueMembers DEF IInv
  <2>2. tran' = [tran EXCEPT ![Head(queue[n])] = "aborted"]
        /\ tran \in [Client -> {"none", "queued", "triggered", "aborted"}]
    BY <1>1, AbortFacts DEF TypeOK
  <2> QED BY <2>1, <2>2
<1> HIDE DEF n
<1>6. LocalStep(c, n)
  BY <1>2, <1>3, <1>5 DEF LocalStep
<1>7. KeepsFlushes(c, n)
  BY <1>1, <1>2 DEF KeepsFlushes, OwnsIdle, IInv, ClientInv, BlockedIsWoken
<1>8. ClientInv(c)'
  <2>1. \A m \in Node : active'[m] = c <=> RunsTrans(c, m)'
    BY <1>1, <1>2, <1>3 DEF ClientInv, RunsTrans
  <2>2. OwnedIsReached(c)'
    BY <1>1, <1>2, <1>3 DEF ClientInv, OwnedIsReached
  <2>3. FlushInLineage(c)' /\ \A m \in quiet'[c] : ops'[m] = 0
    BY <1>1, <1>2 DEF ClientInv, FlushInLineage
  <2>4. OwnedIdleIsUnused(c)' /\ DestroyedIsUnused(c)' /\ BlockedIsWoken(c)'
    BY <1>1, <1>2, <1>3
       DEF ClientInv, OwnedIdleIsUnused, DestroyedIsUnused, BlockedIsWoken, OwnsIdle
  <2> QED BY <2>1, <2>2, <2>3, <2>4 DEF ClientInv
<1>9. OpsCounted'
  BY <1>2, SameOps DEF IInv
<1>10. QueuesWait'
  <2>0. \A m \in Node : \A i \in DOMAIN queue[m] :
          /\ queue[m][i] \in Client /\ at[queue[m][i]] = m
          /\ pc[queue[m][i]] = "queued" /\ tran[queue[m][i]] = "queued"
          /\ \A j \in DOMAIN queue[m] : queue[m][i] = queue[m][j] => i = j
    BY <1>1, QueueMembers DEF IInv
  <2>3. \A m \in Node : \A i, j \in DOMAIN queue[m] : queue[m][i] = queue[m][j] => i = j
    BY DEF IInv, QueuesWait
  <2>1. ASSUME NEW m \in Node, m # n, NEW i \in DOMAIN queue'[m]
        PROVE  /\ pc'[queue'[m][i]] = "queued" /\ tran'[queue'[m][i]] = "queued"
               /\ at'[queue'[m][i]] = m
               /\ \A j \in DOMAIN queue'[m] : queue'[m][i] = queue'[m][j] => i = j
    <3>1. queue'[m] = queue[m]
      BY <1>2, <2>1
    <3>2. /\ queue[m][i] \in Client /\ at[queue[m][i]] = m
          /\ pc[queue[m][i]] = "queued" /\ tran[queue[m][i]] = "queued"
          /\ \A j \in DOMAIN queue[m] : queue[m][i] = queue[m][j] => i = j
      BY <2>0, <2>1, <3>1
    <3>3. queue[m][i] # Head(queue[n])
      BY <1>5, <2>1, <3>2
    <3>4. tran'[queue[m][i]] = "queued" /\ pc' = pc /\ at' = at
      BY <1>2, <1>5, <3>2, <3>3
    <3> QED BY <3>1, <3>2, <3>4
  <2>2. ASSUME NEW i \in DOMAIN queue'[n]
        PROVE  /\ pc'[queue'[n][i]] = "queued" /\ tran'[queue'[n][i]] = "queued"
               /\ at'[queue'[n][i]] = n
               /\ \A j \in DOMAIN queue'[n] : queue'[n][i] = queue'[n][j] => i = j
    <3>1. i + 1 \in DOMAIN queue[n] /\ i + 1 # 1 /\ queue'[n][i] = queue[n][i + 1]
      BY <1>4
    <3>2. queue[n][i + 1] # Head(queue[n]) /\ queue[n][i + 1] \in Client
      BY <1>1, <1>4, <2>0, <3>1
    <3>3. /\ pc'[queue'[n][i]] = "queued" /\ tran'[queue'[n][i]] = "queued"
          /\ at'[queue'[n][i]] = n
      <4>1. tran'[queue[n][i + 1]] = "queued"
        BY <1>1, <1>5, <2>0, <3>1, <3>2
      <4>2. pc'[queue[n][i + 1]] = "queued" /\ at'[queue[n][i + 1]] = n
        BY <1>1, <1>2, <2>0, <3>1
      <4> QED BY <3>1, <4>1, <4>2
    <3>4. ASSUME NEW j \in DOMAIN queue'[n], queue'[n][i] = queue'[n][j] PROVE i = j
      <4>1. j + 1 \in DOMAIN queue[n] /\ queue'[n][j] = queue[n][j + 1]
        BY <1>4
      <4>2. i + 1 = j + 1
        BY <1>1, <2>3, <3>1, <3>4, <4>1
      <4>3. i \in Nat /\ j \in Nat
        BY <1>4
      <4> QED BY <4>2, <4>3
    <3> QED BY <3>3, <3>4
  <2> QED BY <2>1, <2>2 DEF QueuesWait, Waits
<1>11. n \notin attached' => active'[n] = NoClient /\ queue'[n] = <<>> /\ ops'[n] = 0
  BY <1>1, <1>2, <1>3 DEF ClientInv, OwnedIsReached
<1> QED BY <1>1, <1>2, <1>6, <1>7, <1>8, <1>9, <1>10, <1>11, LocalInv

LEMMA InvContextDetach ==
  ASSUME IInv, NEW c \in Client, ContextDetach(c)
  PROVE  IInv'
<1> DEFINE n == on[c]
<1>1. TypeOK /\ TypeOK' /\ ClientInv(c) /\ c # NoClient /\ n \in Node /\ n \notin Up(n)
  BY TypeResume, DscAssumption, UpFacts DEF IInv, Resume, TypeOK
<1>2. /\ UNCHANGED <<active, queue, tran, ops, event, flags, todo>>
      /\ attached' = attached \ {n}
      /\ owner'[n] = NoClient /\ \A m \in Node : m # n => owner'[m] = owner[m]
      /\ quiet'[c] = quiet[c] \ {n}
      /\ \A d \in Client : d # c =>
           /\ pc'[d] = pc[d] /\ at'[d] = at[d] /\ on'[d] = on[d] /\ quiet'[d] = quiet[d]
      /\ pc[c] = "destroy" /\ queue[n] = <<>>
      /\ \/ at[c] = n /\ pc'[c] = "idle"
         \/ at[c] # n /\ pc'[c] = "trans" /\ at'[c] = at[c]
  <2>1. CASE at[c] = n /\ Goto(c, "idle", Driver)
    BY <1>1, <2>1 DEF ContextDetach, Goto, TransQueued, transVars, opsVars, TypeOK
  <2>2. CASE at[c] # n /\ Goto(c, "trans", at[c])
    BY <1>1, <2>2 DEF ContextDetach, Goto, TransQueued, transVars, opsVars, TypeOK
  <2> QED BY <2>1, <2>2 DEF ContextDetach
<1>3. /\ owner[n] = c /\ at[c] \in Up(n) \cup {n}
      /\ active[n] = NoClient /\ queue[n] = <<>> /\ ops[n] = 0
      /\ at[c] # n => active[at[c]] = c
  BY <1>1, <1>2 DEF ClientInv, DestroyedIsUnused, RunsTrans, TypeOK
<1> HIDE DEF n
<1>4. ASSUME NEW d \in Client, d # c, pc[d] = "blocked", on[d] = n PROVE FALSE
  <2>1. ClientInv(d) /\ at[d] \in Node
    BY <1>1 DEF IInv, TypeOK
  <2>2. at[d] \in Lineage(n) /\ active[at[d]] = d
    BY <1>1, <1>4, <2>1, LineageFacts DEF ClientInv, BlockedIsWoken, RunsTrans
  <2>3. at[c] # n
    BY <1>2, <1>4, <2>1 DEF ClientInv, BlockedIsWoken, OwnsIdle, n
  <2> QED BY <1>1, <1>3, <1>4, <2>2, <2>3, HolderAbove
<1>5. LocalStep(c, n)
  BY <1>2, <1>3 DEF LocalStep
<1>6. KeepsFlushes(c, n)
  BY <1>2, <1>3, <1>4 DEF KeepsFlushes, OwnsIdle
<1>7. ClientInv(c)'
  <2>1. \A m \in Node : active'[m] = c <=> RunsTrans(c, m)'
    BY <1>1, <1>2, <1>3 DEF ClientInv, RunsTrans, n
  <2>2. FlushInLineage(c)' /\ \A m \in quiet'[c] : ops'[m] = 0
    BY <1>1, <1>2, <1>3 DEF ClientInv, FlushInLineage
  <2>3. OwnedIsReached(c)'
    <3> SUFFICES ASSUME NEW m \in Node, owner'[m] = c
                 PROVE  /\ m \in attached'
                        /\ \/ at'[c] = m /\ queue'[m] = <<>> /\ pc'[c] = "trans"
                           \/ at'[c] \in Up(m) /\ active'[at'[c]] = c /\ pc'[c] = "trans"
      BY DEF OwnedIsReached
    <3>1. m # n /\ owner[m] = c
      BY <1>1, <1>2
    <3> QED BY <1>1, <1>2, <1>3, <3>1 DEF ClientInv, OwnedIsReached
  <2>4. OwnedIdleIsUnused(c)' /\ DestroyedIsUnused(c)' /\ BlockedIsWoken(c)'
    BY <1>2 DEF OwnedIdleIsUnused, DestroyedIsUnused, BlockedIsWoken, OwnsIdle
  <2> QED BY <2>1, <2>2, <2>3, <2>4 DEF ClientInv
<1>8. OpsCounted'
  BY <1>2, SameOps DEF IInv
<1>9. QueuesWait'
  BY <1>1, <1>2, SameQueues DEF IInv, Waits
<1> QED BY <1>1, <1>2, <1>3, <1>5, <1>6, <1>7, <1>8, <1>9, LocalInv

(* A stop hands the tree over to the waiters of a set S of contexts.  The  *)
(* set is conflict-free if no transition is left in the lineage of a       *)
(* member with waiters, and no other such member either.                   *)

ConflictFree(act, S) ==
  \A m \in S : TransQueued(m) =>
    /\ \A k \in Lineage(m) : act[k] = NoClient
    /\ \A k \in S : k # m /\ TransQueued(k) => k \notin Lineage(m)

LEMMA InvStop ==
  ASSUME IInv, NEW c \in Client, NEW n \in Node, NEW S \in SUBSET Node,
         MayStop(c, n), ConflictFree(TransStop(n), S),
         TransTrigger(TransStop(n), S), EndTrans(c, n)
  PROVE  IInv'
<1> DEFINE T == {m \in S : TransQueued(m)}
           act == TransStop(n)
           h(m) == Head(queue[m])
<1>1. TypeOK /\ TypeOK' /\ ClientInv(c) /\ c # NoClient /\ n \notin Up(n)
  BY TypeStop, DscAssumption, UpFacts DEF IInv
<1>2. pc[c] = "trans" /\ at[c] = n /\ active[n] = c /\ todo[c] = {}
  BY <1>1 DEF MayStop, ClientInv, RunsTrans, FlushInLineage
<1>3. /\ act[n] = NoClient /\ \A m \in Node : m # n => act[m] = active[m]
      /\ \A m \in Node : active[m] = NoClient => act[m] = NoClient
  BY <1>1 DEF TransStop, TypeOK
<1>4. T \subseteq Node /\ \A m \in Node : m \in T => queue[m] # <<>>
  BY DEF TransQueued
<1>5. \A m \in T : /\ \A k \in Lineage(m) : act[k] = NoClient
                   /\ \A k \in T : k # m => k \notin Lineage(m)
  BY DEF ConflictFree
<1>6. /\ \A m \in Node : active'[m] = IF m \in T THEN h(m) ELSE act[m]
      /\ \A m \in Node : queue'[m] = IF m \in T THEN Tail(queue[m]) ELSE queue[m]
      /\ \A d \in Client : tran'[d] = IF \E m \in T : h(m) = d
                                      THEN "triggered" ELSE tran[d]
  BY DEF TransTrigger
<1>7. /\ UNCHANGED <<attached, owner, ops, event, flags, todo, on>>
      /\ \A d \in Client : d # c => pc'[d] = pc[d] /\ at'[d] = at[d] /\ quiet'[d] = quiet[d]
      /\ quiet'[c] = {}
      /\ \/ owner[n] = c /\ pc'[c] = "owner" /\ at'[c] = n
         \/ owner[n] # c /\ pc'[c] = "idle"
  <2>1. CASE owner[n] = c /\ Goto(c, "owner", n)
    BY <1>1, <2>1 DEF EndTrans, Goto, ctxVars, opsVars, TypeOK
  <2>2. CASE owner[n] # c /\ Goto(c, "idle", Driver)
    BY <1>1, <2>2 DEF EndTrans, Goto, ctxVars, opsVars, TypeOK
  <2> QED BY <2>1, <2>2 DEF EndTrans
<1> HIDE DEF T, act, h
<1>8. \A m \in T : /\ h(m) \in Client /\ h(m) # c
                   /\ pc[h(m)] = "queued" /\ tran[h(m)] = "queued" /\ at[h(m)] = m
  <2>1. ASSUME NEW m \in T PROVE 1 \in DOMAIN queue[m] /\ h(m) = queue[m][1]
    <3>1. queue[m] \in Seq(Client) /\ queue[m] # <<>>
      BY <1>1, <1>4 DEF TypeOK
    <3> QED BY <3>1 DEF h
  <2> QED BY <1>1, <1>2, <1>4, <2>1, QueueMembers DEF IInv
<1>9. \A m \in Lineage(n) : m \in Node
  BY LineageInNode
<1>10. \A m \in Node : \A d \in Client : d # c /\ active[m] = d => m \notin T /\ active'[m] = d
  <2>1. \A m \in T : m \in Lineage(m)
    BY <1>4, LineageFacts
  <2> QED BY <1>2, <1>3, <1>5, <1>6, <2>1, DscAssumption
<1>a. OpsCounted'
  BY <1>2, <1>7, SameOps DEF IInv
<1>b. FreedIsUnused'
  BY <1>3, <1>4, <1>6, <1>7 DEF IInv, FreedIsUnused
<1>c. ActiveExcludes'
  <2> SUFFICES ASSUME NEW m \in Node, NEW k \in Up(m),
                      active'[m] # NoClient, active'[k] # NoClient
               PROVE  FALSE
    BY DEF ActiveExcludes, TransActive
  <2>1. k \in Node /\ k # m /\ k \in Lineage(m) /\ m \in Lineage(k)
    BY UpFacts, LineageFacts
  <2>2. m \notin T /\ k \notin T
    BY <1>5, <1>6, <2>1
  <2>3. active[m] # NoClient /\ active[k] # NoClient
    BY <1>3, <1>6, <2>1, <2>2
  <2> QED BY <2>3 DEF IInv, ActiveExcludes, TransActive
<1>d. QueuesWait'
  <2>1. ASSUME NEW m \in Node, NEW i \in DOMAIN queue[m], m \in T => i # 1
        PROVE  /\ pc'[queue[m][i]] = "queued" /\ tran'[queue[m][i]] = "queued"
               /\ at'[queue[m][i]] = m
    <3> DEFINE d == queue[m][i]
    <3>1. /\ d \in Client /\ pc[d] = "queued" /\ tran[d] = "queued" /\ at[d] = m
          /\ \A j \in DOMAIN queue[m] : d = queue[m][j] => i = j
      BY <1>1, QueueMembers DEF IInv
    <3>2. ~\E k \in T : h(k) = d
      <4> SUFFICES ASSUME NEW k \in T, h(k) = d PROVE FALSE
        OBVIOUS
      <4>1. k = m
        BY <1>8, <3>1
      <4>2. 1 \in DOMAIN queue[m] /\ h(m) = queue[m][1]
        <5>1. queue[m] \in Seq(Client) /\ queue[m] # <<>>
          BY <1>1, <1>4, <4>1 DEF TypeOK
        <5> QED BY <5>1 DEF h
      <4> QED BY <2>1, <3>1, <4>1, <4>2
    <3> HIDE DEF d
    <3>3. pc'[d] = "queued" /\ tran'[d] = "queued" /\ at'[d] = m
      BY <1>2, <1>6, <1>7, <3>1, <3>2
    <3> QED BY <3>3 DEF d
  <2>2. ASSUME NEW m \in Node, m \in T
        PROVE  \A i \in DOMAIN queue'[m] :
                 i + 1 \in DOMAIN queue[m] /\ i + 1 # 1 /\ i \in Nat /\ queue'[m][i] = queue[m][i + 1]
    <3>1. queue[m] \in Seq(Client) /\ queue[m] # <<>> /\ queue'[m] = Tail(queue[m])
      BY <1>1, <1>4, <1>6, <2>2 DEF TypeOK
    <3> QED BY <3>1
  <2>3. \A m \in Node : \A i, j \in DOMAIN queue[m] : queue[m][i] = queue[m][j] => i = j
    BY DEF IInv, QueuesWait
  <2>4. ASSUME NEW m \in Node, m \in T, NEW i \in DOMAIN queue'[m]
        PROVE  /\ pc'[queue'[m][i]] = "queued" /\ tran'[queue'[m][i]] = "queued"
               /\ at'[queue'[m][i]] = m
               /\ \A j \in DOMAIN queue'[m] : queue'[m][i] = queue'[m][j] => i = j
    <3>1. /\ i + 1 \in DOMAIN queue[m] /\ i + 1 # 1 /\ i \in Nat
          /\ queue'[m][i] = queue[m][i + 1]
      BY <2>2, <2>4
    <3>2. ASSUME NEW j \in DOMAIN queue'[m], queue'[m][i] = queue'[m][j] PROVE i = j
      <4>1. /\ j + 1 \in DOMAIN queue[m] /\ j \in Nat
            /\ queue'[m][j] = queue[m][j + 1]
        BY <2>2, <2>4
      <4>2. i + 1 = j + 1
        BY <2>3, <3>1, <3>2, <4>1
      <4> QED BY <3>1, <4>1, <4>2
    <3>3. /\ pc'[queue[m][i + 1]] = "queued" /\ tran'[queue[m][i + 1]] = "queued"
          /\ at'[queue[m][i + 1]] = m
      BY <2>1, <3>1
    <3> QED BY <3>1, <3>2, <3>3
  <2>5. ASSUME NEW m \in Node, m \notin T, NEW i \in DOMAIN queue'[m]
        PROVE  /\ pc'[queue'[m][i]] = "queued" /\ tran'[queue'[m][i]] = "queued"
               /\ at'[queue'[m][i]] = m
               /\ \A j \in DOMAIN queue'[m] : queue'[m][i] = queue'[m][j] => i = j
    BY <1>6, <2>1, <2>3, <2>5
  <2> QED BY <2>4, <2>5 DEF QueuesWait, Waits
<1>e. ClientInv(c)'
  <2>1. \A m \in Node : active[m] = c => m = n
    BY <1>1, <1>2 DEF ClientInv, RunsTrans
  <2>2. \A m \in Node : active'[m] # c
    BY <1>1, <1>3, <1>6, <1>8, <2>1
  <2>3. \A m \in Node : active'[m] = c <=> RunsTrans(c, m)'
    BY <1>7, <2>2 DEF RunsTrans
  <2>4. owner[n] = c => queue[n] = <<>> /\ n \in attached /\ ops[n] = 0
    BY <1>1, <1>2 DEF ClientInv, OwnedIsReached, MayStop
  <2>5. owner[n] = c => queue'[n] = <<>> /\ active'[n] = NoClient
    BY <1>3, <1>4, <1>6, <2>4
  <2>6. \A m \in Node : owner[m] = c => m = n
    BY DEF MayStop
  <2> QED BY <1>2, <1>7, <2>3, <2>4, <2>5, <2>6
     DEF ClientInv, OwnedIsReached, OwnedIdleIsUnused, DestroyedIsUnused,
         FlushInLineage, BlockedIsWoken, OwnsIdle
<1>f. ASSUME NEW d \in Client, d # c PROVE ClientInv(d)'
  <2>1. /\ ClientInv(d) /\ at[d] \in Node /\ on[d] \in Node /\ d # NoClient
        /\ pc'[d] = pc[d] /\ at'[d] = at[d] /\ quiet'[d] = quiet[d]
    BY <1>1, <1>7, <1>f, DscAssumption DEF IInv, TypeOK
  <2>2. \A m \in Node : active'[m] = d <=> RunsTrans(d, m)'
    <3>1. CASE \E k \in T : h(k) = d
      <4>1. PICK k \in T : h(k) = d
        BY <3>1
      <4>2. pc[d] = "queued" /\ tran[d] = "queued" /\ at[d] = k /\ tran'[d] = "triggered"
        BY <1>6, <1>8, <4>1
      <4>3. \A m \in Node : active[m] # d
        BY <2>1, <4>2 DEF ClientInv, RunsTrans
      <4>4. \A m \in Node : active'[m] = d <=> m = k
        BY <1>3, <1>4, <1>6, <1>8, <2>1, <4>1, <4>2, <4>3
      <4> QED BY <2>1, <4>2, <4>4 DEF RunsTrans
    <3>2. CASE ~\E k \in T : h(k) = d
      <4>1. tran'[d] = tran[d]
        BY <1>6, <3>2
      <4>2. \A m \in Node : active'[m] = d <=> active[m] = d
        BY <1>2, <1>3, <1>6, <1>10, <1>f, <2>1, <3>2
      <4> QED BY <1>7, <2>1, <4>1, <4>2 DEF ClientInv, RunsTrans
    <3> QED BY <3>1, <3>2
  <2>3. \A m \in quiet'[d] : ops'[m] = 0
    BY <1>7, <2>1 DEF ClientInv
  <2>4. OwnedIsReached(d)'
    <3> SUFFICES ASSUME NEW m \in Node, owner[m] = d
                 PROVE  /\ m \in attached
                        /\ \/ /\ at[d] = m /\ queue'[m] = <<>>
                              /\ pc[d] \in {"owner", "trans", "flush", "blocked", "destroy"}
                           \/ /\ at[d] \in Up(m) /\ active'[at[d]] = d
                              /\ pc[d] \in {"trans", "flush", "blocked", "destroy"}
      BY <1>7, <2>1 DEF OwnedIsReached
    <3>1. active[at[d]] = d => active'[at[d]] = d
      BY <1>10, <1>f, <2>1
    <3>2. queue[m] = <<>> => queue'[m] = <<>>
      BY <1>4, <1>6
    <3> QED BY <2>1, <3>1, <3>2 DEF ClientInv, OwnedIsReached
  <2>5. \A m \in Node : active[m] = NoClient /\ queue[m] = <<>> =>
          active'[m] = NoClient /\ queue'[m] = <<>>
    BY <1>3, <1>4, <1>6
  <2>6. OwnedIdleIsUnused(d)'
    <3> SUFFICES ASSUME OwnsIdle(d)
                 PROVE  owner[at[d]] = d /\ active'[at[d]] = NoClient /\ ops[at[d]] = 0
      BY <1>7, <2>1 DEF OwnedIdleIsUnused, OwnsIdle
    <3>1. owner[at[d]] = d /\ active[at[d]] = NoClient /\ ops[at[d]] = 0
      BY <2>1 DEF ClientInv, OwnedIdleIsUnused
    <3>2. queue[at[d]] = <<>>
      BY <2>1, <3>1, UpFacts DEF ClientInv, OwnedIsReached
    <3> QED BY <2>1, <2>5, <3>1, <3>2
  \* No trigger reaches a context while its destroyer aborts the waiters: the
  \* destroyer runs no transition and nobody waits, or it holds one above.
  <2>7. DestroyedIsUnused(d)'
    <3> SUFFICES ASSUME pc[d] = "destroy"
                 PROVE  /\ owner[on[d]] = d /\ at[d] \in Up(on[d]) \cup {on[d]}
                        /\ active'[on[d]] = NoClient /\ ops[on[d]] = 0
      BY <1>7, <2>1 DEF DestroyedIsUnused
    <3>1. /\ owner[on[d]] = d /\ at[d] \in Up(on[d]) \cup {on[d]}
          /\ active[on[d]] = NoClient /\ ops[on[d]] = 0
      BY <2>1 DEF ClientInv, DestroyedIsUnused
    <3>2. on[d] \notin T
      <4>1. CASE queue[on[d]] = <<>>
        BY <1>4, <2>1, <4>1
      <4>2. CASE at[d] \in Up(on[d]) /\ active[at[d]] = d
        <5>1. at[d] \in Lineage(on[d]) /\ at[d] # n
          BY <1>2, <1>f, <2>1, <4>2, LineageFacts
        <5>2. act[at[d]] # NoClient
          BY <1>3, <2>1, <4>2, <5>1
        <5> QED BY <1>5, <5>1, <5>2
      <4> QED BY <2>1, <3>1, <4>1, <4>2 DEF ClientInv, OwnedIsReached
    <3> QED BY <1>3, <1>6, <2>1, <3>1, <3>2
  <2>8. FlushInLineage(d)'
    BY <1>7, <1>10, <1>f, <2>1 DEF ClientInv, FlushInLineage
  <2>9. BlockedIsWoken(d)'
    <3> SUFFICES ASSUME pc[d] = "blocked"
                 PROVE  /\ on[d] \in Lineage(at[d]) \cap attached
                        /\ \A e \in Client : OwnsIdle(e)' => at'[e] # on[d]
                        /\ event[on[d]] <=> ops[on[d]] = 0
      BY <1>7, <2>1 DEF BlockedIsWoken
    <3>1. /\ on[d] \in Lineage(at[d]) /\ on[d] \in attached
          /\ \A e \in Client : OwnsIdle(e) => at[e] # on[d]
          /\ event[on[d]] <=> ops[on[d]] = 0
      BY <2>1 DEF ClientInv, BlockedIsWoken
    <3>2. active[at[d]] = d
      BY <2>1 DEF ClientInv, RunsTrans
    <3>3. on[d] # n
      <4> SUFFICES ASSUME on[d] = n PROVE FALSE
        OBVIOUS
      <4>1. at[d] = n
        BY <1>1, <1>2, <2>1, <3>1, <3>2, LineageFacts, ActiveUnique DEF IInv, TransActive
      <4> QED BY <1>2, <1>f, <3>2, <4>1
    <3>4. \A e \in Client : e # c => (OwnsIdle(e)' <=> OwnsIdle(e)) /\ at'[e] = at[e]
      BY <1>7 DEF OwnsIdle
    <3>5. OwnsIdle(c)' => at'[c] = n
      BY <1>7 DEF OwnsIdle
    <3> QED BY <3>1, <3>3, <3>4, <3>5
  <2> QED BY <2>2, <2>3, <2>4, <2>6, <2>7, <2>8, <2>9 DEF ClientInv
<1> QED BY <1>1, <1>a, <1>b, <1>c, <1>d, <1>e, <1>f DEF IInv

\* After a stop nothing is active in the lineage of the stopped context.
LEMMA StopClears ==
  ASSUME IInv, NEW c \in Client, NEW n \in Node, MayStop(c, n)
  PROVE  /\ \A m \in Lineage(n) : TransStop(n)[m] = NoClient
         /\ \A m \in Node \ attached : TransStop(n)[m] = NoClient
<1>1. TypeOK /\ active[n] = c /\ c # NoClient
  BY DscAssumption DEF IInv, MayStop, ClientInv, RunsTrans
<1>2. /\ TransStop(n)[n] = NoClient
      /\ \A m \in Node : m # n => TransStop(n)[m] = active[m]
  BY <1>1 DEF TransStop, TypeOK
<1>3. ASSUME NEW m \in Lineage(n), m # n PROVE active[m] = NoClient
  <2>1. m \in Node
    BY LineageInNode
  <2> QED BY <1>1, <1>3, <2>1, ActiveUnique DEF IInv, TransActive
<1>4. \A m \in Node \ attached : active[m] = NoClient
  BY DEF IInv, FreedIsUnused
<1> QED BY <1>2, <1>3, <1>4, LineageInNode

\* A waiter is triggered only if nobody waits above it.
GivesWay(S) ==
  \A m \in S : TransQueued(m) => \A k \in Up(m) : ~TransQueued(k)

\* Client c stops the transition on n, and the queues in S are triggered.
StopsAt(c, n, S) ==
  /\ n \in Node /\ S \in SUBSET Node /\ MayStop(c, n)
  /\ ConflictFree(TransStop(n), S) /\ GivesWay(S)
  /\ TransTrigger(TransStop(n), S) /\ EndTrans(c, n)

LEMMA DriverChecked ==
  ASSUME NEW act, \A m \in Node \ attached : act[m] = NoClient
  PROVE  /\ ConflictFree(act, DriverTransTriggerChecked(act))
         /\ GivesWay(DriverTransTriggerChecked(act))
<1>1. CASE DriverCanTrigger(act)
  <2>1. \A m \in Node : act[m] = NoClient
    BY <1>1 DEF DriverCanTrigger, DriverTransActiveDownTree, TransActive
  <2> QED BY <1>1, <2>1, UpFacts, LineageInNode
       DEF ConflictFree, GivesWay, DriverTransTriggerChecked
<1>2. CASE ~DriverCanTrigger(act)
  BY <1>2 DEF ConflictFree, GivesWay, DriverTransTriggerChecked
<1> QED BY <1>1, <1>2

LEMMA DriverStopsAt ==
  ASSUME IInv, NEW c \in Client, DriverTransStop(c)
  PROVE  StopsAt(c, Driver, DriverTriggerTrans)
<1> USE UpFacts
<1>1. MayStop(c, Driver)
  BY DEF DriverTransStop
<1>2. \A m \in Node : TransStop(Driver)[m] = NoClient
  <2>1. \A m \in Node : m \in Lineage(Driver)
    BY DEF Lineage, Below, Node
  <2> QED BY <1>1, <2>1, StopClears
<1>3. \A m, k \in DriverTriggerTrans :
        TransQueued(m) /\ TransQueued(k) /\ k # m => k \notin Up(m)
  BY DscAssumption DEF DriverTriggerTrans
<1>4. DriverTriggerTrans \in SUBSET Node
  BY DEF DriverTriggerTrans
<1>5. ConflictFree(TransStop(Driver), DriverTriggerTrans)
  BY <1>2, <1>3, <1>4, LineageFacts, LineageInNode DEF ConflictFree
<1>6. GivesWay(DriverTriggerTrans)
  BY DscAssumption DEF GivesWay, DriverTriggerTrans
<1> QED BY <1>1, <1>4, <1>5, <1>6 DEF DriverTransStop, StopsAt

LEMMA PsocStopsAt ==
  ASSUME IInv, NEW c \in Client, NEW p \in Psocs, PsocTransStop(c, p)
  PROVE  LET n == PsocStopped(p)
         IN  StopsAt(c, n, PsocTriggerTrans(TransStop(n), p))
<1> USE UpFacts
<1> DEFINE n == PsocStopped(p)
           S == PsocTriggerTrans(TransStop(n), p)
<1>1. /\ n \in {p, Driver} /\ MayStop(c, n)
      /\ TransTrigger(TransStop(n), S) /\ EndTrans(c, n)
  BY DEF PsocTransStop, PsocStopped
<1>2. \A m \in Lineage(p) : TransStop(n)[m] = NoClient
  <2>1. Lineage(p) \subseteq Lineage(n)
    BY <1>1 DEF Lineage, Below, Node
  <2> QED BY <1>1, <2>1, StopClears
<1>3. \A m \in Node \ attached : TransStop(n)[m] = NoClient
  BY <1>1, StopClears
<1>4. S \in SUBSET Node
  BY DEF PsocTriggerTrans, DriverTransTriggerChecked, VdevsOf
<1>5. ConflictFree(TransStop(n), S) /\ GivesWay(S)
  <2>1. CASE TransQueued(Driver)
    BY <1>3, <2>1, DriverChecked DEF PsocTriggerTrans
  <2>2. CASE ~TransQueued(Driver) /\ TransQueued(p)
    BY <1>2, <2>2 DEF PsocTriggerTrans, ConflictFree, GivesWay
  <2>3. CASE ~TransQueued(Driver) /\ ~TransQueued(p)
    <3>1. S = VdevsOf(p) \cap attached
      BY <2>3 DEF PsocTriggerTrans
    <3>2. ASSUME NEW v \in VdevsOf(p) PROVE Lineage(v) = {v, p, Driver} /\ Lineage(v) \subseteq Lineage(p)
      BY <3>2, DscAssumption DEF Lineage, Below, VdevsOf, Node
    <3>3. \A v \in VdevsOf(p) : v # p /\ v # Driver /\ Up(v) = {p, Driver}
      BY DscAssumption DEF VdevsOf
    <3> HIDE DEF S, n
    <3> QED BY <1>2, <2>3, <3>1, <3>2, <3>3 DEF ConflictFree, GivesWay
  <2> QED BY <2>1, <2>2, <2>3
<1> HIDE DEF S, n
<1>6. StopsAt(c, n, S)
  BY <1>1, <1>4, <1>5 DEF StopsAt
<1> QED BY <1>6 DEF n, S

LEMMA VdevStopsAt ==
  ASSUME IInv, NEW c \in Client, NEW v \in Vdevs, VdevTransStop(c, v)
  PROVE  StopsAt(c, v, VdevTriggerTrans(TransStop(v), v))
<1> USE UpFacts
<1> DEFINE p == PsocOf[v]
           act == TransStop(v)
           S == VdevTriggerTrans(act, v)
<1>1. MayStop(c, v) /\ TransTrigger(act, S) /\ EndTrans(c, v)
  BY DEF VdevTransStop
<1>2. /\ \A m \in Lineage(v) : act[m] = NoClient
      /\ \A m \in Node \ attached : act[m] = NoClient
  BY <1>1, StopClears
<1>3. S \in SUBSET Node
  BY DEF VdevTriggerTrans, DriverTransTriggerChecked, PsocTransTriggerChecked
<1>4. ConflictFree(act, S) /\ GivesWay(S)
  <2>1. CASE TransQueued(Driver)
    BY <1>2, <2>1, DriverChecked DEF VdevTriggerTrans
  <2>2. CASE ~TransQueued(Driver) /\ TransQueued(p)
    <3>1. S = IF PsocCanTrigger(act, p) THEN {p} ELSE {}
      BY <2>2 DEF VdevTriggerTrans, PsocTransTriggerChecked
    <3>2. \A m \in Lineage(p) : m \in {p, Driver} \cup VdevsOf(p)
      BY DscAssumption DEF Lineage, Below, VdevsOf, Node
    <3>3. PsocCanTrigger(act, p) => \A m \in Lineage(p) : act[m] = NoClient
      BY <1>2, <3>2 DEF PsocCanTrigger, PsocTransActiveDownTree, TransActive, VdevsOf
    <3> QED BY <2>2, <3>1, <3>3 DEF ConflictFree, GivesWay
  <2>3. CASE ~TransQueued(Driver) /\ ~TransQueued(p)
    BY <1>2, <2>3 DEF VdevTriggerTrans, ConflictFree, GivesWay
  <2> QED BY <2>1, <2>2, <2>3
<1> QED BY <1>1, <1>3, <1>4 DEF StopsAt

LEMMA StopsSomewhere ==
  ASSUME IInv, NEW c \in Client, Stops(c)
  PROVE  \E n \in Node, S \in SUBSET Node : StopsAt(c, n, S)
<1>1. ASSUME NEW n, NEW S, StopsAt(c, n, S)
      PROVE  \E m \in Node, R \in SUBSET Node : StopsAt(c, m, R)
  <2>1. n \in Node /\ S \in SUBSET Node
    BY <1>1 DEF StopsAt
  <2> QED BY <1>1, <2>1
<1> QED BY <1>1, DriverStopsAt, PsocStopsAt, VdevStopsAt DEF Stops

-----------------------------------------------------------------------------
(* The invariant and what follows from it.                                 *)

LEMMA InvInit == Init => IInv
<1> SUFFICES ASSUME Init PROVE IInv
  OBVIOUS
<1> USE UpFacts
<1>1. TypeOK
  BY DEF Init, TypeOK, Label
<1>2. OpsCounted
  <2>1. \A n \in Node : OpsAt(n) = {}
    BY DEF Init, OpsAt
  <2> QED BY <2>1, FS_EmptySet DEF Init, OpsCounted
<1>3. FreedIsUnused /\ ActiveExcludes /\ QueuesWait
  BY DEF Init, FreedIsUnused, ActiveExcludes, TransActive, QueuesWait
<1>4. ASSUME NEW c \in Client PROVE ClientInv(c)
  BY DscAssumption
     DEF Init, ClientInv, RunsTrans, OwnedIsReached, OwnedIdleIsUnused,
         DestroyedIsUnused, FlushInLineage, BlockedIsWoken, OwnsIdle
<1> QED BY <1>1, <1>2, <1>3, <1>4 DEF IInv

\* Steps that leave everything but the flags alone.
LEMMA InvFlags ==
  ASSUME IInv, TypeOK',
         UNCHANGED <<ctxVars, transVars, opsVars, pc, at, walkVars>>
  PROVE  IInv'
<1>1. UNCHANGED <<attached, owner, active, queue, tran, ops, event, pc, at, todo, on, quiet>>
  BY DEF ctxVars, transVars, opsVars, walkVars
<1>2. OpsCounted'
  BY <1>1, SameOps DEF IInv
<1>3. QueuesWait'
  BY <1>1, SameQueues DEF IInv, Waits
<1>4. FreedIsUnused' /\ ActiveExcludes'
  BY <1>1 DEF IInv, FreedIsUnused, ActiveExcludes, TransActive
<1>5. ASSUME NEW c \in Client PROVE ClientInv(c)'
  BY <1>1
     DEF IInv, ClientInv, RunsTrans, OwnedIsReached, OwnedIdleIsUnused,
         DestroyedIsUnused, FlushInLineage, BlockedIsWoken, OwnsIdle
<1> QED BY <1>2, <1>3, <1>4, <1>5 DEF IInv

LEMMA InvStep ==
  ASSUME IInv, [ContractNext]_vars
  PROVE  IInv'
<1>0. /\ TypeOK /\ TypeOK' /\ \A c \in Client : FlushInLineage(c)
  BY TypeStep, ContractIsNext DEF IInv, ClientInv
<1>1. CASE UNCHANGED vars
  BY <1>0, <1>1, InvFlags DEF vars, ctxVars, transVars, opsVars, walkVars
<1>2. CASE DriverStateChange
  BY <1>0, <1>2, InvFlags DEF DriverStateChange
<1>3. ASSUME NEW c \in Client, Stops(c) PROVE IInv'
  BY <1>3, StopsSomewhere, InvStop DEF StopsAt
<1>4. ASSUME NEW c \in Client, Resume(c) PROVE IInv'
  BY <1>4, InvTranWait, InvOpsEventWait, InvWaitForOpsReturn, InvOpStop,
     InvFlushAbort, InvContextDetach DEF Resume
<1>5. ASSUME NEW c \in Client, NEW n \in Node, CallsOn(c, n) PROVE IInv'
  BY <1>5, InvStartNow, InvStartLater, InvOpsInsert, InvVisits, InvContextInit,
     InvContextFlush, InvRegister DEF CallsOn
<1>6. ASSUME NEW c \in Client, ContractStep(c) PROVE IInv'
  BY <1>0, <1>3, <1>4, <1>5, <1>6, CallCases, InvUnregister DEF ContractStep
<1> QED BY <1>1, <1>2, <1>6 DEF ContractNext

\* DSC keeps its invariant, whatever the tree of contexts, the number of
\* clients and the order of their calls, as long as no client tears down the
\* context of its transition while another waits on it.
THEOREM Invariance ==
  ContractSpec => []IInv
<1>1. Init => IInv
  BY InvInit
<1>2. IInv /\ [ContractNext]_vars => IInv'
  BY InvStep
<1> QED BY <1>1, <1>2, PTL DEF ContractSpec

\* The state has the values the code gives it: no count goes negative and no
\* queue holds anything but clients.
THEOREM TypeCorrect ==
  ContractSpec => []TypeOK
<1>1. IInv => TypeOK
  BY DEF IInv
<1> QED BY <1>1, Invariance, PTL

LEMMA InvExclusion == IInv => TransExclusion
<1> SUFFICES ASSUME IInv, NEW c \in Client, NEW d \in Client, NEW n \in Node, NEW m \in Node,
                    c # d, RunsTrans(c, n), RunsTrans(d, m), m \in Lineage(n)
             PROVE  FALSE
  BY DEF TransExclusion
<1>1. active[n] = c /\ active[m] = d /\ c # NoClient /\ d # NoClient
  BY DscAssumption DEF IInv, ClientInv
<1>2. m = n
  BY <1>1, ActiveUnique DEF IInv, TransActive
<1> QED BY <1>1, <1>2

\* Transitions exclude each other on every branch of the tree, whichever of
\* the start, start_wait and trigger paths granted them.
THEOREM MutualExclusion ==
  ContractSpec => []TransExclusion
  BY Invariance, InvExclusion, PTL

\* The assertions of __dsc_trans_start and __dsc_trans_stop hold:
\* active_desc is set exactly while some client runs the transition.
THEOREM ActiveDesc ==
  ContractSpec => []ActiveIsRunning
<1>1. IInv => ActiveIsRunning
  BY DEF IInv, ClientInv, ActiveIsRunning
<1> QED BY <1>1, Invariance, PTL

\* ops.count is the number of clients inside an operation.
THEOREM OpsCount ==
  ContractSpec => []OpsCounted
<1>1. IInv => OpsCounted
  BY DEF IInv
<1> QED BY <1>1, Invariance, PTL

\* What dsc_*_wait_for_ops has flushed stays free of operations until the
\* transition stops.
THEOREM FlushSound ==
  ContractSpec => []FlushedIsQuiet
<1>1. IInv => FlushedIsQuiet
  BY DEF IInv, ClientInv, FlushedIsQuiet
<1> QED BY <1>1, Invariance, PTL

\* No reset of the shared ops event loses the wakeup of another flush.
THEOREM WakeupKept ==
  ContractSpec => []NoLostWakeup
<1>1. IInv => NoLostWakeup
  BY DEF IInv, ClientInv, BlockedIsWoken, NoLostWakeup
<1> QED BY <1>1, Invariance, PTL

(***************************************************************************)
(* Waiters are not overtaken, no waiter is forgotten, and every step is a  *)
(* step of the abstract lock.                                              *)
(***************************************************************************)

(* What a stop does to the tree.                                           *)

LEMMA StopEffect ==
  ASSUME IInv, NEW c \in Client, NEW n \in Node, NEW S \in SUBSET Node,
         StopsAt(c, n, S)
  PROVE  /\ \A m \in Node :
              /\ m \in S /\ TransQueued(m) =>
                   active'[m] = Head(queue[m]) /\ active'[m] \in Client
              /\ ~(m \in S /\ TransQueued(m)) =>
                   /\ active'[m] = IF m = n THEN NoClient ELSE active[m]
                   /\ queue'[m] = queue[m]
         /\ active[n] = c /\ pc[c] = "trans" /\ at[c] = n /\ c # NoClient
         /\ quiet' = [quiet EXCEPT ![c] = {}]
         /\ UNCHANGED attached
         /\ \A d \in Client : d # c => pc'[d] = pc[d] /\ at'[d] = at[d]
         /\ pc'[c] # "op"
<1>1. TypeOK /\ TransTrigger(TransStop(n), S) /\ EndTrans(c, n) /\ MayStop(c, n)
  BY DEF IInv, StopsAt
<1>2. \A m \in Node : TransStop(n)[m] = IF m = n THEN NoClient ELSE active[m]
  BY <1>1 DEF TransStop, TypeOK
<1>3. \A m \in Node : TransQueued(m) => Head(queue[m]) \in Client
  BY <1>1 DEF TransQueued, TypeOK
<1>4. \A m \in Node :
        /\ active'[m] = IF m \in S /\ TransQueued(m) THEN Head(queue[m])
                        ELSE TransStop(n)[m]
        /\ ~(m \in S /\ TransQueued(m)) => queue'[m] = queue[m]
  BY <1>1 DEF TransTrigger
<1>5. active[n] = c /\ pc[c] = "trans" /\ at[c] = n /\ c # NoClient
  BY <1>1, DscAssumption DEF IInv, MayStop, ClientInv, RunsTrans
<1>6. /\ quiet' = [quiet EXCEPT ![c] = {}] /\ UNCHANGED attached
      /\ \A d \in Client : d # c => pc'[d] = pc[d] /\ at'[d] = at[d]
      /\ pc'[c] # "op"
  <2>1. CASE Goto(c, "owner", n)
    BY <1>1, <2>1 DEF EndTrans, Goto, TypeOK, ctxVars
  <2>2. CASE Goto(c, "idle", Driver)
    BY <1>1, <2>2 DEF EndTrans, Goto, TypeOK, ctxVars
  <2> QED BY <1>1, <2>1, <2>2 DEF EndTrans
<1> QED BY <1>2, <1>3, <1>4, <1>5, <1>6

\* Every other step of Next grants at most one transition, and changes the
\* queues only by appending a waiter or by aborting the first one.
LEMMA OtherSteps ==
  ASSUME IInv, NEW c \in Client
  PROVE  /\ Resume(c) => UNCHANGED <<active, queue>> \/ FlushAbort(c)
         /\ Resume(c) => UNCHANGED active
         /\ \A n \in Node : ActsOn(c, n) =>
              \/ UNCHANGED <<active, queue>>
              \/ /\ CanStart(n) /\ UNCHANGED queue
                 /\ active' = [active EXCEPT ![n] = c]
              \/ /\ ~CanStart(n) /\ UNCHANGED active
                 /\ queue' = [queue EXCEPT ![n] = Append(@, c)]
<1>1. ASSUME Resume(c)
      PROVE  (UNCHANGED <<active, queue>> \/ FlushAbort(c)) /\ UNCHANGED active
  BY <1>1 DEF Resume, TranWait, OpsEventWait, WaitForOpsReturn, OpStop,
              FlushAbort, TransAbort, ContextDetach, transVars
<1>2. ASSUME NEW n \in Node, ContextInit(c, n) PROVE UNCHANGED <<active, queue>>
  <2>1. TypeOK /\ active[n] = NoClient /\ queue[n] = <<>>
    BY <1>2 DEF IInv, FreedIsUnused, ContextInit
  <2>2. active' = [active EXCEPT ![n] = NoClient] /\ queue' = [queue EXCEPT ![n] = <<>>]
    BY <1>2 DEF ContextInit
  <2>3. UNCHANGED active
    BY <2>1, <2>2 DEF TypeOK
  <2>4. UNCHANGED queue
    BY <2>1, <2>2 DEF TypeOK
  <2> QED BY <2>3, <2>4
<1>3. ASSUME NEW n \in Node, ActsOn(c, n)
      PROVE  \/ UNCHANGED <<active, queue>>
             \/ /\ CanStart(n) /\ UNCHANGED queue
                /\ active' = [active EXCEPT ![n] = c]
             \/ /\ ~CanStart(n) /\ UNCHANGED active
                /\ queue' = [queue EXCEPT ![n] = Append(@, c)]
  <2>1. CASE CanStart(n) /\ StartNow(c, n)
    BY <2>1 DEF StartNow, TransStart
  <2>2. CASE ~CanStart(n) /\ StartLater(c, n)
    BY <2>2 DEF StartLater, TransQueue
  <2>3. CASE OpsInsert(c, n) \/ (\E K \in SUBSET Node : Visits(c, n, K))
    BY <2>3 DEF OpsInsert, Visits, Visit, transVars
  <2>4. CASE ContextFlush(c, n)
    BY <2>4 DEF ContextFlush, transVars
  <2>5. CASE Register(c, n) \/ Unregister(c, n)
    BY <2>5 DEF Register, Unregister, transVars
  <2> QED BY <1>2, <1>3, <2>1, <2>2, <2>3, <2>4, <2>5 DEF ActsOn
<1> QED BY <1>1, <1>3

-----------------------------------------------------------------------------
(* The order of grants.                                                    *)

LEMMA GrantStep ==
  ASSUME IInv, [Next]_vars, NEW n \in Node,
         active'[n] # active[n], active'[n] # NoClient
  PROVE  /\ TransQueued(n) => active'[n] = Head(queue[n])
         /\ \A m \in Up(n) : ~TransQueued(m)
<1>1. ~UNCHANGED active
  OBVIOUS
<1>2. CASE \E c \in Client : Stops(c)
  <2>1. PICK c \in Client, a \in Node, S \in SUBSET Node : StopsAt(c, a, S)
    BY <1>2, StopsSomewhere
  <2>2. n \in S /\ TransQueued(n) /\ active'[n] = Head(queue[n])
    BY <2>1, StopEffect
  <2> QED BY <2>1, <2>2 DEF StopsAt, GivesWay
<1>3. ASSUME NEW c \in Client, NEW a \in Node, ActsOn(c, a)
      PROVE  CanStart(n)
  <2>1. CanStart(a) /\ active' = [active EXCEPT ![a] = c]
    BY <1>1, <1>3, OtherSteps
  <2>2. n = a
    BY <2>1 DEF IInv, TypeOK
  <2> QED BY <2>1, <2>2
<1>4. CASE CanStart(n)
  BY <1>4 DEF CanStart, TransActiveOrQueued
<1>5. ~UNCHANGED vars /\ ~DriverStateChange
  BY <1>1 DEF vars, DriverStateChange, transVars
<1>6. TypeOK /\ \A c \in Client : FlushInLineage(c)
  BY DEF IInv, ClientInv
<1> QED BY <1>1, <1>2, <1>3, <1>4, <1>5, <1>6, NextCases, OtherSteps

\* A waiter is overtaken by nobody on its own context, and no transition
\* starts on a context while a client waits above it, whichever of the
\* start, start_wait and trigger paths grants it.
THEOREM GrantsInOrder ==
  ContractSpec => GrantOrder
<1>1. IInv /\ [ContractNext]_vars =>
        [\A n \in Node : active'[n] # active[n] /\ active'[n] # NoClient =>
           /\ TransQueued(n) => active'[n] = Head(queue[n])
           /\ \A m \in Up(n) : ~TransQueued(m)]_vars
  BY GrantStep, ContractIsNext
<1> QED BY <1>1, Invariance, PTL DEF ContractSpec, GrantOrder

-----------------------------------------------------------------------------
(* No waiter is forgotten.                                                 *)

\* After a stop that leaves the transitions in act, the trigger of the queues
\* in S leaves every waiter behind a transition or behind a waiter above it.
Serves(act, S) ==
  \A m \in Node \ S : TransQueued(m) =>
    \/ \E k \in Lineage(m) : act[k] # NoClient \/ (k \in S /\ TransQueued(k))
    \/ \E k \in Up(m) : TransQueued(k)

LEMMA ServedStop ==
  ASSUME IInv, NEW c \in Client, NEW n \in Node, NEW S \in SUBSET Node,
         StopsAt(c, n, S), Serves(TransStop(n), S)
  PROVE  NoStrandedWaiter'
<1>1. \A m \in Node : TransStop(n)[m] = IF m = n THEN NoClient ELSE active[m]
  BY DEF IInv, TransStop, TypeOK
<1>2. \A m \in Node : TransStop(n)[m] # NoClient \/ (m \in S /\ TransQueued(m))
                      => active'[m] # NoClient
  BY <1>1, StopEffect, DscAssumption
<1>3. \A m \in Node : m \notin S => queue'[m] = queue[m]
  BY StopEffect
<1>4. ASSUME NEW m \in Node, queue'[m] # <<>>
      PROVE  \/ \E k \in Lineage(m) : active'[k] # NoClient
             \/ \E k \in Up(m) : queue'[k] # <<>>
  <2>0. m \in Lineage(m) /\ Lineage(m) \subseteq Node /\ Up(m) \subseteq Lineage(m)
    BY LineageFacts, LineageInNode DEF Lineage
  <2>1. CASE m \in S /\ TransQueued(m)
    BY <1>2, <2>0, <2>1
  <2>2. CASE m \in S /\ ~TransQueued(m)
    BY <1>4, <2>2, StopEffect DEF TransQueued
  <2>3. CASE m \notin S
    <3>1. TransQueued(m)
      BY <1>3, <1>4, <2>3 DEF TransQueued
    <3>2. CASE \E k \in Lineage(m) : TransStop(n)[k] # NoClient \/ (k \in S /\ TransQueued(k))
      BY <1>2, <2>0, <3>2
    <3>3. CASE \E k \in Up(m) : TransQueued(k)
      BY <1>2, <1>3, <2>0, <3>3 DEF TransQueued
    <3> QED BY <2>3, <3>1, <3>2, <3>3 DEF Serves
  <2> QED BY <2>1, <2>2, <2>3
<1> QED BY <1>4 DEF NoStrandedWaiter, TransQueued, TransActive

\* The checked trigger of the driver's queue leaves nobody stranded: all
\* others wait below the driver.
LEMMA DriverCheckedServes ==
  ASSUME TypeOK, FreedIsUnused, NEW act, TransQueued(Driver)
  PROVE  Serves(act, DriverTransTriggerChecked(act))
<1> USE UpFacts
<1>1. \A m \in Node \ {Driver} : Driver \in Up(m)
  BY DEF Node
<1>2. \A m \in Node : m \in Lineage(Driver)
  BY <1>1 DEF Lineage, Below
<1>3. ~DriverCanTrigger(act) => \E k \in Lineage(Driver) : act[k] # NoClient
  BY <1>2 DEF DriverCanTrigger, DriverTransActiveDownTree, TransActive, TypeOK
<1> QED BY <1>1, <1>3 DEF Serves, DriverTransTriggerChecked

LEMMA DriverStopServes ==
  ASSUME IInv
  PROVE  Serves(TransStop(Driver), DriverTriggerTrans)
<1> USE UpFacts
<1> DEFINE S == DriverTriggerTrans
<1> SUFFICES ASSUME NEW m \in Node, m \notin S, TransQueued(m)
             PROVE  \/ \E k \in Lineage(m) : k \in S /\ TransQueued(k)
                    \/ \E k \in Up(m) : TransQueued(k)
  BY DEF Serves
<1>1. m \in attached
  BY DEF IInv, FreedIsUnused, TransQueued
<1>2. CASE TransQueued(Driver)
  <2>1. m # Driver => Driver \in Up(m)
    BY DEF Node
  <2> QED BY <1>2, <2>1 DEF DriverTriggerTrans
<1>3. CASE ~TransQueued(Driver)
  <2>1. m \in Vdevs /\ TransQueued(PsocOf[m])
    BY <1>1, <1>3 DEF DriverTriggerTrans, Node
  <2> QED BY <2>1
<1> QED BY <1>2, <1>3

\* A psoc stop serves the tree of its own psoc: enough if the transition was
\* the psoc's own, or if there is no other psoc.
LEMMA PsocStopServes ==
  ASSUME IInv, NoStrandedWaiter, NEW c \in Client, NEW p \in Psocs,
         PsocTransStop(c, p),
         "stop_via_psoc" \notin Practices \/ \A q \in Psocs : q = p
  PROVE  LET n == PsocStopped(p)
         IN  Serves(TransStop(n), PsocTriggerTrans(TransStop(n), p))
<1> USE UpFacts
<1> DEFINE n == PsocStopped(p)
           act == TransStop(n)
           S == PsocTriggerTrans(act, p)
<1>1. n \in {p, Driver} /\ (n = Driver => \A q \in Psocs : q = p)
  BY DEF PsocTransStop, PsocStopped
<1>2. CASE TransQueued(Driver)
  BY <1>2, DriverCheckedServes DEF IInv, PsocTriggerTrans
<1>3. CASE ~TransQueued(Driver)
  <2>1. \A k \in Node : act[k] = IF k = n THEN NoClient ELSE active[k]
    BY DEF IInv, TransStop, TypeOK
  <2>2. S = IF TransQueued(p) THEN {p} ELSE VdevsOf(p) \cap attached
    BY <1>3 DEF PsocTriggerTrans
  <2> HIDE DEF n, act, S
  <2>3. ASSUME NEW m \in Node \ S, TransQueued(m)
        PROVE  \/ \E k \in Lineage(m) : act[k] # NoClient \/ (k \in S /\ TransQueued(k))
               \/ \E k \in Up(m) : TransQueued(k)
    <3>1. m \in attached /\ m # Driver
      BY <1>3, <2>3 DEF IInv, FreedIsUnused, TransQueued
    <3>2. CASE m = p \/ m \in VdevsOf(p)
      BY <2>2, <2>3, <3>1, <3>2 DEF VdevsOf
    <3>3. CASE m # p /\ m \notin VdevsOf(p)
      <4>1. n = p
        BY <1>1, <3>1, <3>3 DEF Node, VdevsOf
      <4>2. p \notin Lineage(m)
        BY <3>1, <3>3, DscAssumption, LineageFacts DEF Node, VdevsOf
      <4>3. Lineage(m) \subseteq Node
        BY LineageInNode
      <4> QED BY <2>1, <2>3, <4>1, <4>2, <4>3 DEF NoStrandedWaiter, TransActive
    <3> QED BY <3>2, <3>3
  <2> QED BY <2>3 DEF Serves, act, S, n
<1> QED BY <1>2, <1>3

LEMMA VdevStopServes ==
  ASSUME IInv, NoStrandedWaiter, NEW c \in Client, NEW v \in Vdevs,
         VdevTransStop(c, v)
  PROVE  Serves(TransStop(v), VdevTriggerTrans(TransStop(v), v))
<1> USE UpFacts
<1> DEFINE p == PsocOf[v]
           act == TransStop(v)
           S == VdevTriggerTrans(act, v)
<1>1. CASE TransQueued(Driver)
  BY <1>1, DriverCheckedServes DEF IInv, VdevTriggerTrans
<1>2. CASE ~TransQueued(Driver)
  <2>1. \A k \in Node : act[k] = IF k = v THEN NoClient ELSE active[k]
    BY DEF IInv, TransStop, TypeOK
  <2>2. S = IF TransQueued(p) THEN IF PsocCanTrigger(act, p) THEN {p} ELSE {}
                             ELSE {v}
    BY <1>2 DEF VdevTriggerTrans, PsocTransTriggerChecked
  <2>3. /\ \A k \in Lineage(v) : act[k] = NoClient
        /\ {p, Driver} \subseteq Lineage(v)
    BY StopClears DEF VdevTransStop, Lineage
  <2>4. ~PsocCanTrigger(act, p) => \E k \in Lineage(p) : act[k] # NoClient
    <3>1. VdevsOf(p) \subseteq Lineage(p)
      BY DEF VdevsOf, Lineage, Below
    <3> QED BY <1>2, <2>3, <3>1
         DEF PsocCanTrigger, PsocTransActiveDownTree, TransActive
  <2> HIDE DEF act, S
  <2>5. ASSUME NEW m \in Node \ S, TransQueued(m)
        PROVE  \/ \E k \in Lineage(m) : act[k] # NoClient \/ (k \in S /\ TransQueued(k))
               \/ \E k \in Up(m) : TransQueued(k)
    <3>1. CASE m = p
      BY <2>2, <2>4, <2>5, <3>1
    <3>2. CASE m = v
      BY <2>2, <2>5, <3>2
    <3>3. CASE m # p /\ m # v
      <4>1. v \notin Lineage(m)
        BY <1>2, <2>5, <3>3, LineageFacts, DscAssumption DEF Node
      <4>2. Lineage(m) \subseteq Node
        BY LineageInNode
      <4> QED BY <2>1, <2>5, <4>1, <4>2 DEF NoStrandedWaiter, TransActive
    <3> QED BY <3>1, <3>2, <3>3
  <2> QED BY <2>5 DEF Serves, act, S
<1> QED BY <1>1, <1>2

LEMMA NoStrandedStep ==
  ASSUME "stop_via_psoc" \notin Practices \/ \A p, q \in Psocs : p = q,
         IInv, NoStrandedWaiter, [Next]_vars
  PROVE  NoStrandedWaiter'
<1>0. TypeOK /\ \A c \in Client : FlushInLineage(c)
  BY DEF IInv, ClientInv
<1>1. CASE UNCHANGED <<active, queue>>
  BY <1>1 DEF NoStrandedWaiter, TransQueued, TransActive
<1>2. ASSUME NEW c \in Client, Stops(c) PROVE NoStrandedWaiter'
  <2>1. CASE DriverTransStop(c)
    BY <2>1, DriverStopsAt, DriverStopServes, ServedStop DEF StopsAt
  <2>2. ASSUME NEW p \in Psocs, PsocTransStop(c, p) PROVE NoStrandedWaiter'
    BY <2>2, PsocStopsAt, PsocStopServes, ServedStop DEF StopsAt
  <2>3. ASSUME NEW v \in Vdevs, VdevTransStop(c, v) PROVE NoStrandedWaiter'
    BY <2>3, VdevStopsAt, VdevStopServes, ServedStop DEF StopsAt
  <2> QED BY <1>2, <2>1, <2>2, <2>3 DEF Stops
<1>3. ASSUME NEW c \in Client, NEW n \in Node, ActsOn(c, n) PROVE NoStrandedWaiter'
  <2>0. \A m \in Node : Lineage(m) \subseteq Node /\ Up(m) \subseteq Node
    BY UpFacts, LineageInNode
  <2>1. CASE UNCHANGED queue /\ active' = [active EXCEPT ![n] = c]
    <3>1. \A m \in Node : active[m] # NoClient => active'[m] # NoClient
      BY <1>0, <2>1, DscAssumption DEF TypeOK
    <3> QED BY <2>0, <2>1, <3>1 DEF NoStrandedWaiter, TransQueued, TransActive
  <2>2. CASE /\ ~CanStart(n) /\ UNCHANGED active
             /\ queue' = [queue EXCEPT ![n] = Append(@, c)]
    \* The new waiter is behind what made it wait.
    <3>1. \/ \E m \in Lineage(n) : TransActive(active, m)
          \/ \E m \in Up(n) : TransQueued(m)
      BY <2>2, LineageFacts
         DEF CanStart, TransActiveOrQueued, NoStrandedWaiter, Lineage
    <3>2. n \notin Up(n)
      BY UpFacts
    <3>3. queue'[n] # <<>> /\ \A m \in Node : m # n => queue'[m] = queue[m]
      <4>1. queue[n] \in Seq(Client) /\ queue'[n] = Append(queue[n], c)
        BY <1>0, <2>2 DEF TypeOK
      <4>2. ASSUME NEW q \in Seq(Client) PROVE Append(q, c) # <<>>
        <5>1. Len(Append(q, c)) = Len(q) + 1 /\ Len(q) \in Nat /\ Len(<<>>) = 0
          OBVIOUS
        <5> QED BY <5>1
      <4>3. \A m \in Node : m # n => queue'[m] = queue[m]
        BY <1>0, <2>2 DEF TypeOK
      <4> QED BY <4>1, <4>2, <4>3
    <3> QED BY <2>0, <2>2, <3>1, <3>2, <3>3 DEF NoStrandedWaiter, TransQueued, TransActive
  <2> QED BY <1>1, <1>3, <2>1, <2>2, OtherSteps
\* Who waits below an aborted waiter is behind the destroyer's transition.
<1>4. ASSUME NEW c \in Client, FlushAbort(c) PROVE NoStrandedWaiter'
  <2>1. /\ on[c] \in Node /\ at[c] \in Up(on[c]) /\ active[at[c]] = c /\ UNCHANGED active
        /\ queue[on[c]] # <<>> /\ queue' = [queue EXCEPT ![on[c]] = Tail(@)]
    BY <1>4, AbortFacts
  <2>2. TransActive(active, at[c])
    BY <2>1, DscAssumption DEF TransActive
  <2>3. \A m \in Node : Lineage(m) \subseteq Node /\ Up(m) \subseteq Node
    BY UpFacts, LineageInNode
  <2>4. \A m \in Node : m = on[c] \/ on[c] \in Up(m) => at[c] \in Lineage(m)
    BY <2>1, UpTransitive DEF Lineage
  <2>5. \A m \in Node : m # on[c] => queue'[m] = queue[m]
    BY <1>0, <2>1 DEF TypeOK
  <2> QED BY <2>1, <2>2, <2>3, <2>4, <2>5 DEF NoStrandedWaiter, TransQueued, TransActive
<1>6. ASSUME NEW c \in Client, Resume(c) PROVE NoStrandedWaiter'
  BY <1>1, <1>4, <1>6, OtherSteps
<1>5. CASE UNCHANGED vars \/ DriverStateChange
  BY <1>1, <1>5 DEF vars, DriverStateChange, transVars
<1> QED BY <1>0, <1>2, <1>3, <1>5, <1>6, NextCases

\* Every waiter is in the path of a trigger: it waits behind an active
\* transition or behind a waiter above it, so some stop looks at its queue.
\* The hypothesis on the psocs is what the callers that end a driver
\* transition with dsc_psoc_trans_stop rely on: that stop looks at one psoc
\* only.
THEOREM NobodyStranded ==
  ASSUME "stop_via_psoc" \notin Practices \/ \A p, q \in Psocs : p = q
  PROVE  ContractSpec => []NoStrandedWaiter
<1>1. Init => NoStrandedWaiter
  BY DEF Init, NoStrandedWaiter, TransQueued
<1>2. IInv /\ NoStrandedWaiter /\ [ContractNext]_vars => NoStrandedWaiter'
  BY NoStrandedStep, ContractIsNext
<1> QED BY <1>1, <1>2, Invariance, PTL DEF ContractSpec

-----------------------------------------------------------------------------
(* Every step is a step of the abstract lock.                              *)

Sharers == [n \in Node |-> OpsAt(n)]

\* What the abstract lock sees does not change.
Unseen == UNCHANGED <<attached, active, quiet>> /\ Sharers' = Sharers

LEMMA SameSharers ==
  ASSUME \A d \in Client : (pc[d] = "op" \/ pc'[d] = "op") => pc'[d] = pc[d] /\ at'[d] = at[d]
  PROVE  Sharers' = Sharers
<1>1. \A m \in Node : OpsAt(m)' = OpsAt(m)
  BY DEF OpsAt
<1> QED BY <1>1 DEF Sharers

\* Transitions recorded in the tree are exclusive in the sense of the lock.
LEMMA HoldersExclusive ==
  ASSUME IInv PROVE Lock!Exclusive(active)
<1> SUFFICES ASSUME NEW n \in Node, NEW m \in Node, n # m,
                    active[n] # NoClient, active[m] # NoClient
             PROVE  m \notin Lineage(n) /\ active[n] # active[m]
  BY DEF Lock!Exclusive
<1>1. m \notin Lineage(n)
  BY ActiveUnique DEF IInv, TransActive
<1>2. active[n] \in Client
  BY DEF IInv, TypeOK
<1>3. active[n] # active[m]
  BY <1>2 DEF IInv, ClientInv, RunsTrans
<1> QED BY <1>1, <1>3

\* A client that runs no transition and no operation uses nothing.
LEMMA UsesNothing ==
  ASSUME IInv, NEW d \in Client, pc[d] # "op", \A m \in Node : active[m] # d
  PROVE  ~Lock!Uses(d)
  BY DEF Lock!Uses, OpsAt

LEMMA QuietIsUnshared ==
  ASSUME IInv, NEW n \in Node, ops[n] = 0
  PROVE  OpsAt(n) = {}
<1>1. IsFiniteSet(OpsAt(n))
  BY ClientFinite, FS_Subset DEF OpsAt
<1> QED BY <1>1, FS_EmptySet DEF IInv, OpsCounted

LEMMA LockStop ==
  ASSUME IInv, IInv', NEW c \in Client, NEW n \in Node, NEW S \in SUBSET Node,
         StopsAt(c, n, S)
  PROVE  Lock!Release(c, n)
<1>1. active[n] = c /\ UNCHANGED attached /\ quiet' = [quiet EXCEPT ![c] = {}]
  BY StopEffect
<1>2. Sharers' = Sharers
  BY StopEffect, SameSharers
<1> DEFINE h == [active EXCEPT ![n] = NoClient]
<1>3. \A m \in Node : h[m] = IF m = n THEN NoClient ELSE active[m]
  BY DEF IInv, TypeOK
<1>4. ASSUME NEW m \in Node, active'[m] # h[m]
      PROVE  /\ m \in attached /\ h[m] = NoClient /\ active'[m] # NoClient
             /\ ~Lock!Uses(active'[m])
  <2>1. m \in S /\ TransQueued(m)
    BY <1>3, <1>4, StopEffect
  <2>2. active'[m] = Head(queue[m]) /\ active'[m] \in Client
    BY <2>1, StopEffect
  <2>3. m \in attached
    BY <2>1 DEF IInv, FreedIsUnused, TransQueued
  <2>4. h[m] = NoClient
    BY <2>1, LineageFacts DEF StopsAt, ConflictFree, TransStop
  <2>5. 1 \in DOMAIN queue[m] /\ Head(queue[m]) = queue[m][1]
    <3>1. queue[m] \in Seq(Client) /\ queue[m] # <<>>
      BY <2>1 DEF IInv, TypeOK, TransQueued
    <3> QED BY <3>1
  <2>6. pc[active'[m]] = "queued" /\ tran[active'[m]] = "queued"
    BY <2>2, <2>5, QueueMembers DEF IInv
  <2>7. \A k \in Node : active[k] # active'[m]
    BY <2>2, <2>6 DEF IInv, ClientInv, RunsTrans
  <2>8. ~Lock!Uses(active'[m])
    BY <2>2, <2>6, <2>7 DEF Lock!Uses, OpsAt
  <2> QED BY <2>2, <2>3, <2>4, <2>8, DscAssumption
<1>5. active' \in [Node -> Client \cup {NoClient}]
  BY DEF IInv, TypeOK
<1>6. Lock!Exclusive(active)'
  BY HoldersExclusive, PTL
<1>7. Lock!Grants(h)
  BY <1>4, <1>5, <1>6 DEF Lock!Grants, Lock!Exclusive
<1> QED BY <1>1, <1>2, <1>7 DEF Lock!Release, Sharers

LEMMA LockResume ==
  ASSUME IInv, NEW c \in Client, Resume(c)
  PROVE  Unseen \/ \E n \in Node : Lock!Unshare(c, n) \/ Lock!Drain(c, n) \/ Lock!Vanish(c, n)
<1>0. TypeOK /\ ClientInv(c) /\ at[c] \in Node /\ on[c] \in Node
  BY DEF IInv, TypeOK
<1>1. CASE TranWait(c)
  <2>1. \A d \in Client : (pc[d] = "op" \/ pc'[d] = "op") => pc'[d] = pc[d] /\ at'[d] = at[d]
    BY <1>0, <1>1 DEF TranWait, Goto, TypeOK
  <2> QED BY <1>1, <2>1, SameSharers DEF TranWait, Unseen, ctxVars, walkVars
<1>2. CASE WaitForOpsReturn(c)
  <2>1. \A d \in Client : (pc[d] = "op" \/ pc'[d] = "op") => pc'[d] = pc[d] /\ at'[d] = at[d]
    BY <1>0, <1>2 DEF WaitForOpsReturn, TypeOK
  <2> QED BY <1>2, <2>1, SameSharers DEF WaitForOpsReturn, Unseen, ctxVars, transVars
<1>3. CASE OpsEventWait(c)
  <2>1. \A d \in Client : (pc[d] = "op" \/ pc'[d] = "op") => pc'[d] = pc[d] /\ at'[d] = at[d]
    BY <1>0, <1>3 DEF OpsEventWait, TypeOK
  <2>2. ops[on[c]] = 0 /\ at[c] \in Lineage(on[c]) /\ active[at[c]] = c
    BY <1>0, <1>3, LineageFacts DEF OpsEventWait, ClientInv, BlockedIsWoken, RunsTrans
  <2>3. OpsAt(on[c]) = {}
    BY <1>0, <2>2, QuietIsUnshared
  <2>4. Lock!Drain(c, on[c])
    BY <1>0, <1>3, <2>1, <2>2, <2>3, SameSharers
       DEF OpsEventWait, Lock!Drain, Sharers, ctxVars, transVars
  <2> QED BY <1>0, <2>4
<1>4. CASE OpStop(c)
  <2>1. /\ pc[c] = "op" /\ pc'[c] = "idle"
        /\ \A d \in Client : d # c => pc'[d] = pc[d] /\ at'[d] = at[d]
    BY <1>0, <1>4 DEF OpStop, Goto, TypeOK
  <2>2. \A m \in Node : OpsAt(m)' = IF m = at[c] THEN OpsAt(m) \ {c} ELSE OpsAt(m)
    <3>1. \A m \in Node : \A d \in Client :
            pc'[d] = "op" /\ at'[d] = m <=> pc[d] = "op" /\ at[d] = m /\ d # c
      BY <2>1
    <3> QED BY <3>1 DEF OpsAt
  <2>3. Sharers' = [Sharers EXCEPT ![at[c]] = @ \ {c}]
    BY <1>0, <2>2 DEF Sharers
  <2>4. c \in Sharers[at[c]]
    BY <1>0, <2>1 DEF Sharers, OpsAt
  <2>5. UNCHANGED <<attached, active, quiet>>
    BY <1>4 DEF OpStop, ctxVars, transVars, walkVars
  <2>6. Lock!Unshare(c, at[c])
    BY <2>3, <2>4, <2>5 DEF Lock!Unshare, Sharers
  <2> QED BY <1>0, <2>6
<1>5. CASE ContextDetach(c)
  <2>1. \A d \in Client : (pc[d] = "op" \/ pc'[d] = "op") => pc'[d] = pc[d] /\ at'[d] = at[d]
    <3>1. Goto(c, "idle", Driver) \/ Goto(c, "trans", at[c])
      BY <1>5 DEF ContextDetach
    <3> QED BY <1>0, <1>5, <3>1 DEF ContextDetach, Goto, TypeOK
  <2>2. owner[on[c]] = c /\ active[on[c]] = NoClient /\ ops[on[c]] = 0
    BY <1>0, <1>5 DEF ContextDetach, ClientInv, DestroyedIsUnused
  <2>3. on[c] \in attached /\ OpsAt(on[c]) = {}
    BY <1>0, <2>2, QuietIsUnshared DEF ClientInv, OwnedIsReached
  <2>4. Lock!Vanish(c, on[c])
    BY <1>0, <1>5, <2>1, <2>2, <2>3, SameSharers
       DEF ContextDetach, Lock!Vanish, Sharers, transVars
  <2> QED BY <1>0, <2>4
<1>6. CASE FlushAbort(c)
  BY <1>6, AbortFacts, SameSharers DEF Unseen
<1> QED BY <1>1, <1>2, <1>3, <1>4, <1>5, <1>6 DEF Resume

LEMMA LockActsOn ==
  ASSUME IInv, IInv', NEW c \in Client, NEW n \in Node, ActsOn(c, n)
  PROVE  Unseen \/ Lock!Hold(c, n) \/ Lock!Share(c, n) \/ Lock!Drain(c, n) \/ Lock!Appear(n)
<1>0. TypeOK /\ ClientInv(c) /\ at[c] \in Node
  BY DEF IInv, TypeOK
<1>1. CASE MayStart(c, n) /\ CanStart(n) /\ StartNow(c, n)
  <2>1. \A d \in Client : (pc[d] = "op" \/ pc'[d] = "op") => pc'[d] = pc[d] /\ at'[d] = at[d]
    BY <1>0, <1>1, StartFacts DEF StartNow, Goto, TypeOK
  <2>2. n \in attached /\ ~Lock!Uses(c)
    BY <1>1, StartFacts, UsesNothing
  <2>3. active[n] = NoClient /\ c # NoClient
    BY <1>1, CanStartFacts, LineageFacts, DscAssumption
  <2>4. /\ active' = [active EXCEPT ![n] = c] /\ UNCHANGED <<attached, quiet>>
        /\ \A m \in Node : active'[m] # active[m] => m = n /\ active'[m] = c
    BY <1>0, <1>1 DEF StartNow, TransStart, ctxVars, walkVars, TypeOK
  <2>5. active' \in [Node -> Client \cup {NoClient}]
    BY DEF IInv, TypeOK
  <2>6. Lock!Exclusive(active)'
    BY HoldersExclusive, PTL
  <2>7. Lock!Grants(active)
    BY <2>2, <2>3, <2>4, <2>5, <2>6 DEF Lock!Grants, Lock!Exclusive
  <2> QED BY <2>1, <2>4, <2>7, SameSharers DEF Lock!Hold, Sharers
<1>2. CASE MayCall(c, n) /\ StartLater(c, n)
  <2>1. \A d \in Client : (pc[d] = "op" \/ pc'[d] = "op") => pc'[d] = pc[d] /\ at'[d] = at[d]
    BY <1>0, <1>2 DEF MayCall, StartLater, Goto, TypeOK
  <2> QED BY <1>2, <2>1, SameSharers DEF StartLater, TransQueue, Unseen, ctxVars, walkVars
<1>3. CASE MayCall(c, n) /\ CanStart(n) /\ OpsInsert(c, n)
  <2>1. /\ pc[c] = "idle" /\ pc'[c] = "op" /\ at'[c] = n
        /\ \A d \in Client : d # c => pc'[d] = pc[d] /\ at'[d] = at[d]
    BY <1>0, <1>3 DEF MayCall, OpsInsert, Goto, TypeOK
  <2>2. \A m \in Node : OpsAt(m)' = IF m = n THEN OpsAt(m) \cup {c} ELSE OpsAt(m)
    <3>1. \A m \in Node : \A d \in Client :
            pc'[d] = "op" /\ at'[d] = m <=> (pc[d] = "op" /\ at[d] = m) \/ (d = c /\ m = n)
      BY <2>1
    <3> QED BY <3>1 DEF OpsAt
  <2>3. Sharers' = [Sharers EXCEPT ![n] = @ \cup {c}]
    BY <2>2 DEF Sharers
  <2>4. n \in attached /\ ~Lock!Uses(c)
    BY <1>3, StartFacts, UsesNothing DEF MayStart, MayCall
  <2>5. \A m \in Lineage(n) : active[m] = NoClient
    BY <1>3, CanStartFacts
  <2>6. UNCHANGED <<attached, active, quiet>>
    BY <1>3 DEF OpsInsert, ctxVars, transVars, walkVars
  <2> QED BY <2>3, <2>4, <2>5, <2>6 DEF Lock!Share, Sharers
<1>4. ASSUME NEW K \in SUBSET Node, Visits(c, n, K)
      PROVE  Unseen \/ Lock!Drain(c, n)
  <2>1. \A d \in Client : (pc[d] = "op" \/ pc'[d] = "op") => pc'[d] = pc[d] /\ at'[d] = at[d]
    BY <1>0, <1>4 DEF Visits, Visit, TypeOK
  <2>2. at[c] \in Lineage(n) /\ active[at[c]] = c
    BY <1>0, <1>4, LineageFacts DEF Visits, ClientInv, RunsTrans
  <2>3. UNCHANGED <<attached, active>>
    BY <1>4 DEF Visits, Visit, ctxVars, transVars
  <2>4. CASE ops[n] = 0 /\ quiet' = [quiet EXCEPT ![c] = @ \cup {n}]
    <3>1. OpsAt(n) = {}
      BY <2>4, QuietIsUnshared
    <3> QED BY <2>1, <2>2, <2>3, <2>4, <3>1, SameSharers DEF Lock!Drain, Sharers
  <2>5. CASE UNCHANGED quiet
    BY <2>1, <2>3, <2>5, SameSharers DEF Unseen
  <2> QED BY <1>4, <2>4, <2>5 DEF Visits, Visit
<1>5. CASE ContextInit(c, n)
  <2>1. \A d \in Client : (pc[d] = "op" \/ pc'[d] = "op") => pc'[d] = pc[d] /\ at'[d] = at[d]
    <3>1. (pc[c] = "idle" /\ Goto(c, "owner", n)) \/ UNCHANGED <<pc, at>>
      BY <1>5 DEF ContextInit
    <3> QED BY <1>0, <3>1 DEF Goto, TypeOK
  <2>2. n \notin attached /\ attached' = attached \cup {n} /\ UNCHANGED quiet
    BY <1>5 DEF ContextInit, walkVars
  <2>3. active' = [active EXCEPT ![n] = NoClient] /\ active[n] = NoClient
    BY <1>5, <2>2 DEF ContextInit, IInv, FreedIsUnused
  <2>4. UNCHANGED active
    BY <1>0, <2>3 DEF TypeOK
  <2> QED BY <2>1, <2>2, <2>4, SameSharers DEF Lock!Appear, Sharers
<1>6. CASE ContextFlush(c, n)
  <2>1. \A d \in Client : (pc[d] = "op" \/ pc'[d] = "op") => pc'[d] = pc[d] /\ at'[d] = at[d]
    BY <1>0, <1>6 DEF ContextFlush, TypeOK
  <2> QED BY <1>6, <2>1, SameSharers DEF ContextFlush, Unseen, ctxVars, transVars
<1>7. CASE Register(c, n) \/ Unregister(c, n)
  BY <1>7, SameSharers DEF Register, Unregister, Unseen, transVars, walkVars
<1> QED BY <1>1, <1>2, <1>3, <1>4, <1>5, <1>6, <1>7 DEF ActsOn

LEMMA LockStep ==
  ASSUME IInv, IInv', [Next]_vars
  PROVE  [Lock!LockNext]_(Lock!lockVars)
<1>0. TypeOK /\ \A c \in Client : FlushInLineage(c)
  BY DEF IInv, ClientInv
<1>1. CASE Unseen
  BY <1>1 DEF Unseen, Sharers, Lock!lockVars
<1>2. CASE UNCHANGED vars \/ DriverStateChange
  <2>1. UNCHANGED <<attached, active, quiet, pc, at>>
    BY <1>2 DEF vars, DriverStateChange, ctxVars, transVars, walkVars
  <2> QED BY <1>1, <2>1, SameSharers DEF Unseen
<1>3. ASSUME NEW c \in Client, Stops(c) PROVE Lock!LockNext
  BY <1>3, StopsSomewhere, LockStop DEF Lock!LockNext
<1>4. ASSUME NEW c \in Client, Resume(c) PROVE Unseen \/ Lock!LockNext
  BY <1>4, LockResume DEF Lock!LockNext
<1>5. ASSUME NEW c \in Client, NEW n \in Node, ActsOn(c, n)
      PROVE  Unseen \/ Lock!LockNext
  BY <1>5, LockActsOn DEF Lock!LockNext
<1> QED BY <1>0, <1>1, <1>2, <1>3, <1>4, <1>5, NextCases

\* DSC keeps the promise of the abstract lock: every path through start,
\* start_wait, trigger, abort, wait_for_ops, create and destroy grants,
\* shares, drains and frees contexts only as a lock on the tree would.
THEOREM LockRefinement ==
  ContractSpec => ImplementsLock
<1>1. Init => Lock!LockInit
  <2>1. ASSUME Init PROVE \A n \in Node : OpsAt(n) = {}
    BY <2>1 DEF Init, OpsAt
  <2> QED BY <2>1, UpFacts DEF Init, Lock!LockInit
<1>2. IInv /\ IInv' /\ [ContractNext]_vars => [Lock!LockNext]_(Lock!lockVars)
  BY LockStep, ContractIsNext
<1> QED BY <1>1, <1>2, Invariance, PTL DEF ContractSpec, ImplementsLock, Lock!LockSpec
=============================================================================
