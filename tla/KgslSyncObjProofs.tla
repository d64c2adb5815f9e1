-------------------------- MODULE KgslSyncObjProofs --------------------------
(***************************************************************************)
(* The lifetime of a sync object, for every finite set of points of each   *)
(* kind: SyncObjIInv is inductive and implies SyncObjInv.                  *)
(***************************************************************************)
EXTENDS KgslSyncObjInv, FiniteSetTheorems, TLAPS

-----------------------------------------------------------------------------
(* Counting.                                                               *)

\* The points that owe a reference are counted by a natural number, and one
\* more or less counts as such.
LEMMA OwersFinite ==
  IsFiniteSet(Owers) /\ Cardinality(Owers) \in Nat
<1>1. IsFiniteSet(Owers)
  BY SyncObjAssumption, FS_Subset DEF Owers
<1> QED BY <1>1, FS_CardinalityType

LEMMA OneLess ==
  ASSUME NEW S, IsFiniteSet(S), NEW p \in S
  PROVE  Cardinality(S) >= 1 /\ Cardinality(S \ {p}) = Cardinality(S) - 1
<1>1. Cardinality(S) \in Nat /\ Cardinality(S \ {p}) \in Nat /\ Cardinality(S \ {p}) = Cardinality(S) - 1
  BY FS_RemoveElement, FS_CardinalityType
<1> QED BY <1>1

LEMMA OneMore ==
  ASSUME NEW S, IsFiniteSet(S), NEW p, p \notin S
  PROVE  Cardinality(S \cup {p}) = Cardinality(S) + 1
BY FS_AddElement

\* The references change as the holder, the points that owe and the timer do.
LEMMA RefsSame ==
  ASSUME Refs, obj'.ref = obj.ref, HasHolder' <=> HasHolder, Owers' = Owers,
         timer' \in {"dump", "dumping"} <=> timer \in {"dump", "dumping"}
  PROVE  Refs'
BY DEF Refs, Bit

LEMMA RefsPut ==
  ASSUME Refs, obj'.ref = obj.ref - 1, HasHolder' <=> HasHolder,
         NEW p \in Owers, Owers' = Owers \ {p},
         timer' \in {"dump", "dumping"} <=> timer \in {"dump", "dumping"}
  PROVE  Refs' /\ obj'.ref \in Nat
<1>1. Cardinality(Owers) \in Nat /\ Cardinality(Owers) >= 1
      /\ Cardinality(Owers') = Cardinality(Owers) - 1
  BY OwersFinite, OneLess
<1> QED BY <1>1 DEF Refs, Bit

LEMMA RefsGet ==
  ASSUME Refs, obj'.ref = obj.ref + 1, HasHolder' <=> HasHolder,
         NEW p, p \notin Owers, Owers' = Owers \cup {p},
         timer' \in {"dump", "dumping"} <=> timer \in {"dump", "dumping"}
  PROVE  Refs' /\ obj'.ref \in Nat
<1>1. Cardinality(Owers) \in Nat /\ Cardinality(Owers') = Cardinality(Owers) + 1
  BY OwersFinite, OneMore
<1> QED BY <1>1 DEF Refs, Bit

-----------------------------------------------------------------------------
(* Frames.                                                                 *)

\* The step of a thread.
LEMMA Move ==
  ASSUME StateTypes, NEW x \in Thread, NEW s \in Steps, To(x, s)
  PROVE  /\ th' \in [Thread -> [pc : Steps, left : SUBSET Point, p : SUBSET Point]]
         /\ th'[x].pc = s /\ th'[x].p = th[x].p
         /\ \A y \in Thread : y # x => th'[y] = th[y]
BY DEF StateTypes, To

\* The point is not touched: neither its callback, nor its bit, nor a thread
\* that adds or cancels it.
Kept(q) ==
  /\ pt'[q] = pt[q]
  /\ q \in obj'.pending <=> q \in obj.pending
  /\ Cancelling(q)' <=> Cancelling(q)
  /\ \A s \in {"register", "registered"} :
       th'["submit"].pc = s /\ q \in th'["submit"].p <=> th["submit"].pc = s /\ q \in th["submit"].p

LEMMA KeptPoint ==
  ASSUME NEW q \in Point, PointInv(q), Kept(q)
  PROVE  PointInv(q)' /\ (Owes(q)' <=> Owes(q))
<1>1. (Claimed(q)' <=> Claimed(q)) /\ (Creating(q)' <=> Creating(q))
  BY DEF Kept, Claimed, Creating
<1>2. Held(q)' = Held(q)
  BY <1>1 DEF Held, Bit
<1> QED BY <1>1, <1>2 DEF Kept, PointInv, Owes

\* A thread that neither adds nor cancels a point before or after its step
\* touches none.
LEMMA ThreadKeeps ==
  ASSUME NEW x \in Thread, \A y \in Thread : y # x => th'[y] = th[y],
         th[x].pc \notin PointSteps, th'[x].pc \notin PointSteps,
         NEW q, pt'[q] = pt[q], q \in obj'.pending <=> q \in obj.pending
  PROVE  Kept(q)
<1>1. Cancelling(q)' <=> Cancelling(q)
  BY DEF Cancelling, PointSteps
<1> QED BY <1>1 DEF Kept, PointSteps, Thread

\* A step that touches one point at most.
LEMMA OnePoint ==
  ASSUME SyncObjIInv, NEW p \in Point, \A q \in Point : q # p => Kept(q), PointInv(p)'
  PROVE  /\ \A q \in Point : PointInv(q)'
         /\ (Owes(p)' <=> Owes(p)) => Owers' = Owers
         /\ Owes(p) /\ ~Owes(p)' => p \in Owers /\ Owers' = Owers \ {p}
         /\ ~Owes(p) /\ Owes(p)' => p \notin Owers /\ Owers' = Owers \cup {p}
<1>1. \A q \in Point : q # p => PointInv(q)' /\ (Owes(q)' <=> Owes(q))
  BY KeptPoint DEF SyncObjIInv
<1> QED BY <1>1 DEF Owers

LEMMA NoPoint ==
  ASSUME SyncObjIInv, \A q \in Point : Kept(q)
  PROVE  (\A q \in Point : PointInv(q)') /\ Owers' = Owers
<1>1. \A q \in Point : PointInv(q)' /\ (Owes(q)' <=> Owes(q))
  BY KeptPoint DEF SyncObjIInv
<1> QED BY <1>1 DEF Owers

\* The threads and the queue do not move.
LEMMA ControlSame ==
  ASSUME SyncObjIInv, UNCHANGED th, ctx'.queued = ctx.queued, ctx'.detached = ctx.detached,
         ctx'.lock = ctx.lock, timer' \in {timer, "off"}
  PROVE  OneHolder' /\ ThreadInv' /\ TimerInv' /\ (HasHolder' <=> HasHolder)
BY DEF SyncObjIInv, OneHolder, Holds, ThreadInv, TimerInv, HasHolder

-----------------------------------------------------------------------------
(* The callbacks of the points.                                            *)

\* A step of a callback changes its point only, and no thread.
LEMMA CallbackKeeps ==
  ASSUME SyncObjIInv, NEW p \in Point, UNCHANGED th,
         \A q \in Point : q # p => pt'[q] = pt[q],
         \A q \in Point : q # p => (q \in obj'.pending <=> q \in obj.pending)
  PROVE  \A q \in Point : q # p => Kept(q)
BY DEF Kept, Cancelling

LEMMA InvSignal ==
  ASSUME SyncObjIInv, NEW p \in Point, Signal(p) \/ EventWorker(p)
  PROVE  SyncObjIInv'
<1> DEFINE s == IF p \in Timestamps /\ pt[p].st = "armed" THEN "queued" ELSE "called"
<1>1. /\ pt' = [pt EXCEPT ![p].st = s] /\ pt[p].st \in {"armed", "queued"}
      /\ s \in {"queued", "called"} /\ (s = "queued" => p \in Timestamps)
      /\ pt[p].st = "queued" => s = "called"
  <2>1. CASE Signal(p)
    BY <2>1 DEF Signal
  <2>2. CASE EventWorker(p)
    BY <2>2 DEF EventWorker
  <2> QED BY <2>1, <2>2
<1> HIDE DEF s
<1>2. UNCHANGED <<obj, timer, ctx, th>>
  BY DEF Signal, EventWorker
<1>3. /\ pt' \in [Point -> [st : Stages, own : 0..2]]
      /\ pt'[p].st = s /\ pt'[p].own = pt[p].own
      /\ \A q \in Point : q # p => pt'[q] = pt[q]
  BY <1>1 DEF SyncObjIInv, StateTypes, Stages
<1>4. PointInv(p)
  BY DEF SyncObjIInv
<1>5. (Cancelling(p)' <=> Cancelling(p)) /\ (Creating(p)' <=> Creating(p))
  BY <1>2 DEF Cancelling, Creating
<1>6. (Claimed(p)' <=> Claimed(p)) /\ (Owes(p)' <=> Owes(p))
  BY <1>1, <1>2, <1>3, <1>5 DEF Claimed, Owes
<1>7. PointInv(p)'
  BY <1>1, <1>2, <1>3, <1>4, <1>5, <1>6 DEF PointInv, Held, Bit
<1>8. StateTypes' /\ OneHolder' /\ ThreadInv' /\ TimerInv' /\ (HasHolder' <=> HasHolder)
  BY <1>2, <1>3, ControlSame DEF SyncObjIInv, StateTypes
<1>9. (\A q \in Point : PointInv(q)') /\ Owers' = Owers
  BY <1>2, <1>3, <1>6, <1>7, CallbackKeeps, OnePoint
<1> QED BY <1>2, <1>8, <1>9, RefsSame DEF SyncObjIInv

LEMMA InvSyncExpire ==
  ASSUME SyncObjIInv, NEW p \in Point, SyncExpire(p)
  PROVE  SyncObjIInv'
<1> DEFINE s == IF p \in obj.pending THEN "cleared" ELSE "late"
<1>1. /\ pt[p].st = "called" /\ pt' = [pt EXCEPT ![p].st = s]
      /\ obj' = [obj EXCEPT !.pending = @ \ {p}] /\ UNCHANGED <<timer, ctx, th>>
  BY DEF SyncExpire
<1>2. s \in {"cleared", "late"} /\ (p \in obj.pending <=> s = "cleared")
  OBVIOUS
<1> HIDE DEF s
<1>3. /\ pt' \in [Point -> [st : Stages, own : 0..2]]
      /\ pt'[p].st = s /\ pt'[p].own = pt[p].own
      /\ \A q \in Point : q # p => pt'[q] = pt[q]
  BY <1>1, <1>2 DEF SyncObjIInv, StateTypes, Stages
<1>4. PointInv(p)
  BY DEF SyncObjIInv
<1>5. (Cancelling(p)' <=> Cancelling(p)) /\ (Creating(p)' <=> Creating(p))
  BY <1>1 DEF Cancelling, Creating
<1>6. obj'.pending = obj.pending \ {p} /\ obj'.ref = obj.ref
      /\ obj' \in [ref : Nat, pending : SUBSET Point, canary : BOOLEAN]
  BY <1>1 DEF SyncObjIInv, StateTypes
<1>7. (Claimed(p)' <=> Claimed(p)) /\ (Owes(p)' <=> Owes(p))
  BY <1>1, <1>2, <1>3, <1>5, <1>6 DEF Claimed, Owes
<1>8. PointInv(p)'
  BY <1>1, <1>2, <1>3, <1>4, <1>5, <1>6, <1>7 DEF PointInv, Held, Bit
<1>9. StateTypes' /\ OneHolder' /\ ThreadInv' /\ TimerInv' /\ (HasHolder' <=> HasHolder)
  BY <1>1, <1>3, <1>6, ControlSame DEF SyncObjIInv, StateTypes
<1>10. (\A q \in Point : PointInv(q)') /\ Owers' = Owers
  BY <1>1, <1>3, <1>6, <1>7, <1>8, CallbackKeeps, OnePoint
<1> QED BY <1>1, <1>6, <1>9, <1>10, RefsSame DEF SyncObjIInv

LEMMA InvSyncExpireKick ==
  ASSUME SyncObjIInv, NEW p \in Point, SyncExpireKick(p)
  PROVE  SyncObjIInv'
<1>1. /\ pt[p].st = "cleared" /\ pt' = [pt EXCEPT ![p].st = "expired"]
      /\ UNCHANGED <<obj, th>> /\ timer' \in {timer, "off"}
      /\ timer' = timer \/ timer = "armed"
      /\ ctx' = ctx \/ ctx' = Sched(ctx)
  BY DEF SyncExpireKick
<1>2. /\ ctx'.queued = ctx.queued /\ ctx'.detached = ctx.detached /\ ctx'.lock = ctx.lock
      /\ ctx' \in [queued : BOOLEAN, lock : {"free", "dispatch", "timer"}, detached : BOOLEAN,
                   job : BOOLEAN, kicked : BOOLEAN]
  BY <1>1 DEF SyncObjIInv, StateTypes, Sched
<1>3. /\ pt' \in [Point -> [st : Stages, own : 0..2]]
      /\ pt'[p].st = "expired" /\ pt'[p].own = pt[p].own
      /\ \A q \in Point : q # p => pt'[q] = pt[q]
  BY <1>1 DEF SyncObjIInv, StateTypes, Stages
<1>4. PointInv(p)
  BY DEF SyncObjIInv
<1>5. (Cancelling(p)' <=> Cancelling(p)) /\ (Creating(p)' <=> Creating(p))
  BY <1>1 DEF Cancelling, Creating
<1>6. (Claimed(p)' <=> Claimed(p)) /\ (Owes(p)' <=> Owes(p))
  BY <1>1, <1>3, <1>5 DEF Claimed, Owes
<1>7. PointInv(p)'
  BY <1>1, <1>3, <1>4, <1>5, <1>6 DEF PointInv, Held, Bit
<1>8. StateTypes' /\ OneHolder' /\ ThreadInv' /\ TimerInv' /\ (HasHolder' <=> HasHolder)
  BY <1>1, <1>2, <1>3, ControlSame DEF SyncObjIInv, StateTypes
<1>9. (\A q \in Point : PointInv(q)') /\ Owers' = Owers
  BY <1>1, <1>3, <1>6, <1>7, CallbackKeeps, OnePoint
<1> QED BY <1>1, <1>8, <1>9, RefsSame DEF SyncObjIInv

\* The callback of a timestamp puts the object, and the context unless the
\* destroy does.
LEMMA InvSyncFunc ==
  ASSUME SyncObjIInv, NEW p \in Point, SyncFunc(p)
  PROVE  SyncObjIInv'
<1> DEFINE n == IF pt[p].st = "expired" THEN pt[p].own - 1 ELSE pt[p].own
<1>1. /\ pt[p].st \in {"expired", "late"} /\ p \in Timestamps
      /\ pt' = [pt EXCEPT ![p] = [st |-> "over", own |-> n]]
      /\ obj' = [obj EXCEPT !.ref = @ - 1] /\ UNCHANGED <<timer, ctx, th>>
  BY DEF SyncFunc
<1>2. PointInv(p) /\ p \notin Timelines
  BY <1>1, SyncObjAssumption DEF SyncObjIInv
<1>3. p \notin obj.pending /\ (pt[p].st = "expired" => ~Cancelling(p))
  BY <1>1, <1>2 DEF PointInv
<1>4. /\ n = Bit(Cancelling(p)) /\ n \in 0..2
  BY <1>1, <1>2, <1>3 DEF PointInv, Held, Bit, Claimed
<1> HIDE DEF n
<1>5. /\ pt' \in [Point -> [st : Stages, own : 0..2]]
      /\ pt'[p].st = "over" /\ pt'[p].own = n
      /\ \A q \in Point : q # p => pt'[q] = pt[q]
  BY <1>1, <1>4 DEF SyncObjIInv, StateTypes, Stages
<1>6. (Cancelling(p)' <=> Cancelling(p)) /\ (Creating(p)' <=> Creating(p))
  BY <1>1 DEF Cancelling, Creating
<1>7. obj'.pending = obj.pending /\ obj'.ref = obj.ref - 1 /\ obj'.canary \in BOOLEAN
      /\ obj' = [ref |-> obj'.ref, pending |-> obj'.pending, canary |-> obj'.canary]
  BY <1>1 DEF SyncObjIInv, StateTypes
<1>8. Owes(p) /\ ~Owes(p)' /\ (Claimed(p)' <=> Cancelling(p))
  BY <1>1, <1>3, <1>5, <1>6, <1>7 DEF Claimed, Owes
<1>9. PointInv(p)'
  BY <1>1, <1>2, <1>3, <1>4, <1>5, <1>6, <1>7, <1>8 DEF PointInv, Held, Bit
<1>10. /\ \A q \in Point : PointInv(q)'
       /\ p \in Owers /\ Owers' = Owers \ {p}
  BY <1>1, <1>5, <1>7, <1>8, <1>9, CallbackKeeps, OnePoint
<1>11. OneHolder' /\ ThreadInv' /\ TimerInv' /\ (HasHolder' <=> HasHolder)
  BY <1>1, ControlSame
<1>12. Refs' /\ obj'.ref \in Nat
  BY <1>1, <1>7, <1>10, <1>11, RefsPut DEF SyncObjIInv
<1>13. StateTypes'
  BY <1>1, <1>5, <1>7, <1>12 DEF SyncObjIInv, StateTypes
<1> QED BY <1>10, <1>11, <1>12, <1>13 DEF SyncObjIInv

\* The callback of a fence puts the object if it has the bit.
LEMMA InvSyncFenceFunc ==
  ASSUME SyncObjIInv, NEW p \in Point, SyncFenceFunc(p)
  PROVE  SyncObjIInv'
<1>1. /\ pt[p].st \in {"expired", "late"} /\ p \in Fences
      /\ pt' = [pt EXCEPT ![p].st = "over"] /\ UNCHANGED <<timer, ctx, th>>
      /\ obj' = [obj EXCEPT !.ref = IF pt[p].st = "expired" THEN obj.ref - 1 ELSE obj.ref]
  BY DEF SyncFenceFunc
<1>2. PointInv(p) /\ p \notin Timelines /\ p \notin Timestamps
  BY <1>1, SyncObjAssumption DEF SyncObjIInv
<1>3. p \notin obj.pending /\ (pt[p].st = "expired" => ~Cancelling(p))
      /\ (pt[p].st = "late" => Cancelling(p))
  BY <1>1, <1>2 DEF PointInv
<1>5. /\ pt' \in [Point -> [st : Stages, own : 0..2]]
      /\ pt'[p].st = "over" /\ pt'[p].own = pt[p].own
      /\ \A q \in Point : q # p => pt'[q] = pt[q]
  BY <1>1 DEF SyncObjIInv, StateTypes, Stages
<1>6. (Cancelling(p)' <=> Cancelling(p)) /\ (Creating(p)' <=> Creating(p))
  BY <1>1 DEF Cancelling, Creating
<1>7. obj'.pending = obj.pending /\ obj'.canary \in BOOLEAN
      /\ (pt[p].st = "expired" => obj'.ref = obj.ref - 1)
      /\ (pt[p].st = "late" => obj'.ref = obj.ref)
      /\ obj' = [ref |-> obj'.ref, pending |-> obj'.pending, canary |-> obj'.canary]
  BY <1>1 DEF SyncObjIInv, StateTypes
<1>8. Owes(p) /\ (Owes(p)' <=> Cancelling(p)) /\ (Claimed(p)' <=> Cancelling(p))
  BY <1>1, <1>2, <1>3, <1>5, <1>6, <1>7 DEF Claimed, Owes
<1>9. PointInv(p)'
  BY <1>1, <1>2, <1>3, <1>5, <1>6, <1>7, <1>8 DEF PointInv, Held, Bit
<1>10. /\ \A q \in Point : PointInv(q)'
       /\ pt[p].st = "expired" => p \in Owers /\ Owers' = Owers \ {p}
       /\ pt[p].st = "late" => Owers' = Owers
  BY <1>1, <1>3, <1>5, <1>7, <1>8, <1>9, CallbackKeeps, OnePoint
<1>11. OneHolder' /\ ThreadInv' /\ TimerInv' /\ (HasHolder' <=> HasHolder)
  BY <1>1, ControlSame
<1>12. Refs' /\ obj'.ref \in Nat
  <2>1. CASE pt[p].st = "expired"
    BY <1>1, <1>7, <1>10, <1>11, <2>1, RefsPut DEF SyncObjIInv
  <2>2. CASE pt[p].st = "late"
    BY <1>1, <1>7, <1>10, <1>11, <2>2, RefsSame DEF SyncObjIInv, StateTypes
  <2> QED BY <1>1, <2>1, <2>2
<1>13. StateTypes'
  BY <1>1, <1>5, <1>7, <1>12 DEF SyncObjIInv, StateTypes
<1> QED BY <1>10, <1>11, <1>12, <1>13 DEF SyncObjIInv

\* The callback of a timeline leaves its references to its worker, or to the
\* destroy that has the bit.
LEMMA InvTimelineCallback ==
  ASSUME SyncObjIInv, NEW p \in Point, TimelineCallback(p)
  PROVE  SyncObjIInv'
<1> DEFINE s == IF pt[p].st = "expired" THEN "work" ELSE "over"
<1>1. /\ pt[p].st \in {"expired", "late"} /\ p \in Timelines
      /\ pt' = [pt EXCEPT ![p].st = s] /\ UNCHANGED <<obj, timer, ctx, th>>
  BY DEF TimelineCallback
<1>2. PointInv(p) /\ p \notin Timestamps
  BY <1>1, SyncObjAssumption DEF SyncObjIInv
<1>3. s \in {"work", "over"} /\ (s = "work" <=> pt[p].st = "expired")
  OBVIOUS
<1> HIDE DEF s
<1>4. p \notin obj.pending /\ (pt[p].st = "expired" => ~Cancelling(p))
      /\ (pt[p].st = "late" => Cancelling(p))
  BY <1>1, <1>2 DEF PointInv
<1>5. /\ pt' \in [Point -> [st : Stages, own : 0..2]]
      /\ pt'[p].st = s /\ pt'[p].own = pt[p].own
      /\ \A q \in Point : q # p => pt'[q] = pt[q]
  BY <1>1, <1>3 DEF SyncObjIInv, StateTypes, Stages
<1>6. (Cancelling(p)' <=> Cancelling(p)) /\ (Creating(p)' <=> Creating(p))
  BY <1>1 DEF Cancelling, Creating
<1>7. (Claimed(p)' <=> Claimed(p)) /\ (Owes(p)' <=> Owes(p))
  BY <1>1, <1>2, <1>3, <1>4, <1>5, <1>6 DEF Claimed, Owes
<1>8. PointInv(p)'
  BY <1>1, <1>2, <1>3, <1>4, <1>5, <1>6, <1>7 DEF PointInv, Held, Bit
<1>9. StateTypes' /\ OneHolder' /\ ThreadInv' /\ TimerInv' /\ (HasHolder' <=> HasHolder)
  BY <1>1, <1>5, ControlSame DEF SyncObjIInv, StateTypes
<1>10. (\A q \in Point : PointInv(q)') /\ Owers' = Owers
  BY <1>1, <1>5, <1>7, <1>8, CallbackKeeps, OnePoint
<1> QED BY <1>1, <1>9, <1>10, RefsSame DEF SyncObjIInv

LEMMA InvTimelineWork ==
  ASSUME SyncObjIInv, NEW p \in Point, TimelineWork(p)
  PROVE  SyncObjIInv'
<1>1. /\ pt[p].st = "work"
      /\ pt' = [pt EXCEPT ![p].st = "over", ![p].own = @ - 1]
      /\ obj' = [obj EXCEPT !.ref = @ - 1] /\ UNCHANGED <<timer, ctx, th>>
  BY DEF TimelineWork
<1>2. PointInv(p) /\ p \in Timelines /\ p \notin Timestamps
  BY <1>1, SyncObjAssumption DEF SyncObjIInv, PointInv
<1>3. p \notin obj.pending /\ ~Cancelling(p) /\ Claimed(p)
  BY <1>1, <1>2 DEF PointInv, Claimed
<1>4. pt[p].own - 1 = Bit(Creating(p)) /\ pt[p].own - 1 \in 0..2
  BY <1>2, <1>3 DEF PointInv, Held, Bit
<1>5. /\ pt' \in [Point -> [st : Stages, own : 0..2]]
      /\ pt'[p].st = "over" /\ pt'[p].own = pt[p].own - 1
      /\ \A q \in Point : q # p => pt'[q] = pt[q]
  BY <1>1, <1>4 DEF SyncObjIInv, StateTypes, Stages
<1>6. (Cancelling(p)' <=> Cancelling(p)) /\ (Creating(p)' <=> Creating(p))
  BY <1>1 DEF Cancelling, Creating
<1>7. obj'.pending = obj.pending /\ obj'.ref = obj.ref - 1 /\ obj'.canary \in BOOLEAN
      /\ obj' = [ref |-> obj'.ref, pending |-> obj'.pending, canary |-> obj'.canary]
  BY <1>1 DEF SyncObjIInv, StateTypes
<1>8. Owes(p) /\ ~Owes(p)' /\ ~Claimed(p)'
  BY <1>2, <1>3, <1>5, <1>6, <1>7 DEF Claimed, Owes
<1>9. PointInv(p)'
  BY <1>1, <1>2, <1>3, <1>4, <1>5, <1>6, <1>7, <1>8 DEF PointInv, Held, Bit
<1>10. /\ \A q \in Point : PointInv(q)'
       /\ p \in Owers /\ Owers' = Owers \ {p}
  BY <1>1, <1>5, <1>7, <1>8, <1>9, CallbackKeeps, OnePoint
<1>11. OneHolder' /\ ThreadInv' /\ TimerInv' /\ (HasHolder' <=> HasHolder)
  BY <1>1, ControlSame
<1>12. Refs' /\ obj'.ref \in Nat
  BY <1>1, <1>7, <1>10, <1>11, RefsPut DEF SyncObjIInv
<1>13. StateTypes'
  BY <1>1, <1>5, <1>7, <1>12 DEF SyncObjIInv, StateTypes
<1> QED BY <1>10, <1>11, <1>12, <1>13 DEF SyncObjIInv

-----------------------------------------------------------------------------
(* Submission.                                                             *)

\* The submitter has the reference and keeps it: nobody else destroys.
LEMMA SubmitterKeeps ==
  ASSUME SyncObjIInv, th["submit"].pc \in {"add", "register", "registered"},
         th'["submit"].pc \in {"add", "register", "registered", "destroy"},
         \A q, r \in th'["submit"].p : q = r,
         \A y \in Thread : y # "submit" => th'[y] = th[y], UNCHANGED <<ctx, timer>>
  PROVE  /\ OneHolder' /\ ThreadInv' /\ TimerInv' /\ (HasHolder' <=> HasHolder)
         /\ \A q : ~Cancelling(q) /\ ~Cancelling(q)'
<1>1. /\ OneHolder /\ ThreadInv /\ TimerInv
      /\ "submit" \in Thread /\ "dispatch" \in Thread /\ "detach" \in Thread
  BY DEF SyncObjIInv, Thread
<1>2. Holds("submit") /\ Holds("submit")'
  BY DEF Holds, DestroySteps
<1>3. \A y \in Thread : y # "submit" => ~Holds(y) /\ ~Holds(y)'
  BY <1>1, <1>2 DEF OneHolder, Holds
<1>4. OneHolder'
  BY <1>1, <1>2, <1>3 DEF OneHolder
<1>5. ThreadInv'
  BY <1>1 DEF ThreadInv, DestroySteps
<1>6. TimerInv'
  BY <1>1, <1>2 DEF TimerInv, OneHolder
<1>7. HasHolder' /\ HasHolder
  BY DEF HasHolder
<1>8. \A q : ~Cancelling(q) /\ ~Cancelling(q)'
  BY <1>3 DEF Cancelling, Holds, DestroySteps
<1> QED BY <1>4, <1>5, <1>6, <1>7, <1>8

LEMMA InvAddSync ==
  ASSUME SyncObjIInv, NEW p \in Point, AddSync(p)
  PROVE  SyncObjIInv'
<1> DEFINE n == IF p \in Timestamps THEN 1 ELSE IF p \in Timelines THEN 2 ELSE 0
<1>1. /\ th["submit"].pc = "add" /\ pt[p].st = "none"
      /\ obj' = [obj EXCEPT !.ref = @ + 1, !.pending = @ \cup {p}]
      /\ pt' = [pt EXCEPT ![p] = [st |-> "new", own |-> n]]
      /\ th' = [th EXCEPT !["submit"].pc = "register", !["submit"].p = {p}]
      /\ UNCHANGED <<timer, ctx>>
  BY DEF AddSync
<1>2. /\ n \in 0..2 /\ (p \in Timelines => n = 2) /\ (p \in Timestamps => n = 1)
      /\ (p \notin Timestamps /\ p \notin Timelines => n = 0)
  BY SyncObjAssumption
<1> HIDE DEF n
<1>3. /\ th' \in [Thread -> [pc : Steps, left : SUBSET Point, p : SUBSET Point]]
      /\ th'["submit"].pc = "register" /\ th'["submit"].p = {p}
      /\ \A y \in Thread : y # "submit" => th'[y] = th[y]
  BY <1>1 DEF SyncObjIInv, StateTypes, Thread, Steps
<1>4. /\ OneHolder' /\ ThreadInv' /\ TimerInv' /\ (HasHolder' <=> HasHolder)
      /\ \A q : ~Cancelling(q) /\ ~Cancelling(q)'
  BY <1>1, <1>3, SubmitterKeeps
<1>5. /\ pt' \in [Point -> [st : Stages, own : 0..2]]
      /\ pt'[p].st = "new" /\ pt'[p].own = n
      /\ \A q \in Point : q # p => pt'[q] = pt[q]
  BY <1>1, <1>2 DEF SyncObjIInv, StateTypes, Stages
<1>6. /\ obj'.pending = obj.pending \cup {p} /\ obj'.ref = obj.ref + 1
      /\ obj' \in [ref : Nat, pending : SUBSET Point, canary : BOOLEAN]
  <2>1. obj \in [ref : Nat, pending : SUBSET Point, canary : BOOLEAN]
    BY DEF SyncObjIInv, StateTypes
  <2>2. obj.ref + 1 \in Nat /\ obj.pending \cup {p} \in SUBSET Point
    BY <2>1
  <2> QED BY <1>1, <2>1, <2>2
<1>7. PointInv(p) /\ p \notin obj.pending
  BY <1>1 DEF SyncObjIInv, PointInv
<1>8. Owes(p)' /\ ~Owes(p) /\ Claimed(p)' /\ Creating(p)'
  BY <1>1, <1>3, <1>4, <1>5, <1>6, <1>7 DEF Owes, Claimed, Creating
<1>9. PointInv(p)'
  BY <1>2, <1>3, <1>4, <1>5, <1>6, <1>8 DEF PointInv, Held, Bit
<1>10. \A q \in Point : q # p => Kept(q)
  BY <1>1, <1>3, <1>4, <1>5, <1>6 DEF Kept
<1>11. (\A q \in Point : PointInv(q)') /\ p \notin Owers /\ Owers' = Owers \cup {p}
  BY <1>8, <1>9, <1>10, OnePoint
<1>12. Refs'
  BY <1>1, <1>4, <1>6, <1>11, RefsGet DEF SyncObjIInv
<1>13. StateTypes'
  BY <1>1, <1>3, <1>5, <1>6 DEF SyncObjIInv, StateTypes
<1> QED BY <1>4, <1>11, <1>12, <1>13 DEF SyncObjIInv

\* A callback that is registered; it may be for the event worker at once.
LEMMA InvRegisterArmed ==
  ASSUME SyncObjIInv, NEW p \in Point, th["submit"].pc = "register", p \in th["submit"].p,
         NEW s \in {"armed", "queued"}, pt' = [pt EXCEPT ![p].st = s],
         NEW t \in {"add", "registered"}, To("submit", t),
         t = "registered" <=> p \in Timelines, s = "queued" => p \in Timestamps,
         UNCHANGED <<obj, timer, ctx>>
  PROVE  SyncObjIInv'
<1>1. PointInv(p) /\ StateTypes /\ "submit" \in Thread /\ t \in Steps
  BY DEF SyncObjIInv, Thread, Steps
<1>2. pt[p].st = "new" /\ p \in obj.pending
  <2>1. pt[p].st = "new"
    BY <1>1 DEF PointInv
  <2>2. ~Cancelling(p)
    BY <1>1, <2>1 DEF PointInv
  <2> QED BY <1>1, <2>1, <2>2 DEF PointInv
<1>3. /\ th' \in [Thread -> [pc : Steps, left : SUBSET Point, p : SUBSET Point]]
      /\ th'["submit"].pc = t /\ th'["submit"].p = th["submit"].p
      /\ \A y \in Thread : y # "submit" => th'[y] = th[y]
  BY <1>1, Move
<1>4. \A q, r \in th["submit"].p : q = r
  BY <1>1 DEF SyncObjIInv, ThreadInv, PointSteps
<1>5. /\ OneHolder' /\ ThreadInv' /\ TimerInv' /\ (HasHolder' <=> HasHolder)
      /\ \A q : ~Cancelling(q) /\ ~Cancelling(q)'
  BY <1>3, <1>4, SubmitterKeeps
<1>6. /\ pt' \in [Point -> [st : Stages, own : 0..2]]
      /\ pt'[p].st = s /\ pt'[p].own = pt[p].own
      /\ \A q \in Point : q # p => pt'[q] = pt[q]
  BY <1>1 DEF StateTypes, Stages
<1>7. Owes(p)' /\ Owes(p) /\ Claimed(p)' /\ Claimed(p)
  BY <1>2, <1>6 DEF Owes, Claimed
<1>8. Creating(p) /\ (p \in Timelines => Creating(p)')
  BY <1>3 DEF Creating
<1>9. PointInv(p)'
  BY <1>1, <1>2, <1>3, <1>5, <1>6, <1>7, <1>8 DEF PointInv, Held, Bit
<1>10. \A q \in Point : q # p => Kept(q)
  BY <1>3, <1>4, <1>5, <1>6 DEF Kept
<1>11. (\A q \in Point : PointInv(q)') /\ Owers' = Owers
  BY <1>7, <1>9, <1>10, OnePoint
<1>12. StateTypes'
  BY <1>1, <1>3, <1>6 DEF StateTypes
<1> QED BY <1>5, <1>11, <1>12, RefsSame DEF SyncObjIInv

\* A callback that comes too late or cannot be registered: the point is over.
LEMMA InvRegisterOver ==
  ASSUME SyncObjIInv, NEW p \in Point, th["submit"].pc = "register", p \in th["submit"].p,
         pt' = [pt EXCEPT ![p] = [st |-> "over", own |-> 0]],
         obj' = [obj EXCEPT !.ref = @ - 1, !.pending = @ \ {p}],
         NEW t \in {"add", "destroy"}, To("submit", t), UNCHANGED <<timer, ctx>>
  PROVE  SyncObjIInv'
<1>1. PointInv(p) /\ StateTypes /\ "submit" \in Thread /\ t \in Steps
  BY DEF SyncObjIInv, Thread, Steps, DestroySteps
<1>2. pt[p].st = "new" /\ p \in obj.pending
  <2>1. pt[p].st = "new"
    BY <1>1 DEF PointInv
  <2>2. ~Cancelling(p)
    BY <1>1, <2>1 DEF PointInv
  <2> QED BY <1>1, <2>1, <2>2 DEF PointInv
<1>3. /\ th' \in [Thread -> [pc : Steps, left : SUBSET Point, p : SUBSET Point]]
      /\ th'["submit"].pc = t /\ th'["submit"].p = th["submit"].p
      /\ \A y \in Thread : y # "submit" => th'[y] = th[y]
  BY <1>1, Move
<1>4. \A q, r \in th["submit"].p : q = r
  BY <1>1 DEF SyncObjIInv, ThreadInv, PointSteps
<1>5. /\ OneHolder' /\ ThreadInv' /\ TimerInv' /\ (HasHolder' <=> HasHolder)
      /\ \A q : ~Cancelling(q) /\ ~Cancelling(q)'
  BY <1>3, <1>4, SubmitterKeeps
<1>6. /\ pt' \in [Point -> [st : Stages, own : 0..2]]
      /\ pt'[p].st = "over" /\ pt'[p].own = 0
      /\ \A q \in Point : q # p => pt'[q] = pt[q]
  BY <1>1 DEF StateTypes, Stages
<1>7. /\ obj'.pending = obj.pending \ {p} /\ obj'.ref = obj.ref - 1
      /\ obj'.canary \in BOOLEAN /\ obj'.pending \in SUBSET Point
      /\ obj' = [ref |-> obj'.ref, pending |-> obj'.pending, canary |-> obj'.canary]
  BY <1>1 DEF StateTypes
<1>8. Owes(p) /\ ~Owes(p)' /\ ~Claimed(p)' /\ ~Creating(p)'
  BY <1>2, <1>3, <1>5, <1>6, <1>7 DEF Owes, Claimed, Creating
<1>9. PointInv(p)'
  BY <1>3, <1>5, <1>6, <1>7, <1>8 DEF PointInv, Held, Bit
<1>10. \A q \in Point : q # p => Kept(q)
  BY <1>3, <1>4, <1>5, <1>6, <1>7 DEF Kept
<1>11. (\A q \in Point : PointInv(q)') /\ p \in Owers /\ Owers' = Owers \ {p}
  BY <1>8, <1>9, <1>10, OnePoint
<1>12. Refs' /\ obj'.ref \in Nat
  BY <1>5, <1>7, <1>11, RefsPut DEF SyncObjIInv
<1>13. StateTypes'
  BY <1>1, <1>3, <1>6, <1>7, <1>12 DEF StateTypes
<1> QED BY <1>5, <1>11, <1>12, <1>13 DEF SyncObjIInv

LEMMA InvRegister ==
  ASSUME SyncObjIInv, NEW p \in Point, Register(p)
  PROVE  SyncObjIInv'
<1>1. th["submit"].pc = "register" /\ p \in th["submit"].p /\ UNCHANGED <<timer, ctx>>
  BY DEF Register
<1>2. CASE /\ pt' = [pt EXCEPT ![p].st = "armed"] /\ UNCHANGED obj
           /\ To("submit", IF p \in Timelines THEN "registered" ELSE "add")
  <2>1. CASE p \in Timelines
    BY <1>1, <1>2, <2>1, InvRegisterArmed
  <2>2. CASE p \notin Timelines
    BY <1>1, <1>2, <2>2, InvRegisterArmed
  <2> QED BY <2>1, <2>2
<1>3. CASE /\ p \in Timestamps /\ pt' = [pt EXCEPT ![p].st = "queued"]
           /\ To("submit", "add") /\ UNCHANGED obj
  BY <1>1, <1>3, InvRegisterArmed, SyncObjAssumption
<1>4. CASE /\ pt' = [pt EXCEPT ![p] = [st |-> "over", own |-> 0]]
           /\ obj' = [obj EXCEPT !.ref = @ - 1, !.pending = @ \ {p}]
           /\ To("submit", "add") \/ To("submit", "destroy")
  BY <1>1, <1>4, InvRegisterOver
<1> QED BY <1>2, <1>3, <1>4 DEF Register

LEMMA InvRegistered ==
  ASSUME SyncObjIInv, NEW p \in Point, Registered(p)
  PROVE  SyncObjIInv'
<1>1. /\ th["submit"].pc = "registered" /\ p \in th["submit"].p
      /\ pt' = [pt EXCEPT ![p].own = @ - 1] /\ To("submit", "add")
      /\ UNCHANGED <<obj, timer, ctx>>
  BY DEF Registered
<1>2. PointInv(p) /\ StateTypes /\ "submit" \in Thread /\ "add" \in Steps /\ p \in Timelines
  BY <1>1 DEF SyncObjIInv, Thread, Steps, PointInv
<1>3. /\ th' \in [Thread -> [pc : Steps, left : SUBSET Point, p : SUBSET Point]]
      /\ th'["submit"].pc = "add" /\ th'["submit"].p = th["submit"].p
      /\ \A y \in Thread : y # "submit" => th'[y] = th[y]
  BY <1>1, <1>2, Move
<1>4. \A q, r \in th["submit"].p : q = r
  BY <1>1, <1>2 DEF SyncObjIInv, ThreadInv, PointSteps
<1>5. /\ OneHolder' /\ ThreadInv' /\ TimerInv' /\ (HasHolder' <=> HasHolder)
      /\ \A q : ~Cancelling(q) /\ ~Cancelling(q)'
  BY <1>1, <1>3, <1>4, SubmitterKeeps
<1>6. Creating(p) /\ ~Creating(p)' /\ pt[p].own = Bit(Claimed(p)) + 1
  <2>1. Creating(p) /\ ~Creating(p)'
    BY <1>1, <1>3 DEF Creating
  <2> QED BY <1>2, <2>1 DEF PointInv, Held, Bit
<1>7. /\ pt' \in [Point -> [st : Stages, own : 0..2]]
      /\ pt'[p].st = pt[p].st /\ pt'[p].own = Bit(Claimed(p))
      /\ \A q \in Point : q # p => pt'[q] = pt[q]
  <2>1. pt[p].own - 1 = Bit(Claimed(p)) /\ Bit(Claimed(p)) \in 0..2
    BY <1>6 DEF Bit
  <2> QED BY <1>1, <1>2, <2>1 DEF StateTypes
<1>8. (Claimed(p)' <=> Claimed(p)) /\ (Owes(p)' <=> Owes(p))
  BY <1>1, <1>5, <1>7 DEF Owes, Claimed
<1>9. PointInv(p)'
  BY <1>1, <1>2, <1>3, <1>5, <1>6, <1>7, <1>8 DEF PointInv, Held, Bit
<1>10. \A q \in Point : q # p => Kept(q)
  BY <1>1, <1>3, <1>4, <1>5, <1>7 DEF Kept
<1>11. (\A q \in Point : PointInv(q)') /\ Owers' = Owers
  BY <1>8, <1>9, <1>10, OnePoint
<1>12. StateTypes'
  BY <1>1, <1>2, <1>3, <1>7 DEF StateTypes
<1> QED BY <1>1, <1>5, <1>11, <1>12, RefsSame DEF SyncObjIInv

\* The submitter gives up, or hands its reference to the queue.
LEMMA InvSubmitEnd ==
  ASSUME SyncObjIInv, AddFails \/ QueueCmds
  PROVE  SyncObjIInv'
<1>1. /\ th["submit"].pc = "add" /\ UNCHANGED <<obj, pt, timer>>
      /\ StateTypes /\ "submit" \in Thread /\ OneHolder /\ ThreadInv /\ TimerInv
  BY DEF AddFails, QueueCmds, SyncObjIInv, Thread
<1>2. CASE To("submit", "destroy") /\ UNCHANGED ctx
  <2>1. /\ th' \in [Thread -> [pc : Steps, left : SUBSET Point, p : SUBSET Point]]
        /\ th'["submit"].pc = "destroy"
        /\ \A y \in Thread : y # "submit" => th'[y] = th[y]
    BY <1>1, <1>2, Move DEF Steps, DestroySteps
  <2>2. \A q \in Point : Kept(q)
    BY <1>1, <2>1, ThreadKeeps DEF PointSteps
  <2>3. Holds("submit") /\ Holds("submit")' /\ \A y \in Thread : y # "submit" => (Holds(y)' <=> Holds(y))
    BY <1>1, <2>1 DEF Holds, DestroySteps
  <2>4. OneHolder' /\ ThreadInv' /\ TimerInv'
    BY <1>1, <1>2, <2>1, <2>3 DEF OneHolder, ThreadInv, TimerInv, Thread, PointSteps, DestroySteps
  <2>5. HasHolder /\ HasHolder'
    BY <1>1, <2>1 DEF HasHolder
  <2>6. (\A q \in Point : PointInv(q)') /\ Owers' = Owers
    BY <2>2, NoPoint
  <2>7. StateTypes'
    BY <1>1, <1>2, <2>1 DEF StateTypes
  <2> QED BY <1>1, <2>4, <2>5, <2>6, <2>7, RefsSame DEF SyncObjIInv
<1>3. CASE /\ To("submit", "idle")
           /\ ctx' = [ctx EXCEPT !.queued = TRUE, !.job = TRUE, !.kicked = TRUE]
  <2>1. /\ th' \in [Thread -> [pc : Steps, left : SUBSET Point, p : SUBSET Point]]
        /\ th'["submit"].pc = "idle"
        /\ \A y \in Thread : y # "submit" => th'[y] = th[y]
    BY <1>1, <1>3, Move DEF Steps
  <2>2. \A q \in Point : Kept(q)
    BY <1>1, <2>1, ThreadKeeps DEF PointSteps
  <2>3. /\ ctx'.queued /\ ctx'.lock = ctx.lock /\ ctx'.detached = ctx.detached
        /\ ctx' \in [queued : BOOLEAN, lock : {"free", "dispatch", "timer"}, detached : BOOLEAN,
                     job : BOOLEAN, kicked : BOOLEAN]
    BY <1>1, <1>3 DEF StateTypes
  <2>4. \A y \in Thread : ~Holds(y)'
    BY <1>1, <2>1 DEF Holds, OneHolder, DestroySteps
  <2>5. OneHolder' /\ TimerInv'
    BY <2>3, <2>4 DEF OneHolder, TimerInv
  <2>6. ThreadInv'
    BY <1>1, <2>1, <2>3 DEF ThreadInv, Thread, PointSteps
  <2>7. HasHolder /\ HasHolder'
    BY <1>1, <2>3 DEF HasHolder
  <2>8. (\A q \in Point : PointInv(q)') /\ Owers' = Owers
    BY <2>2, NoPoint
  <2>9. StateTypes'
    BY <1>1, <2>1, <2>3 DEF StateTypes
  <2> QED BY <1>1, <2>5, <2>6, <2>7, <2>8, <2>9, RefsSame DEF SyncObjIInv
<1> QED BY <1>2, <1>3 DEF AddFails, QueueCmds

-----------------------------------------------------------------------------
(* The dispatcher, the detach and the timer.                               *)

LEMMA InvDispatch ==
  ASSUME SyncObjIInv, Dispatch
  PROVE  SyncObjIInv'
<1>1. /\ th["dispatch"].pc = "idle" /\ UNCHANGED <<obj, pt, timer>>
      /\ StateTypes /\ "dispatch" \in Thread /\ OneHolder /\ ThreadInv /\ TimerInv
  BY DEF Dispatch, SyncObjIInv, Thread
<1>2. CASE ctx' = [ctx EXCEPT !.kicked = FALSE, !.job = FALSE] /\ UNCHANGED th
  <2>1. /\ ctx'.queued = ctx.queued /\ ctx'.lock = ctx.lock /\ ctx'.detached = ctx.detached
        /\ ctx' \in [queued : BOOLEAN, lock : {"free", "dispatch", "timer"}, detached : BOOLEAN,
                     job : BOOLEAN, kicked : BOOLEAN]
    BY <1>1, <1>2 DEF StateTypes
  <2>2. OneHolder' /\ ThreadInv' /\ TimerInv' /\ (HasHolder' <=> HasHolder)
    BY <1>1, <1>2, <2>1, ControlSame
  <2>3. \A q \in Point : Kept(q)
    BY <1>1, <1>2 DEF Kept, Cancelling
  <2>4. (\A q \in Point : PointInv(q)') /\ Owers' = Owers
    BY <2>3, NoPoint
  <2>5. StateTypes'
    BY <1>1, <1>2, <2>1 DEF StateTypes
  <2> QED BY <1>1, <2>2, <2>4, <2>5, RefsSame DEF SyncObjIInv
<1>3. CASE /\ ctx.queued
           /\ ctx' = [ctx EXCEPT !.kicked = FALSE, !.job = FALSE, !.queued = FALSE,
                                 !.lock = "dispatch"]
           /\ To("dispatch", "destroy")
  <2>1. /\ th' \in [Thread -> [pc : Steps, left : SUBSET Point, p : SUBSET Point]]
        /\ th'["dispatch"].pc = "destroy"
        /\ \A y \in Thread : y # "dispatch" => th'[y] = th[y]
    BY <1>1, <1>3, Move DEF Steps, DestroySteps
  <2>2. \A q \in Point : Kept(q)
    BY <1>1, <2>1, ThreadKeeps DEF PointSteps
  <2>3. /\ ~ctx'.queued /\ ctx'.lock = "dispatch" /\ ctx'.detached = ctx.detached
        /\ ctx' \in [queued : BOOLEAN, lock : {"free", "dispatch", "timer"}, detached : BOOLEAN,
                     job : BOOLEAN, kicked : BOOLEAN]
    BY <1>1, <1>3 DEF StateTypes
  <2>4. \A y \in Thread : y # "dispatch" => ~Holds(y)'
    BY <1>1, <1>3, <2>1 DEF Holds, OneHolder
  <2>5. OneHolder' /\ TimerInv'
    BY <1>1, <2>1, <2>3, <2>4 DEF OneHolder, TimerInv
  <2>6. ThreadInv'
    BY <1>1, <2>1, <2>3 DEF ThreadInv, Thread, PointSteps, DestroySteps
  <2>7. HasHolder /\ HasHolder'
    BY <1>1, <1>3, <2>1 DEF HasHolder
  <2>8. (\A q \in Point : PointInv(q)') /\ Owers' = Owers
    BY <2>2, NoPoint
  <2>9. StateTypes'
    BY <1>1, <2>1, <2>3 DEF StateTypes
  <2> QED BY <1>1, <2>5, <2>6, <2>7, <2>8, <2>9, RefsSame DEF SyncObjIInv
<1>4. CASE /\ ctx.queued
           /\ ctx' = [ctx EXCEPT !.kicked = FALSE, !.lock = "dispatch"]
           /\ To("dispatch", "arm")
  <2>1. /\ th' \in [Thread -> [pc : Steps, left : SUBSET Point, p : SUBSET Point]]
        /\ th'["dispatch"].pc = "arm"
        /\ \A y \in Thread : y # "dispatch" => th'[y] = th[y]
    BY <1>1, <1>4, Move DEF Steps
  <2>2. \A q \in Point : Kept(q)
    BY <1>1, <2>1, ThreadKeeps DEF PointSteps
  <2>3. /\ ctx'.queued /\ ctx'.lock = "dispatch" /\ ctx'.detached = ctx.detached
        /\ ctx' \in [queued : BOOLEAN, lock : {"free", "dispatch", "timer"}, detached : BOOLEAN,
                     job : BOOLEAN, kicked : BOOLEAN]
    BY <1>1, <1>4 DEF StateTypes
  <2>4. \A y \in Thread : ~Holds(y)'
    BY <1>1, <1>4, <2>1 DEF Holds, OneHolder, DestroySteps
  <2>5. OneHolder' /\ TimerInv'
    BY <2>3, <2>4 DEF OneHolder, TimerInv
  <2>6. ThreadInv'
    BY <1>1, <2>1, <2>3 DEF ThreadInv, Thread, PointSteps
  <2>7. HasHolder /\ HasHolder'
    BY <1>4, <2>3 DEF HasHolder
  <2>8. (\A q \in Point : PointInv(q)') /\ Owers' = Owers
    BY <2>2, NoPoint
  <2>9. StateTypes'
    BY <1>1, <2>1, <2>3 DEF StateTypes
  <2> QED BY <1>1, <2>5, <2>6, <2>7, <2>8, <2>9, RefsSame DEF SyncObjIInv
<1> QED BY <1>2, <1>3, <1>4 DEF Dispatch

LEMMA InvStartCanary ==
  ASSUME SyncObjIInv, CanaryInv, StartCanary
  PROVE  SyncObjIInv'
<1>1. /\ th["dispatch"].pc = "arm" /\ UNCHANGED pt /\ To("dispatch", "idle")
      /\ obj' = [obj EXCEPT !.canary = TRUE] /\ ctx' = [ctx EXCEPT !.lock = "free"]
      /\ StateTypes /\ "dispatch" \in Thread /\ OneHolder /\ ThreadInv /\ TimerInv
  BY DEF StartCanary, SyncObjIInv, Thread
<1>2. /\ timer' \in {"dump", "dumping"} <=> timer \in {"dump", "dumping"}
      /\ timer' \in {"off", "armed", "dump", "dumping"}
  BY <1>1 DEF StartCanary, CanaryInv, StateTypes
<1>3. /\ th' \in [Thread -> [pc : Steps, left : SUBSET Point, p : SUBSET Point]]
      /\ th'["dispatch"].pc = "idle"
      /\ \A y \in Thread : y # "dispatch" => th'[y] = th[y]
  BY <1>1, Move DEF Steps
<1>4. /\ obj'.pending = obj.pending /\ obj'.ref = obj.ref
      /\ obj' \in [ref : Nat, pending : SUBSET Point, canary : BOOLEAN]
  BY <1>1 DEF StateTypes
<1>5. \A q \in Point : Kept(q)
  BY <1>1, <1>3, <1>4, ThreadKeeps DEF PointSteps
<1>6. /\ ctx'.queued = ctx.queued /\ ctx'.lock = "free" /\ ctx'.detached = ctx.detached
      /\ ctx' \in [queued : BOOLEAN, lock : {"free", "dispatch", "timer"}, detached : BOOLEAN,
                   job : BOOLEAN, kicked : BOOLEAN]
  BY <1>1 DEF StateTypes
<1>7. ctx.queued
  BY <1>1 DEF ThreadInv
<1>8. \A y \in Thread : ~Holds(y)'
  BY <1>1, <1>3, <1>7 DEF Holds, OneHolder, DestroySteps
<1>9. OneHolder' /\ TimerInv'
  BY <1>6, <1>7, <1>8 DEF OneHolder, TimerInv
<1>10. ThreadInv'
  BY <1>1, <1>3, <1>6 DEF ThreadInv, Thread, PointSteps
<1>11. HasHolder /\ HasHolder'
  BY <1>6, <1>7 DEF HasHolder
<1>12. (\A q \in Point : PointInv(q)') /\ Owers' = Owers
  BY <1>5, NoPoint
<1>13. StateTypes'
  BY <1>1, <1>2, <1>3, <1>4, <1>6 DEF StateTypes
<1> QED BY <1>2, <1>4, <1>9, <1>10, <1>11, <1>12, <1>13, RefsSame DEF SyncObjIInv

LEMMA InvDetachMark ==
  ASSUME SyncObjIInv, DetachMark
  PROVE  SyncObjIInv'
<1>1. /\ ~ctx.detached /\ UNCHANGED <<obj, pt, timer>> /\ To("detach", "take")
      /\ ctx' = [ctx EXCEPT !.detached = TRUE]
      /\ StateTypes /\ "detach" \in Thread /\ OneHolder /\ ThreadInv /\ TimerInv
  BY DEF DetachMark, SyncObjIInv, Thread
<1>2. th["detach"].pc = "idle"
  BY <1>1 DEF ThreadInv
<1>3. /\ th' \in [Thread -> [pc : Steps, left : SUBSET Point, p : SUBSET Point]]
      /\ th'["detach"].pc = "take"
      /\ \A y \in Thread : y # "detach" => th'[y] = th[y]
  BY <1>1, Move DEF Steps
<1>4. \A q \in Point : Kept(q)
  BY <1>1, <1>2, <1>3, ThreadKeeps DEF PointSteps
<1>5. /\ ctx'.queued = ctx.queued /\ ctx'.lock = ctx.lock /\ ctx'.detached
      /\ ctx' \in [queued : BOOLEAN, lock : {"free", "dispatch", "timer"}, detached : BOOLEAN,
                   job : BOOLEAN, kicked : BOOLEAN]
  BY <1>1 DEF StateTypes
<1>6. \A y \in Thread : (Holds(y)' <=> Holds(y)) /\ (th'[y].pc = "destroy" <=> th[y].pc = "destroy")
  BY <1>2, <1>3 DEF Holds, DestroySteps
<1>7. OneHolder' /\ TimerInv'
  BY <1>1, <1>5, <1>6 DEF OneHolder, TimerInv
<1>8. ThreadInv'
  BY <1>1, <1>3, <1>5 DEF ThreadInv, Thread, PointSteps
<1>9. HasHolder' <=> HasHolder
  BY <1>2, <1>3, <1>5 DEF HasHolder, Thread
<1>10. (\A q \in Point : PointInv(q)') /\ Owers' = Owers
  BY <1>4, NoPoint
<1>11. StateTypes'
  BY <1>1, <1>3, <1>5 DEF StateTypes
<1> QED BY <1>1, <1>7, <1>8, <1>9, <1>10, <1>11, RefsSame DEF SyncObjIInv

LEMMA InvDetachTake ==
  ASSUME SyncObjIInv, DetachTake
  PROVE  SyncObjIInv'
<1> DEFINE s == IF ctx.queued THEN "destroy" ELSE "idle"
<1>1. /\ th["detach"].pc = "take" /\ ctx.lock = "free" /\ UNCHANGED <<obj, pt, timer>>
      /\ To("detach", s) /\ ctx' = [ctx EXCEPT !.queued = FALSE]
      /\ StateTypes /\ "detach" \in Thread /\ OneHolder /\ ThreadInv /\ TimerInv
  BY DEF DetachTake, SyncObjIInv, Thread
<1>2. s \in {"destroy", "idle"} /\ (s = "destroy" <=> ctx.queued)
  BY <1>1 DEF StateTypes
<1> HIDE DEF s
<1>3. /\ th' \in [Thread -> [pc : Steps, left : SUBSET Point, p : SUBSET Point]]
      /\ th'["detach"].pc = s
      /\ \A y \in Thread : y # "detach" => th'[y] = th[y]
  BY <1>1, <1>2, Move DEF Steps, DestroySteps
<1>4. \A q \in Point : Kept(q)
  BY <1>1, <1>2, <1>3, ThreadKeeps DEF PointSteps
<1>5. /\ ~ctx'.queued /\ ctx'.lock = ctx.lock /\ ctx'.detached = ctx.detached
      /\ ctx' \in [queued : BOOLEAN, lock : {"free", "dispatch", "timer"}, detached : BOOLEAN,
                   job : BOOLEAN, kicked : BOOLEAN]
  BY <1>1 DEF StateTypes
<1>6. /\ \A y \in Thread : y # "detach" => (Holds(y)' <=> Holds(y))
      /\ ~Holds("detach") /\ (Holds("detach")' <=> ctx.queued)
  BY <1>1, <1>2, <1>3 DEF Holds, DestroySteps
<1>7. OneHolder'
  BY <1>1, <1>5, <1>6 DEF OneHolder
<1>8. TimerInv'
  <2>1. CASE ctx.queued
    BY <1>1, <1>2, <1>3, <2>1 DEF TimerInv
  <2>2. CASE ~ctx.queued
    BY <1>1, <1>3, <2>2 DEF TimerInv
  <2> QED BY <2>1, <2>2
<1>9. ThreadInv'
  BY <1>1, <1>2, <1>3, <1>5 DEF ThreadInv, Thread, PointSteps, DestroySteps
<1>10. HasHolder' <=> HasHolder
  BY <1>1, <1>2, <1>3, <1>5 DEF HasHolder, Thread
<1>11. (\A q \in Point : PointInv(q)') /\ Owers' = Owers
  BY <1>4, NoPoint
<1>12. StateTypes'
  BY <1>1, <1>3, <1>5 DEF StateTypes
<1> QED BY <1>1, <1>7, <1>8, <1>9, <1>10, <1>11, <1>12, RefsSame DEF SyncObjIInv

\* The handler of the timer has a reference of its own: nobody frees the object
\* under it.
LEMMA InvTimer ==
  ASSUME SyncObjIInv, TimerFires \/ TimerDump \/ TimerDone
  PROVE  SyncObjIInv'
<1>1. /\ UNCHANGED <<pt, th>> /\ timer # "off"
      /\ StateTypes /\ OneHolder /\ ThreadInv /\ TimerInv /\ Refs
  BY DEF TimerFires, TimerDump, TimerDone, SyncObjIInv
<1>2. HasHolder
  BY <1>1 DEF TimerInv, HasHolder
<1>3. obj.ref \in Nat /\ Cardinality(Owers) \in Nat
      /\ obj.ref = 1 + Cardinality(Owers) + Bit(timer \in {"dump", "dumping"})
  BY <1>1, <1>2, OwersFinite DEF Refs, Bit, StateTypes
<1>4. /\ ctx'.queued = ctx.queued /\ ctx'.detached = ctx.detached
      /\ ctx'.lock = "dispatch" <=> ctx.lock = "dispatch"
      /\ ctx' \in [queued : BOOLEAN, lock : {"free", "dispatch", "timer"}, detached : BOOLEAN,
                   job : BOOLEAN, kicked : BOOLEAN]
  <2>1. CASE TimerFires
    BY <1>1, <2>1 DEF TimerFires, StateTypes
  <2>2. CASE TimerDump
    BY <1>1, <2>2 DEF TimerDump, StateTypes
  <2>3. CASE TimerDone
    BY <1>1, <2>3 DEF TimerDone, StateTypes
  <2> QED BY <2>1, <2>2, <2>3
<1>5. /\ obj'.pending = obj.pending
      /\ obj'.ref = 1 + Cardinality(Owers) + Bit(timer' \in {"dump", "dumping"})
      /\ obj' \in [ref : Nat, pending : SUBSET Point, canary : BOOLEAN]
      /\ timer' \in {"off", "armed", "dump", "dumping"}
  <2>1. CASE TimerFires
    BY <1>1, <1>3, <2>1 DEF TimerFires, StateTypes, Bit
  <2>2. CASE TimerDump
    BY <1>1, <1>3, <2>2 DEF TimerDump, StateTypes, Bit
  <2>3. CASE TimerDone
    BY <1>1, <1>3, <2>3 DEF TimerDone, StateTypes, Bit
  <2> QED BY <2>1, <2>2, <2>3
<1>6. OneHolder' /\ ThreadInv' /\ TimerInv' /\ HasHolder'
  BY <1>1, <1>2, <1>4 DEF OneHolder, Holds, ThreadInv, TimerInv, HasHolder
<1>7. \A q \in Point : Kept(q)
  BY <1>1, <1>5 DEF Kept, Cancelling
<1>8. (\A q \in Point : PointInv(q)') /\ Owers' = Owers
  BY <1>7, NoPoint
<1>9. Refs'
  BY <1>3, <1>5, <1>6, <1>8 DEF Refs, Bit
<1>10. StateTypes'
  BY <1>1, <1>4, <1>5 DEF StateTypes
<1> QED BY <1>6, <1>8, <1>9, <1>10 DEF SyncObjIInv

-----------------------------------------------------------------------------
(* The destroy.                                                            *)

\* A thread that destroys the object goes on: it is the only holder.
LEMMA DestroyerKeeps ==
  ASSUME SyncObjIInv, NEW x \in Thread, th[x].pc \in DestroySteps, th'[x].pc \in DestroySteps,
         \A q, r \in th'[x].p : th'[x].pc = "cancel" => q = r,
         \A y \in Thread : y # x => th'[y] = th[y],
         ctx'.queued = ctx.queued, ctx'.detached = ctx.detached, ctx'.lock = ctx.lock,
         th[x].pc = "destroy" => timer' = "off", th[x].pc # "destroy" => timer' = timer
  PROVE  /\ OneHolder' /\ ThreadInv' /\ TimerInv' /\ HasHolder' /\ HasHolder
         /\ \A y \in Thread : y # x => ~Holds(y)
         /\ timer' = "off"
<1>1. OneHolder /\ ThreadInv /\ TimerInv
  BY DEF SyncObjIInv
<1>2. Holds(x) /\ Holds(x)'
  BY DEF Holds
<1>3. /\ \A y \in Thread : y # x => ~Holds(y) /\ ~Holds(y)'
      /\ ~ctx.queued
  BY <1>1, <1>2 DEF OneHolder, Holds
<1>4. OneHolder'
  BY <1>2, <1>3 DEF OneHolder
<1>5. ThreadInv'
  <2>1. \A y \in Thread : th'[y].pc = th[y].pc \/ y = x
    OBVIOUS
  <2>2. /\ th'["submit"].pc \notin {"arm", "take"}
        /\ th'["dispatch"].pc \in {"idle", "arm"} \cup DestroySteps
        /\ th'["detach"].pc \in {"idle", "take"} \cup DestroySteps
        /\ th'["detach"].pc # "idle" => ctx'.detached
        /\ th'["dispatch"].pc = "arm" => ctx'.queued /\ ctx'.lock = "dispatch"
    BY <1>1, <2>1 DEF ThreadInv, DestroySteps, Thread
  <2>3. \A y \in Thread : th'[y].pc \in PointSteps => \A p, q \in th'[y].p : p = q
    BY <1>1 DEF ThreadInv, DestroySteps, PointSteps
  <2> QED BY <2>2, <2>3 DEF ThreadInv
<1>6. timer' = "off"
  BY <1>1, <1>3 DEF TimerInv, Holds, DestroySteps
<1>7. HasHolder /\ HasHolder'
  BY DEF HasHolder, DestroySteps
<1> QED BY <1>3, <1>4, <1>5, <1>6, <1>7 DEF TimerInv

LEMMA InvSyncObjDestroy ==
  ASSUME SyncObjIInv, NEW x \in Thread, SyncObjDestroy(x)
  PROVE  SyncObjIInv'
<1>1. /\ th[x].pc = "destroy" /\ timer \in {"off", "armed"} /\ timer' = "off"
      /\ UNCHANGED <<obj, pt, ctx>> /\ StateTypes
      /\ th' = [th EXCEPT ![x].pc = "clear", ![x].left = {p \in Point : pt[p].st # "none"}]
  BY DEF SyncObjDestroy, SyncObjIInv
<1>2. /\ th' \in [Thread -> [pc : Steps, left : SUBSET Point, p : SUBSET Point]]
      /\ th'[x].pc = "clear" /\ \A y \in Thread : y # x => th'[y] = th[y]
  <2>1. "clear" \in Steps /\ {p \in Point : pt[p].st # "none"} \in SUBSET Point
    BY DEF Steps, DestroySteps
  <2> QED BY <1>1, <2>1 DEF StateTypes
<1>3. OneHolder' /\ ThreadInv' /\ TimerInv' /\ HasHolder' /\ HasHolder
  BY <1>1, <1>2, DestroyerKeeps DEF DestroySteps
<1>4. \A q \in Point : Kept(q)
  BY <1>1, <1>2, ThreadKeeps DEF PointSteps
<1>5. (\A q \in Point : PointInv(q)') /\ Owers' = Owers
  BY <1>4, NoPoint
<1>6. StateTypes'
  BY <1>1, <1>2 DEF StateTypes
<1> QED BY <1>1, <1>3, <1>5, <1>6, RefsSame DEF SyncObjIInv

LEMMA InvClearBit ==
  ASSUME SyncObjIInv, NEW x \in Thread, NEW p \in Point, ClearBit(x, p)
  PROVE  SyncObjIInv'
<1>1. /\ th[x].pc = "clear" /\ StateTypes /\ PointInv(p) /\ UNCHANGED <<pt, timer, ctx>>
      /\ obj' = [obj EXCEPT !.pending = @ \ {p}]
  BY DEF ClearBit, SyncObjIInv
<1>2. /\ obj'.pending = obj.pending \ {p} /\ obj'.ref = obj.ref
      /\ obj' \in [ref : Nat, pending : SUBSET Point, canary : BOOLEAN]
  BY <1>1 DEF StateTypes
<1>3. CASE p \notin obj.pending
  <2>1. /\ th' = [th EXCEPT ![x].left = @ \ {p}] /\ obj'.pending = obj.pending
    BY <1>2, <1>3 DEF ClearBit
  <2>2. /\ th' \in [Thread -> [pc : Steps, left : SUBSET Point, p : SUBSET Point]]
        /\ th'[x].pc = "clear" /\ \A y \in Thread : y # x => th'[y] = th[y]
    BY <1>1, <2>1 DEF StateTypes
  <2>3. OneHolder' /\ ThreadInv' /\ TimerInv' /\ HasHolder' /\ HasHolder
    BY <1>1, <2>2, DestroyerKeeps DEF DestroySteps
  <2>4. \A q \in Point : Kept(q)
    BY <1>1, <2>1, <2>2, ThreadKeeps DEF PointSteps
  <2>5. (\A q \in Point : PointInv(q)') /\ Owers' = Owers
    BY <2>4, NoPoint
  <2>6. StateTypes'
    BY <1>1, <1>2, <2>2 DEF StateTypes
  <2> QED BY <1>1, <1>2, <2>3, <2>5, <2>6, RefsSame DEF SyncObjIInv
<1>4. CASE p \in obj.pending
  <2>1. th' = [th EXCEPT ![x].pc = "cancel", ![x].left = @ \ {p}, ![x].p = {p}]
    BY <1>4 DEF ClearBit
  <2>2. /\ th' \in [Thread -> [pc : Steps, left : SUBSET Point, p : SUBSET Point]]
        /\ th'[x].pc = "cancel" /\ th'[x].p = {p} /\ \A y \in Thread : y # x => th'[y] = th[y]
    <3>1. "cancel" \in Steps /\ {p} \in SUBSET Point /\ th[x].left \ {p} \in SUBSET Point
      BY <1>1 DEF Steps, DestroySteps, StateTypes
    <3> DEFINE L == th[x].left \ {p}
    <3>2. th' = [th EXCEPT ![x].pc = "cancel", ![x].left = L, ![x].p = {p}]
      BY <2>1
    <3> HIDE DEF L
    <3>3. th'[x].pc = "cancel" /\ th'[x].p = {p} /\ th'[x].left = L
      BY <1>1, <3>2 DEF StateTypes
    <3>4. th'[x] = [pc |-> "cancel", left |-> L, p |-> {p}]
      BY <1>1, <3>2 DEF StateTypes
    <3>5. th'[x] \in [pc : Steps, left : SUBSET Point, p : SUBSET Point]
      BY <3>1, <3>4 DEF L
    <3>6. DOMAIN th' = Thread /\ th' = [y \in Thread |-> th'[y]]
          /\ \A y \in Thread : y # x => th'[y] = th[y]
      BY <1>1, <3>2 DEF StateTypes
    <3> QED BY <1>1, <3>3, <3>5, <3>6 DEF StateTypes
  <2>3. /\ OneHolder' /\ ThreadInv' /\ TimerInv' /\ HasHolder' /\ HasHolder
        /\ \A y \in Thread : y # x => ~Holds(y)
    BY <1>1, <2>2, DestroyerKeeps DEF DestroySteps
  <2>4. \A q : ~Cancelling(q) /\ (Cancelling(q)' <=> q = p)
    BY <1>1, <2>2, <2>3 DEF Cancelling, Holds, DestroySteps
  <2>5. /\ th["submit"].pc \notin {"register", "registered"}
        /\ th'["submit"].pc \notin {"register", "registered"}
    BY <1>1, <2>2, <2>3 DEF Holds, Thread
  <2>6. \A q \in Point : q # p => Kept(q)
    BY <1>1, <1>2, <2>4, <2>5 DEF Kept
  <2>7. Claimed(p) /\ Claimed(p)' /\ Owes(p) /\ Owes(p)' /\ ~Creating(p) /\ ~Creating(p)'
    BY <1>1, <1>4, <2>4, <2>5 DEF Claimed, Owes, Creating, PointInv
  <2>8. PointInv(p)'
    BY <1>1, <1>2, <1>4, <2>4, <2>5, <2>7 DEF PointInv, Held, Bit
  <2>9. (\A q \in Point : PointInv(q)') /\ Owers' = Owers
    BY <2>6, <2>7, <2>8, OnePoint
  <2>10. StateTypes'
    BY <1>1, <1>2, <2>2 DEF StateTypes
  <2> QED BY <1>1, <1>2, <2>3, <2>9, <2>10, RefsSame DEF SyncObjIInv
<1> QED BY <1>3, <1>4

\* What the two ways to cancel have in common.
LEMMA Cancels ==
  ASSUME SyncObjIInv, NEW x \in Thread, NEW p \in Point, th[x].pc = "cancel", p \in th[x].p,
         To(x, "clear"), UNCHANGED <<timer, ctx>>, obj'.pending = obj.pending,
         \A q \in Point : q # p => pt'[q] = pt[q]
  PROVE  /\ th' \in [Thread -> [pc : Steps, left : SUBSET Point, p : SUBSET Point]]
         /\ OneHolder' /\ ThreadInv' /\ TimerInv' /\ (HasHolder' <=> HasHolder)
         /\ \A q \in Point : q # p => Kept(q)
         /\ Cancelling(p) /\ ~Cancelling(p)' /\ ~Creating(p) /\ ~Creating(p)'
         /\ th["submit"].pc \notin {"register", "registered"}
         /\ th'["submit"].pc \notin {"register", "registered"}
<1>1. /\ th' \in [Thread -> [pc : Steps, left : SUBSET Point, p : SUBSET Point]]
      /\ th'[x].pc = "clear" /\ \A y \in Thread : y # x => th'[y] = th[y]
  BY Move DEF SyncObjIInv, Steps, DestroySteps
<1>2. /\ OneHolder' /\ ThreadInv' /\ TimerInv' /\ HasHolder' /\ HasHolder
      /\ \A y \in Thread : y # x => ~Holds(y)
  BY <1>1, DestroyerKeeps DEF DestroySteps
<1>3. \A q, r \in th[x].p : q = r
  BY DEF SyncObjIInv, ThreadInv, PointSteps
<1>4. \A q : (Cancelling(q) <=> q = p) /\ ~Cancelling(q)'
  BY <1>1, <1>2, <1>3 DEF Cancelling, Holds, DestroySteps
<1>5. /\ th["submit"].pc \notin {"register", "registered"}
      /\ th'["submit"].pc \notin {"register", "registered"}
  BY <1>1, <1>2 DEF Holds, Thread
<1>6. \A q \in Point : q # p => Kept(q)
  BY <1>4, <1>5 DEF Kept
<1> QED BY <1>1, <1>2, <1>4, <1>5, <1>6 DEF Creating

LEMMA InvCancelTimestamp ==
  ASSUME SyncObjIInv, NEW x \in Thread, NEW p \in Point, CancelTimestamp(x, p)
  PROVE  SyncObjIInv'
<1> DEFINE s == IF pt[p].st = "armed" THEN "queued" ELSE pt[p].st
<1>1. /\ th[x].pc = "cancel" /\ p \in th[x].p /\ p \in Timestamps /\ p \notin Timelines
      /\ pt' = [pt EXCEPT ![p].st = s, ![p].own = @ - 1]
      /\ To(x, "clear") /\ UNCHANGED <<obj, timer, ctx>> /\ StateTypes /\ PointInv(p)
  BY SyncObjAssumption DEF CancelTimestamp, SyncObjIInv
<1>2. Cancelling(p)
  BY <1>1 DEF Cancelling
<1>3. /\ s \in {"queued", "called", "late", "over"} /\ (s = "over" <=> pt[p].st = "over")
      /\ pt[p].st # "none" /\ p \notin obj.pending
  BY <1>1, <1>2 DEF PointInv
<1> HIDE DEF s
<1>4. pt[p].own = 1
  BY <1>1, <1>2 DEF PointInv, Held, Claimed, Bit
<1>5. /\ pt' \in [Point -> [st : Stages, own : 0..2]]
      /\ pt'[p].st = s /\ pt'[p].own = 0
      /\ \A q \in Point : q # p => pt'[q] = pt[q]
  BY <1>1, <1>3, <1>4 DEF StateTypes, Stages
<1>6. /\ th' \in [Thread -> [pc : Steps, left : SUBSET Point, p : SUBSET Point]]
      /\ OneHolder' /\ ThreadInv' /\ TimerInv' /\ (HasHolder' <=> HasHolder)
      /\ \A q \in Point : q # p => Kept(q)
      /\ ~Cancelling(p)' /\ ~Creating(p)'
      /\ th'["submit"].pc \notin {"register", "registered"}
  BY <1>1, <1>5, Cancels
<1>7. ~Claimed(p)' /\ (Owes(p)' <=> Owes(p))
  BY <1>1, <1>3, <1>5, <1>6 DEF Claimed, Owes
<1>8. PointInv(p)'
  BY <1>1, <1>3, <1>5, <1>6, <1>7 DEF PointInv, Held, Bit
<1>9. (\A q \in Point : PointInv(q)') /\ Owers' = Owers
  BY <1>6, <1>7, <1>8, OnePoint
<1>10. StateTypes'
  BY <1>1, <1>5, <1>6 DEF StateTypes
<1> QED BY <1>1, <1>6, <1>9, <1>10, RefsSame DEF SyncObjIInv

LEMMA InvCancelFence ==
  ASSUME SyncObjIInv, NEW x \in Thread, NEW p \in Point, CancelFence(x, p)
  PROVE  SyncObjIInv'
<1> DEFINE n == IF p \in Timelines THEN pt[p].own - 1 ELSE pt[p].own
           s == IF pt[p].st = "armed" THEN "over" ELSE pt[p].st
<1>1. /\ th[x].pc = "cancel" /\ p \in th[x].p /\ p \notin Timestamps /\ ~InCallback(p)
      /\ pt' = [pt EXCEPT ![p].st = s, ![p].own = n]
      /\ obj' = [obj EXCEPT !.ref = @ - 1]
      /\ To(x, "clear") /\ UNCHANGED <<timer, ctx>> /\ StateTypes /\ PointInv(p)
  BY DEF CancelFence, SyncObjIInv
<1>2. Cancelling(p)
  BY <1>1 DEF Cancelling
<1>3. s = "over" /\ p \notin obj.pending
  BY <1>1, <1>2 DEF PointInv, InCallback
<1>4. obj'.pending = obj.pending /\ obj'.ref = obj.ref - 1 /\ obj'.canary \in BOOLEAN
      /\ obj' = [ref |-> obj'.ref, pending |-> obj'.pending, canary |-> obj'.canary]
  BY <1>1 DEF StateTypes
<1>5. ~Creating(p)
  <2>1. Holds(x) /\ OneHolder /\ "submit" \in Thread
    BY <1>1 DEF Holds, DestroySteps, SyncObjIInv, Thread
  <2> QED BY <1>1, <2>1 DEF OneHolder, Holds, Creating
<1>6. n = 0
  BY <1>1, <1>2, <1>5 DEF PointInv, Held, Claimed, Bit
<1> HIDE DEF s, n
<1>7. /\ pt' \in [Point -> [st : Stages, own : 0..2]]
      /\ pt'[p].st = "over" /\ pt'[p].own = 0
      /\ \A q \in Point : q # p => pt'[q] = pt[q]
  <2>1. pt' = [pt EXCEPT ![p].st = "over", ![p].own = 0]
    BY <1>1, <1>3, <1>6
  <2>2. pt \in [Point -> [st : Stages, own : 0..2]]
    BY <1>1 DEF StateTypes
  <2>3. pt'[p] = [st |-> "over", own |-> 0]
    BY <2>1, <2>2
  <2>4. pt'[p] \in [st : Stages, own : 0..2]
    BY <2>3 DEF Stages
  <2>5. \A q \in Point : q # p => pt'[q] = pt[q]
    BY <2>1, <2>2
  <2>6. DOMAIN pt' = Point /\ pt' = [q \in Point |-> pt'[q]]
    BY <2>1, <2>2
  <2> QED BY <2>2, <2>3, <2>4, <2>5, <2>6
<1>8. /\ th' \in [Thread -> [pc : Steps, left : SUBSET Point, p : SUBSET Point]]
      /\ OneHolder' /\ ThreadInv' /\ TimerInv' /\ (HasHolder' <=> HasHolder)
      /\ \A q \in Point : q # p => Kept(q)
      /\ ~Cancelling(p)' /\ ~Creating(p)'
      /\ th'["submit"].pc \notin {"register", "registered"}
  BY <1>1, <1>4, <1>7, Cancels
<1>9. ~Claimed(p)' /\ Owes(p) /\ ~Owes(p)'
  BY <1>1, <1>2, <1>3, <1>4, <1>7, <1>8 DEF Claimed, Owes
<1>10. PointInv(p)'
  BY <1>1, <1>3, <1>4, <1>7, <1>8, <1>9 DEF PointInv, Held, Bit
<1>11. (\A q \in Point : PointInv(q)') /\ p \in Owers /\ Owers' = Owers \ {p}
  BY <1>8, <1>9, <1>10, OnePoint
<1>12. Refs' /\ obj'.ref \in Nat
  BY <1>1, <1>4, <1>8, <1>11, RefsPut DEF SyncObjIInv
<1>13. StateTypes'
  BY <1>1, <1>4, <1>7, <1>8, <1>12 DEF StateTypes
<1> QED BY <1>8, <1>11, <1>12, <1>13 DEF SyncObjIInv

LEMMA InvRescheduleContext ==
  ASSUME SyncObjIInv, NEW x \in Thread, RescheduleContext(x)
  PROVE  SyncObjIInv'
<1>1. /\ th[x].pc = "clear" /\ To(x, "put") /\ UNCHANGED <<obj, pt, timer>> /\ StateTypes
      /\ ctx' = ctx \/ ctx' = Sched(ctx)
  BY DEF RescheduleContext, SyncObjIInv
<1>2. /\ th' \in [Thread -> [pc : Steps, left : SUBSET Point, p : SUBSET Point]]
      /\ th'[x].pc = "put" /\ \A y \in Thread : y # x => th'[y] = th[y]
  BY <1>1, Move DEF Steps, DestroySteps
<1>3. /\ ctx'.queued = ctx.queued /\ ctx'.detached = ctx.detached /\ ctx'.lock = ctx.lock
      /\ ctx' \in [queued : BOOLEAN, lock : {"free", "dispatch", "timer"}, detached : BOOLEAN,
                   job : BOOLEAN, kicked : BOOLEAN]
  BY <1>1 DEF StateTypes, Sched
<1>4. OneHolder' /\ ThreadInv' /\ TimerInv' /\ HasHolder' /\ HasHolder
  BY <1>1, <1>2, <1>3, DestroyerKeeps DEF DestroySteps
<1>5. \A q \in Point : Kept(q)
  BY <1>1, <1>2, ThreadKeeps DEF PointSteps
<1>6. (\A q \in Point : PointInv(q)') /\ Owers' = Owers
  BY <1>5, NoPoint
<1>7. StateTypes'
  BY <1>1, <1>2, <1>3 DEF StateTypes
<1> QED BY <1>1, <1>4, <1>6, <1>7, RefsSame DEF SyncObjIInv

\* The holder's reference is the last it puts: nobody holds the object any more.
LEMMA InvDrawobjPut ==
  ASSUME SyncObjIInv, NEW x \in Thread, DrawobjPut(x)
  PROVE  SyncObjIInv'
<1> DEFINE l == IF ctx.lock = x THEN "free" ELSE ctx.lock
<1>1. /\ th[x].pc = "put" /\ To(x, "idle") /\ UNCHANGED <<pt, timer>>
      /\ StateTypes /\ OneHolder /\ ThreadInv /\ TimerInv /\ Refs
      /\ obj' = [obj EXCEPT !.ref = @ - 1] /\ ctx' = [ctx EXCEPT !.lock = l]
  BY DEF DrawobjPut, SyncObjIInv
<1>2. l \in {"free", "dispatch", "timer"} /\ (x # "dispatch" => l = ctx.lock)
  BY <1>1 DEF StateTypes, Thread
<1> HIDE DEF l
<1>3. /\ th' \in [Thread -> [pc : Steps, left : SUBSET Point, p : SUBSET Point]]
      /\ th'[x].pc = "idle" /\ \A y \in Thread : y # x => th'[y] = th[y]
  BY <1>1, Move DEF Steps
<1>4. /\ ctx'.queued = ctx.queued /\ ctx'.detached = ctx.detached /\ ctx'.lock = l
      /\ ctx' \in [queued : BOOLEAN, lock : {"free", "dispatch", "timer"}, detached : BOOLEAN,
                   job : BOOLEAN, kicked : BOOLEAN]
  BY <1>1, <1>2 DEF StateTypes
<1>5. Holds(x)
  BY <1>1 DEF Holds, DestroySteps
<1>6. (\A y \in Thread : ~Holds(y)') /\ ~ctx.queued /\ (\A y \in Thread : y # x => ~Holds(y))
  BY <1>1, <1>3, <1>5 DEF OneHolder, Holds, DestroySteps
<1>7. timer = "off"
  BY <1>1, <1>6 DEF TimerInv, Holds, DestroySteps
<1>8. OneHolder' /\ TimerInv'
  BY <1>1, <1>6, <1>7 DEF OneHolder, TimerInv
<1>9. ThreadInv'
  <2>1. \A y \in Thread : th'[y] = th[y] \/ th'[y].pc = "idle"
    BY <1>3
  <2>2. th'["dispatch"].pc # "arm"
    BY <1>1, <1>3, <1>6 DEF ThreadInv, Thread
  <2>3. \A y \in Thread : th'[y].pc \in PointSteps => \A p, q \in th'[y].p : p = q
    BY <1>1, <2>1 DEF ThreadInv, PointSteps
  <2>4. "submit" \in Thread /\ "dispatch" \in Thread /\ "detach" \in Thread
    BY DEF Thread
  <2> QED BY <1>1, <1>4, <2>1, <2>2, <2>3, <2>4 DEF ThreadInv
<1>10. HasHolder /\ ~HasHolder'
  <2>1. HasHolder
    BY <1>1 DEF HasHolder
  <2>2. th'["submit"].pc = "idle"
    <3>1. "submit" \in Thread /\ th["submit"].pc \notin {"arm", "take"} /\ th'["submit"].pc \in Steps
      BY <1>1, <1>3 DEF Thread, ThreadInv
    <3>2. th'["submit"].pc \notin {"arm", "take"}
      BY <1>3, <3>1
    <3> QED BY <1>6, <3>1, <3>2 DEF Holds, Steps
  <2>3. \A y \in Thread : th'[y].pc \notin DestroySteps
    BY <1>6 DEF Holds
  <2> QED BY <1>4, <1>6, <2>1, <2>2, <2>3 DEF HasHolder, DestroySteps
<1>11. obj'.pending = obj.pending /\ obj'.ref = obj.ref - 1 /\ obj'.canary \in BOOLEAN
       /\ obj' = [ref |-> obj'.ref, pending |-> obj'.pending, canary |-> obj'.canary]
  BY <1>1 DEF StateTypes
<1>12. \A q \in Point : Kept(q)
  BY <1>1, <1>3, <1>11, ThreadKeeps DEF PointSteps
<1>13. (\A q \in Point : PointInv(q)') /\ Owers' = Owers
  BY <1>12, NoPoint
<1>14. Refs' /\ obj'.ref \in Nat
  BY <1>1, <1>7, <1>10, <1>11, <1>13, OwersFinite DEF Refs, Bit
<1>15. StateTypes'
  BY <1>1, <1>3, <1>4, <1>11, <1>14 DEF StateTypes
<1> QED BY <1>8, <1>9, <1>13, <1>14, <1>15 DEF SyncObjIInv

-----------------------------------------------------------------------------
(* The theorems.                                                           *)

LEMMA InvInit ==
  ASSUME Init
  PROVE  SyncObjIInv /\ CanaryInv
<1>1. /\ obj.ref = 1 /\ obj.pending = {} /\ timer = "off" /\ ~ctx.queued
      /\ \A p \in Point : pt[p].st = "none" /\ pt[p].own = 0
      /\ th["submit"].pc = "add" /\ th["dispatch"].pc = "idle" /\ th["detach"].pc = "idle"
  BY DEF Init, Thread
<1>2. StateTypes
  <2>1. th \in [Thread -> [pc : Steps, left : SUBSET Point, p : SUBSET Point]]
    BY DEF Init, Thread, Steps
  <2> QED BY <2>1 DEF Init, StateTypes, Stages
<1>3. OneHolder /\ ThreadInv /\ TimerInv /\ CanaryInv
  BY <1>1 DEF OneHolder, Holds, ThreadInv, TimerInv, CanaryInv, Thread, PointSteps, DestroySteps
<1>4. \A p : ~Cancelling(p) /\ ~Creating(p)
  BY <1>1 DEF Cancelling, Creating, Thread
<1>5. \A p \in Point : PointInv(p) /\ ~Owes(p)
  BY <1>1, <1>4 DEF PointInv, Held, Claimed, Bit, Owes
<1>6. Owers = {}
  BY <1>5 DEF Owers
<1>7. Refs
  BY <1>1, <1>6, FS_EmptySet DEF Refs, Bit, HasHolder
<1> QED BY <1>2, <1>3, <1>5, <1>7 DEF SyncObjIInv

LEMMA InvNext ==
  ASSUME SyncObjIInv, CanaryInv, [Next]_vars
  PROVE  SyncObjIInv' /\ CanaryInv'
<1>1. CASE UNCHANGED vars
  <2>1. UNCHANGED <<obj, pt, timer, ctx, th>>
    BY <1>1 DEF vars
  <2>2. StateTypes' /\ OneHolder' /\ ThreadInv' /\ TimerInv' /\ CanaryInv' /\ (HasHolder' <=> HasHolder)
    BY <2>1, ControlSame DEF SyncObjIInv, StateTypes, CanaryInv
  <2>3. \A q \in Point : Kept(q)
    BY <2>1 DEF Kept, Cancelling
  <2>4. (\A q \in Point : PointInv(q)') /\ Owers' = Owers
    BY <2>3, NoPoint
  <2> QED BY <2>1, <2>2, <2>4, RefsSame DEF SyncObjIInv
<1>2. ASSUME NEW x \in Thread, Destroying(x) PROVE SyncObjIInv'
  BY <1>2, InvSyncObjDestroy, InvRescheduleContext, InvDrawobjPut, InvClearBit,
     InvCancelTimestamp, InvCancelFence DEF Destroying
<1>3. ASSUME NEW p \in Point, Signal(p) \/ Callback(p) PROVE SyncObjIInv'
  BY <1>3, InvSignal, InvSyncExpire, InvSyncExpireKick, InvSyncFunc, InvSyncFenceFunc,
     InvTimelineCallback, InvTimelineWork DEF Callback
<1>4. ASSUME Submitting PROVE SyncObjIInv'
  BY <1>4, InvAddSync, InvRegister, InvRegistered, InvSubmitEnd DEF Submitting
<1>5. ASSUME Next PROVE SyncObjIInv'
  BY <1>2, <1>3, <1>4, <1>5, InvDispatch, InvStartCanary, InvDetachMark, InvDetachTake, InvTimer
     DEF Next, Timer
<1>6. ASSUME Next PROVE CanaryInv'
  <2>1. obj \in [ref : Nat, pending : SUBSET Point, canary : BOOLEAN]
    BY DEF SyncObjIInv, StateTypes
  <2>2. obj'.canary = obj.canary \/ obj'.canary
    <3>1. ASSUME NEW x \in Thread, Destroying(x) PROVE obj'.canary = obj.canary
      BY <2>1, <3>1 DEF Destroying, SyncObjDestroy, RescheduleContext, DrawobjPut, ClearBit,
         CancelTimestamp, CancelFence
    <3>2. ASSUME NEW p \in Point, Signal(p) \/ Callback(p) PROVE obj'.canary = obj.canary
      BY <2>1, <3>2 DEF Signal, Callback, EventWorker, SyncExpire, SyncExpireKick, SyncFunc,
         SyncFenceFunc, TimelineCallback, TimelineWork
    <3>3. ASSUME Submitting PROVE obj'.canary = obj.canary
      BY <2>1, <3>3 DEF Submitting, QueueCmds, AddFails, AddSync, Register, Registered
    <3>4. ASSUME Dispatch \/ StartCanary \/ DetachMark \/ DetachTake \/ TimerFires \/ Timer
          PROVE  obj'.canary = obj.canary \/ obj'.canary
      BY <2>1, <3>4 DEF Dispatch, StartCanary, DetachMark, DetachTake, TimerFires, Timer,
         TimerDump, TimerDone
    <3> QED BY <1>6, <3>1, <3>2, <3>3, <3>4 DEF Next
  <2>3. timer' # "off" => timer # "off" \/ obj'.canary
    <3>1. ASSUME NEW x \in Thread, Destroying(x) PROVE timer' \in {timer, "off"}
      BY <3>1 DEF Destroying, SyncObjDestroy, RescheduleContext, DrawobjPut, ClearBit,
         CancelTimestamp, CancelFence
    <3>2. ASSUME NEW p \in Point, Signal(p) \/ Callback(p) PROVE timer' \in {timer, "off"}
      BY <3>2 DEF Signal, Callback, EventWorker, SyncExpire, SyncExpireKick, SyncFunc,
         SyncFenceFunc, TimelineCallback, TimelineWork
    <3>3. ASSUME Submitting PROVE timer' = timer
      BY <3>3 DEF Submitting, QueueCmds, AddFails, AddSync, Register, Registered
    <3>4. ASSUME StartCanary PROVE obj'.canary
      BY <2>1, <3>4 DEF StartCanary
    <3>5. ASSUME Dispatch \/ DetachMark \/ DetachTake \/ TimerFires \/ Timer
          PROVE  timer' = timer \/ timer # "off"
      BY <3>5 DEF Dispatch, DetachMark, DetachTake, TimerFires, Timer, TimerDump, TimerDone
    <3> QED BY <1>6, <3>1, <3>2, <3>3, <3>4, <3>5 DEF Next
  <2> QED BY <2>2, <2>3 DEF CanaryInv
<1> QED BY <1>1, <1>5, <1>6

\* The holder of the object, the points and the timer account for all its
\* references, in every reachable state.
THEOREM SyncObjInvariance == Spec => [](SyncObjIInv /\ CanaryInv)
<1>1. Init => SyncObjIInv /\ CanaryInv
  BY InvInit
<1>2. (SyncObjIInv /\ CanaryInv) /\ [Next]_vars => (SyncObjIInv /\ CanaryInv)'
  BY InvNext
<1> QED BY <1>1, <1>2, PTL DEF Spec

\* A sync object is freed once, after the last callback, worker and timer that
\* could touch it, and leaves no context and no fence behind, whatever order
\* its points, its destroy and its timer come in.
THEOREM SyncObjSafe == Spec => []SyncObjInv
<1>1. SyncObjIInv => SyncObjInv
  <2> SUFFICES ASSUME SyncObjIInv PROVE SyncObjInv
    OBVIOUS
  <2>1. StateTypes /\ ThreadInv /\ Refs /\ (\A p \in Point : PointInv(p)) /\ TimerInv
    BY DEF SyncObjIInv
  <2>2. SyncObjTypeOK
    BY <2>1 DEF StateTypes, SyncObjTypeOK
  <2>3. Owing = Owers
    <3>1. ASSUME NEW p \in Point
          PROVE  p \in Owing <=> Owes(p)
      <4>1. PointInv(p) /\ pt[p].st \in Stages
        BY <2>1 DEF StateTypes
      <4>2. CASE p \in Timestamps
        <5>1. p \in Owing <=> pt[p].st \in {"new", "armed", "queued", "called", "cleared",
                                            "expired", "work", "late"}
          BY <4>2 DEF Owing
        <5> QED BY <4>1, <4>2, <5>1 DEF Owes, Stages
      <4>3. CASE p \notin Timestamps
        <5>1. p \in Owing <=>
                \/ /\ pt[p].st \in {"new", "armed", "queued", "called", "cleared", "expired", "work"}
                   /\ p \in obj.pending \/ pt[p].st \in {"cleared", "expired", "work"}
                \/ Cancelling(p)
          BY <4>3 DEF Owing, Cancelling
        <5> QED BY <4>1, <4>3, <5>1 DEF Owes, Claimed, PointInv
      <4> QED BY <4>2, <4>3
    <3> QED BY <3>1 DEF Owing, Owers
  <2>4. RefsAreOwed
    BY <2>1, <2>3 DEF Refs, RefsAreOwed, Bit
  <2>5. ASSUME obj.ref = 0
        PROVE  timer = "off" /\ \A p \in Point : pt[p].st \in {"none", "over"} /\ pt[p].own = 0
    <3>1. Cardinality(Owers) = 0 /\ ~HasHolder
      BY <2>1, <2>5, OwersFinite DEF Refs, Bit
    <3>2. Owers = {}
      BY <3>1, OwersFinite, FS_EmptySet
    <3>3. timer = "off"
      BY <2>1, <3>1 DEF TimerInv, HasHolder
    <3>4. \A p : ~Cancelling(p) /\ ~Creating(p)
      BY <3>1 DEF HasHolder, Cancelling, Creating
    <3>5. ASSUME NEW p \in Point PROVE pt[p].st \in {"none", "over"} /\ pt[p].own = 0
      <4>1. PointInv(p) /\ pt[p].st \in Stages /\ ~Owes(p)
        BY <2>1, <3>2 DEF StateTypes, Owers
      <4>2. CASE p \in Timestamps
        <5>1. pt[p].st \in {"none", "over"} /\ p \notin Timelines
          BY <4>1, <4>2, SyncObjAssumption DEF Owes
        <5>2. ~Claimed(p)
          BY <3>4, <4>1, <5>1 DEF Claimed, PointInv
        <5> QED BY <4>1, <4>2, <5>1, <5>2 DEF PointInv, Held, Bit
      <4>3. CASE p \notin Timestamps
        <5>1. ~Claimed(p)
          BY <4>1, <4>3 DEF Owes
        <5>2. pt[p].st \in {"none", "over"}
          BY <4>1, <4>3, <5>1 DEF Claimed, PointInv, Stages
        <5> QED BY <3>4, <4>1, <4>3, <5>1, <5>2 DEF PointInv, Held, Bit
      <4> QED BY <4>2, <4>3
    <3> QED BY <3>3, <3>5
  <2>6. FreedIsSilent /\ FreedLeavesNothing
    BY <2>5 DEF FreedIsSilent, FreedLeavesNothing
  <2> QED BY <2>2, <2>4, <2>6 DEF SyncObjInv
<1> QED BY <1>1, SyncObjInvariance, PTL
=============================================================================
