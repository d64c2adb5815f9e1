------------------------- MODULE KgslTimelineProofs -------------------------
(***************************************************************************)
(* The fences of timelines, for any number of timelines, fences, objects   *)
(* and threads: FenceIInv is inductive; a fence has as many references as  *)
(* holders, and none misses its signal.                                    *)
(***************************************************************************)
EXTENDS KgslTimelineInv, FiniteSetTheorems, SequenceTheorems, TLAPS

-----------------------------------------------------------------------------
(* Records and sequences.                                                  *)

\* One thread takes a step.
LEMMA ThreadSet ==
  ASSUME ThreadShape, NEW x \in Thread, NEW r, IsThread(r),
         th' = [th EXCEPT ![x] = r]
  PROVE  ThreadShape' /\ th'[x] = r /\ \A y \in Thread \ {x} : th'[y] = th[y]
<1>1. th'[x] = r /\ \A y \in Thread \ {x} : th'[y] = th[y]
  BY DEF ThreadShape
<1>2. DOMAIN th' = Thread /\ th' = [y \in Thread |-> th'[y]]
  BY DEF ThreadShape
<1>3. \A y \in Thread : IsThread(th'[y])
  BY <1>1 DEF ThreadShape
<1> QED BY <1>1, <1>2, <1>3 DEF ThreadShape

LEMMA IdleIsThread == IsThread(Idle)
BY DEF IsThread, ThreadFields, Idle

LEMMA TlineSet ==
  ASSUME TlineShape, NEW t \in Timeline, NEW r, IsTline(r),
         tline' = [tline EXCEPT ![t] = r]
  PROVE  TlineShape' /\ tline'[t] = r /\ \A u \in Timeline \ {t} : tline'[u] = tline[u]
<1>1. tline'[t] = r /\ \A u \in Timeline \ {t} : tline'[u] = tline[u]
  BY DEF TlineShape
<1>2. DOMAIN tline' = Timeline /\ tline' = [u \in Timeline |-> tline'[u]]
  BY DEF TlineShape
<1>3. \A u \in Timeline : IsTline(tline'[u])
  BY <1>1 DEF TlineShape
<1> QED BY <1>1, <1>2, <1>3 DEF TlineShape

\* A reference of a timeline is taken or put.
LEMMA TlineRef ==
  ASSUME TlineShape, NEW t \in Timeline, tline' = TimelineGet(t) \/ tline' = TimelinePut(t)
  PROVE  /\ TlineShape'
         /\ \A u \in Timeline : /\ tline'[u].value = tline[u].value
                                /\ tline'[u].lock = tline[u].lock
                                /\ tline'[u].fences = tline[u].fences
                                /\ tline'[u].events = tline[u].events
<1>1. PICK n : tline' = [tline EXCEPT ![t].ref = n]
  <2>1. CASE tline' = TimelineGet(t)
    BY <2>1 DEF TimelineGet
  <2>2. CASE tline' = TimelinePut(t)
    BY <2>2 DEF TimelinePut
  <2> QED BY <2>1, <2>2
<1> DEFINE r == [tline[t] EXCEPT !.ref = n]
<1>2. r = [ref |-> n, value |-> tline[t].value, lock |-> tline[t].lock,
           fences |-> tline[t].fences, events |-> tline[t].events]
  BY DEF TlineShape, IsTline, TlineFields
<1>3. tline' = [tline EXCEPT ![t] = r]
  BY <1>1 DEF TlineShape
<1>4. IsTline(r)
  BY <1>2 DEF IsTline, TlineFields
<1> HIDE DEF r
<1>5. TlineShape' /\ tline'[t] = r /\ \A u \in Timeline \ {t} : tline'[u] = tline[u]
  BY <1>3, <1>4, TlineSet
<1> QED BY <1>2, <1>5

LEMMA TailIsSeq ==
  ASSUME NEW S, NEW s \in Seq(S), s # <<>>
  PROVE  Tail(s) \in Seq(S) /\ Head(s) \in S
BY HeadTailProperties

LEMMA FirstValue ==
  ASSUME NEW s \in Seq(Val), s # <<>>
  PROVE  /\ Head(s) \in Val /\ Tail(s) \in Seq(Val)
         /\ Head(s).tl \in Timeline /\ Head(s).seq \in Seqno
<1>1. Head(s) \in Val /\ Tail(s) \in Seq(Val)
  BY TailIsSeq
<1> QED BY <1>1 DEF Val

LEMMA FirstIsElement ==
  ASSUME NEW S, NEW s \in Seq(S), s # <<>>
  PROVE  s[1] \in S
<1>1. Head(s) \in S
  BY HeadTailProperties
<1> QED BY <1>1

LEMMA TailOfOne ==
  ASSUME NEW S, NEW s \in Seq(S), Len(s) = 1
  PROVE  Tail(s) = <<>>
<1>1. s # <<>>
  BY EmptySeq
<1>2. Tail(s) \in Seq(S) /\ Len(Tail(s)) = 0
  BY <1>1, HeadTailProperties
<1> QED BY <1>2, EmptySeq

\* The arrays of user space are sequences of values.
LEMMA ArraysAreValues ==
  ASSUME NEW vals \in Arrays
  PROVE  vals \in Seq(Val) /\ vals # <<>>
<1>1. vals \in Seq([tl : Timeline, seq : 1..MaxSeq]) /\ vals # <<>>
  BY TimelineAssumption
<1>2. [tl : Timeline, seq : 1..MaxSeq] \subseteq Val
  BY TimelineAssumption DEF Val, Seqno
<1> QED BY <1>1, <1>2, SeqMonotonic

-----------------------------------------------------------------------------
(* Steps that leave the fences alone.                                      *)

\* Thread x goes on, with or without a reference of a timeline more or less,
\* outside timeline->lock.
Quiet(x) ==
  /\ UNCHANGED <<fence, files>>
  /\ \A y \in Thread \ {x} : th'[y] = th[y]
  /\ th'[x].mine = th[x].mine /\ th[x].temp = {} /\ th'[x].temp = {}
  /\ th'[x].dying = th[x].dying
  /\ th[x].pc \notin LockSteps /\ th'[x].pc \notin LockSteps
  /\ \A t \in Timeline :
       /\ tline'[t].lock = tline[t].lock /\ tline'[t].fences = tline[t].fences
       /\ idr[t] # "none" => idr'[t] # "none" /\ tline'[t].value = tline[t].value
  /\ th'[x].pc \in {"fence_get", "wait"} => idr'[th'[x].tl] # "none"
  /\ ~(th'[x].pc = "got" /\ th'[x].why = "fence_get")

LEMMA QuietStep ==
  ASSUME FenceIInv, NEW x \in Thread, Quiet(x), StateShape'
  PROVE  FenceIInv'
<1> USE DEF Quiet
<1>1. LockInv'
  BY DEF FenceIInv, LockInv
<1>2. IdInv'
  <2>1. \A f \in Fence : (Live(f) => fence[f].tl \in Timeline /\ idr[fence[f].tl] # "none")'
    BY DEF FenceIInv, IdInv, Live
  <2>2. \A y \in Thread : th'[y].pc \in {"fence_get", "wait"} => idr'[th'[y].tl] # "none"
    <3> SUFFICES ASSUME NEW y \in Thread \ {x}, th'[y].pc \in {"fence_get", "wait"}
                 PROVE  idr'[th'[y].tl] # "none"
      OBVIOUS
    <3>1. idr[th[y].tl] # "none"
      BY DEF FenceIInv, IdInv
    <3>2. th[y].tl \in Timeline
      BY DEF FenceIInv, StateShape, ThreadOK, ValueSteps
    <3> QED BY <3>1, <3>2
  <2> QED BY <2>1, <2>2 DEF IdInv
<1>3. \A y \in Thread : th'[y].mine = th[y].mine /\ th'[y].temp = th[y].temp
                        /\ th'[y].dying = th[y].dying
  OBVIOUS
<1>4. OneHolder'
  BY <1>3 DEF FenceIInv, OneHolder
<1>5. FiledOnce'
  BY DEF FenceIInv, FiledOnce
<1>6. ListInv'
  BY <1>3 DEF FenceIInv, ListInv, Live
<1>7. RefInv'
  <2>1. \A f \in Fence : (Made(f)' <=> Made(f)) /\ (Taken(f)' <=> Taken(f))
    BY <1>3 DEF Made, Taken
  <2> QED BY <1>3, <2>1 DEF FenceIInv, RefInv, Bit, Live
<1>8. SignalInv'
  <2> SUFFICES ASSUME NEW f \in Fence, fence[f].status = "pending", fence[f].ref > 0
               PROVE  (\/ /\ f \in tline[fence[f].tl].fences
                          /\ \/ fence[f].seq > tline[fence[f].tl].value
                             \/ \E y \in Thread : th[y].pc = "collect" /\ th[y].tl = fence[f].tl
                       \/ Taken(f))'
    BY DEF SignalInv
  <2>1. fence[f].tl \in Timeline /\ idr[fence[f].tl] # "none"
    BY DEF FenceIInv, IdInv, Live
  <2>2. CASE Taken(f)
    BY <1>3, <2>2 DEF Taken
  <2>3. CASE ~Taken(f)
    <3>1. /\ f \in tline[fence[f].tl].fences
          /\ \/ fence[f].seq > tline[fence[f].tl].value
             \/ \E y \in Thread : th[y].pc = "collect" /\ th[y].tl = fence[f].tl
      BY <2>3 DEF FenceIInv, SignalInv
    <3>2. \A y \in Thread : th[y].pc = "collect" => th'[y] = th[y]
      BY DEF LockSteps
    <3> QED BY <2>1, <3>1, <3>2
  <2> QED BY <2>2, <2>3
<1> QED BY <1>1, <1>2, <1>4, <1>5, <1>6, <1>7, <1>8 DEF FenceIInv

TlineQuiet ==
  /\ TlineShape' /\ DOMAIN idr' = Timeline
  /\ \A t \in Timeline :
       /\ tline'[t].lock = tline[t].lock /\ tline'[t].fences = tline[t].fences
       /\ idr[t] # "none" => idr'[t] # "none" /\ tline'[t].value = tline[t].value
       /\ tline'[t].value \in Seqno

ObjQuiet == ObjShape' /\ \A o \in Obj : obj'[o].vals \in Seq(Val)

LEMMA QuietThread ==
  ASSUME FenceIInv, NEW x \in Thread, NEW r, IsThread(r), ThreadOK(r),
         th' = [th EXCEPT ![x] = r],
         UNCHANGED <<fence, files>>,
         r.mine = th[x].mine, r.temp = {}, th[x].temp = {}, r.dying = th[x].dying,
         th[x].pc \notin LockSteps, r.pc \notin LockSteps,
         r.pc \in {"fence_get", "wait"} => idr'[r.tl] # "none",
         ~(r.pc = "got" /\ r.why = "fence_get"),
         TlineQuiet, ObjQuiet
  PROVE  FenceIInv'
<1>1. ThreadShape' /\ th'[x] = r /\ \A y \in Thread \ {x} : th'[y] = th[y]
  BY ThreadSet DEF FenceIInv, StateShape
<1>2. \A y \in Thread : ThreadOK(th'[y])
  BY <1>1 DEF FenceIInv, StateShape
<1>3. \A t \in Timeline : TlineOK(t)'
  BY DEF FenceIInv, StateShape, TlineOK, TlineQuiet
<1>4. FenceShape' /\ \A f \in Fence : FenceOK(f)'
  BY DEF FenceIInv, StateShape, FenceShape, FenceOK
<1>5. StateShape'
  BY <1>1, <1>2, <1>3, <1>4 DEF FenceIInv, StateShape, TlineQuiet, ObjQuiet
<1>6. Quiet(x)
  BY <1>1 DEF Quiet, TlineQuiet
<1> QED BY <1>5, <1>6, QuietStep

LEMMA TlineSame ==
  ASSUME StateShape, UNCHANGED <<idr, tline>>
  PROVE  TlineQuiet
BY DEF StateShape, TlineQuiet, TlineShape, TlineOK

LEMMA TlineCounted ==
  ASSUME StateShape, NEW t \in Timeline, tline' = TimelineGet(t) \/ tline' = TimelinePut(t),
         UNCHANGED idr
  PROVE  TlineQuiet
<1>1. TlineShape /\ \A u \in Timeline : tline[u].value \in Seqno
  BY DEF StateShape, TlineOK
<1> QED BY <1>1, TlineRef DEF StateShape, TlineQuiet

LEMMA ObjSame ==
  ASSUME StateShape, UNCHANGED obj
  PROVE  ObjQuiet
BY DEF StateShape, ObjQuiet, ObjShape

\* A timeline object changes, its array included.
LEMMA ObjSet ==
  ASSUME StateShape, NEW o \in Obj, NEW r, IsObj(r), r.vals \in Seq(Val),
         obj' = [obj EXCEPT ![o] = r]
  PROVE  ObjQuiet /\ obj'[o] = r /\ \A n \in Obj \ {o} : obj'[n] = obj[n]
<1>1. obj'[o] = r /\ \A n \in Obj \ {o} : obj'[n] = obj[n]
  BY DEF StateShape, ObjShape
<1>2. DOMAIN obj' = Obj /\ obj' = [n \in Obj |-> obj'[n]]
  BY DEF StateShape, ObjShape
<1>3. \A n \in Obj : IsObj(obj'[n]) /\ obj'[n].vals \in Seq(Val)
  BY <1>1 DEF StateShape, ObjShape
<1> QED BY <1>1, <1>2, <1>3 DEF ObjQuiet, ObjShape

\* A thread at the start or the end of a call holds nothing.
LEMMA FreshThread ==
  ASSUME FenceIInv, NEW x \in Thread, th[x].dying = Null,
         \/ th[x].pc \in {"idle", "commit"} \cup ObjSteps
         \/ th[x].pc = "unwind" /\ th[x].mine = {}
  PROVE  /\ th[x].mine = {} /\ th[x].temp = {} /\ th[x].pc \notin LockSteps
         /\ Null \notin Fence
<1>1. ThreadOK(th[x])
  BY DEF FenceIInv, StateShape
<1> QED BY <1>1, TimelineAssumption DEF ThreadOK, ObjSteps, LockSteps

LEMMA IdleFields ==
  /\ <<>> \in Seq(Val)
  /\ Idle.pc = "idle" /\ Idle.why = "none" /\ Idle.todo = <<>> /\ Idle.tl = Null
  /\ Idle.mine = {} /\ Idle.temp = {} /\ Idle.dying = Null /\ Idle.any = FALSE
  /\ Idle.o = Null
BY DEF Idle

\* A call begins, or another one, or none.
LEMMA NewCall ==
  ASSUME FenceIInv, NEW x \in Thread, th[x].dying = Null,
         \/ th[x].pc \in {"idle", "commit"} \cup ObjSteps
         \/ th[x].pc = "unwind" /\ th[x].mine = {},
         NEW r, IsThread(r), th' = [th EXCEPT ![x] = r],
         r.mine = {}, r.temp = {}, r.dying = Null,
         r.pc \in {"idle", "commit", "lookup", "steal", "retire"} \cup ObjSteps,
         Agree(r.pc, r.why), r.todo \in Seq(Val), r.tl \in Timeline \cup {Null},
         r.pc \in {"commit", "steal", "retire"} => r.tl \in Timeline,
         r.pc \in {"lookup", "steal", "retire"} => r.todo # <<>>,
         r.pc \in ObjSteps \/ r.why = "retire" => r.o \in Obj,
         r.pc = "lookup" /\ r.why = "fence_get" => Tail(r.todo) = <<>>,
         UNCHANGED <<fence, files>>, TlineQuiet, ObjQuiet
  PROVE  FenceIInv'
<1>1. r.pc \in PC /\ r.pc \notin LockSteps \cup {"fence_get", "wait", "got"}
  BY DEF PC, ObjSteps, LockSteps
<1>2. ThreadOK(r)
  BY <1>1 DEF ThreadOK, Agree, ValueSteps, DestroySteps, ObjSteps
<1>3. th[x].mine = {} /\ th[x].temp = {} /\ th[x].pc \notin LockSteps
  BY FreshThread
<1> QED BY <1>1, <1>2, <1>3, QuietThread

-----------------------------------------------------------------------------
(* Calls begin and end.                                                    *)

LEMMA InvTimelineAlloc ==
  ASSUME FenceIInv, NEW x \in Thread, NEW t \in Timeline, TimelineAlloc(x, t)
  PROVE  FenceIInv'
<1> USE DEF TimelineAlloc
<1>1. StateShape /\ TlineShape
  BY DEF FenceIInv, StateShape
<1>2. PICK initial \in Seqno : tline' = [tline EXCEPT ![t].ref = 1, ![t].value = initial]
  OBVIOUS
<1> DEFINE r == [ref |-> 1, value |-> initial, lock |-> tline[t].lock,
                 fences |-> tline[t].fences, events |-> tline[t].events]
<1>3. IsTline(r)
  BY DEF IsTline, TlineFields
<1>4. tline' = [tline EXCEPT ![t] = r]
  BY <1>1, <1>2 DEF TlineShape, IsTline, TlineFields
<1>5. r.value \in Seqno /\ r.lock = tline[t].lock /\ r.fences = tline[t].fences
  OBVIOUS
<1> HIDE DEF r
<1>6. TlineShape' /\ tline'[t] = r /\ \A u \in Timeline \ {t} : tline'[u] = tline[u]
  BY <1>1, <1>3, <1>4, TlineSet
<1>7. TlineQuiet
  <2>1. DOMAIN idr' = Timeline /\ idr[t] = "none" /\ \A u \in Timeline \ {t} : idr'[u] = idr[u]
    BY <1>1 DEF StateShape
  <2> QED BY <1>1, <1>5, <1>6, <2>1 DEF TlineQuiet, StateShape, TlineOK
<1>8. ObjQuiet
  BY <1>1, ObjSame
<1> DEFINE s == [Idle EXCEPT !.pc = "commit", !.tl = t]
<1>9. IsThread(s)
  BY IdleIsThread DEF IsThread, ThreadFields
<1>10. /\ s.pc = "commit" /\ s.why = "none" /\ s.todo = <<>> /\ s.tl = t
       /\ s.mine = {} /\ s.temp = {} /\ s.dying = Null
  BY IdleIsThread, IdleFields DEF IsThread, ThreadFields
<1>11. th' = [th EXCEPT ![x] = s] /\ th[x].pc = "idle" /\ th[x].dying = Null
  BY DEF At
<1> HIDE DEF s
<1> QED BY <1>7, <1>8, <1>9, <1>10, <1>11, IdleFields, NewCall DEF ObjSteps, Agree, DestroySteps

\* The end of a call.
LEMMA ToIdle ==
  ASSUME FenceIInv, NEW x \in Thread, th[x].dying = Null,
         \/ th[x].pc \in {"idle", "commit"} \cup ObjSteps
         \/ th[x].pc = "unwind" /\ th[x].mine = {},
         th' = [th EXCEPT ![x] = Idle],
         UNCHANGED <<fence, files>>, TlineQuiet, ObjQuiet
  PROVE  FenceIInv'
BY IdleIsThread, IdleFields, NewCall DEF ObjSteps, Agree, DestroySteps

LEMMA InvTimelineCreate ==
  ASSUME FenceIInv, NEW x \in Thread, TimelineCreate(x)
  PROVE  FenceIInv'
<1> USE DEF TimelineCreate, At
<1>1. StateShape
  BY DEF FenceIInv
<1>2. th[x].tl \in Timeline
  BY <1>1 DEF StateShape, ThreadOK
<1>3. TlineQuiet
  BY <1>1, <1>2 DEF TlineQuiet, StateShape, TlineShape, TlineOK
<1>4. ObjQuiet
  BY <1>1, ObjSame
<1> QED BY <1>3, <1>4, ToIdle

LEMMA InvCall ==
  ASSUME FenceIInv, NEW x \in Thread, NEW why, NEW vals \in Arrays, Call(x, why, vals)
  PROVE  FenceIInv'
<1> USE DEF Call, At
<1>1. StateShape
  BY DEF FenceIInv
<1>2. PICK any \in BOOLEAN :
        th' = [th EXCEPT ![x] = [Idle EXCEPT !.pc = "lookup", !.why = why,
                                             !.todo = vals, !.any = any]]
  OBVIOUS
<1>3. vals \in Seq(Val) /\ vals # <<>>
  BY ArraysAreValues
<1>4. why = "fence_get" => Tail(vals) = <<>>
  BY <1>3, TailOfOne
<1> DEFINE s == [Idle EXCEPT !.pc = "lookup", !.why = why, !.todo = vals, !.any = any]
<1>5. IsThread(s)
  BY IdleIsThread DEF IsThread, ThreadFields
<1>6. /\ s.pc = "lookup" /\ s.why = why /\ s.todo = vals /\ s.tl = Null
      /\ s.mine = {} /\ s.temp = {} /\ s.dying = Null
  BY IdleIsThread, IdleFields DEF IsThread, ThreadFields
<1>7. th' = [th EXCEPT ![x] = s]
  BY <1>2
<1>8. TlineQuiet /\ ObjQuiet
  BY <1>1, TlineSame, ObjSame
<1>9. why \in {"fence_get", "wait", "signal"}
  OBVIOUS
<1> HIDE DEF s
<1> QED BY <1>3, <1>4, <1>5, <1>6, <1>7, <1>8, <1>9, NewCall DEF ObjSteps, Agree, DestroySteps

LEMMA InvDestroyId ==
  ASSUME FenceIInv, NEW x \in Thread, NEW t \in Timeline, DestroyId(x, t)
  PROVE  FenceIInv'
<1> USE DEF DestroyId, At
<1>1. StateShape
  BY DEF FenceIInv
<1> DEFINE v == <<[tl |-> t, seq |-> 0]>>
<1>2. v \in Seq(Val) /\ v # <<>>
  <2>1. [tl |-> t, seq |-> 0] \in Val
    BY TimelineAssumption DEF Val, Seqno
  <2> QED BY <2>1
<1> DEFINE s == [Idle EXCEPT !.pc = "steal", !.why = "destroy", !.tl = t, !.todo = v]
<1>3. th' = [th EXCEPT ![x] = s]
  OBVIOUS
<1> HIDE DEF v
<1>4. IsThread(s)
  BY IdleIsThread DEF IsThread, ThreadFields
<1>5. /\ s.pc = "steal" /\ s.why = "destroy" /\ s.todo = v /\ s.tl = t
      /\ s.mine = {} /\ s.temp = {} /\ s.dying = Null
  BY IdleIsThread, IdleFields DEF IsThread, ThreadFields
<1>6. TlineQuiet
  BY <1>1 DEF TlineQuiet, StateShape, TlineShape, TlineOK
<1>7. ObjQuiet
  BY <1>1, ObjSame
<1> HIDE DEF s
<1> QED BY <1>2, <1>3, <1>4, <1>5, <1>6, <1>7, NewCall DEF ObjSteps, Agree, DestroySteps

LEMMA InvObjCreate ==
  ASSUME FenceIInv, NEW x \in Thread, NEW n \in Obj, NEW vals \in Arrays,
         ObjCreate(x, n, vals)
  PROVE  FenceIInv'
<1> USE DEF ObjCreate, At
<1>1. StateShape /\ ObjShape /\ IsObj(obj[n])
  BY DEF FenceIInv, StateShape, ObjShape
<1>2. vals \in Seq(Val)
  BY ArraysAreValues
<1> DEFINE r == [obj[n] EXCEPT !.st = "filling", !.sig = 1]
<1>3. IsObj(r) /\ r.vals = obj[n].vals
  BY <1>1 DEF IsObj, ObjFields
<1>4. obj' = [obj EXCEPT ![n] = r]
  BY <1>1 DEF ObjShape
<1> HIDE DEF r
<1>5. ObjQuiet
  BY <1>1, <1>3, <1>4, ObjSet DEF StateShape
<1>6. TlineQuiet
  BY <1>1, TlineSame
<1> DEFINE s == [Idle EXCEPT !.pc = "fill", !.why = "aux", !.todo = vals, !.o = n]
<1>7. IsThread(s)
  BY IdleIsThread DEF IsThread, ThreadFields
<1>8. /\ s.pc = "fill" /\ s.why = "aux" /\ s.todo = vals /\ s.tl = Null /\ s.o = n
      /\ s.mine = {} /\ s.temp = {} /\ s.dying = Null
  BY IdleIsThread, IdleFields DEF IsThread, ThreadFields
<1>9. th' = [th EXCEPT ![x] = s]
  OBVIOUS
<1> HIDE DEF s
<1> QED BY <1>2, <1>5, <1>6, <1>7, <1>8, <1>9, NewCall DEF ObjSteps, Agree, DestroySteps

LEMMA InvObjDestroy ==
  ASSUME FenceIInv, NEW x \in Thread, NEW n \in Obj, ObjDestroy(x, n)
  PROVE  FenceIInv'
<1> USE DEF ObjDestroy, At
<1>1. StateShape /\ ObjShape /\ IsObj(obj[n]) /\ obj[n].vals \in Seq(Val)
  BY DEF FenceIInv, StateShape, ObjShape
<1> DEFINE r == [obj[n] EXCEPT !.st = "done"]
<1>3. IsObj(r) /\ r.vals = obj[n].vals
  BY <1>1 DEF IsObj, ObjFields
<1>4. obj' = [obj EXCEPT ![n] = r]
  BY <1>1 DEF ObjShape
<1> HIDE DEF r
<1>5. ObjQuiet
  BY <1>1, <1>3, <1>4, ObjSet
<1>6. TlineQuiet
  BY <1>1, TlineSame
<1> DEFINE s == [Idle EXCEPT !.pc = "announce", !.why = "aux", !.o = n, !.todo = obj[n].vals]
<1>7. IsThread(s)
  BY IdleIsThread DEF IsThread, ThreadFields
<1>8. /\ s.pc = "announce" /\ s.why = "aux" /\ s.todo = obj[n].vals /\ s.tl = Null /\ s.o = n
      /\ s.mine = {} /\ s.temp = {} /\ s.dying = Null
  BY IdleIsThread, IdleFields DEF IsThread, ThreadFields
<1>9. th' = [th EXCEPT ![x] = s]
  OBVIOUS
<1> HIDE DEF s
<1> QED BY <1>1, <1>5, <1>6, <1>7, <1>8, <1>9, NewCall DEF ObjSteps, Agree, DestroySteps

LEMMA InvTimelineSignaled ==
  ASSUME FenceIInv, NEW x \in Thread, NEW n \in Obj, TimelineSignaled(x, n)
  PROVE  FenceIInv'
<1> USE DEF TimelineSignaled, At
<1>1. StateShape /\ ObjShape /\ IsObj(obj[n]) /\ obj[n].vals \in Seq(Val)
  BY DEF FenceIInv, StateShape, ObjShape
<1> DEFINE r == [obj[n] EXCEPT !.event = "fired"]
<1>3. IsObj(r) /\ r.vals = obj[n].vals
  BY <1>1 DEF IsObj, ObjFields
<1>4. obj' = [obj EXCEPT ![n] = r]
  BY <1>1 DEF ObjShape
<1> HIDE DEF r
<1>5. ObjQuiet
  BY <1>1, <1>3, <1>4, ObjSet
<1>6. TlineQuiet
  BY <1>1, TlineSame
<1> DEFINE s == [Idle EXCEPT !.pc = "announced", !.why = "aux", !.o = n]
<1>7. IsThread(s)
  BY IdleIsThread DEF IsThread, ThreadFields
<1>8. /\ s.pc = "announced" /\ s.why = "aux" /\ s.todo = <<>> /\ s.tl = Null /\ s.o = n
      /\ s.mine = {} /\ s.temp = {} /\ s.dying = Null
  BY IdleIsThread, IdleFields DEF IsThread, ThreadFields
<1>9. th' = [th EXCEPT ![x] = s]
  OBVIOUS
<1> HIDE DEF s
<1> QED BY <1>5, <1>6, <1>7, <1>8, <1>9, IdleFields, NewCall DEF ObjSteps, Agree, DestroySteps

-----------------------------------------------------------------------------
(* The values of a call are looked up and done.                            *)

\* What a thread is, by its fields.
LEMMA ThreadIs ==
  ASSUME FenceIInv, NEW x \in Thread
  PROVE  IsThread(th[x]) /\ ThreadOK(th[x])
BY DEF FenceIInv, StateShape, ThreadShape

LEMMA InvLookup ==
  ASSUME FenceIInv, NEW x \in Thread, Lookup(x)
  PROVE  FenceIInv'
<1> USE DEF Lookup, At
<1>1. StateShape /\ ThreadShape
  BY DEF FenceIInv, StateShape
<1>2. IsThread(th[x]) /\ ThreadOK(th[x])
  BY ThreadIs
<1>3. Head(th[x].todo) \in Val
  BY <1>2, TailIsSeq DEF ThreadOK
<1> DEFINE t == Head(th[x].todo).tl
<1>4. t \in Timeline
  BY <1>3 DEF Val
<1>5. ObjQuiet
  BY <1>1, ObjSame
<1>6. CASE /\ TimelineById(t) /\ tline' = TimelineGet(t)
           /\ th' = [th EXCEPT ![x].pc = th[x].why, ![x].tl = t]
  <2> DEFINE r == [th[x] EXCEPT !.pc = th[x].why, !.tl = t]
  <2>1. IsThread(r)
    BY <1>2 DEF IsThread
  <2>2. /\ r.pc = th[x].why /\ r.why = th[x].why /\ r.todo = th[x].todo /\ r.tl = t
        /\ r.mine = th[x].mine /\ r.temp = th[x].temp /\ r.dying = th[x].dying
        /\ r.o = th[x].o
    BY <1>2 DEF IsThread, ThreadFields
  <2>3. th' = [th EXCEPT ![x] = r]
    BY <1>1, <1>6 DEF ThreadShape
  <2>4. TlineQuiet
    BY <1>1, <1>4, <1>6, TlineCounted
  <2>5. idr'[t] # "none"
    BY <1>6 DEF TimelineById
  <2> HIDE DEF r, t
  <2>6. th[x].temp = {} /\ th[x].pc \notin LockSteps /\ r.pc \in {"fence_get", "wait", "signal"}
        /\ r.pc \notin LockSteps
    BY <1>2, <2>2 DEF ThreadOK, Agree, LockSteps
  <2>7. ThreadOK(r)
    BY <1>2, <1>4, <2>2, <2>6 DEF ThreadOK, Agree, PC, ValueSteps, DestroySteps, ObjSteps
  <2> QED BY <1>5, <2>1, <2>2, <2>3, <2>4, <2>5, <2>6, <2>7, QuietThread
<1>7. CASE th' = [th EXCEPT ![x].pc = "unwind"] /\ UNCHANGED tline
  <2> DEFINE r == [th[x] EXCEPT !.pc = "unwind"]
  <2>1. IsThread(r)
    BY <1>2 DEF IsThread
  <2>2. /\ r.pc = "unwind" /\ r.why = th[x].why /\ r.todo = th[x].todo /\ r.tl = th[x].tl
        /\ r.mine = th[x].mine /\ r.temp = th[x].temp /\ r.dying = th[x].dying
        /\ r.o = th[x].o
    BY <1>2 DEF IsThread, ThreadFields
  <2>3. th' = [th EXCEPT ![x] = r]
    BY <1>1, <1>7 DEF ThreadShape
  <2>4. TlineQuiet
    BY <1>1, <1>7, TlineSame
  <2> HIDE DEF r, t
  <2>6. th[x].temp = {} /\ th[x].pc \notin LockSteps /\ r.pc \notin LockSteps
    BY <1>2, <2>2 DEF ThreadOK, LockSteps
  <2>7. ThreadOK(r)
    BY <1>2, <2>2, <2>6 DEF ThreadOK, Agree, PC, ValueSteps, DestroySteps, ObjSteps
  <2> QED BY <1>5, <2>1, <2>2, <2>3, <2>4, <2>6, <2>7, QuietThread
<1> QED BY <1>6, <1>7

\* A thread only gets to another step of its call, in the same state.
LEMMA NextStep ==
  ASSUME FenceIInv, NEW x \in Thread, NEW r, IsThread(r), ThreadOK(r),
         th' = [th EXCEPT ![x] = r],
         r.mine = th[x].mine, r.temp = {}, th[x].temp = {}, r.dying = th[x].dying,
         th[x].pc \notin LockSteps, r.pc \notin LockSteps,
         r.pc \notin {"fence_get", "wait"}, ~(r.pc = "got" /\ r.why = "fence_get"),
         UNCHANGED <<idr, tline, fence, files, obj>>
  PROVE  FenceIInv'
<1>1. StateShape
  BY DEF FenceIInv
<1>2. TlineQuiet /\ ObjQuiet
  BY <1>1, TlineSame, ObjSame
<1> QED BY <1>2, QuietThread

LEMMA InvWaitEnds ==
  ASSUME FenceIInv, NEW x \in Thread, WaitReturns(x) \/ WaitTimesOut(x)
  PROVE  FenceIInv'
<1> USE DEF WaitReturns, WaitTimesOut, At
<1>1. IsThread(th[x]) /\ ThreadOK(th[x]) /\ ThreadShape
  BY ThreadIs DEF FenceIInv, StateShape
<1> DEFINE r == [th[x] EXCEPT !.pc = "unwind"]
<1>2. IsThread(r)
  BY <1>1 DEF IsThread
<1>3. /\ r.pc = "unwind" /\ r.why = th[x].why /\ r.todo = th[x].todo /\ r.tl = th[x].tl
      /\ r.mine = th[x].mine /\ r.temp = th[x].temp /\ r.dying = th[x].dying
      /\ r.o = th[x].o
  BY <1>1 DEF IsThread, ThreadFields
<1>4. th' = [th EXCEPT ![x] = r] /\ th[x].pc = "waiting" /\ UNCHANGED <<idr, tline, fence, files, obj>>
  BY <1>1 DEF ThreadShape
<1> HIDE DEF r
<1>5. th[x].temp = {} /\ th[x].pc \notin LockSteps /\ r.pc \notin LockSteps
  BY <1>1, <1>3, <1>4 DEF ThreadOK, LockSteps
<1>6. ThreadOK(r)
  BY <1>1, <1>3, <1>4 DEF ThreadOK, Agree, PC, ValueSteps, DestroySteps, ObjSteps
<1> QED BY <1>2, <1>3, <1>4, <1>5, <1>6, NextStep

\* There is no memory for a fence, or for its file; a value that was signaled
\* before is ignored.
LEMMA InvNoFence ==
  ASSUME FenceIInv, NEW x \in Thread, th[x].dying = Null,
         NEW why \in {"failed", "unfiled"},
         \/ th[x].pc \in {"fence_get", "wait"} /\ why = "failed"
         \/ th[x].pc = "got" /\ th[x].why = "fence_get" /\ why = "unfiled",
         th' = [th EXCEPT ![x].pc = "got", ![x].why = why],
         UNCHANGED <<idr, tline, fence, files, obj>>
  PROVE  FenceIInv'
<1>1. IsThread(th[x]) /\ ThreadOK(th[x]) /\ ThreadShape
  BY ThreadIs DEF FenceIInv, StateShape
<1> DEFINE r == [th[x] EXCEPT !.pc = "got", !.why = why]
<1>2. IsThread(r)
  BY <1>1 DEF IsThread
<1>3. /\ r.pc = "got" /\ r.why = why /\ r.todo = th[x].todo /\ r.tl = th[x].tl
      /\ r.mine = th[x].mine /\ r.temp = th[x].temp /\ r.dying = th[x].dying
      /\ r.o = th[x].o
  BY <1>1 DEF IsThread, ThreadFields
<1>4. th' = [th EXCEPT ![x] = r]
  BY <1>1 DEF ThreadShape
<1> HIDE DEF r
<1>5. th[x].temp = {} /\ th[x].pc \notin LockSteps /\ r.pc \notin LockSteps
  BY <1>1, <1>3 DEF ThreadOK, LockSteps
<1>6. ThreadOK(r)
  BY <1>1, <1>3 DEF ThreadOK, Agree, PC, ValueSteps, DestroySteps, ObjSteps
<1> QED BY <1>2, <1>3, <1>4, <1>5, <1>6, NextStep

LEMMA InvValueDone ==
  ASSUME FenceIInv, NEW x \in Thread, ValueDone(x)
  PROVE  FenceIInv'
<1> DEFINE rest == Tail(th[x].todo)
           next == AfterValue(th[x].why, rest)
           tl == IF next = "retire" THEN rest[1].tl ELSE Null
           r == [th[x] EXCEPT !.pc = next, !.todo = rest, !.tl = tl]
<1>1. IsThread(th[x]) /\ ThreadOK(th[x]) /\ ThreadShape /\ StateShape
  BY ThreadIs DEF FenceIInv, StateShape
<1>2. /\ th[x].pc = "got" /\ th[x].dying = Null /\ th[x].why # "fence_get"
      /\ tline' = TimelinePut(th[x].tl)
      /\ th' = [th EXCEPT ![x].pc = next, ![x].todo = rest, ![x].tl = tl]
      /\ UNCHANGED <<idr, fence, files, obj>>
  BY DEF ValueDone, At
<1>3. th[x].tl \in Timeline /\ th[x].todo # <<>> /\ th[x].todo \in Seq(Val)
  BY <1>1, <1>2 DEF ThreadOK, ValueSteps
<1>4. rest \in Seq(Val)
  BY <1>3, TailIsSeq
<1>5. th[x].why \in {"filed", "unfiled", "wait", "failed", "signal", "retire", "destroy"}
  BY <1>1, <1>2 DEF ThreadOK, Agree
<1>6. th[x].why \in {"filed", "unfiled"} => rest = <<>>
  BY <1>1, <1>2 DEF ThreadOK
<1> HIDE DEF rest
<1>7. /\ next \in {"unwind", "retired", "retire", "lookup", "waiting"}
      /\ next \in {"retired", "retire"} <=> th[x].why = "retire"
      /\ next = "retire" => rest # <<>>
      /\ next = "lookup" => th[x].why \in {"wait", "signal"} /\ rest # <<>>
      /\ next = "waiting" => th[x].why = "wait"
  BY <1>5, <1>6 DEF AfterValue
<1> HIDE DEF next
<1>8. tl \in Timeline \cup {Null} /\ (next = "retire" => tl \in Timeline)
  BY <1>4, <1>7, FirstIsElement DEF Val
<1> HIDE DEF tl
<1>9. IsThread(r)
  BY <1>1 DEF IsThread
<1>10. /\ r.pc = next /\ r.why = th[x].why /\ r.todo = rest /\ r.tl = tl
       /\ r.mine = th[x].mine /\ r.temp = th[x].temp /\ r.dying = th[x].dying
       /\ r.o = th[x].o
  BY <1>1 DEF IsThread, ThreadFields
<1>11. th' = [th EXCEPT ![x] = r]
  BY <1>1, <1>2 DEF ThreadShape
<1> HIDE DEF r
<1>12. TlineQuiet /\ ObjQuiet
  BY <1>1, <1>2, <1>3, TlineCounted, ObjSame
<1>13. /\ th[x].temp = {} /\ th[x].pc \notin LockSteps
       /\ r.pc \notin LockSteps \cup {"fence_get", "wait", "got"}
  BY <1>1, <1>2, <1>7, <1>10 DEF ThreadOK, LockSteps
<1>14. ThreadOK(r)
  BY <1>1, <1>2, <1>4, <1>5, <1>6, <1>7, <1>8, <1>10
     DEF ThreadOK, Agree, PC, ValueSteps, DestroySteps, ObjSteps
<1> QED BY <1>2, <1>9, <1>10, <1>11, <1>12, <1>13, <1>14, QuietThread

-----------------------------------------------------------------------------
(* Timeline objects.                                                       *)

\* The thread has got further with its timeline object.
LEMMA ObjStep ==
  ASSUME FenceIInv, NEW x \in Thread, th[x].dying = Null, th[x].pc \in ObjSteps,
         NEW pc \in ObjSteps \ {"retired"}, NEW todo \in Seq(Val),
         th' = [th EXCEPT ![x] = [th[x] EXCEPT !.pc = pc, !.todo = todo]],
         UNCHANGED <<fence, files>>, TlineQuiet, ObjQuiet
  PROVE  FenceIInv'
<1> DEFINE r == [th[x] EXCEPT !.pc = pc, !.todo = todo]
<1>1. IsThread(th[x]) /\ ThreadOK(th[x]) /\ th[x].o \in Obj
  BY ThreadIs DEF ThreadOK
<1>2. IsThread(r)
  BY <1>1 DEF IsThread
<1>3. /\ r.pc = pc /\ r.why = th[x].why /\ r.todo = todo /\ r.tl = th[x].tl
      /\ r.mine = th[x].mine /\ r.temp = th[x].temp /\ r.dying = th[x].dying
      /\ r.o = th[x].o
  BY <1>1 DEF IsThread, ThreadFields
<1>4. th' = [th EXCEPT ![x] = r]
  OBVIOUS
<1> HIDE DEF r
<1>5. /\ th[x].temp = {} /\ th[x].mine = {} /\ th[x].pc \notin LockSteps
      /\ r.pc \notin LockSteps \cup {"fence_get", "wait", "got"}
  BY <1>1, <1>3 DEF ThreadOK, LockSteps, ObjSteps
<1>6. ThreadOK(r)
  BY <1>1, <1>3, <1>5 DEF ThreadOK, Agree, PC, ValueSteps, DestroySteps, ObjSteps
<1> QED BY <1>2, <1>3, <1>4, <1>5, <1>6, QuietThread

LEMMA InvObjFill ==
  ASSUME FenceIInv, NEW x \in Thread, ObjFill(x)
  PROVE  FenceIInv'
<1> DEFINE v == Head(th[x].todo)   n == th[x].o
<1>1. IsThread(th[x]) /\ ThreadOK(th[x]) /\ ThreadShape /\ StateShape /\ ObjShape
  BY ThreadIs DEF FenceIInv, StateShape
<1>2. /\ th[x].pc = "fill" /\ th[x].dying = Null /\ th[x].todo # <<>>
      /\ UNCHANGED <<idr, fence, files>>
  BY DEF ObjFill, At
<1>3. v \in Val /\ v.tl \in Timeline /\ Tail(th[x].todo) \in Seq(Val) /\ n \in Obj
      /\ obj[n].vals \in Seq(Val) /\ IsObj(obj[n])
  BY <1>1, <1>2, FirstValue DEF ThreadOK, ObjSteps, StateShape, ObjShape
<1>4. CASE /\ tline' = TimelineGet(v.tl)
           /\ obj' = [obj EXCEPT ![n].vals = Append(@, v)]
           /\ th' = [th EXCEPT ![x].todo = Tail(@)]
  <2> DEFINE r == [obj[n] EXCEPT !.vals = Append(obj[n].vals, v)]
  <2>1. Append(obj[n].vals, v) \in Seq(Val)
    BY <1>3, AppendProperties
  <2>2. IsObj(r) /\ r.vals = Append(obj[n].vals, v)
    BY <1>3 DEF IsObj, ObjFields
  <2>3. obj' = [obj EXCEPT ![n] = r]
    BY <1>1, <1>4 DEF ObjShape
  <2> HIDE DEF r
  <2>4. ObjQuiet
    BY <1>1, <1>3, <2>1, <2>2, <2>3, ObjSet
  <2>5. TlineQuiet
    BY <1>1, <1>2, <1>3, <1>4, TlineCounted
  <2>6. th' = [th EXCEPT ![x] = [th[x] EXCEPT !.pc = "fill", !.todo = Tail(th[x].todo)]]
    BY <1>1, <1>2, <1>4 DEF ThreadShape, IsThread, ThreadFields
  <2> QED BY <1>2, <1>3, <2>4, <2>5, <2>6, ObjStep DEF ObjSteps
<1>5. CASE th' = [th EXCEPT ![x].pc = "empty", ![x].todo = <<>>] /\ UNCHANGED <<tline, obj>>
  <2>1. th' = [th EXCEPT ![x] = [th[x] EXCEPT !.pc = "empty", !.todo = <<>>]]
    BY <1>1, <1>5 DEF ThreadShape
  <2>2. TlineQuiet /\ ObjQuiet
    BY <1>1, <1>2, <1>5, TlineSame, ObjSame
  <2> QED BY <1>2, <2>1, <2>2, IdleFields, ObjStep DEF ObjSteps
<1> QED BY <1>4, <1>5 DEF ObjFill

LEMMA InvObjAddEvent ==
  ASSUME FenceIInv, NEW x \in Thread, ObjAddEvent(x)
  PROVE  FenceIInv'
<1> DEFINE n == th[x].o
<1>1. IsThread(th[x]) /\ ThreadOK(th[x]) /\ ThreadShape /\ StateShape /\ ObjShape
  BY ThreadIs DEF FenceIInv, StateShape
<1>2. /\ th[x].pc = "fill" /\ th[x].dying = Null /\ th[x].todo = <<>>
      /\ UNCHANGED <<idr, tline, fence, files>>
  BY DEF ObjAddEvent, At
<1>3. n \in Obj /\ obj[n].vals \in Seq(Val) /\ IsObj(obj[n])
  BY <1>1, <1>2 DEF ThreadOK, ObjSteps, StateShape, ObjShape
<1>4. TlineQuiet
  BY <1>1, <1>2, TlineSame
<1>5. CASE /\ obj' = [obj EXCEPT ![n].count = Len(obj[n].vals), ![n].sig = 2,
                                 ![n].event = "armed", ![n].st = "queued"]
           /\ th' = [th EXCEPT ![x] = Idle]
  <2> DEFINE r == [obj[n] EXCEPT !.count = Len(obj[n].vals), !.sig = 2, !.event = "armed",
                                 !.st = "queued"]
  <2>1. IsObj(r) /\ r.vals = obj[n].vals
    BY <1>3 DEF IsObj, ObjFields
  <2>2. obj' = [obj EXCEPT ![n] = r]
    BY <1>1, <1>5 DEF ObjShape
  <2> HIDE DEF r
  <2>3. ObjQuiet
    BY <1>1, <1>3, <2>1, <2>2, ObjSet
  <2> QED BY <1>2, <1>4, <1>5, <2>3, ToIdle DEF ObjSteps
<1>6. CASE /\ obj' = [obj EXCEPT ![n].count = Len(obj[n].vals)]
           /\ th' = [th EXCEPT ![x].pc = "empty"]
  <2> DEFINE r == [obj[n] EXCEPT !.count = Len(obj[n].vals)]
  <2>1. IsObj(r) /\ r.vals = obj[n].vals
    BY <1>3 DEF IsObj, ObjFields
  <2>2. obj' = [obj EXCEPT ![n] = r]
    BY <1>1, <1>6 DEF ObjShape
  <2> HIDE DEF r
  <2>3. ObjQuiet
    BY <1>1, <1>3, <2>1, <2>2, ObjSet
  <2>4. th' = [th EXCEPT ![x] = [th[x] EXCEPT !.pc = "empty", !.todo = <<>>]]
    BY <1>1, <1>2, <1>6 DEF ThreadShape, IsThread, ThreadFields
  <2> QED BY <1>2, <1>4, <2>3, <2>4, IdleFields, ObjStep DEF ObjSteps
<1> QED BY <1>5, <1>6 DEF ObjAddEvent

LEMMA InvObjEmpty ==
  ASSUME FenceIInv, NEW x \in Thread, ObjEmpty(x)
  PROVE  FenceIInv'
<1> DEFINE n == th[x].o
<1>1. IsThread(th[x]) /\ ThreadOK(th[x]) /\ ThreadShape /\ StateShape /\ ObjShape
  BY ThreadIs DEF FenceIInv, StateShape
<1>2. /\ th[x].pc = "empty" /\ th[x].dying = Null /\ UNCHANGED <<idr, fence, files>>
      /\ th[x].todo \in Seq(Val)
  BY <1>1 DEF ObjEmpty, At, ThreadOK
<1>3. n \in Obj /\ obj[n].vals \in Seq(Val) /\ IsObj(obj[n])
  BY <1>1, <1>2 DEF ThreadOK, ObjSteps, StateShape, ObjShape
<1>4. CASE /\ obj[n].vals # <<>>
           /\ tline' = TimelinePut(Head(obj[n].vals).tl)
           /\ obj' = [obj EXCEPT ![n].vals = Tail(@)]
           /\ UNCHANGED th
  <2>1. Head(obj[n].vals).tl \in Timeline /\ Tail(obj[n].vals) \in Seq(Val)
    BY <1>3, <1>4, FirstValue
  <2> DEFINE r == [obj[n] EXCEPT !.vals = Tail(obj[n].vals)]
  <2>2. IsObj(r) /\ r.vals = Tail(obj[n].vals)
    BY <1>3 DEF IsObj, ObjFields
  <2>3. obj' = [obj EXCEPT ![n] = r]
    BY <1>1, <1>4 DEF ObjShape
  <2> HIDE DEF r
  <2>4. ObjQuiet
    BY <1>1, <1>3, <2>1, <2>2, <2>3, ObjSet
  <2>5. TlineQuiet
    BY <1>1, <1>2, <1>4, <2>1, TlineCounted
  <2>6. th' = [th EXCEPT ![x] = [th[x] EXCEPT !.pc = "empty", !.todo = th[x].todo]]
    BY <1>1, <1>2, <1>4 DEF ThreadShape, IsThread, ThreadFields
  <2> QED BY <1>2, <2>4, <2>5, <2>6, ObjStep DEF ObjSteps
<1>5. CASE /\ obj' = [obj EXCEPT ![n].st = "done"]
           /\ th' = [th EXCEPT ![x].pc = "announce"]
           /\ UNCHANGED tline
  <2> DEFINE r == [obj[n] EXCEPT !.st = "done"]
  <2>1. IsObj(r) /\ r.vals = obj[n].vals
    BY <1>3 DEF IsObj, ObjFields
  <2>2. obj' = [obj EXCEPT ![n] = r]
    BY <1>1, <1>5 DEF ObjShape
  <2> HIDE DEF r
  <2>3. ObjQuiet
    BY <1>1, <1>3, <2>1, <2>2, ObjSet
  <2>4. th' = [th EXCEPT ![x] = [th[x] EXCEPT !.pc = "announce", !.todo = th[x].todo]]
    BY <1>1, <1>2, <1>5 DEF ThreadShape, IsThread, ThreadFields
  <2>5. TlineQuiet
    BY <1>1, <1>2, <1>5, TlineSame
  <2> QED BY <1>2, <2>3, <2>4, <2>5, ObjStep DEF ObjSteps
<1> QED BY <1>4, <1>5 DEF ObjEmpty

LEMMA InvAddSignal ==
  ASSUME FenceIInv, NEW x \in Thread, AddSignal(x)
  PROVE  FenceIInv'
<1> DEFINE t == Head(th[x].todo).tl
<1>1. IsThread(th[x]) /\ ThreadOK(th[x]) /\ ThreadShape /\ StateShape /\ TlineShape
  BY ThreadIs DEF FenceIInv, StateShape
<1>2. /\ th[x].pc = "announce" /\ th[x].dying = Null /\ th[x].todo # <<>>
      /\ th' = [th EXCEPT ![x].todo = Tail(@)]
      /\ UNCHANGED <<idr, fence, files, obj>>
  BY DEF AddSignal, At
<1>3. t \in Timeline /\ Tail(th[x].todo) \in Seq(Val)
  BY <1>1, <1>2, FirstValue DEF ThreadOK
<1>4. PICK E : tline' = [tline EXCEPT ![t].events = E]
  BY DEF AddSignal
<1>5. TlineQuiet
  <2> DEFINE r == [tline[t] EXCEPT !.events = E]
  <2>1. IsTline(r) /\ r.lock = tline[t].lock /\ r.value = tline[t].value /\ r.fences = tline[t].fences
    BY <1>1, <1>3 DEF TlineShape, IsTline, TlineFields
  <2>2. tline' = [tline EXCEPT ![t] = r]
    BY <1>1, <1>3, <1>4 DEF TlineShape
  <2> HIDE DEF r, t
  <2>3. TlineShape' /\ tline'[t] = r /\ \A u \in Timeline \ {t} : tline'[u] = tline[u]
    BY <1>1, <1>3, <2>1, <2>2, TlineSet
  <2> QED BY <1>1, <1>2, <2>1, <2>3 DEF TlineQuiet, StateShape, TlineOK
<1>6. ObjQuiet
  BY <1>1, <1>2, ObjSame
<1>7. th' = [th EXCEPT ![x] = [th[x] EXCEPT !.pc = "announce", !.todo = Tail(th[x].todo)]]
  BY <1>1, <1>2 DEF ThreadShape, IsThread, ThreadFields
<1> QED BY <1>2, <1>3, <1>5, <1>6, <1>7, ObjStep DEF ObjSteps

LEMMA InvTimelineobjSignal ==
  ASSUME FenceIInv, NEW x \in Thread, TimelineobjSignal(x)
  PROVE  FenceIInv'
<1> DEFINE n == th[x].o
<1>1. IsThread(th[x]) /\ ThreadOK(th[x]) /\ ThreadShape /\ StateShape /\ ObjShape
  BY ThreadIs DEF FenceIInv, StateShape
<1>2. /\ th[x].pc \in {"announce", "announced"} /\ th[x].dying = Null
      /\ obj' = [obj EXCEPT ![n].sig = @ - 1]
      /\ UNCHANGED <<idr, tline, fence, files>>
  BY DEF TimelineobjSignal, At
<1>3. n \in Obj /\ obj[n].vals \in Seq(Val) /\ IsObj(obj[n])
  BY <1>1, <1>2 DEF ThreadOK, ObjSteps, StateShape, ObjShape
<1>4. TlineQuiet
  BY <1>1, <1>2, TlineSame
<1>5. ObjQuiet
  <2> DEFINE r == [obj[n] EXCEPT !.sig = obj[n].sig - 1]
  <2>1. IsObj(r) /\ r.vals = obj[n].vals
    BY <1>3 DEF IsObj, ObjFields
  <2>2. obj' = [obj EXCEPT ![n] = r]
    BY <1>1, <1>2 DEF ObjShape
  <2> HIDE DEF r
  <2> QED BY <1>1, <1>3, <2>1, <2>2, ObjSet
<1>6. CASE th' = [th EXCEPT ![x] = Idle]
  BY <1>2, <1>4, <1>5, <1>6, ToIdle DEF ObjSteps
<1>7. CASE /\ obj[n].vals # <<>>
           /\ th' = [th EXCEPT ![x] = [Idle EXCEPT !.pc = "retire", !.why = "retire", !.o = n,
                                         !.todo = obj[n].vals, !.tl = obj[n].vals[1].tl]]
  <2>1. obj[n].vals[1].tl \in Timeline
    BY <1>3, <1>7, FirstIsElement DEF Val
  <2> DEFINE s == [Idle EXCEPT !.pc = "retire", !.why = "retire", !.o = n,
                               !.todo = obj[n].vals, !.tl = obj[n].vals[1].tl]
  <2>2. IsThread(s)
    BY IdleIsThread DEF IsThread
  <2>3. /\ s.pc = "retire" /\ s.why = "retire" /\ s.todo = obj[n].vals
        /\ s.tl = obj[n].vals[1].tl /\ s.o = n
        /\ s.mine = {} /\ s.temp = {} /\ s.dying = Null
    BY IdleIsThread, IdleFields DEF IsThread, ThreadFields
  <2>4. th' = [th EXCEPT ![x] = s]
    BY <1>7
  <2> HIDE DEF s
  <2> QED BY <1>2, <1>3, <1>4, <1>5, <1>7, <2>1, <2>2, <2>3, <2>4, NewCall
          DEF ObjSteps, Agree, DestroySteps
<1> QED BY <1>6, <1>7 DEF TimelineobjSignal

LEMMA InvTimelineobjRetire ==
  ASSUME FenceIInv, NEW x \in Thread, TimelineobjRetire(x)
  PROVE  FenceIInv'
<1> DEFINE n == th[x].o
<1>1. IsThread(th[x]) /\ ThreadOK(th[x]) /\ StateShape /\ ObjShape
  BY ThreadIs DEF FenceIInv, StateShape
<1>2. /\ th[x].pc = "retired" /\ th[x].dying = Null /\ th' = [th EXCEPT ![x] = Idle]
      /\ obj' = [obj EXCEPT ![n].vals = <<>>, ![n].count = 0]
      /\ UNCHANGED <<idr, tline, fence, files>>
  BY DEF TimelineobjRetire, At
<1>3. n \in Obj /\ IsObj(obj[n])
  BY <1>1, <1>2 DEF ThreadOK, ObjSteps, ObjShape
<1> DEFINE r == [obj[n] EXCEPT !.vals = <<>>, !.count = 0]
<1>4. IsObj(r) /\ r.vals = <<>>
  BY <1>3 DEF IsObj, ObjFields
<1>5. obj' = [obj EXCEPT ![n] = r]
  BY <1>1, <1>2 DEF ObjShape
<1> HIDE DEF r
<1>6. ObjQuiet
  BY <1>1, <1>3, <1>4, <1>5, IdleFields, ObjSet
<1>7. TlineQuiet
  BY <1>1, <1>2, TlineSame
<1> QED BY <1>2, <1>6, <1>7, ToIdle DEF ObjSteps

\* Nobody but the object takes part.
LEMMA InvTimestampRetires ==
  ASSUME FenceIInv, NEW n \in Obj, TimestampRetires(n)
  PROVE  FenceIInv'
<1> USE DEF TimestampRetires
<1>1. StateShape /\ ObjShape /\ IsObj(obj[n]) /\ obj[n].vals \in Seq(Val)
  BY DEF FenceIInv, StateShape, ObjShape
<1> DEFINE r == [obj[n] EXCEPT !.retired = TRUE]
<1>2. IsObj(r) /\ r.vals = obj[n].vals
  BY <1>1 DEF IsObj, ObjFields
<1>3. obj' = [obj EXCEPT ![n] = r]
  BY <1>1 DEF ObjShape
<1> HIDE DEF r
<1>4. ObjQuiet
  BY <1>1, <1>2, <1>3, ObjSet
<1>5. StateShape'
  BY <1>1, <1>4 DEF ObjQuiet, StateShape, TlineShape, FenceShape, ThreadShape, TlineOK, FenceOK
<1>6. LockInv' /\ IdInv' /\ OneHolder' /\ FiledOnce'
  BY DEF FenceIInv, LockInv, IdInv, Live, OneHolder, FiledOnce
<1>7. \A f \in Fence : (Made(f)' <=> Made(f)) /\ (Taken(f)' <=> Taken(f)) /\ (Live(f)' <=> Live(f))
  BY DEF Made, Taken, Live
<1>8. ListInv' /\ RefInv'
  BY <1>7 DEF FenceIInv, ListInv, RefInv, Bit, Live
<1>9. SignalInv'
  BY <1>7 DEF FenceIInv, SignalInv
<1> QED BY <1>5, <1>6, <1>8, <1>9 DEF FenceIInv

-----------------------------------------------------------------------------
(* References of fences.                                                   *)

LEMMA FenceSet ==
  ASSUME FenceShape, NEW f \in Fence, NEW r, IsFence(r), fence' = [fence EXCEPT ![f] = r]
  PROVE  FenceShape' /\ fence'[f] = r /\ \A g \in Fence \ {f} : fence'[g] = fence[g]
<1>1. fence'[f] = r /\ \A g \in Fence \ {f} : fence'[g] = fence[g]
  BY DEF FenceShape
<1>2. DOMAIN fence' = Fence /\ fence' = [g \in Fence |-> fence'[g]]
  BY DEF FenceShape
<1>3. \A g \in Fence : IsFence(fence'[g])
  BY <1>1 DEF FenceShape
<1> QED BY <1>1, <1>2, <1>3 DEF FenceShape

\* A reference more or less, a new status.
LEMMA FenceChange ==
  ASSUME StateShape, NEW f \in Fence, NEW r, IsFence(r), fence' = [fence EXCEPT ![f] = r],
         r.status \in {"none", "pending", "ok", "error", "freed"},
         r.tl \in Timeline \cup {Null}, r.seq \in Seqno
  PROVE  /\ FenceShape' /\ \A g \in Fence : FenceOK(g)'
         /\ fence'[f] = r /\ \A g \in Fence \ {f} : fence'[g] = fence[g]
<1>1. FenceShape /\ \A g \in Fence : FenceOK(g)
  BY DEF StateShape
<1>2. FenceShape' /\ fence'[f] = r /\ \A g \in Fence \ {f} : fence'[g] = fence[g]
  BY <1>1, FenceSet
<1> QED BY <1>1, <1>2 DEF FenceOK

LEMMA FenceIs ==
  ASSUME StateShape, NEW f \in Fence
  PROVE  IsFence(fence[f]) /\ fence[f].tl \in Timeline \cup {Null} /\ fence[f].seq \in Seqno
BY DEF StateShape, FenceShape, FenceOK

\* A thread puts a reference: of a fence it has made, of one on its private
\* list, or that of a file.
LEMMA PutStep ==
  ASSUME FenceIInv, NEW x \in Thread, th[x].dying = Null, NEW f \in Fence,
         NEW r, IsThread(r), ThreadOK(r), NEW s, FencePut(x, r, f, s),
         r.dying = Null,
         \/ /\ f \in th[x].mine /\ r.mine = th[x].mine \ {f} /\ r.temp = th[x].temp
            /\ files' = files /\ s = fence[f].status
         \/ /\ f \in th[x].temp /\ r.temp = th[x].temp \ {f} /\ r.mine = th[x].mine
            /\ files' = files /\ s \in {"ok", "error"}
         \/ /\ f \in files /\ files' = files \ {f} /\ r.mine = th[x].mine
            /\ r.temp = th[x].temp /\ s = fence[f].status,
         r.pc \in LockSteps <=> th[x].pc \in LockSteps,
         r.pc \in LockSteps \/ r.temp # {} => r.tl = th[x].tl,
         th[x].pc # "collect", r.pc # "collect",
         r.pc \notin {"fence_get", "wait"}, ~(r.pc = "got" /\ r.why = "fence_get"),
         UNCHANGED <<idr, tline, obj>>
  PROVE  FenceIInv'
<1>1. StateShape /\ ThreadShape
  BY DEF FenceIInv, StateShape
<1> DEFINE q == IF fence[f].ref = 1 THEN [r EXCEPT !.dying = f] ELSE r
<1>2. th' = [th EXCEPT ![x] = q] /\ fence' = [fence EXCEPT ![f].ref = @ - 1, ![f].status = s]
  BY DEF FencePut
<1>3. /\ IsThread(q) /\ q.pc = r.pc /\ q.why = r.why /\ q.todo = r.todo /\ q.tl = r.tl
      /\ q.mine = r.mine /\ q.temp = r.temp /\ q.o = r.o
      /\ q.dying = IF fence[f].ref = 1 THEN f ELSE Null
  BY DEF IsThread, ThreadFields
<1> HIDE DEF q
<1>4. ThreadOK(q)
  BY <1>3 DEF ThreadOK
<1>5. ThreadShape' /\ th'[x] = q /\ \A y \in Thread \ {x} : th'[y] = th[y]
  BY <1>1, <1>2, <1>3, ThreadSet
<1>6. /\ Made(f) => f \notin files' \/ f \in files
      /\ fence[f].ref = Bit(Made(f)) + Bit(Taken(f)) + Bit(f \in files)
      /\ Made(f) \/ Taken(f) \/ f \in files
  BY DEF FenceIInv, RefInv, Made, Taken
<1>7. fence[f].ref \in Nat /\ fence[f].ref > 0 /\ Live(f) /\ (fence[f].ref = 1 \/ fence[f].ref - 1 > 0)
  BY <1>6 DEF FenceIInv, RefInv, Bit
<1>8. s \in {"pending", "ok", "error"}
  BY <1>7 DEF Live
<1>9. /\ FenceShape' /\ \A g \in Fence : FenceOK(g)'
      /\ fence'[f].ref = fence[f].ref - 1 /\ fence'[f].status = s
      /\ fence'[f].tl = fence[f].tl /\ fence'[f].seq = fence[f].seq
      /\ \A g \in Fence \ {f} : fence'[g] = fence[g]
  <2> DEFINE u == [fence[f] EXCEPT !.ref = fence[f].ref - 1, !.status = s]
  <2>1. fence' = [fence EXCEPT ![f] = u]
    BY <1>1, <1>2 DEF StateShape, FenceShape
  <2>2. IsFence(fence[f]) /\ fence[f].tl \in Timeline \cup {Null} /\ fence[f].seq \in Seqno
    BY <1>1, FenceIs
  <2>3. IsFence(u)
    BY <2>2 DEF IsFence
  <2>4. /\ u.ref = fence[f].ref - 1 /\ u.status = s /\ u.tl = fence[f].tl
        /\ u.seq = fence[f].seq
    BY <2>2 DEF IsFence, FenceFields
  <2> HIDE DEF u
  <2> QED BY <1>1, <1>8, <2>1, <2>2, <2>3, <2>4, FenceChange
<1>10. StateShape'
  <2>1. \A y \in Thread : ThreadOK(th'[y])
    BY <1>1, <1>4, <1>5 DEF StateShape
  <2>2. TlineShape' /\ ObjShape' /\ DOMAIN idr' = Timeline /\ \A t \in Timeline : TlineOK(t)'
    BY <1>1 DEF StateShape, TlineShape, ObjShape, TlineOK
  <2>3. files' \subseteq Fence /\ \A o \in Obj : obj'[o].vals \in Seq(Val)
    BY <1>1 DEF StateShape
  <2> QED BY <1>5, <1>9, <2>1, <2>2, <2>3 DEF StateShape
<1>11. LockInv'
  BY <1>3, <1>5 DEF FenceIInv, LockInv
<1>12. IdInv'
  BY <1>3, <1>5, <1>7, <1>9 DEF FenceIInv, IdInv, Live
<1>13. \A y \in Thread : th'[y].mine \subseteq th[y].mine /\ th'[y].temp \subseteq th[y].temp
  BY <1>3, <1>5
<1>14. \A y \in Thread : th[y].dying # f
  BY <1>7 DEF FenceIInv, RefInv
<1>15. OneHolder'
  <2>1. \A y, z \in Thread : th'[y].mine \cap th'[z].mine # {} => y = z
    BY <1>13 DEF FenceIInv, OneHolder
  <2>2. \A y, z \in Thread : th'[y].temp \cap th'[z].temp # {} => y = z
    BY <1>13 DEF FenceIInv, OneHolder
  <2>3. \A y, z \in Thread : th'[y].dying = th'[z].dying /\ th'[y].dying # Null => y = z
    BY <1>3, <1>5, <1>14 DEF FenceIInv, OneHolder
  <2> QED BY <2>1, <2>2, <2>3 DEF OneHolder
<1>16. FiledOnce'
  BY <1>3, <1>5 DEF FenceIInv, FiledOnce
<1>17. \A g \in Fence : Live(g) => Live(g)' /\ fence'[g].tl = fence[g].tl
  BY <1>8, <1>9 DEF Live
<1>18. ListInv'
  <2>1. \A t \in Timeline : \A g \in tline'[t].fences :
          Live(g)' /\ fence'[g].tl = t /\ \A y \in Thread : g \notin th'[y].temp
    BY <1>1, <1>13, <1>17 DEF FenceIInv, ListInv, StateShape, TlineOK
  <2>2. \A y \in Thread : \A g \in th'[y].temp : fence'[g].tl = th'[y].tl
    <3> SUFFICES ASSUME NEW y \in Thread, NEW g \in th'[y].temp
                 PROVE  fence'[g].tl = th'[y].tl
      OBVIOUS
    <3>1. g \in th[y].temp /\ fence[g].tl = th[y].tl /\ g \in Fence
      BY <1>1, <1>13 DEF FenceIInv, ListInv, StateShape, ThreadOK
    <3>2. th'[y].tl = th[y].tl
      BY <1>3, <1>5
    <3> QED BY <1>9, <3>1, <3>2
  <2> QED BY <2>1, <2>2 DEF ListInv
<1>19. \A g \in Fence \ {f} : (Made(g)' <=> Made(g)) /\ (Taken(g)' <=> Taken(g)) /\ (g \in files' <=> g \in files)
  BY <1>3, <1>5 DEF Made, Taken
<1>20. fence'[f].ref = Bit(Made(f)') + Bit(Taken(f)') + Bit(f \in files')
  <2>1. CASE /\ f \in th[x].mine /\ r.mine = th[x].mine \ {f} /\ r.temp = th[x].temp
             /\ files' = files
    <3>1. Made(f) /\ ~Made(f)'
      BY <1>3, <1>5, <2>1 DEF FenceIInv, OneHolder, Made
    <3>2. Taken(f)' <=> Taken(f)
      BY <1>3, <1>5, <2>1 DEF Taken
    <3> QED BY <1>6, <1>9, <2>1, <3>1, <3>2 DEF Bit
  <2>2. CASE /\ f \in th[x].temp /\ r.temp = th[x].temp \ {f} /\ r.mine = th[x].mine
             /\ files' = files
    <3>1. Taken(f) /\ ~Taken(f)'
      BY <1>3, <1>5, <2>2 DEF FenceIInv, OneHolder, Taken
    <3>2. Made(f)' <=> Made(f)
      BY <1>3, <1>5, <2>2 DEF Made
    <3> QED BY <1>6, <1>9, <2>2, <3>1, <3>2 DEF Bit
  <2>3. CASE f \in files /\ files' = files \ {f} /\ r.mine = th[x].mine /\ r.temp = th[x].temp
    <3>1. (Made(f)' <=> Made(f)) /\ (Taken(f)' <=> Taken(f))
      BY <1>3, <1>5, <2>3 DEF Made, Taken
    <3> QED BY <1>6, <1>9, <2>3, <3>1 DEF Bit
  <2> QED BY <2>1, <2>2, <2>3
<1>21. RefInv'
  <2> SUFFICES ASSUME NEW g \in Fence
               PROVE  /\ fence'[g].ref = Bit(Made(g)') + Bit(Taken(g)') + Bit(g \in files')
                      /\ fence'[g].ref > 0 => Live(g)'
                      /\ \A y \in Thread : th'[y].dying = g => Live(g)' /\ fence'[g].ref = 0
    BY DEF RefInv
  <2>1. CASE g = f
    <3>1. \A y \in Thread : th'[y].dying = f => fence'[f].ref = 0
      BY <1>3, <1>5, <1>7, <1>9, <1>14, TimelineAssumption
    <3> QED BY <1>7, <1>17, <1>20, <2>1, <3>1
  <2>2. CASE g # f
    <3>1. fence'[g] = fence[g] /\ (Live(g)' <=> Live(g))
      BY <1>9, <2>2 DEF Live
    <3>2. \A y \in Thread : th'[y].dying = g => th[y].dying = g
      BY <1>3, <1>5, <2>2, TimelineAssumption
    <3> QED BY <1>19, <2>2, <3>1, <3>2 DEF FenceIInv, RefInv, Bit
  <2> QED BY <2>1, <2>2
<1>22. SignalInv'
  <2> SUFFICES ASSUME NEW g \in Fence, fence'[g].status = "pending", fence'[g].ref > 0
               PROVE  (\/ /\ g \in tline[fence[g].tl].fences
                          /\ \/ fence[g].seq > tline[fence[g].tl].value
                             \/ \E y \in Thread : th[y].pc = "collect" /\ th[y].tl = fence[g].tl
                       \/ Taken(g))'
    BY DEF SignalInv
  <2>1. fence[g].status = "pending" /\ fence[g].ref > 0 /\ fence'[g].tl = fence[g].tl
        /\ fence'[g].seq = fence[g].seq
    BY <1>7, <1>9
  <2>2. Taken(g) => Taken(g)'
    BY <1>3, <1>5, <1>9, <1>19 DEF Taken
  <2>3. \A y \in Thread : th[y].pc = "collect" => th'[y] = th[y]
    BY <1>5
  <2> QED BY <2>1, <2>2, <2>3 DEF FenceIInv, SignalInv
<1> QED BY <1>10, <1>11, <1>12, <1>15, <1>16, <1>18, <1>21, <1>22 DEF FenceIInv

LEMMA InvFenceGetPut ==
  ASSUME FenceIInv, NEW x \in Thread, FenceGetPut(x)
  PROVE  FenceIInv'
<1>1. IsThread(th[x]) /\ ThreadOK(th[x])
  BY ThreadIs
<1>2. /\ th[x].pc = "got" /\ th[x].dying = Null /\ th[x].why \in {"filed", "unfiled"}
      /\ UNCHANGED <<idr, tline, files, obj>>
  BY DEF FenceGetPut, At
<1>3. PICK f \in th[x].mine : FencePut(x, [th[x] EXCEPT !.mine = {}], f, fence[f].status)
  BY DEF FenceGetPut
<1> DEFINE r == [th[x] EXCEPT !.mine = {}]
<1>4. IsThread(r)
  BY <1>1 DEF IsThread
<1>5. /\ r.pc = th[x].pc /\ r.why = th[x].why /\ r.todo = th[x].todo /\ r.tl = th[x].tl
      /\ r.mine = {} /\ r.temp = th[x].temp /\ r.dying = th[x].dying
      /\ r.o = th[x].o
  BY <1>1 DEF IsThread, ThreadFields
<1>6. FencePut(x, r, f, fence[f].status)
  BY <1>3
<1> HIDE DEF r
<1>7. f \in Fence /\ r.mine = th[x].mine \ {f}
  BY <1>1, <1>2, <1>3, <1>5 DEF ThreadOK
<1>8. ThreadOK(r)
  BY <1>1, <1>2, <1>5 DEF ThreadOK
<1> QED BY <1>2, <1>3, <1>4, <1>5, <1>6, <1>7, <1>8, PutStep

LEMMA InvUnwind ==
  ASSUME FenceIInv, NEW x \in Thread, Unwind(x)
  PROVE  FenceIInv'
<1>1. IsThread(th[x]) /\ ThreadOK(th[x]) /\ StateShape
  BY ThreadIs DEF FenceIInv
<1>2. /\ th[x].pc = "unwind" /\ th[x].dying = Null /\ UNCHANGED <<idr, tline, files, obj>>
  BY DEF Unwind, At
<1>3. CASE th[x].mine = {}
  <2>1. th' = [th EXCEPT ![x] = Idle] /\ UNCHANGED fence
    BY <1>3 DEF Unwind
  <2>2. TlineQuiet /\ ObjQuiet
    BY <1>1, <1>2, TlineSame, ObjSame
  <2> QED BY <1>2, <1>3, <2>1, <2>2, ToIdle
<1>4. CASE th[x].mine # {}
  <2>1. PICK f \in th[x].mine : FencePut(x, [th[x] EXCEPT !.mine = @ \ {f}], f, fence[f].status)
    BY <1>4 DEF Unwind
  <2> DEFINE r == [th[x] EXCEPT !.mine = th[x].mine \ {f}]
  <2>2. IsThread(r)
    BY <1>1 DEF IsThread
  <2>3. /\ r.pc = th[x].pc /\ r.why = th[x].why /\ r.todo = th[x].todo /\ r.tl = th[x].tl
        /\ r.mine = th[x].mine \ {f} /\ r.temp = th[x].temp /\ r.dying = th[x].dying
        /\ r.o = th[x].o
    BY <1>1 DEF IsThread, ThreadFields
  <2>4. FencePut(x, r, f, fence[f].status)
    BY <2>1
  <2> HIDE DEF r
  <2>5. f \in Fence
    BY <1>1 DEF ThreadOK
  <2>6. ThreadOK(r)
    BY <1>1, <1>2, <2>3 DEF ThreadOK
  <2> QED BY <1>2, <2>1, <2>2, <2>3, <2>4, <2>5, <2>6, PutStep
<1> QED BY <1>3, <1>4

LEMMA InvCloseFile ==
  ASSUME FenceIInv, NEW x \in Thread, NEW f \in Fence, CloseFile(x, f)
  PROVE  FenceIInv'
<1> DEFINE r == [Idle EXCEPT !.pc = "unwind"]
<1>1. /\ th[x].pc = "idle" /\ th[x].dying = Null /\ f \in files /\ files' = files \ {f}
      /\ FencePut(x, r, f, fence[f].status) /\ UNCHANGED <<idr, tline, obj>>
  BY DEF CloseFile, At
<1>2. IsThread(r)
  BY IdleIsThread DEF IsThread
<1>3. /\ r.pc = "unwind" /\ r.why = "none" /\ r.todo = <<>> /\ r.tl = Null /\ r.mine = {}
      /\ r.temp = {} /\ r.dying = Null /\ r.o = Null
  BY IdleIsThread, IdleFields DEF IsThread, ThreadFields
<1> HIDE DEF r
<1>4. th[x].mine = {} /\ th[x].temp = {} /\ th[x].pc \notin LockSteps
  BY <1>1, FreshThread
<1>5. ThreadOK(r)
  BY <1>3, IdleFields DEF ThreadOK, Agree, PC, ValueSteps, DestroySteps, ObjSteps
<1>6. r.pc \notin LockSteps
  BY <1>3 DEF LockSteps
<1> QED BY <1>1, <1>2, <1>3, <1>4, <1>5, <1>6, PutStep

\* A fence of the private list is signaled and put.
LEMMA InvWalkPut ==
  ASSUME FenceIInv, NEW x \in Thread, SignalFence(x) \/ DestroyFence(x)
  PROVE  FenceIInv'
<1>1. IsThread(th[x]) /\ ThreadOK(th[x])
  BY ThreadIs
<1>2. /\ th[x].pc \in {"signaling", "failing"} /\ th[x].dying = Null
      /\ UNCHANGED <<idr, tline, files, obj>>
  BY DEF SignalFence, DestroyFence, At
<1>3. PICK f \in th[x].temp, s \in {"ok", "error"} :
        FencePut(x, [th[x] EXCEPT !.temp = @ \ {f}], f, s)
  <2>1. CASE DestroyFence(x)
    BY <2>1 DEF DestroyFence
  <2>2. CASE SignalFence(x)
    <3>1. PICK f \in th[x].temp :
            FencePut(x, [th[x] EXCEPT !.temp = @ \ {f}], f,
                     IF fence[f].status = "pending" THEN "ok" ELSE fence[f].status)
      BY <2>2 DEF SignalFence
    <3>2. Taken(f) /\ f \in Fence
      BY <1>1 DEF Taken, ThreadOK
    <3>3. Live(f)
      BY <3>2 DEF FenceIInv, RefInv, Bit
    <3> DEFINE s == IF fence[f].status = "pending" THEN "ok" ELSE fence[f].status
    <3>4. s \in {"ok", "error"}
      BY <3>3 DEF Live
    <3>5. FencePut(x, [th[x] EXCEPT !.temp = @ \ {f}], f, s)
      BY <3>1
    <3> HIDE DEF s
    <3> QED BY <3>4, <3>5
  <2> QED BY <2>1, <2>2
<1> DEFINE r == [th[x] EXCEPT !.temp = th[x].temp \ {f}]
<1>4. IsThread(r)
  BY <1>1 DEF IsThread
<1>5. /\ r.pc = th[x].pc /\ r.why = th[x].why /\ r.todo = th[x].todo /\ r.tl = th[x].tl
      /\ r.mine = th[x].mine /\ r.temp = th[x].temp \ {f} /\ r.dying = th[x].dying
      /\ r.o = th[x].o
  BY <1>1 DEF IsThread, ThreadFields
<1>6. FencePut(x, r, f, s)
  BY <1>3
<1> HIDE DEF r
<1>7. f \in Fence
  BY <1>1 DEF ThreadOK
<1>8. ThreadOK(r)
  BY <1>1, <1>2, <1>5 DEF ThreadOK
<1> QED BY <1>2, <1>3, <1>4, <1>5, <1>6, <1>7, <1>8, PutStep

\* The fence is freed, and its timeline reference put.
LEMMA InvFenceRelease ==
  ASSUME FenceIInv, NEW x \in Thread, FenceRelease(x)
  PROVE  FenceIInv'
<1>1. /\ IsThread(th[x]) /\ ThreadOK(th[x]) /\ StateShape /\ ThreadShape /\ TlineShape
      /\ FenceShape
  BY ThreadIs DEF FenceIInv, StateShape
<1>2. PICK f \in Fence : f = th[x].dying
  BY <1>1 DEF ThreadOK, FenceRelease
<1>3. Live(f) /\ fence[f].ref = 0 /\ fence[f].tl \in Timeline
  BY <1>2 DEF FenceIInv, RefInv, IdInv
<1>4. PICK t \in Timeline : t = fence[f].tl
  BY <1>3
<1>5. /\ ~Made(f) /\ ~Taken(f) /\ f \notin files
      /\ fence' = [fence EXCEPT ![f].status = "freed"]
      /\ tline' = [tline EXCEPT ![t].ref = @ - 1, ![t].fences = @ \ {f}]
      /\ th' = [th EXCEPT ![x].dying = Null]
      /\ UNCHANGED <<idr, files, obj>>
  <2>1. ~Made(f) /\ ~Taken(f) /\ f \notin files
    BY <1>3 DEF FenceIInv, RefInv, Bit
  <2>2. /\ fence' = [fence EXCEPT ![f].status = "freed"]
        /\ tline' = [tline EXCEPT ![t].ref = @ - 1, ![t].fences = @ \ {f}]
        /\ th' = [th EXCEPT ![x].dying = Null]
        /\ UNCHANGED <<idr, files, obj>>
    BY <1>2, <1>4 DEF FenceRelease
  <2> QED BY <2>1, <2>2
<1>6. /\ ThreadShape' /\ \A y \in Thread \ {x} : th'[y] = th[y]
      /\ th'[x].pc = th[x].pc /\ th'[x].why = th[x].why /\ th'[x].todo = th[x].todo
      /\ th'[x].tl = th[x].tl /\ th'[x].mine = th[x].mine /\ th'[x].temp = th[x].temp
      /\ th'[x].dying = Null /\ th'[x].o = th[x].o
  <2> DEFINE r == [th[x] EXCEPT !.dying = Null]
  <2>1. IsThread(r)
    BY <1>1 DEF IsThread
  <2>2. /\ r.pc = th[x].pc /\ r.why = th[x].why /\ r.todo = th[x].todo /\ r.tl = th[x].tl
        /\ r.mine = th[x].mine /\ r.temp = th[x].temp /\ r.dying = Null
        /\ r.o = th[x].o
    BY <1>1 DEF IsThread, ThreadFields
  <2>3. th' = [th EXCEPT ![x] = r]
    BY <1>1, <1>5 DEF ThreadShape
  <2> HIDE DEF r
  <2>4. ThreadShape' /\ th'[x] = r /\ \A y \in Thread \ {x} : th'[y] = th[y]
    BY <1>1, <2>1, <2>3, ThreadSet
  <2> QED BY <2>2, <2>4
<1>7. /\ FenceShape' /\ \A g \in Fence : FenceOK(g)'
      /\ fence'[f].ref = 0 /\ fence'[f].status = "freed" /\ fence'[f].tl = t
      /\ \A g \in Fence \ {f} : fence'[g] = fence[g]
  <2> DEFINE u == [fence[f] EXCEPT !.status = "freed"]
  <2>1. fence' = [fence EXCEPT ![f] = u]
    BY <1>1, <1>5 DEF FenceShape
  <2>2. IsFence(fence[f]) /\ fence[f].tl \in Timeline \cup {Null} /\ fence[f].seq \in Seqno
    BY <1>1, FenceIs
  <2>3. IsFence(u)
    BY <2>2 DEF IsFence
  <2>4. u.ref = 0 /\ u.status = "freed" /\ u.tl = fence[f].tl /\ u.seq = fence[f].seq
    BY <1>3, <2>2 DEF IsFence, FenceFields
  <2> HIDE DEF u
  <2> QED BY <1>1, <1>4, <2>1, <2>2, <2>3, <2>4, FenceChange
<1>8. /\ TlineShape' /\ \A u \in Timeline \ {t} : tline'[u] = tline[u]
      /\ tline'[t].value = tline[t].value /\ tline'[t].lock = tline[t].lock
      /\ tline'[t].fences = tline[t].fences \ {f}
  <2> DEFINE r == [tline[t] EXCEPT !.ref = tline[t].ref - 1, !.fences = tline[t].fences \ {f}]
  <2>1. IsTline(r) /\ r.lock = tline[t].lock /\ r.value = tline[t].value
        /\ r.fences = tline[t].fences \ {f}
    BY <1>1, <1>4 DEF TlineShape, IsTline, TlineFields
  <2>2. tline' = [tline EXCEPT ![t] = r]
    BY <1>1, <1>5, <1>4 DEF TlineShape
  <2> HIDE DEF r
  <2>3. TlineShape' /\ tline'[t] = r /\ \A u \in Timeline \ {t} : tline'[u] = tline[u]
    BY <1>1, <1>4, <2>1, <2>2, TlineSet
  <2> QED BY <2>1, <2>3
<1>9. \A u \in Timeline : /\ tline'[u].value = tline[u].value /\ tline'[u].lock = tline[u].lock
                          /\ tline'[u].fences = tline[u].fences \ {f}
  <2>1. \A u \in Timeline \ {t} : f \notin tline[u].fences
    BY <1>4 DEF FenceIInv, ListInv
  <2> QED BY <1>8, <2>1
<1>10. StateShape'
  <2>1. ThreadOK(th'[x]) /\ \A y \in Thread \ {x} : ThreadOK(th'[y])
    <3>1. ThreadOK(th'[x])
      BY <1>1, <1>6 DEF ThreadOK
    <3> QED BY <1>1, <1>6, <3>1 DEF StateShape
  <2>2. ObjShape' /\ DOMAIN idr' = Timeline /\ \A u \in Timeline : TlineOK(u)'
    <3>1. ObjShape' /\ DOMAIN idr' = Timeline
      BY <1>1, <1>5 DEF StateShape, ObjShape
    <3>2. \A u \in Timeline : TlineOK(u)'
      BY <1>1, <1>9 DEF StateShape, TlineOK
    <3> QED BY <3>1, <3>2
  <2>3. files' \subseteq Fence /\ \A o \in Obj : obj'[o].vals \in Seq(Val)
    BY <1>1, <1>5 DEF StateShape
  <2> QED BY <1>6, <1>7, <1>8, <2>1, <2>2, <2>3 DEF StateShape
<1>11. LockInv' /\ FiledOnce'
  <2>1. \A y \in Thread : /\ th'[y].pc = th[y].pc /\ th'[y].tl = th[y].tl
                           /\ th'[y].why = th[y].why /\ th'[y].mine = th[y].mine
    BY <1>6
  <2>2. LockInv'
    BY <1>9, <2>1 DEF FenceIInv, LockInv
  <2>3. FiledOnce'
    BY <1>5, <2>1 DEF FenceIInv, FiledOnce
  <2> QED BY <2>2, <2>3
<1>12. \A g \in Fence : Live(g)' => g # f /\ Live(g) /\ fence'[g] = fence[g]
  BY <1>7 DEF Live
<1>13. IdInv'
  BY <1>5, <1>6, <1>12 DEF FenceIInv, IdInv
<1>14. \A y \in Thread : th'[y].mine = th[y].mine /\ th'[y].temp = th[y].temp
                         /\ (th'[y].dying # Null => th'[y].dying = th[y].dying)
  BY <1>6
<1>15. OneHolder'
  BY <1>14 DEF FenceIInv, OneHolder
<1>16. \A g \in Fence : Live(g) /\ g # f => Live(g)' /\ fence'[g] = fence[g]
  BY <1>7 DEF Live
<1>17. ListInv'
  <2>1. \A u \in Timeline : \A g \in tline'[u].fences :
          Live(g)' /\ fence'[g].tl = u /\ \A y \in Thread : g \notin th'[y].temp
    BY <1>1, <1>9, <1>14, <1>16 DEF FenceIInv, ListInv, StateShape, TlineOK
  <2>2. \A y \in Thread : \A g \in th'[y].temp : fence'[g].tl = th'[y].tl
    <3> SUFFICES ASSUME NEW y \in Thread, NEW g \in th'[y].temp
                 PROVE  fence'[g].tl = th'[y].tl
      OBVIOUS
    <3>1. g \in th[y].temp /\ fence[g].tl = th[y].tl /\ g \in Fence /\ g # f
      BY <1>1, <1>5, <1>14 DEF FenceIInv, ListInv, StateShape, ThreadOK, Taken
    <3> QED BY <1>6, <1>7, <3>1
  <2> QED BY <2>1, <2>2 DEF ListInv
<1>18. \A g \in Fence : (Made(g)' <=> Made(g)) /\ (Taken(g)' <=> Taken(g))
  BY <1>14 DEF Made, Taken
<1>19. \A y \in Thread : th'[y].dying # f
  BY <1>2, <1>6, TimelineAssumption DEF FenceIInv, OneHolder
<1>50. RefInv'
  <2> SUFFICES ASSUME NEW g \in Fence
               PROVE  /\ fence'[g].ref = Bit(Made(g)') + Bit(Taken(g)') + Bit(g \in files')
                      /\ fence'[g].ref > 0 => Live(g)'
                      /\ \A y \in Thread : th'[y].dying = g => Live(g)' /\ fence'[g].ref = 0
    BY DEF RefInv
  <2>1. CASE g = f
    BY <1>5, <1>7, <1>18, <1>19, <2>1 DEF Bit
  <2>2. CASE g # f
    <3>1. fence'[g] = fence[g] /\ (Live(g)' <=> Live(g))
      BY <1>7, <2>2 DEF Live
    <3>2. \A y \in Thread : th'[y].dying = g => th[y].dying = g
      BY <1>6, <2>2, TimelineAssumption
    <3> QED BY <1>5, <1>18, <2>2, <3>1, <3>2 DEF FenceIInv, RefInv, Bit
  <2> QED BY <2>1, <2>2
<1>51. SignalInv'
  <2> SUFFICES ASSUME NEW g \in Fence, fence'[g].status = "pending", fence'[g].ref > 0
               PROVE  (\/ /\ g \in tline[fence[g].tl].fences
                          /\ \/ fence[g].seq > tline[fence[g].tl].value
                             \/ \E y \in Thread : th[y].pc = "collect" /\ th[y].tl = fence[g].tl
                       \/ Taken(g))'
    BY DEF SignalInv
  <2>1. g # f /\ fence'[g] = fence[g] /\ fence[g].tl \in Timeline
    BY <1>7, <1>12 DEF Live, FenceIInv, IdInv
  <2>2. \A y \in Thread : th'[y].pc = th[y].pc /\ th'[y].tl = th[y].tl
    BY <1>6
  <2> QED BY <1>9, <1>18, <2>1, <2>2 DEF FenceIInv, SignalInv
<1> QED BY <1>10, <1>11, <1>13, <1>15, <1>17, <1>50, <1>51 DEF FenceIInv

-----------------------------------------------------------------------------
(* timeline->lock is taken and dropped.                                    *)

\* The lock of t, now in state q, is taken or dropped by x, now in state r.
LockMoves(x, t, q, r) ==
  /\ q.fences = tline[t].fences /\ q.value \in Seqno
  /\ \/ /\ tline[t].lock = Null /\ q.lock = x /\ r.pc \in LockSteps
        /\ q.value # tline[t].value => r.pc = "collect"
     \/ /\ tline[t].lock = x /\ q.lock = Null /\ r.pc \notin LockSteps
        /\ q.value = tline[t].value

\* Thread x, now in state r, has the fences and the timeline that it had.
Keeps(x, r) ==
  /\ r.why = th[x].why /\ r.tl = th[x].tl /\ r.mine = th[x].mine /\ r.temp = th[x].temp
  /\ r.dying = th[x].dying
  /\ th[x].pc # "collect" /\ r.pc \notin {"fence_get", "wait"} /\ r.why # "fence_get"

LEMMA LockStep ==
  ASSUME FenceIInv, NEW x \in Thread, NEW t \in Timeline, t = th[x].tl,
         NEW q, IsTline(q), tline' = [tline EXCEPT ![t] = q],
         NEW r, IsThread(r), ThreadOK(r), th' = [th EXCEPT ![x] = r],
         LockMoves(x, t, q, r), Keeps(x, r),
         UNCHANGED <<idr, fence, files, obj>>
  PROVE  FenceIInv'
<1> USE DEF LockMoves, Keeps
<1>1. /\ IsThread(th[x]) /\ ThreadOK(th[x]) /\ StateShape /\ ThreadShape /\ TlineShape
  BY ThreadIs DEF FenceIInv, StateShape
<1>2. ThreadShape' /\ th'[x] = r /\ \A y \in Thread \ {x} : th'[y] = th[y]
  BY <1>1, ThreadSet
<1>3. TlineShape' /\ tline'[t] = q /\ \A u \in Timeline \ {t} : tline'[u] = tline[u]
  BY <1>1, TlineSet
<1>4. StateShape'
  <2>1. \A y \in Thread : ThreadOK(th'[y])
    BY <1>1, <1>2 DEF StateShape
  <2>2. ObjShape' /\ FenceShape' /\ DOMAIN idr' = Timeline
    BY <1>1 DEF StateShape, ObjShape, FenceShape
  <2>3. q.lock \in Thread \cup {Null}
    OBVIOUS
  <2>4. \A u \in Timeline : TlineOK(u)'
    BY <1>1, <1>3, <2>3 DEF StateShape, TlineOK
  <2>5. /\ files' \subseteq Fence /\ \A o \in Obj : obj'[o].vals \in Seq(Val)
        /\ \A g \in Fence : FenceOK(g)'
    BY <1>1 DEF StateShape, FenceOK
  <2> QED BY <1>2, <1>3, <2>1, <2>2, <2>4, <2>5 DEF StateShape
<1>5. LockInv'
  <2>1. \A u \in Timeline : tline[u].lock = x => u = t
    BY DEF FenceIInv, LockInv
  <2> QED BY <1>2, <1>3, <2>1, TimelineAssumption DEF FenceIInv, LockInv
<1>6. \A y \in Thread : /\ th'[y].tl = th[y].tl /\ th'[y].why = th[y].why
                        /\ th'[y].mine = th[y].mine
                        /\ th'[y].temp = th[y].temp /\ th'[y].dying = th[y].dying
  BY <1>2
<1>7. IdInv' /\ FiledOnce'
  BY <1>2 DEF FenceIInv, IdInv, FiledOnce, Live
<1>8. OneHolder'
  BY <1>6 DEF FenceIInv, OneHolder
<1>9. \A u \in Timeline : tline'[u].fences = tline[u].fences
  BY <1>3
<1>10. ListInv'
  BY <1>6, <1>9 DEF FenceIInv, ListInv, Live
<1>11. \A f \in Fence : (Made(f)' <=> Made(f)) /\ (Taken(f)' <=> Taken(f))
  BY <1>6 DEF Made, Taken
<1>12. RefInv'
  BY <1>6, <1>11 DEF FenceIInv, RefInv, Bit, Live
<1>13. SignalInv'
  <2> SUFFICES ASSUME NEW f \in Fence, fence[f].status = "pending", fence[f].ref > 0
               PROVE  (\/ /\ f \in tline[fence[f].tl].fences
                          /\ \/ fence[f].seq > tline[fence[f].tl].value
                             \/ \E y \in Thread : th[y].pc = "collect" /\ th[y].tl = fence[f].tl
                       \/ Taken(f))'
    BY DEF SignalInv
  <2>1. fence[f].tl \in Timeline
    BY DEF FenceIInv, IdInv, Live
  <2>2. CASE Taken(f)
    BY <1>11, <2>2
  <2>3. CASE ~Taken(f)
    <3>1. /\ f \in tline[fence[f].tl].fences
          /\ \/ fence[f].seq > tline[fence[f].tl].value
             \/ \E y \in Thread : th[y].pc = "collect" /\ th[y].tl = fence[f].tl
      BY <2>3 DEF FenceIInv, SignalInv
    <3>2. \A y \in Thread : th[y].pc = "collect" => th'[y] = th[y]
      BY <1>2
    <3>3. tline'[fence[f].tl].value = tline[fence[f].tl].value
          \/ (th'[x].pc = "collect" /\ th'[x].tl = fence[f].tl)
      BY <1>2, <1>3
    <3> QED BY <1>9, <2>1, <3>1, <3>2, <3>3
  <2> QED BY <2>2, <2>3
<1> QED BY <1>4, <1>5, <1>7, <1>8, <1>10, <1>12, <1>13 DEF FenceIInv

\* A thread goes from one step of a signal or a destroy to another.
LEMMA WalkStep ==
  ASSUME NEW r, IsThread(r), ThreadOK(r), NEW pc,
         \/ r.pc \in {"signal", "retire"} /\ pc \in {"collect", "got"}
         \/ r.pc = "signaling" /\ pc = "got" /\ r.temp = {}
         \/ r.pc = "relock" /\ pc = "failing"
         \/ r.pc = "failing" /\ pc = "got" /\ r.temp = {},
         NEW q, q = [r EXCEPT !.pc = pc]
  PROVE  /\ IsThread(q) /\ ThreadOK(q) /\ q.pc = pc /\ q.why = r.why /\ q.tl = r.tl
         /\ q.mine = r.mine /\ q.temp = r.temp /\ q.dying = r.dying
         /\ q.why \in {"signal", "retire", "destroy"}
<1>1. IsThread(q)
  BY DEF IsThread
<1>2. /\ q.pc = pc /\ q.why = r.why /\ q.todo = r.todo /\ q.tl = r.tl /\ q.mine = r.mine
      /\ q.temp = r.temp /\ q.dying = r.dying /\ q.o = r.o
  BY DEF IsThread, ThreadFields
<1>3. r.why \in {"signal", "retire", "destroy"}
  BY DEF ThreadOK, Agree, DestroySteps
<1>4. ThreadOK(q)
  BY <1>2, <1>3 DEF ThreadOK, Agree, PC, ValueSteps, DestroySteps, ObjSteps
<1> QED BY <1>1, <1>2, <1>3, <1>4

LEMMA InvSignalValue ==
  ASSUME FenceIInv, NEW x \in Thread, SignalValue(x)
  PROVE  FenceIInv'
<1>1. /\ IsThread(th[x]) /\ ThreadOK(th[x]) /\ StateShape /\ ThreadShape /\ TlineShape
  BY ThreadIs DEF FenceIInv, StateShape
<1>2. /\ th[x].pc \in {"signal", "retire"} /\ th[x].dying = Null
      /\ UNCHANGED <<idr, fence, files, obj>>
  BY DEF SignalValue, At
<1>3. th[x].tl \in Timeline /\ th[x].todo # <<>> /\ th[x].todo \in Seq(Val)
  BY <1>1, <1>2 DEF ThreadOK, ValueSteps
<1>4. PICK t \in Timeline : t = th[x].tl
  BY <1>3
<1>5. PICK seq \in Seqno : seq = Head(th[x].todo).seq
  BY <1>3, FirstValue
<1>6. CASE th' = [th EXCEPT ![x].pc = "got"] /\ UNCHANGED tline
  <2>1. PICK pc, r : pc = "got" /\ r = [th[x] EXCEPT !.pc = pc]
    OBVIOUS
  <2>2. /\ IsThread(r) /\ ThreadOK(r) /\ r.pc = pc /\ r.why = th[x].why /\ r.tl = th[x].tl
        /\ r.mine = th[x].mine /\ r.temp = th[x].temp /\ r.dying = th[x].dying
        /\ r.why \in {"signal", "retire", "destroy"}
    BY <1>1, <1>2, <2>1, WalkStep
  <2>3. th' = [th EXCEPT ![x] = r]
    BY <1>1, <1>6, <2>1 DEF ThreadShape
  <2>4. th[x].temp = {} /\ th[x].pc \notin LockSteps /\ r.pc \notin LockSteps \cup {"fence_get", "wait"}
    BY <1>1, <1>2, <2>1, <2>2 DEF ThreadOK, LockSteps
  <2> QED BY <1>2, <1>6, <2>2, <2>3, <2>4, NextStep
<1>7. CASE /\ Unlocked(t)
           /\ tline' = [tline EXCEPT ![t].lock = x, ![t].value = seq,
                          ![t].events = SubSeq(@, RetiredPrefix(@, seq) + 1, Len(@))]
           /\ th' = [th EXCEPT ![x].pc = "collect"]
  <2>1. PICK pc, r : pc = "collect" /\ r = [th[x] EXCEPT !.pc = pc]
    OBVIOUS
  <2>2. /\ IsThread(r) /\ ThreadOK(r) /\ r.pc = pc /\ r.why = th[x].why /\ r.tl = th[x].tl
        /\ r.mine = th[x].mine /\ r.temp = th[x].temp /\ r.dying = th[x].dying
        /\ r.why \in {"signal", "retire", "destroy"}
    BY <1>1, <1>2, <2>1, WalkStep
  <2>3. th' = [th EXCEPT ![x] = r]
    BY <1>1, <1>7, <2>1 DEF ThreadShape
  <2> DEFINE E == SubSeq(tline[t].events, RetiredPrefix(tline[t].events, seq) + 1,
                         Len(tline[t].events))
             q == [tline[t] EXCEPT !.lock = x, !.value = seq, !.events = E]
  <2>4. tline' = [tline EXCEPT ![t] = q]
    BY <1>1, <1>7 DEF TlineShape, IsTline, TlineFields
  <2> HIDE DEF E
  <2>5. IsTline(q) /\ q.lock = x /\ q.value = seq /\ q.fences = tline[t].fences
    BY <1>1 DEF TlineShape, IsTline, TlineFields
  <2> HIDE DEF q
  <2>6. tline[t].lock = Null /\ r.pc \in LockSteps \ {"fence_get", "wait"} /\ r.pc = "collect"
    BY <1>7, <2>1, <2>2 DEF Unlocked, LockSteps
  <2>7. LockMoves(x, t, q, r)
    BY <2>5, <2>6 DEF LockMoves
  <2>8. Keeps(x, r)
    BY <1>2, <2>2, <2>6 DEF Keeps
  <2> QED BY <1>2, <1>4, <2>2, <2>3, <2>4, <2>5, <2>7, <2>8, LockStep
<1> QED BY <1>4, <1>5, <1>6, <1>7 DEF SignalValue

LEMMA InvUnlock ==
  ASSUME FenceIInv, NEW x \in Thread, SignalUnlock(x) \/ DestroyUnlock(x)
  PROVE  FenceIInv'
<1>1. /\ IsThread(th[x]) /\ ThreadOK(th[x]) /\ StateShape /\ ThreadShape /\ TlineShape
  BY ThreadIs DEF FenceIInv, StateShape
<1>2. /\ th[x].pc \in {"signaling", "failing"} /\ th[x].dying = Null /\ th[x].temp = {}
      /\ UNCHANGED <<idr, fence, files, obj>>
  BY DEF SignalUnlock, DestroyUnlock, At
<1>3. PICK t \in Timeline : t = th[x].tl
  BY <1>1, <1>2 DEF ThreadOK, ValueSteps, DestroySteps
<1>4. tline' = [tline EXCEPT ![t].lock = Null] /\ th' = [th EXCEPT ![x].pc = "got"]
  BY <1>3 DEF SignalUnlock, DestroyUnlock
<1>5. PICK pc, r : pc = "got" /\ r = [th[x] EXCEPT !.pc = pc]
  OBVIOUS
<1>6. /\ IsThread(r) /\ ThreadOK(r) /\ r.pc = pc /\ r.why = th[x].why /\ r.tl = th[x].tl
      /\ r.mine = th[x].mine /\ r.temp = th[x].temp /\ r.dying = th[x].dying
      /\ r.why \in {"signal", "retire", "destroy"}
  BY <1>1, <1>2, <1>5, WalkStep
<1>7. th' = [th EXCEPT ![x] = r]
  BY <1>1, <1>4, <1>5 DEF ThreadShape
<1> DEFINE q == [tline[t] EXCEPT !.lock = Null]
<1>8. tline' = [tline EXCEPT ![t] = q]
  BY <1>1, <1>4 DEF TlineShape
<1>9. IsTline(q) /\ q.lock = Null /\ q.value = tline[t].value /\ q.fences = tline[t].fences
  BY <1>1 DEF TlineShape, IsTline, TlineFields
<1> HIDE DEF q
<1>10. tline[t].lock = x /\ q.value \in Seqno
  BY <1>1, <1>2, <1>3, <1>9 DEF FenceIInv, LockInv, LockSteps, StateShape, TlineOK
<1>11. th[x].pc # "collect" /\ r.pc \notin LockSteps \cup {"fence_get", "wait"}
  BY <1>2, <1>5, <1>6 DEF LockSteps
<1>12. LockMoves(x, t, q, r)
  BY <1>9, <1>10, <1>11 DEF LockMoves
<1>13. Keeps(x, r)
  BY <1>6, <1>11 DEF Keeps
<1> QED BY <1>2, <1>3, <1>6, <1>7, <1>8, <1>9, <1>12, <1>13, LockStep

LEMMA InvDestroyLock ==
  ASSUME FenceIInv, NEW x \in Thread, DestroyLock(x)
  PROVE  FenceIInv'
<1>1. /\ IsThread(th[x]) /\ ThreadOK(th[x]) /\ StateShape /\ ThreadShape /\ TlineShape
  BY ThreadIs DEF FenceIInv, StateShape
<1>2. /\ th[x].pc = "relock" /\ th[x].dying = Null
      /\ UNCHANGED <<idr, fence, files, obj>>
  BY DEF DestroyLock, At
<1>3. PICK t \in Timeline : t = th[x].tl
  BY <1>1, <1>2 DEF ThreadOK, ValueSteps, DestroySteps
<1>4. /\ tline' = [tline EXCEPT ![t].lock = x] /\ th' = [th EXCEPT ![x].pc = "failing"]
      /\ tline[t].lock = Null
  BY <1>3 DEF DestroyLock, Unlocked
<1>5. PICK pc, r : pc = "failing" /\ r = [th[x] EXCEPT !.pc = pc]
  OBVIOUS
<1>6. /\ IsThread(r) /\ ThreadOK(r) /\ r.pc = pc /\ r.why = th[x].why /\ r.tl = th[x].tl
      /\ r.mine = th[x].mine /\ r.temp = th[x].temp /\ r.dying = th[x].dying
      /\ r.why \in {"signal", "retire", "destroy"}
  BY <1>1, <1>2, <1>5, WalkStep
<1>7. th' = [th EXCEPT ![x] = r]
  BY <1>1, <1>4, <1>5 DEF ThreadShape
<1> DEFINE q == [tline[t] EXCEPT !.lock = x]
<1>8. tline' = [tline EXCEPT ![t] = q]
  BY <1>1, <1>4 DEF TlineShape
<1>9. IsTline(q) /\ q.lock = x /\ q.value = tline[t].value /\ q.fences = tline[t].fences
  BY <1>1 DEF TlineShape, IsTline, TlineFields
<1> HIDE DEF q
<1>10. q.value \in Seqno
  BY <1>1, <1>9 DEF StateShape, TlineOK
<1>11. th[x].pc # "collect" /\ r.pc \in LockSteps \ {"fence_get", "wait"}
  BY <1>2, <1>5, <1>6 DEF LockSteps
<1>12. LockMoves(x, t, q, r)
  BY <1>4, <1>9, <1>10, <1>11 DEF LockMoves
<1>13. Keeps(x, r)
  BY <1>6, <1>11 DEF Keeps
<1> QED BY <1>2, <1>3, <1>6, <1>7, <1>8, <1>9, <1>12, <1>13, LockStep

\* The fences in F gain a reference each, and nothing else changes in them.
LEMMA FencesGot ==
  ASSUME StateShape, NEW F, F \subseteq Fence, fence' = FencesGet(F)
  PROVE  /\ FenceShape' /\ \A g \in Fence : FenceOK(g)'
         /\ \A g \in Fence : /\ fence'[g].tl = fence[g].tl /\ fence'[g].seq = fence[g].seq
                             /\ fence'[g].status = fence[g].status
         /\ \A g \in F : fence'[g].ref = fence[g].ref + 1
         /\ \A g \in Fence \ F : fence'[g].ref = fence[g].ref
<1>1. \A g \in Fence : fence'[g] = IF g \in F THEN [fence[g] EXCEPT !.ref = @ + 1] ELSE fence[g]
  BY DEF FencesGet
<1>2. \A g \in Fence : IsFence(fence[g])
  BY DEF StateShape, FenceShape
<1>3. \A g \in F : /\ IsFence(fence'[g]) /\ fence'[g].ref = fence[g].ref + 1
                   /\ fence'[g].tl = fence[g].tl /\ fence'[g].seq = fence[g].seq
                   /\ fence'[g].status = fence[g].status
  BY <1>1, <1>2 DEF IsFence, FenceFields
<1>4. \A g \in Fence \ F : fence'[g] = fence[g]
  BY <1>1
<1>5. DOMAIN fence' = Fence /\ fence' = [g \in Fence |-> fence'[g]]
  BY DEF FencesGet
<1>6. FenceShape'
  BY <1>2, <1>3, <1>4, <1>5 DEF FenceShape
<1>7. \A g \in Fence : /\ fence'[g].tl = fence[g].tl /\ fence'[g].seq = fence[g].seq
                       /\ fence'[g].status = fence[g].status
  BY <1>3, <1>4
<1>8. \A g \in Fence : FenceOK(g)'
  BY <1>7 DEF StateShape, FenceOK
<1> QED BY <1>3, <1>4, <1>6, <1>7, <1>8

\* Thread x moves the fences in F from the active list of t to its private
\* list; what else it drops from the active list has no reference left.
LEMMA TakeStep ==
  ASSUME FenceIInv, NEW x \in Thread, NEW t \in Timeline, t = th[x].tl,
         NEW F, F \subseteq tline[t].fences, \A f \in F : fence[f].ref > 0,
         fence' = FencesGet(F),
         NEW q, IsTline(q), tline' = [tline EXCEPT ![t] = q], q.value = tline[t].value,
         q.lock = tline[t].lock, q.fences \subseteq tline[t].fences \ F,
         \A f \in tline[t].fences : f \in q.fences \/ f \in F \/ fence[f].ref = 0,
         NEW r, IsThread(r), ThreadOK(r), th' = [th EXCEPT ![x] = r],
         r.tl = th[x].tl, r.mine = th[x].mine, r.dying = th[x].dying,
         th[x].temp = {}, r.temp = F,
         r.pc \in LockSteps <=> th[x].pc \in LockSteps,
         r.pc \notin {"fence_get", "wait", "got"},
         th[x].pc = "collect" =>
           \A f \in q.fences : fence[f].ref > 0 => fence[f].seq > tline[t].value,
         UNCHANGED <<idr, files, obj>>
  PROVE  FenceIInv'
<1>1. /\ IsThread(th[x]) /\ ThreadOK(th[x]) /\ StateShape /\ ThreadShape /\ TlineShape
  BY ThreadIs DEF FenceIInv, StateShape
<1>2. ThreadShape' /\ th'[x] = r /\ \A y \in Thread \ {x} : th'[y] = th[y]
  BY <1>1, ThreadSet
<1>3. TlineShape' /\ tline'[t] = q /\ \A u \in Timeline \ {t} : tline'[u] = tline[u]
  BY <1>1, TlineSet
<1>4. F \subseteq Fence
  BY <1>1 DEF StateShape, TlineOK
<1>5. /\ FenceShape' /\ \A g \in Fence : FenceOK(g)'
      /\ \A g \in Fence : /\ fence'[g].tl = fence[g].tl /\ fence'[g].seq = fence[g].seq
                          /\ fence'[g].status = fence[g].status
      /\ \A g \in F : fence'[g].ref = fence[g].ref + 1
      /\ \A g \in Fence \ F : fence'[g].ref = fence[g].ref
  BY <1>1, <1>4, FencesGot
<1>6. \A y \in Thread : /\ th'[y].tl = th[y].tl /\ th'[y].mine = th[y].mine
                        /\ th'[y].dying = th[y].dying
                        /\ th'[y].pc \in LockSteps <=> th[y].pc \in LockSteps
  BY <1>2
<1>7. \A u \in Timeline : /\ tline'[u].value = tline[u].value /\ tline'[u].lock = tline[u].lock
                          /\ tline'[u].fences \subseteq tline[u].fences
  BY <1>3
<1>8. \A f \in Fence : (Live(f)' <=> Live(f)) /\ (Made(f)' <=> Made(f))
  BY <1>5, <1>6 DEF Live, Made
<1>9. StateShape'
  <2>1. \A y \in Thread : ThreadOK(th'[y])
    BY <1>1, <1>2 DEF StateShape
  <2>2. ObjShape' /\ DOMAIN idr' = Timeline
    BY <1>1 DEF StateShape, ObjShape
  <2>3. \A u \in Timeline : TlineOK(u)'
    BY <1>1, <1>7 DEF StateShape, TlineOK
  <2>4. files' \subseteq Fence /\ \A o \in Obj : obj'[o].vals \in Seq(Val)
    BY <1>1 DEF StateShape
  <2> QED BY <1>2, <1>3, <1>5, <2>1, <2>2, <2>3, <2>4 DEF StateShape
<1>10. LockInv'
  BY <1>6, <1>7 DEF FenceIInv, LockInv
<1>11. IdInv'
  BY <1>2, <1>5, <1>8 DEF FenceIInv, IdInv
<1>12. \A f \in F : f \in Fence /\ fence[f].tl = t /\ Live(f) /\ \A y \in Thread : f \notin th[y].temp
  BY <1>4 DEF FenceIInv, ListInv
<1>13. OneHolder'
  <2> SUFFICES ASSUME NEW y \in Thread, NEW z \in Thread
               PROVE  /\ th'[y].mine \cap th'[z].mine # {} => y = z
                      /\ th'[y].temp \cap th'[z].temp # {} => y = z
                      /\ th'[y].dying = th'[z].dying /\ th'[y].dying # Null => y = z
    BY DEF OneHolder
  <2>1. /\ th'[y].mine \cap th'[z].mine # {} => y = z
        /\ th'[y].dying = th'[z].dying /\ th'[y].dying # Null => y = z
    BY <1>6 DEF FenceIInv, OneHolder
  <2>2. th'[y].temp \cap th'[z].temp # {} => y = z
    BY <1>2, <1>12 DEF FenceIInv, OneHolder
  <2> QED BY <2>1, <2>2
<1>14. FiledOnce'
  BY <1>2 DEF FenceIInv, FiledOnce
<1>15. ListInv'
  <2>1. ASSUME NEW u \in Timeline, NEW f \in tline'[u].fences
        PROVE  Live(f)' /\ fence'[f].tl = u /\ \A y \in Thread : f \notin th'[y].temp
    <3>1. /\ f \in tline[u].fences /\ f \in Fence /\ Live(f) /\ fence[f].tl = u
          /\ \A y \in Thread : f \notin th[y].temp
      BY <1>1, <1>7, <2>1 DEF FenceIInv, ListInv, StateShape, TlineOK
    <3>2. f \notin F
      BY <1>3, <1>12, <2>1, <3>1
    <3> QED BY <1>2, <1>5, <1>8, <3>1, <3>2
  <2>2. ASSUME NEW y \in Thread, NEW f \in th'[y].temp
        PROVE  fence'[f].tl = th'[y].tl
    <3>1. \A z \in Thread : th[z].temp \subseteq Fence
      BY <1>1 DEF StateShape, ThreadOK
    <3> QED BY <1>2, <1>4, <1>5, <1>6, <1>12, <2>2, <3>1 DEF FenceIInv, ListInv
  <2> QED BY <2>1, <2>2 DEF ListInv
<1>16. \A f \in Fence : Taken(f)' <=> Taken(f) \/ f \in F
  BY <1>2 DEF Taken
<1>17. \A f \in F : ~Taken(f)
  BY <1>12 DEF Taken
<1>18. RefInv'
  <2> SUFFICES ASSUME NEW f \in Fence
               PROVE  /\ fence'[f].ref = Bit(Made(f)') + Bit(Taken(f)') + Bit(f \in files')
                      /\ fence'[f].ref > 0 => Live(f)'
                      /\ \A y \in Thread : th'[y].dying = f => Live(f)' /\ fence'[f].ref = 0
    BY DEF RefInv, Bit
  <2>1. /\ fence[f].ref = Bit(Made(f)) + Bit(Taken(f)) + Bit(f \in files)
        /\ fence[f].ref > 0 => Live(f)
        /\ \A y \in Thread : th[y].dying = f => Live(f) /\ fence[f].ref = 0
    BY DEF FenceIInv, RefInv
  <2>2. CASE f \in F
    <3>1. fence[f].ref > 0 /\ Live(f) /\ fence'[f].ref = fence[f].ref + 1
      BY <1>5, <1>12, <2>2
    <3>2. \A y \in Thread : th'[y].dying # f
      BY <1>6, <2>1, <3>1
    <3>3. fence'[f].ref = Bit(Made(f)') + Bit(Taken(f)') + Bit(f \in files')
      BY <1>8, <1>16, <1>17, <2>1, <2>2, <3>1 DEF Bit
    <3> QED BY <1>8, <3>1, <3>2, <3>3
  <2>3. CASE f \notin F
    <3>1. fence'[f].ref = fence[f].ref /\ (Taken(f)' <=> Taken(f))
      BY <1>5, <1>16, <2>3
    <3>2. fence'[f].ref = Bit(Made(f)') + Bit(Taken(f)') + Bit(f \in files')
      BY <1>8, <2>1, <3>1 DEF Bit
    <3> QED BY <1>6, <1>8, <2>1, <3>1, <3>2
  <2> QED BY <2>2, <2>3
<1>19. SignalInv'
  <2> SUFFICES ASSUME NEW f \in Fence, fence'[f].status = "pending", fence'[f].ref > 0
               PROVE  \/ /\ f \in tline'[fence'[f].tl].fences
                         /\ \/ fence'[f].seq > tline'[fence'[f].tl].value
                            \/ \E y \in Thread : th'[y].pc = "collect" /\ th'[y].tl = fence'[f].tl
                      \/ Taken(f)'
    BY DEF SignalInv
  <2>1. CASE f \in F
    BY <1>16, <2>1
  <2>2. CASE f \notin F
    <3>1. fence[f].status = "pending" /\ fence[f].ref > 0 /\ fence[f].tl \in Timeline
      BY <1>5, <2>2 DEF FenceIInv, IdInv, Live
    <3>2. CASE Taken(f)
      BY <1>16, <3>2
    <3>3. CASE ~Taken(f)
      <4>1. /\ f \in tline[fence[f].tl].fences
            /\ \/ fence[f].seq > tline[fence[f].tl].value
               \/ \E y \in Thread : th[y].pc = "collect" /\ th[y].tl = fence[f].tl
        BY <3>1, <3>3 DEF FenceIInv, SignalInv
      <4>2. f \in tline'[fence[f].tl].fences
        BY <1>3, <2>2, <3>1, <4>1
      <4>3. fence[f].tl = t /\ th[x].pc = "collect" => fence[f].seq > tline[t].value
        BY <1>3, <3>1, <4>2
      <4>4. \/ fence[f].seq > tline[fence[f].tl].value
            \/ \E y \in Thread : th'[y].pc = "collect" /\ th'[y].tl = fence[f].tl
        BY <1>2, <4>1, <4>3
      <4> QED BY <1>5, <1>7, <3>1, <4>2, <4>4
    <3> QED BY <3>2, <3>3
  <2> QED BY <2>1, <2>2
<1> QED BY <1>9, <1>10, <1>11, <1>13, <1>14, <1>15, <1>18, <1>19 DEF FenceIInv

LEMMA InvSignalCollect ==
  ASSUME FenceIInv, NEW x \in Thread, SignalCollect(x)
  PROVE  FenceIInv'
<1>1. /\ IsThread(th[x]) /\ ThreadOK(th[x]) /\ StateShape /\ ThreadShape /\ TlineShape
  BY ThreadIs DEF FenceIInv, StateShape
<1>2. /\ th[x].pc = "collect" /\ th[x].dying = Null /\ UNCHANGED <<idr, files, obj>>
  BY DEF SignalCollect, At
<1>3. PICK t \in Timeline : t = th[x].tl
  BY <1>1, <1>2 DEF ThreadOK, ValueSteps
<1>4. PICK F : F = {f \in tline[t].fences : Reached(t, fence[f].seq) /\ fence[f].ref > 0}
  OBVIOUS
<1>5. /\ fence' = FencesGet(F)
      /\ tline' = [tline EXCEPT ![t].fences = @ \ F]
      /\ th' = [th EXCEPT ![x].pc = "signaling", ![x].temp = F]
  BY <1>3, <1>4 DEF SignalCollect
<1>6. tline[t].fences \subseteq Fence /\ tline[t].value \in Seqno
  BY <1>1 DEF StateShape, TlineOK
<1>7. /\ F \subseteq tline[t].fences /\ \A f \in F : fence[f].ref > 0
      /\ \A f \in tline[t].fences \ F : fence[f].ref > 0 => fence[f].seq > tline[t].value
  <2>1. \A f \in tline[t].fences : fence[f].seq \in Seqno
    BY <1>1, <1>6, FenceIs
  <2> QED BY <1>4, <1>6, <2>1, TimelineAssumption DEF Reached, Seqno
<1> DEFINE q == [tline[t] EXCEPT !.fences = tline[t].fences \ F]
           r == [th[x] EXCEPT !.pc = "signaling", !.temp = F]
<1>8. tline' = [tline EXCEPT ![t] = q]
  BY <1>1, <1>5 DEF TlineShape
<1>9. th' = [th EXCEPT ![x] = r]
  BY <1>1, <1>5 DEF ThreadShape
<1>10. /\ IsTline(q) /\ q.value = tline[t].value /\ q.lock = tline[t].lock
       /\ q.fences = tline[t].fences \ F
  BY <1>1 DEF TlineShape, IsTline, TlineFields
<1>11. /\ IsThread(r) /\ r.pc = "signaling" /\ r.why = th[x].why /\ r.todo = th[x].todo
       /\ r.tl = th[x].tl /\ r.mine = th[x].mine /\ r.temp = F /\ r.dying = th[x].dying
       /\ r.o = th[x].o
  BY <1>1 DEF IsThread, ThreadFields
<1> HIDE DEF q, r
<1>12. th[x].why \in {"signal", "retire"} /\ th[x].mine = {} /\ th[x].temp = {}
  BY <1>1, <1>2 DEF ThreadOK, Agree
<1>13. ThreadOK(r)
  BY <1>1, <1>2, <1>6, <1>7, <1>11, <1>12 DEF ThreadOK, Agree, PC, ValueSteps, DestroySteps, ObjSteps
<1>14. /\ q.fences \subseteq tline[t].fences \ F
       /\ \A f \in tline[t].fences : f \in q.fences \/ f \in F \/ fence[f].ref = 0
       /\ \A f \in q.fences : fence[f].ref > 0 => fence[f].seq > tline[t].value
  BY <1>7, <1>10
<1>15. /\ r.pc \in LockSteps <=> th[x].pc \in LockSteps
       /\ r.pc \notin {"fence_get", "wait", "got"}
  BY <1>2, <1>11 DEF LockSteps
<1>16. /\ q.value = tline[t].value /\ q.lock = tline[t].lock /\ IsTline(q)
       /\ IsThread(r) /\ r.tl = th[x].tl /\ r.mine = th[x].mine /\ r.temp = F
       /\ r.dying = th[x].dying /\ th[x].temp = {}
  BY <1>10, <1>11, <1>12
<1>17. fence' = FencesGet(F) /\ UNCHANGED <<idr, files, obj>>
  BY <1>2, <1>5
<1> QED BY <1>3, <1>7, <1>8, <1>9, <1>13, <1>14, <1>15, <1>16, <1>17, TakeStep, ZenonT(60)

LEMMA InvDestroySteal ==
  ASSUME FenceIInv, NEW x \in Thread, DestroySteal(x)
  PROVE  FenceIInv'
<1>1. /\ IsThread(th[x]) /\ ThreadOK(th[x]) /\ StateShape /\ ThreadShape /\ TlineShape
  BY ThreadIs DEF FenceIInv, StateShape
<1>2. /\ th[x].pc = "steal" /\ th[x].dying = Null /\ UNCHANGED <<idr, files, obj>>
  BY DEF DestroySteal, At
<1>3. PICK t \in Timeline : t = th[x].tl
  BY <1>1, <1>2 DEF ThreadOK, ValueSteps, DestroySteps
<1>4. PICK F : F = {f \in tline[t].fences : fence[f].ref > 0}
  OBVIOUS
<1>5. /\ fence' = FencesGet(F)
      /\ tline' = [tline EXCEPT ![t].fences = {}]
      /\ th' = [th EXCEPT ![x].pc = "relock", ![x].temp = F]
  BY <1>3, <1>4 DEF DestroySteal
<1>6. tline[t].fences \subseteq Fence
  BY <1>1 DEF StateShape, TlineOK
<1>7. /\ F \subseteq tline[t].fences /\ \A f \in F : fence[f].ref > 0
      /\ \A f \in tline[t].fences \ F : fence[f].ref = 0
  <2>1. \A f \in tline[t].fences : fence[f].ref = 0 \/ fence[f].ref > 0
    BY <1>6 DEF FenceIInv, RefInv, Bit
  <2> QED BY <1>4, <2>1
<1> DEFINE q == [tline[t] EXCEPT !.fences = {}]
           r == [th[x] EXCEPT !.pc = "relock", !.temp = F]
<1>8. tline' = [tline EXCEPT ![t] = q]
  BY <1>1, <1>5 DEF TlineShape
<1>9. th' = [th EXCEPT ![x] = r]
  BY <1>1, <1>5 DEF ThreadShape
<1>10. /\ IsTline(q) /\ q.value = tline[t].value /\ q.lock = tline[t].lock
       /\ q.fences = {}
  BY <1>1 DEF TlineShape, IsTline, TlineFields
<1>11. /\ IsThread(r) /\ r.pc = "relock" /\ r.why = th[x].why /\ r.todo = th[x].todo
       /\ r.tl = th[x].tl /\ r.mine = th[x].mine /\ r.temp = F /\ r.dying = th[x].dying
       /\ r.o = th[x].o
  BY <1>1 DEF IsThread, ThreadFields
<1> HIDE DEF q, r
<1>12. th[x].why = "destroy" /\ th[x].mine = {} /\ th[x].temp = {}
  BY <1>1, <1>2 DEF ThreadOK, Agree, DestroySteps
<1>13. ThreadOK(r)
  BY <1>1, <1>2, <1>6, <1>7, <1>11, <1>12 DEF ThreadOK, Agree, PC, ValueSteps, DestroySteps, ObjSteps
<1>14. /\ q.fences \subseteq tline[t].fences \ F
       /\ \A f \in tline[t].fences : f \in q.fences \/ f \in F \/ fence[f].ref = 0
       /\ th[x].pc # "collect"
  BY <1>2, <1>7, <1>10
<1>15. /\ r.pc \in LockSteps <=> th[x].pc \in LockSteps
       /\ r.pc \notin {"fence_get", "wait", "got"}
  BY <1>2, <1>11 DEF LockSteps
<1>16. /\ q.value = tline[t].value /\ q.lock = tline[t].lock /\ IsTline(q)
       /\ IsThread(r) /\ r.tl = th[x].tl /\ r.mine = th[x].mine /\ r.temp = F
       /\ r.dying = th[x].dying /\ th[x].temp = {}
  BY <1>10, <1>11, <1>12
<1>17. fence' = FencesGet(F) /\ UNCHANGED <<idr, files, obj>>
  BY <1>2, <1>5
<1> QED BY <1>3, <1>7, <1>8, <1>9, <1>13, <1>14, <1>15, <1>16, <1>17, TakeStep, ZenonT(60)

LEMMA InvFencePoll ==
  ASSUME FenceIInv, NEW f \in Fence, FencePoll(f)
  PROVE  FenceIInv'
<1>1. StateShape /\ UNCHANGED <<idr, tline, files, obj, th>> /\ fence[f].status = "pending"
  BY DEF FenceIInv, FencePoll
<1> DEFINE r == [fence[f] EXCEPT !.status = "ok"]
<1>2. fence' = [fence EXCEPT ![f] = r]
  BY <1>1 DEF FencePoll, StateShape, FenceShape
<1>3. /\ IsFence(r) /\ r.tl = fence[f].tl /\ r.seq = fence[f].seq /\ r.ref = fence[f].ref
      /\ r.status = "ok"
  BY <1>1, FenceIs DEF IsFence, FenceFields
<1> HIDE DEF r
<1>4. r.tl \in Timeline \cup {Null} /\ r.seq \in Seqno
  BY <1>1, <1>3, FenceIs
<1>5. /\ FenceShape' /\ \A g \in Fence : FenceOK(g)'
      /\ fence'[f] = r /\ \A g \in Fence \ {f} : fence'[g] = fence[g]
  BY <1>1, <1>2, <1>3, <1>4, FenceChange
<1>6. /\ \A g \in Fence : /\ fence'[g].tl = fence[g].tl /\ fence'[g].seq = fence[g].seq
                          /\ fence'[g].ref = fence[g].ref
                          /\ fence'[g].status = "pending" => fence[g].status = "pending"
  BY <1>3, <1>5
<1>7. \A g \in Fence : (Live(g)' <=> Live(g)) /\ (Made(g)' <=> Made(g)) /\ (Taken(g)' <=> Taken(g))
  BY <1>1, <1>3, <1>5 DEF Live, Made, Taken
<1>8. StateShape'
  BY <1>1, <1>5 DEF StateShape, TlineShape, ObjShape, ThreadShape, TlineOK
<1>9. LockInv' /\ OneHolder' /\ FiledOnce'
  BY <1>1 DEF FenceIInv, LockInv, OneHolder, FiledOnce
<1>10. IdInv'
  BY <1>1, <1>6, <1>7 DEF FenceIInv, IdInv
<1>11. ListInv'
  <2>1. /\ \A t \in Timeline : tline[t].fences \subseteq Fence
        /\ \A x \in Thread : th[x].temp \subseteq Fence
    BY <1>1 DEF StateShape, TlineOK, ThreadOK
  <2> QED BY <1>1, <1>6, <1>7, <2>1 DEF FenceIInv, ListInv
<1>12. RefInv'
  BY <1>1, <1>6, <1>7 DEF FenceIInv, RefInv, Bit
<1>13. SignalInv'
  BY <1>1, <1>6, <1>7 DEF FenceIInv, SignalInv
<1> QED BY <1>8, <1>9, <1>10, <1>11, <1>12, <1>13 DEF FenceIInv

LEMMA InvFenceGetFile ==
  ASSUME FenceIInv, NEW x \in Thread, FenceGetFile(x)
  PROVE  FenceIInv'
<1>1. /\ IsThread(th[x]) /\ ThreadOK(th[x]) /\ StateShape /\ ThreadShape
  BY ThreadIs DEF FenceIInv, StateShape
<1>2. /\ th[x].pc = "got" /\ th[x].why = "fence_get" /\ th[x].dying = Null
      /\ UNCHANGED <<idr, tline, obj>>
  BY DEF FenceGetFile, At
<1>3. CASE th' = [th EXCEPT ![x].why = "unfiled"] /\ UNCHANGED <<files, fence>>
  <2>1. th' = [th EXCEPT ![x].pc = "got", ![x].why = "unfiled"]
    BY <1>1, <1>2, <1>3 DEF ThreadShape, IsThread, ThreadFields
  <2> QED BY <1>2, <1>3, <2>1, InvNoFence
<1>4. CASE /\ files' = files \cup th[x].mine
           /\ fence' = FencesGet(th[x].mine)
           /\ th' = [th EXCEPT ![x].why = "filed"]
  <2>1. PICK F : F = th[x].mine
    OBVIOUS
  <2>2. F \subseteq Fence /\ F \cap files = {} /\ th[x].temp = {}
    BY <1>1, <1>2, <2>1 DEF ThreadOK, FenceIInv, FiledOnce
  <2>3. /\ FenceShape' /\ \A g \in Fence : FenceOK(g)'
        /\ \A g \in Fence : /\ fence'[g].tl = fence[g].tl /\ fence'[g].seq = fence[g].seq
                            /\ fence'[g].status = fence[g].status
        /\ \A g \in F : fence'[g].ref = fence[g].ref + 1
        /\ \A g \in Fence \ F : fence'[g].ref = fence[g].ref
    BY <1>1, <1>4, <2>1, <2>2, FencesGot
  <2> DEFINE r == [th[x] EXCEPT !.why = "filed"]
  <2>4. th' = [th EXCEPT ![x] = r]
    BY <1>1, <1>4 DEF ThreadShape
  <2>5. /\ IsThread(r) /\ r.pc = "got" /\ r.why = "filed" /\ r.todo = th[x].todo
        /\ r.tl = th[x].tl /\ r.mine = F /\ r.temp = th[x].temp /\ r.dying = th[x].dying
        /\ r.o = th[x].o
    BY <1>1, <1>2, <2>1 DEF IsThread, ThreadFields
  <2> HIDE DEF r
  <2>6. ThreadOK(r)
    BY <1>1, <1>2, <2>1, <2>2, <2>5 DEF ThreadOK, Agree, PC, ValueSteps, DestroySteps, ObjSteps
  <2>7. ThreadShape' /\ th'[x] = r /\ \A y \in Thread \ {x} : th'[y] = th[y]
    BY <1>1, <2>4, <2>5, ThreadSet
  <2>8. \A y \in Thread : /\ th'[y].pc = th[y].pc /\ th'[y].tl = th[y].tl
                          /\ th'[y].mine = th[y].mine /\ th'[y].temp = th[y].temp
                          /\ th'[y].dying = th[y].dying
    BY <1>2, <2>1, <2>5, <2>7
  <2>9. \A g \in Fence : (Live(g)' <=> Live(g)) /\ (Made(g)' <=> Made(g)) /\ (Taken(g)' <=> Taken(g))
    BY <2>3, <2>8 DEF Live, Made, Taken
  <2>10. files' = files \cup F
    BY <1>4, <2>1
  <2>11. StateShape'
    <3>1. \A y \in Thread : ThreadOK(th'[y])
      BY <1>1, <2>6, <2>7 DEF StateShape
    <3>2. TlineShape' /\ ObjShape' /\ DOMAIN idr' = Timeline
      BY <1>1, <1>2 DEF StateShape, TlineShape, ObjShape
    <3>3. \A u \in Timeline : TlineOK(u)'
      BY <1>1, <1>2 DEF StateShape, TlineOK
    <3>4. files' \subseteq Fence /\ \A o \in Obj : obj'[o].vals \in Seq(Val)
      BY <1>1, <1>2, <2>2, <2>10 DEF StateShape
    <3> QED BY <2>3, <2>7, <3>1, <3>2, <3>3, <3>4 DEF StateShape
  <2>12. LockInv' /\ OneHolder'
    BY <1>2, <2>8 DEF FenceIInv, LockInv, OneHolder
  <2>13. IdInv'
    BY <1>2, <2>3, <2>8, <2>9 DEF FenceIInv, IdInv
  <2>14. FiledOnce'
    <3> SUFFICES ASSUME NEW y \in Thread, th'[y].pc = "got", th'[y].why = "fence_get"
                 PROVE  th'[y].mine \cap files' = {}
      BY DEF FiledOnce
    <3>1. y # x
      BY <2>5, <2>7
    <3>2. th[y].mine \cap files = {} /\ th[y].mine \cap F = {}
      BY <2>1, <2>7, <3>1 DEF FenceIInv, FiledOnce, OneHolder
    <3> QED BY <2>8, <2>10, <3>2
  <2>15. ListInv'
    <3>1. /\ \A t \in Timeline : tline[t].fences \subseteq Fence
          /\ \A y \in Thread : th[y].temp \subseteq Fence
      BY <1>1 DEF StateShape, TlineOK, ThreadOK
    <3> QED BY <1>2, <2>3, <2>8, <2>9, <3>1 DEF FenceIInv, ListInv
  <2>16. \A g \in F : Made(g)
    BY <2>1 DEF Made
  <2>17. RefInv'
    <3> SUFFICES ASSUME NEW g \in Fence
                 PROVE  /\ fence'[g].ref = Bit(Made(g)') + Bit(Taken(g)') + Bit(g \in files')
                        /\ fence'[g].ref > 0 => Live(g)'
                        /\ \A y \in Thread : th'[y].dying = g => Live(g)' /\ fence'[g].ref = 0
      BY DEF RefInv, Bit
    <3>1. /\ fence[g].ref = Bit(Made(g)) + Bit(Taken(g)) + Bit(g \in files)
          /\ fence[g].ref > 0 => Live(g)
          /\ \A y \in Thread : th[y].dying = g => Live(g) /\ fence[g].ref = 0
      BY DEF FenceIInv, RefInv
    <3>2. CASE g \in F
      <4>1. Made(g) /\ g \notin files /\ g \in files' /\ fence'[g].ref = fence[g].ref + 1
        BY <2>2, <2>3, <2>10, <2>16, <3>2
      <4>2. fence[g].ref > 0
        BY <3>1, <4>1 DEF Bit
      <4>3. \A y \in Thread : th'[y].dying # g
        BY <2>8, <3>1, <4>2
      <4>4. fence'[g].ref = Bit(Made(g)') + Bit(Taken(g)') + Bit(g \in files')
        BY <2>9, <3>1, <4>1 DEF Bit
      <4> QED BY <2>9, <3>1, <4>2, <4>3, <4>4
    <3>3. CASE g \notin F
      <4>1. fence'[g].ref = fence[g].ref /\ (g \in files' <=> g \in files)
        BY <2>3, <2>10, <3>3
      <4>2. fence'[g].ref = Bit(Made(g)') + Bit(Taken(g)') + Bit(g \in files')
        BY <2>9, <3>1, <4>1 DEF Bit
      <4> QED BY <2>8, <2>9, <3>1, <4>1, <4>2
    <3> QED BY <3>2, <3>3
  <2>18. SignalInv'
    <3>1. \A g \in Fence : fence'[g].ref > 0 => fence[g].ref > 0
      BY <2>3, <2>16 DEF FenceIInv, RefInv, Bit
    <3> QED BY <1>2, <2>3, <2>8, <2>9, <3>1 DEF FenceIInv, SignalInv
  <2> QED BY <2>11, <2>12, <2>13, <2>14, <2>15, <2>17, <2>18 DEF FenceIInv
<1> QED BY <1>3, <1>4 DEF FenceGetFile

LEMMA InvFenceAlloc ==
  ASSUME FenceIInv, NEW x \in Thread, FenceAlloc(x)
  PROVE  FenceIInv'
<1>1. /\ IsThread(th[x]) /\ ThreadOK(th[x]) /\ StateShape /\ ThreadShape /\ TlineShape
  BY ThreadIs DEF FenceIInv, StateShape
<1>2. /\ th[x].pc \in {"fence_get", "wait"} /\ th[x].dying = Null
      /\ UNCHANGED <<idr, files, obj>>
  BY DEF FenceAlloc, At
<1>3. th[x].tl \in Timeline /\ th[x].todo # <<>> /\ th[x].todo \in Seq(Val)
  BY <1>1, <1>2 DEF ThreadOK, ValueSteps
<1>4. PICK t \in Timeline : t = th[x].tl
  BY <1>3
<1>5. PICK seq \in Seqno : seq = Head(th[x].todo).seq
  BY <1>3, FirstValue
<1>6. CASE th' = [th EXCEPT ![x].pc = "got", ![x].why = "failed"] /\ UNCHANGED <<tline, fence>>
  BY <1>2, <1>6, InvNoFence
<1>7. ASSUME NEW f \in Fence, Unlocked(t), fence[f].status = "none",
             fence' = [fence EXCEPT ![f] = [tl |-> t, seq |-> seq, ref |-> 1,
                         status |-> IF Reached(t, seq) THEN "ok" ELSE "pending"]],
             tline' = [tline EXCEPT ![t].ref = @ + 1,
                         ![t].fences = IF Reached(t, seq) THEN @ ELSE @ \cup {f}],
             th' = [th EXCEPT ![x].pc = "got", ![x].mine = @ \cup {f}]
      PROVE  FenceIInv'
  <2>1. PICK s \in {"ok", "pending"} : /\ s = IF Reached(t, seq) THEN "ok" ELSE "pending"
                                       /\ s = "pending" <=> ~Reached(t, seq)
    OBVIOUS
  <2>2. PICK A : /\ A = IF Reached(t, seq) THEN tline[t].fences ELSE tline[t].fences \cup {f}
                 /\ s = "pending" => A = tline[t].fences \cup {f}
                 /\ s # "pending" => A = tline[t].fences
    BY <2>1
  <2> DEFINE c == [tl |-> t, seq |-> seq, ref |-> 1, status |-> s]
             q == [tline[t] EXCEPT !.ref = @ + 1, !.fences = A]
             r == [th[x] EXCEPT !.pc = "got", !.mine = th[x].mine \cup {f}]
  <2>3. fence' = [fence EXCEPT ![f] = c]
    BY <1>7, <2>1
  <2>4. tline' = [tline EXCEPT ![t] = q]
    BY <1>1, <1>7, <2>2 DEF TlineShape
  <2>5. th' = [th EXCEPT ![x] = r]
    BY <1>1, <1>7 DEF ThreadShape
  <2>6. IsFence(c) /\ c.tl = t /\ c.seq = seq /\ c.ref = 1 /\ c.status = s
    BY DEF IsFence, FenceFields
  <2>7. IsTline(q) /\ q.value = tline[t].value /\ q.lock = tline[t].lock /\ q.fences = A
    BY <1>1 DEF TlineShape, IsTline, TlineFields
  <2>8. /\ IsThread(r) /\ r.pc = "got" /\ r.why = th[x].why /\ r.todo = th[x].todo
        /\ r.tl = th[x].tl /\ r.mine = th[x].mine \cup {f} /\ r.temp = th[x].temp
        /\ r.dying = th[x].dying /\ r.o = th[x].o
    BY <1>1 DEF IsThread, ThreadFields
  <2> HIDE DEF c, q, r
  <2>9. /\ th[x].temp = {} /\ th[x].why \in {"fence_get", "wait"} /\ idr[t] # "none"
        /\ th[x].why = "fence_get" => th[x].pc = "fence_get" /\ th[x].mine = {}
    BY <1>1, <1>2, <1>4 DEF ThreadOK, Agree, FenceIInv, IdInv
  <2>10. ThreadOK(r)
    BY <1>1, <1>2, <2>8, <2>9 DEF ThreadOK, Agree, PC, ValueSteps, DestroySteps, ObjSteps
  <2>11. ThreadShape' /\ th'[x] = r /\ \A y \in Thread \ {x} : th'[y] = th[y]
    BY <1>1, <2>5, <2>8, ThreadSet
  <2>12. TlineShape' /\ tline'[t] = q /\ \A u \in Timeline \ {t} : tline'[u] = tline[u]
    BY <1>1, <2>4, <2>7, TlineSet
  <2>13. /\ FenceShape' /\ \A g \in Fence : FenceOK(g)'
         /\ fence'[f] = c /\ \A g \in Fence \ {f} : fence'[g] = fence[g]
    BY <1>1, <2>3, <2>6, FenceChange
  <2>14. \A y \in Thread : /\ th'[y].tl = th[y].tl /\ th'[y].temp = th[y].temp
                           /\ th'[y].dying = th[y].dying /\ th'[y].why = th[y].why
                           /\ th'[y].pc \in LockSteps <=> th[y].pc \in LockSteps
                           /\ th'[y].pc = "collect" <=> th[y].pc = "collect"
    BY <1>2, <2>8, <2>11 DEF LockSteps
  <2>15. \A u \in Timeline : tline'[u].value = tline[u].value /\ tline'[u].lock = tline[u].lock
    BY <2>7, <2>12
  \* The fence is new to everybody.
  <2>16. /\ ~Live(f) /\ ~Made(f) /\ ~Taken(f) /\ f \notin files
         /\ \A y \in Thread : th[y].dying # f
         /\ \A u \in Timeline : f \notin tline[u].fences
    <3>1. ~Live(f) /\ fence[f].ref = Bit(Made(f)) + Bit(Taken(f)) + Bit(f \in files)
      BY <1>7 DEF Live, FenceIInv, RefInv
    <3>2. ~(fence[f].ref > 0) /\ \A y \in Thread : th[y].dying # f
      BY <3>1 DEF FenceIInv, RefInv
    <3>3. \A u \in Timeline : f \notin tline[u].fences
      BY <3>1 DEF FenceIInv, ListInv
    <3> QED BY <3>1, <3>2, <3>3 DEF Bit
  <2>17. \A g \in Fence \ {f} : (Live(g)' <=> Live(g)) /\ (Made(g)' <=> Made(g)) /\ (Taken(g)' <=> Taken(g))
    BY <2>8, <2>11, <2>13, <2>14 DEF Live, Made, Taken
  <2>18. Live(f)' /\ Made(f)' /\ ~Taken(f)'
    BY <2>6, <2>8, <2>11, <2>13, <2>14, <2>16 DEF Live, Made, Taken
  <2>19. StateShape'
    <3>1. \A y \in Thread : ThreadOK(th'[y])
      BY <1>1, <2>10, <2>11 DEF StateShape
    <3>2. ObjShape' /\ DOMAIN idr' = Timeline
      BY <1>1, <1>2 DEF StateShape, ObjShape
    <3>3. A \subseteq Fence
      BY <1>1, <2>2 DEF StateShape, TlineOK
    <3>4. \A u \in Timeline : TlineOK(u)'
      BY <1>1, <2>7, <2>12, <2>15, <3>3 DEF StateShape, TlineOK
    <3>5. files' \subseteq Fence /\ \A o \in Obj : obj'[o].vals \in Seq(Val)
      BY <1>1, <1>2 DEF StateShape
    <3> QED BY <2>11, <2>12, <2>13, <3>1, <3>2, <3>4, <3>5 DEF StateShape
  <2>20. LockInv'
    BY <2>14, <2>15 DEF FenceIInv, LockInv
  <2>21. IdInv'
    <3>1. \A g \in Fence : Live(g)' => fence'[g].tl \in Timeline /\ idr'[fence'[g].tl] # "none"
      BY <1>2, <2>6, <2>9, <2>13, <2>17 DEF FenceIInv, IdInv
    <3>2. \A y \in Thread : th'[y].pc \in {"fence_get", "wait"} => idr'[th'[y].tl] # "none"
      BY <1>2, <2>8, <2>11 DEF FenceIInv, IdInv
    <3> QED BY <3>1, <3>2 DEF IdInv
  <2>22. OneHolder'
    <3> SUFFICES ASSUME NEW y \in Thread, NEW z \in Thread
                 PROVE  /\ th'[y].mine \cap th'[z].mine # {} => y = z
                        /\ th'[y].temp \cap th'[z].temp # {} => y = z
                        /\ th'[y].dying = th'[z].dying /\ th'[y].dying # Null => y = z
      BY DEF OneHolder
    <3>1. /\ th'[y].temp \cap th'[z].temp # {} => y = z
          /\ th'[y].dying = th'[z].dying /\ th'[y].dying # Null => y = z
      BY <2>14 DEF FenceIInv, OneHolder
    <3>2. \A w \in Thread : f \notin th[w].mine
      BY <2>16 DEF Made
    <3>3. th'[y].mine \cap th'[z].mine # {} => y = z
      BY <2>8, <2>11, <3>2 DEF FenceIInv, OneHolder
    <3> QED BY <3>1, <3>3
  <2>23. FiledOnce'
    BY <1>2, <2>8, <2>9, <2>11, <2>16 DEF FenceIInv, FiledOnce
  <2>24. ListInv'
    <3>1. ASSUME NEW u \in Timeline, NEW g \in tline'[u].fences
          PROVE  Live(g)' /\ fence'[g].tl = u /\ \A y \in Thread : g \notin th'[y].temp
      <4>1. tline[u].fences \subseteq Fence
        BY <1>1 DEF StateShape, TlineOK
      <4>2. CASE g = f
        <5>1. u = t
          BY <2>12, <2>16, <3>1, <4>2
        <5> QED BY <2>6, <2>13, <2>18, <4>2, <5>1 DEF Taken
      <4>3. CASE g # f
        <5>1. g \in tline[u].fences
          BY <2>2, <2>7, <2>12, <3>1, <4>3
        <5> QED BY <2>13, <2>14, <2>17, <4>1, <4>3, <5>1 DEF FenceIInv, ListInv
      <4> QED BY <4>2, <4>3
    <3>2. ASSUME NEW y \in Thread, NEW g \in th'[y].temp
          PROVE  fence'[g].tl = th'[y].tl
      <4>1. g \in th[y].temp /\ g \in Fence /\ g # f
        BY <1>1, <2>14, <2>16, <3>2 DEF Taken, StateShape, ThreadOK
      <4> QED BY <2>13, <2>14, <4>1 DEF FenceIInv, ListInv
    <3> QED BY <3>1, <3>2 DEF ListInv
  <2>25. RefInv'
    <3> SUFFICES ASSUME NEW g \in Fence
                 PROVE  /\ fence'[g].ref = Bit(Made(g)') + Bit(Taken(g)') + Bit(g \in files')
                        /\ fence'[g].ref > 0 => Live(g)'
                        /\ \A y \in Thread : th'[y].dying = g => Live(g)' /\ fence'[g].ref = 0
      BY DEF RefInv, Bit
    <3>1. CASE g = f
      <4>1. fence'[f].ref = 1 /\ f \notin files' /\ \A y \in Thread : th'[y].dying # f
        BY <1>2, <2>6, <2>13, <2>14, <2>16
      <4>2. fence'[f].ref = Bit(Made(f)') + Bit(Taken(f)') + Bit(f \in files')
        BY <2>18, <4>1 DEF Bit
      <4> QED BY <2>18, <3>1, <4>1, <4>2
    <3>2. CASE g # f
      <4>1. /\ fence[g].ref = Bit(Made(g)) + Bit(Taken(g)) + Bit(g \in files)
            /\ fence[g].ref > 0 => Live(g)
            /\ \A y \in Thread : th[y].dying = g => Live(g) /\ fence[g].ref = 0
        BY DEF FenceIInv, RefInv
      <4>2. fence'[g].ref = fence[g].ref /\ (g \in files' <=> g \in files)
        BY <1>2, <2>13, <3>2
      <4>3. fence'[g].ref = Bit(Made(g)') + Bit(Taken(g)') + Bit(g \in files')
        BY <2>17, <3>2, <4>1, <4>2 DEF Bit
      <4> QED BY <2>14, <2>17, <3>2, <4>1, <4>2, <4>3
    <3> QED BY <3>1, <3>2
  <2>26. SignalInv'
    <3> SUFFICES ASSUME NEW g \in Fence, fence'[g].status = "pending", fence'[g].ref > 0
                 PROVE  \/ /\ g \in tline'[fence'[g].tl].fences
                           /\ \/ fence'[g].seq > tline'[fence'[g].tl].value
                              \/ \E y \in Thread : th'[y].pc = "collect" /\ th'[y].tl = fence'[g].tl
                        \/ Taken(g)'
      BY DEF SignalInv
    <3>1. CASE g = f
      <4>1. fence'[g].tl = t /\ fence'[g].seq = seq /\ s = "pending"
        BY <2>6, <2>13, <3>1
      <4>2. g \in tline'[t].fences
        BY <2>2, <2>7, <2>12, <3>1, <4>1
      <4>3. seq > tline'[t].value
        <5>1. tline[t].value \in Seqno
          BY <1>1 DEF StateShape, TlineOK
        <5> QED BY <2>1, <2>15, <4>1, <5>1, TimelineAssumption DEF Reached, Seqno
      <4> QED BY <4>1, <4>2, <4>3
    <3>2. CASE g # f
      <4>1. fence'[g] = fence[g] /\ fence[g].tl \in Timeline
        BY <2>13, <3>2 DEF FenceIInv, IdInv, Live
      <4>2. \/ /\ g \in tline[fence[g].tl].fences
               /\ \/ fence[g].seq > tline[fence[g].tl].value
                  \/ \E y \in Thread : th[y].pc = "collect" /\ th[y].tl = fence[g].tl
            \/ Taken(g)
        BY <4>1 DEF FenceIInv, SignalInv
      <4>3. tline[fence[g].tl].fences \subseteq tline'[fence[g].tl].fences
        BY <2>2, <2>7, <2>12, <4>1
      <4> QED BY <2>14, <2>15, <2>17, <3>2, <4>1, <4>2, <4>3
    <3> QED BY <3>1, <3>2
  <2> QED BY <2>19, <2>20, <2>21, <2>22, <2>23, <2>24, <2>25, <2>26 DEF FenceIInv
<1> QED BY <1>4, <1>5, <1>6, <1>7 DEF FenceAlloc

-----------------------------------------------------------------------------
(* The theorems.                                                           *)

LEMMA InvInit == Init => FenceIInv
<1> SUFFICES ASSUME Init PROVE FenceIInv
  OBVIOUS
<1>1. /\ \A x \in Thread : th[x] = Idle /\ th[x].pc = "idle" /\ th[x].mine = {}
                           /\ th[x].temp = {} /\ th[x].dying = Null /\ th[x].tl = Null
      /\ DOMAIN th = Thread /\ th = [x \in Thread |-> th[x]]
  BY IdleFields DEF Init
<1>2. /\ \A t \in Timeline : /\ tline[t].value = 0 /\ tline[t].lock = Null
                             /\ tline[t].fences = {} /\ IsTline(tline[t])
      /\ DOMAIN tline = Timeline /\ tline = [t \in Timeline |-> tline[t]]
  BY DEF Init, IsTline, TlineFields
<1>3. /\ \A f \in Fence : /\ fence[f].tl = Null /\ fence[f].seq = 0 /\ fence[f].ref = 0
                          /\ fence[f].status = "none" /\ IsFence(fence[f])
      /\ DOMAIN fence = Fence /\ fence = [f \in Fence |-> fence[f]]
  BY DEF Init, IsFence, FenceFields
<1>4. /\ \A o \in Obj : obj[o].vals = <<>> /\ IsObj(obj[o])
      /\ DOMAIN obj = Obj /\ obj = [o \in Obj |-> obj[o]]
  BY DEF Init, IsObj, ObjFields
<1>5. files = {} /\ DOMAIN idr = Timeline
  BY DEF Init
<1>6. 0 \in Seqno
  BY TimelineAssumption DEF Seqno
<1>7. ThreadOK(Idle)
  BY IdleFields DEF ThreadOK, Agree, PC, ValueSteps, DestroySteps, ObjSteps
<1>8. StateShape
  <2>1. TlineShape /\ FenceShape /\ ObjShape /\ ThreadShape
    BY <1>1, <1>2, <1>3, <1>4, IdleIsThread DEF TlineShape, FenceShape, ObjShape, ThreadShape
  <2>2. /\ \A t \in Timeline : TlineOK(t)
        /\ \A f \in Fence : FenceOK(f)
    BY <1>2, <1>3, <1>6 DEF TlineOK, FenceOK
  <2>3. /\ \A o \in Obj : obj[o].vals \in Seq(Val)
        /\ \A x \in Thread : ThreadOK(th[x])
    BY <1>1, <1>4, <1>7, IdleFields
  <2> QED BY <1>5, <2>1, <2>2, <2>3 DEF StateShape
<1>9. LockInv
  BY <1>1, <1>2, TimelineAssumption DEF LockInv, LockSteps
<1>10. IdInv /\ FiledOnce
  BY <1>1, <1>3 DEF IdInv, FiledOnce, Live
<1>11. OneHolder /\ ListInv
  BY <1>1, <1>2 DEF OneHolder, ListInv
<1>12. \A f \in Fence : ~Made(f) /\ ~Taken(f) /\ f \notin files
  BY <1>1, <1>5 DEF Made, Taken
<1>13. RefInv
  BY <1>1, <1>3, <1>12, TimelineAssumption DEF RefInv, Bit
<1>14. SignalInv
  BY <1>3 DEF SignalInv
<1> QED BY <1>8, <1>9, <1>10, <1>11, <1>13, <1>14 DEF FenceIInv

LEMMA InvBegin ==
  ASSUME FenceIInv, NEW x \in Thread, Begin(x)
  PROVE  FenceIInv'
<1>1. CASE \E t \in Timeline : TimelineAlloc(x, t) \/ DestroyId(x, t)
  BY <1>1, InvTimelineAlloc, InvDestroyId
<1>2. CASE \E vals \in Arrays : \E why \in Calls[x] : Call(x, why, vals)
  BY <1>2, InvCall
<1>3. CASE \E vals \in Arrays : \E o \in Obj : ObjCreate(x, o, vals)
  BY <1>3, InvObjCreate
<1>4. CASE \E f \in Fence : CloseFile(x, f)
  BY <1>4, InvCloseFile
<1>5. CASE \E o \in Obj : ObjDestroy(x, o) \/ (x \in Worker /\ TimelineSignaled(x, o))
  BY <1>5, InvObjDestroy, InvTimelineSignaled
<1> QED BY <1>1, <1>2, <1>3, <1>4, <1>5 DEF Begin

LEMMA InvResume ==
  ASSUME FenceIInv, NEW x \in Thread, Resume(x)
  PROVE  FenceIInv'
<1>1. CASE FenceRelease(x) \/ TimelineCreate(x) \/ Lookup(x) \/ FenceAlloc(x)
           \/ FenceGetFile(x) \/ FenceGetPut(x)
  BY <1>1, InvFenceRelease, InvTimelineCreate, InvLookup, InvFenceAlloc, InvFenceGetFile,
     InvFenceGetPut
<1>2. CASE ValueDone(x) \/ WaitReturns(x) \/ Unwind(x)
  BY <1>2, InvValueDone, InvWaitEnds, InvUnwind
<1>3. CASE SignalValue(x) \/ SignalCollect(x) \/ SignalFence(x) \/ SignalUnlock(x)
  BY <1>3, InvSignalValue, InvSignalCollect, InvWalkPut, InvUnlock
<1>4. CASE DestroySteal(x) \/ DestroyLock(x) \/ DestroyFence(x) \/ DestroyUnlock(x)
  BY <1>4, InvDestroySteal, InvDestroyLock, InvWalkPut, InvUnlock
<1>5. CASE ObjFill(x) \/ ObjAddEvent(x) \/ ObjEmpty(x) \/ AddSignal(x)
           \/ TimelineobjSignal(x) \/ TimelineobjRetire(x)
  BY <1>5, InvObjFill, InvObjAddEvent, InvObjEmpty, InvAddSignal, InvTimelineobjSignal,
     InvTimelineobjRetire
<1> QED BY <1>1, <1>2, <1>3, <1>4, <1>5 DEF Resume

LEMMA InvStutter == FenceIInv /\ UNCHANGED vars => FenceIInv'
<1> SUFFICES ASSUME FenceIInv, UNCHANGED vars PROVE FenceIInv'
  OBVIOUS
<1>1. idr' = idr /\ tline' = tline /\ fence' = fence /\ files' = files /\ obj' = obj /\ th' = th
  BY DEF vars
<1>2. StateShape'
  BY <1>1 DEF FenceIInv, StateShape, TlineShape, FenceShape, ObjShape, ThreadShape, TlineOK, FenceOK
<1>3. LockInv' /\ IdInv' /\ OneHolder' /\ FiledOnce' /\ ListInv'
  BY <1>1 DEF FenceIInv, LockInv, IdInv, OneHolder, FiledOnce, ListInv, Live
<1>4. RefInv' /\ SignalInv'
  BY <1>1 DEF FenceIInv, RefInv, SignalInv, Live, Made, Taken
<1> QED BY <1>2, <1>3, <1>4 DEF FenceIInv

\* Every reachable state of the timelines satisfies FenceIInv: whoever made a
\* fence, took it to a private list or holds its file has one reference each
\* and nobody else has any; timeline->lock is with the thread that works on
\* the timeline under it; and a fence that waits for its signal is where the
\* next signal or destroy will find it (kgsl_timeline_fence_alloc,
\* kgsl_timeline_signal, timeline_fence_release, the destroy ioctl).
THEOREM FenceInvariance == Spec => []FenceIInv
<1>1. FenceIInv /\ [Next]_vars => FenceIInv'
  <2> SUFFICES ASSUME FenceIInv, [Next]_vars PROVE FenceIInv'
    OBVIOUS
  <2>1. CASE \E x \in Thread : Begin(x) \/ Resume(x) \/ WaitTimesOut(x)
    BY <2>1, InvBegin, InvResume, InvWaitEnds
  <2>2. CASE \E f \in Fence : FencePoll(f)
    BY <2>2, InvFencePoll
  <2>3. CASE \E o \in Obj : TimestampRetires(o)
    BY <2>3, InvTimestampRetires
  <2>4. CASE UNCHANGED vars
    BY <2>4, InvStutter
  <2> QED BY <2>1, <2>2, <2>3, <2>4 DEF Next
<1> QED BY <1>1, InvInit, PTL DEF Spec

\* The threads that hold a fence in one of their lists are one or none.
LEMMA OneOrNone ==
  ASSUME NEW S, \A x, y \in S : x = y
  PROVE  Cardinality(S) = IF S = {} THEN 0 ELSE 1
<1>1. CASE S = {}
  BY <1>1, FS_EmptySet
<1>2. CASE S # {}
  <2>1. PICK x : x \in S
    BY <1>2
  <2>2. S = {x}
    BY <2>1
  <2> QED BY <1>2, <2>2, FS_Singleton
<1> QED BY <1>1, <1>2

\* The reference count of a fence is the number of its holders, and whatever
\* an active or a private list holds has not been freed: FenceRefs, in every
\* reachable state, for any number of timelines, fences and threads.
THEOREM FencesCounted == Spec => []FenceRefs
<1>1. FenceIInv => FenceRefs
  <2> SUFFICES ASSUME FenceIInv PROVE FenceRefs
    OBVIOUS
  <2>1. ASSUME NEW f \in Fence
        PROVE  fence[f].ref = Cardinality({x \in Thread : f \in th[x].mine})
                              + Cardinality({x \in Thread : f \in th[x].temp})
                              + (IF f \in files THEN 1 ELSE 0)
    <3>1. Cardinality({x \in Thread : f \in th[x].mine}) = Bit(Made(f))
      <4> DEFINE S == {x \in Thread : f \in th[x].mine}
      <4>1. \A x, y \in S : x = y
        BY DEF FenceIInv, OneHolder
      <4>2. (S = {}) <=> ~Made(f)
        BY DEF Made
      <4> HIDE DEF S
      <4>3. Cardinality(S) = IF S = {} THEN 0 ELSE 1
        BY <4>1, OneOrNone
      <4>4. Cardinality(S) = Bit(Made(f))
        BY <4>2, <4>3 DEF Bit
      <4> QED BY <4>4 DEF S
    <3>2. Cardinality({x \in Thread : f \in th[x].temp}) = Bit(Taken(f))
      <4> DEFINE S == {x \in Thread : f \in th[x].temp}
      <4>1. \A x, y \in S : x = y
        BY DEF FenceIInv, OneHolder
      <4>2. (S = {}) <=> ~Taken(f)
        BY DEF Taken
      <4> HIDE DEF S
      <4>3. Cardinality(S) = IF S = {} THEN 0 ELSE 1
        BY <4>1, OneOrNone
      <4>4. Cardinality(S) = Bit(Taken(f))
        BY <4>2, <4>3 DEF Bit
      <4> QED BY <4>4 DEF S
    <3>3. fence[f].ref = Bit(Made(f)) + Bit(Taken(f)) + Bit(f \in files)
      BY DEF FenceIInv, RefInv
    <3>4. Bit(f \in files) = IF f \in files THEN 1 ELSE 0
      BY DEF Bit
    <3> QED BY <3>1, <3>2, <3>3, <3>4
  <2>2. \A t \in Timeline : \A f \in tline[t].fences : Live(f)
    BY DEF FenceIInv, ListInv
  <2>3. ASSUME NEW x \in Thread, NEW f \in th[x].temp
        PROVE  Live(f)
    <3>1. f \in Fence /\ Taken(f)
      BY <2>3, ThreadIs DEF Taken, ThreadOK
    <3>2. fence[f].ref > 0
      BY <3>1 DEF FenceIInv, RefInv, Bit
    <3> QED BY <3>1, <3>2 DEF FenceIInv, RefInv
  <2> QED BY <2>1, <2>2, <2>3 DEF FenceRefs
<1> QED BY <1>1, FenceInvariance, PTL

\* No fence misses its signal: with timeline->lock free, a fence that is held
\* and has not signaled is beyond the value and on the active list, or on the
\* private list of a destroy.  The test under the lock in
\* kgsl_timeline_fence_alloc and the collection in kgsl_timeline_signal leave
\* no gap, whatever the number of timelines, fences and threads.
THEOREM SignalNotMissed == Spec => []NoMissedSignal
<1>1. FenceIInv => NoMissedSignal
  <2> SUFFICES ASSUME FenceIInv, NEW f \in Fence, fence[f].status = "pending",
                      fence[f].ref > 0, Unlocked(fence[f].tl)
               PROVE  \/ fence[f].seq > tline[fence[f].tl].value /\ f \in tline[fence[f].tl].fences
                      \/ \E x \in Thread : th[x].why = "destroy" /\ f \in th[x].temp
    BY DEF NoMissedSignal
  <2>1. PICK t \in Timeline : t = fence[f].tl
    BY DEF FenceIInv, IdInv, Live
  <2>2. \A x \in Thread : th[x].tl = t => th[x].pc \notin LockSteps
    BY <2>1, TimelineAssumption DEF FenceIInv, LockInv, Unlocked
  <2>3. CASE Taken(f)
    <3>1. PICK x \in Thread : f \in th[x].temp
      BY <2>3 DEF Taken
    <3>2. th[x].tl = t
      BY <2>1, <3>1 DEF FenceIInv, ListInv
    <3>3. th[x].pc = "relock"
      BY <2>2, <3>1, <3>2, ThreadIs DEF ThreadOK, LockSteps
    <3>4. th[x].why = "destroy"
      BY <3>3, ThreadIs DEF ThreadOK, Agree, DestroySteps
    <3> QED BY <3>1, <3>4
  <2>4. CASE ~Taken(f)
    <3>1. \A x \in Thread : ~(th[x].pc = "collect" /\ th[x].tl = t)
      BY <2>2 DEF LockSteps
    <3> QED BY <2>1, <2>4, <3>1 DEF FenceIInv, SignalInv
  <2> QED BY <2>3, <2>4
<1> QED BY <1>1, FenceInvariance, PTL
=============================================================================
