------------------------ MODULE KgslDispatchProofs --------------------------
(***************************************************************************)
(* The dispatcher, for any number of contexts and threads, any submissions *)
(* and any sizes: IInv is inductive; the timestamps of a context are sent  *)
(* and retired in order, and no job is forgotten.                          *)
(***************************************************************************)
EXTENDS KgslDispatchInv, FiniteSetTheorems, SequenceTheorems, WellFoundedInduction, TLAPS

-----------------------------------------------------------------------------
(* Numbers.                                                                *)

LEMMA LeastNatural ==
  ASSUME NEW T, T \subseteq Nat, T # {}
  PROVE  \E m \in T : \A k \in T : m <= k
<1>1. PICK R : R = OpToRel(<, Nat) /\ IsWellFoundedOn(R, Nat)
  BY NatLessThanWellFounded
<1>2. PICK m \in T : \A y \in T : ~(<<y, m>> \in R)
  BY <1>1, WFMin, Zenon
<1>3. \A y \in T : y < m => <<y, m>> \in R
  BY <1>1 DEF OpToRel
<1>4. ASSUME NEW k \in T PROVE m <= k
  <2>1. m \in Nat /\ k \in Nat
    OBVIOUS
  <2>2. ~(k < m)
    BY <1>2, <1>3
  <2> QED BY <2>1, <2>2
<1> QED BY <1>4

\* A bounded set of numbers has a greatest element.
LEMMA Greatest ==
  ASSUME NEW n \in Nat, NEW T, T \subseteq 0..n, T # {}
  PROVE  Max(T) \in T /\ \A y \in T : y <= Max(T)
<1> DEFINE D == {n - t : t \in T}
<1>0. \A t \in T : n - t \in Nat
  OBVIOUS
<1>1. D \subseteq Nat /\ D # {}
  BY <1>0
<1> HIDE DEF D
<1>2. PICK d \in D : \A k \in D : d <= k
  BY <1>1, LeastNatural
<1>3. PICK m \in T : d = n - m
  BY DEF D
<1>4. \A y \in T : n - y \in D
  BY DEF D
<1>5. ASSUME NEW y \in T PROVE m >= y
  <2>1. n - m <= n - y
    BY <1>2, <1>3, <1>4
  <2> QED BY <2>1
<1>6. Max(T) \in T /\ \A y \in T : Max(T) >= y
  BY <1>5, Zenon DEF Max
<1> QED BY <1>6

-----------------------------------------------------------------------------
(* The records.                                                            *)

\* The steps on a context change some fields and leave the others.
LEMMA ContextFields ==
  ASSUME NEW x \in ContextType
  PROVE  /\ x.q \in Seq(ObjectType) /\ x.queued \in Nat /\ x.ts \in Nat /\ x.qts \in Nat
         /\ x.retired \in Nat /\ x.state \in SUBSET {"invalid", "detached"}
         /\ x.detach \in {"no", "marked", "taken", "done"} /\ x.stale \in BOOLEAN
         /\ x = [q |-> x.q, queued |-> x.queued, ts |-> x.ts, qts |-> x.qts,
                 retired |-> x.retired, state |-> x.state, detach |-> x.detach,
                 stale |-> x.stale]
BY DEF ContextType

LEMMA ObjectFields ==
  ASSUME NEW o \in ObjectType
  PROVE  /\ o.k \in Kind /\ o.ts \in Nat /\ o.dep \in Nat /\ o.skip \in BOOLEAN
         /\ o.st \in {"wait", "busy", "done"}
         /\ o = [k |-> o.k, ts |-> o.ts, dep |-> o.dep, skip |-> o.skip, st |-> o.st]
BY DEF ObjectType

LEMMA QueueFields ==
  ASSUME NEW x \in ContextType
  PROVE  /\ Len(x.q) \in Nat /\ DOMAIN x.q = 1..Len(x.q)
         /\ \A i \in DOMAIN x.q :
              /\ x.q[i] \in ObjectType /\ x.q[i].k \in Kind /\ x.q[i].ts \in Nat
              /\ x.q[i].dep \in Nat /\ x.q[i].skip \in BOOLEAN
              /\ x.q[i].st \in {"wait", "busy", "done"}
<1>1. x.q \in Seq(ObjectType)
  BY ContextFields
<1>2. Len(x.q) \in Nat /\ DOMAIN x.q = 1..Len(x.q) /\ \A i \in DOMAIN x.q : x.q[i] \in ObjectType
  BY <1>1
<1> QED BY <1>2, ObjectFields

\* The fields of a context a step does not change, apart from the queue.
SameRest(y, x) ==
  /\ y.ts = x.ts /\ y.qts = x.qts /\ y.state = x.state /\ y.detach = x.detach
  /\ y.stale = x.stale

LEMMA PushFields ==
  ASSUME NEW x \in ContextType, NEW o \in ObjectType, NEW y, y = Push(x, o)
  PROVE  /\ y \in ContextType /\ SameRest(y, x)
         /\ y.q = Append(x.q, o) /\ y.queued = x.queued + 1 /\ y.retired = x.retired
<1>1. Append(x.q, o) \in Seq(ObjectType) /\ x.queued + 1 \in Nat
  BY ContextFields
<1>2. y = [x EXCEPT !.q = Append(x.q, o), !.queued = x.queued + 1]
  BY DEF Push
<1>3. y \in ContextType
  BY <1>1, <1>2 DEF ContextType
<1> QED BY <1>2, <1>3 DEF SameRest, ContextType

LEMMA NextTimestampFields ==
  ASSUME NEW x \in ContextType, NEW y, y = NextTimestamp(x)
  PROVE  /\ y \in ContextType /\ y.ts = x.ts + 1 /\ y.qts = x.ts + 1
         /\ y.q = x.q /\ y.queued = x.queued /\ y.retired = x.retired /\ y.state = x.state
         /\ y.detach = x.detach /\ y.stale = x.stale
<1>1. x.ts + 1 \in Nat
  BY ContextFields
<1>2. y = [x EXCEPT !.ts = x.ts + 1, !.qts = x.ts + 1]
  BY DEF NextTimestamp
<1>3. y \in ContextType
  BY <1>1, <1>2 DEF ContextType
<1> QED BY <1>2, <1>3 DEF ContextType

LEMMA PopFields ==
  ASSUME NEW x \in ContextType, x.q # <<>>, Len(x.q) <= x.queued, NEW y, y = Pop(x)
  PROVE  /\ y \in ContextType /\ SameRest(y, x)
         /\ y.q = Tail(x.q) /\ y.queued = x.queued - 1 /\ y.retired = x.retired
<1>1. Tail(x.q) \in Seq(ObjectType) /\ x.queued - 1 \in Nat
  BY ContextFields
<1>2. y = [x EXCEPT !.q = Tail(x.q), !.queued = x.queued - 1]
  BY DEF Pop
<1>3. y \in ContextType
  BY <1>1, <1>2 DEF ContextType
<1> QED BY <1>2, <1>3 DEF SameRest, ContextType

LEMMA RequeueFields ==
  ASSUME NEW x \in ContextType, NEW o \in ObjectType, NEW y, y = RequeueCmdobj(x, o)
  PROVE  /\ y \in ContextType /\ SameRest(y, x)
         /\ y.q = <<o>> \o x.q /\ y.queued = x.queued + 1 /\ y.retired = x.retired
<1>1. <<o>> \o x.q \in Seq(ObjectType) /\ x.queued + 1 \in Nat
  BY ContextFields
<1>2. y = [x EXCEPT !.q = <<o>> \o x.q, !.queued = x.queued + 1]
  BY DEF RequeueCmdobj
<1>3. y \in ContextType
  BY <1>1, <1>2 DEF ContextType
<1> QED BY <1>2, <1>3 DEF SameRest, ContextType

-----------------------------------------------------------------------------
(* The invariant of a context when its queue loses a prefix, objects of it *)
(* change their state, and less is pending elsewhere.                      *)

\* The queue of y is the queue of x without the first n objects.
Shifted(y, x, n) ==
  /\ n \in Nat /\ Len(y.q) + n = Len(x.q)
  /\ \A i \in DOMAIN y.q :
       /\ y.q[i].k = x.q[i + n].k /\ y.q[i].ts = x.q[i + n].ts
       /\ y.q[i].dep = x.q[i + n].dep
       /\ y.q[i].skip => y.q[i].k = "marker"
       /\ y.q[i].k = "sync" /\ y.q[i].st = "done"
            => x.q[i + n].st = "done" \/ x.q[i + n].dep <= y.retired

LEMMA ShiftedDomain ==
  ASSUME NEW x \in ContextType, NEW y \in ContextType, NEW n, Shifted(y, x, n)
  PROVE  n \in Nat /\ \A i \in DOMAIN y.q : i \in Nat /\ i > 0 /\ i + n \in DOMAIN x.q
BY QueueFields DEF Shifted

LEMMA QueueShift ==
  ASSUME NEW x \in ContextType, NEW y \in ContextType, NEW n, Shifted(y, x, n),
         NEW S, S \subseteq Nat, NEW H, H \subseteq ObjectType,
         NEW S2, S2 \subseteq S, NEW H2, H2 \subseteq H,
         y.qts = x.qts, y.ts = x.ts, QueueInOrder(x, S, H)
  PROVE  QueueInOrder(y, S2, H2)
<1>1. y.qts <= y.ts
  BY DEF QueueInOrder
<1>2. ASSUME NEW i \in DOMAIN y.q
      PROVE  /\ y.q[i].ts <= y.qts
             /\ y.q[i].ts > 0 <=> y.q[i].k \in {"cmd", "marker", "bind"}
             /\ y.q[i].skip => y.q[i].k = "marker"
  <2>1. i + n \in DOMAIN x.q
    BY ShiftedDomain
  <2> QED BY <2>1 DEF QueueInOrder, Shifted
<1>3. ASSUME NEW i \in DOMAIN y.q, y.q[i].ts > 0
      PROVE  /\ \A j \in DOMAIN y.q : i < j /\ y.q[j].ts > 0 => y.q[i].ts < y.q[j].ts
             /\ \A o \in H2 : o.ts < y.q[i].ts
             /\ \A s \in S2 : s < y.q[i].ts
  <2>1. i + n \in DOMAIN x.q /\ y.q[i].ts = x.q[i + n].ts
    BY ShiftedDomain DEF Shifted
  <2>2. ASSUME NEW j \in DOMAIN y.q, i < j, y.q[j].ts > 0 PROVE y.q[i].ts < y.q[j].ts
    <3>1. n \in Nat /\ i \in Nat /\ j \in Nat /\ j + n \in DOMAIN x.q
      BY ShiftedDomain
    <3>2. y.q[j].ts = x.q[j + n].ts
      BY DEF Shifted
    <3>3. i + n < j + n
      BY <2>2, <3>1
    <3> QED BY <1>3, <2>1, <2>2, <3>1, <3>2, <3>3 DEF QueueInOrder
  <2>3. (\A o \in H : o.ts < x.q[i + n].ts) /\ (\A s \in S : s < x.q[i + n].ts)
    BY <1>3, <2>1 DEF QueueInOrder
  <2> QED BY <2>1, <2>2, <2>3
<1>4. \A o \in H2 : o.k \in {"cmd", "marker"} /\ o.ts > 0 /\ o.ts <= y.qts
                    /\ \A s \in S2 : s < o.ts
  BY DEF QueueInOrder
<1>5. \A s \in S2 : s <= y.qts
  BY DEF QueueInOrder
<1> QED BY <1>1, <1>2, <1>3, <1>4, <1>5 DEF QueueInOrder

\* Less is pending before an object than before.
Fewer(R2, R, H2, H) == R2 \subseteq R /\ H2 \subseteq H

LEMMA CoversShift ==
  ASSUME NEW x \in ContextType, NEW y \in ContextType, NEW n, Shifted(y, x, n),
         NEW R, NEW H, NEW R2, NEW H2, Fewer(R2, R, H2, H),
         NEW i \in DOMAIN y.q, NEW d, Covers(x, R, H, i + n, d)
  PROVE  Covers(y, R2, H2, i, d)
<1>1. ASSUME NEW j \in DOMAIN y.q, j < i PROVE y.q[j].ts <= d
  <2>1. n \in Nat /\ i \in Nat /\ j \in Nat /\ j + n \in DOMAIN x.q
    BY ShiftedDomain
  <2>2. y.q[j].ts = x.q[j + n].ts
    BY DEF Shifted
  <2>3. j + n < i + n
    BY <1>1, <2>1
  <2> QED BY <2>1, <2>2, <2>3 DEF Covers
<1> QED BY <1>1 DEF Covers, Fewer

\* What is left is later than the retired timestamp of y, and a bind operation
\* that is first now has nothing before it.
LEMMA RetiredShift ==
  ASSUME NEW x \in ContextType, NEW y \in ContextType, NEW n, Shifted(y, x, n),
         NEW R, R \subseteq Nat, NEW H, H \subseteq ObjectType,
         NEW R2, R2 \subseteq R, NEW H2, H2 \subseteq H,
         x.retired <= y.retired, RetiredInOrder(x, R, H),
         \A r \in R2 : r > y.retired, \A o \in H2 : o.ts > y.retired,
         \A i \in DOMAIN y.q : y.q[i].ts > 0 => y.q[i].ts > y.retired,
         1 \in DOMAIN y.q /\ y.q[1].k = "bind" => R2 = {} /\ H2 = {}
  PROVE  RetiredInOrder(y, R2, H2)
<1>0. Fewer(R2, R, H2, H)
  BY DEF Fewer
<1>1. \A o \in H2 : o.ts > y.retired /\ (o.k = "marker" => \A r \in R2 : r <= o.dep)
  BY DEF RetiredInOrder
<1>2. ASSUME NEW i \in DOMAIN y.q, y.q[i].k = "marker"
      PROVE  Covers(y, R2, H2, i, y.q[i].dep)
  <2>1. i + n \in DOMAIN x.q /\ y.q[i].dep = x.q[i + n].dep /\ x.q[i + n].k = "marker"
    BY <1>2, ShiftedDomain DEF Shifted
  <2>2. Covers(x, R, H, i + n, y.q[i].dep)
    BY <2>1 DEF RetiredInOrder
  <2> QED BY <1>0, <2>2, CoversShift
<1>3. ASSUME NEW i \in DOMAIN y.q, y.q[i].k = "bind", i > 1
      PROVE  y.q[i - 1].k = "sync" /\ Covers(y, R2, H2, i, y.q[i - 1].dep)
  <2>a. n \in Nat /\ i \in Nat /\ i + n \in DOMAIN x.q
    BY ShiftedDomain
  <2>b. x.q[i + n].k = "bind"
    BY <1>3 DEF Shifted
  <2>c. i - 1 \in DOMAIN y.q
    BY <1>3, <2>a, QueueFields
  <2>1. /\ i + n \in DOMAIN x.q /\ x.q[i + n].k = "bind" /\ i + n > 1
        /\ i - 1 \in DOMAIN y.q /\ (i - 1) + n = (i + n) - 1
    BY <1>3, <2>a, <2>b, <2>c
  <2>2. x.q[(i + n) - 1].k = "sync" /\ Covers(x, R, H, i + n, x.q[(i + n) - 1].dep)
    BY <2>1 DEF RetiredInOrder
  <2>3. y.q[i - 1].k = "sync" /\ y.q[i - 1].dep = x.q[(i + n) - 1].dep
    BY <2>1, <2>2 DEF Shifted
  <2>4. Covers(x, R, H, i + n, y.q[i - 1].dep)
    BY <2>2, <2>3
  <2> QED BY <1>0, <2>3, <2>4, CoversShift
<1>4. ASSUME NEW i \in DOMAIN y.q, y.q[i].k = "sync", y.q[i].st = "done"
      PROVE  y.q[i].dep <= y.retired
  <2>1. /\ i + n \in DOMAIN x.q /\ x.q[i + n].k = "sync" /\ y.q[i].dep = x.q[i + n].dep
        /\ x.q[i + n].st = "done" \/ x.q[i + n].dep <= y.retired
    BY <1>4, ShiftedDomain DEF Shifted
  <2>2. CASE x.q[i + n].st = "done"
    <3>1. x.q[i + n].dep <= x.retired
      BY <2>1, <2>2 DEF RetiredInOrder
    <3> QED BY <2>1, <3>1, ContextFields, QueueFields
  <2> QED BY <2>1, <2>2
<1> QED BY <1>1, <1>2, <1>3, <1>4 DEF RetiredInOrder

-----------------------------------------------------------------------------
(* Objects that the driver retires.                                        *)

\* The last timestamp that was written, if one was.
LEMMA RetiredAfterValue ==
  ASSUME NEW x \in ContextType, NEW n \in 0..Len(x.q)
  PROVE  /\ (\A i \in 1..n : ~(x.q[i].ts > 0)) => RetiredAfter(x, n) = x.retired
         /\ \/ RetiredAfter(x, n) = x.retired /\ \A i \in 1..n : ~(x.q[i].ts > 0)
            \/ \E w \in 1..n : /\ x.q[w].ts > 0 /\ RetiredAfter(x, n) = x.q[w].ts
                               /\ \A i \in 1..n : x.q[i].ts > 0 => i <= w
<1> DEFINE W == {i \in 1..n : x.q[i].ts > 0}
<1>1. RetiredAfter(x, n) = IF W = {} THEN x.retired ELSE x.q[Max(W)].ts
  BY DEF RetiredAfter
<1>2. CASE W = {}
  BY <1>1, <1>2
<1>3. CASE W # {}
  <2>1. n \in Nat
    BY QueueFields
  <2>2. W \subseteq 0..n
    BY <2>1
  <2> HIDE DEF W
  <2>3. Max(W) \in W /\ \A i \in W : i <= Max(W)
    BY <1>3, <2>1, <2>2, Greatest
  <2>4. RetiredAfter(x, n) = x.q[Max(W)].ts
    BY <1>1, <1>3
  <2>5. Max(W) \in 1..n /\ x.q[Max(W)].ts > 0 /\ \A i \in 1..n : x.q[i].ts > 0 => i <= Max(W)
    BY <2>3 DEF W
  <2> QED BY <2>4, <2>5
<1> QED BY <1>2, <1>3

LEMMA RetiredAfterNat ==
  ASSUME NEW x \in ContextType, NEW n \in 0..Len(x.q)
  PROVE  RetiredAfter(x, n) \in Nat
<1>1. Len(x.q) \in Nat /\ \A i \in 1..n : i \in DOMAIN x.q /\ x.q[i].ts \in Nat
  BY QueueFields
<1> QED BY <1>1, RetiredAfterValue, ContextFields

\* The first n objects are retired and leave the queue.
Retires(y, x, n) ==
  /\ n \in 0..Len(x.q)
  /\ \A i \in 1..n : Expired(x.q[i], RetiredAfter(x, i - 1))
  /\ y.retired = RetiredAfter(x, n) /\ y.queued = x.queued - n
  /\ SameRest(y, x) /\ Shifted(y, x, n)

LEMMA ProcessRetires ==
  ASSUME NEW x \in ContextType, Len(x.q) <= x.queued,
         \A i \in DOMAIN x.q : x.q[i].skip => x.q[i].k = "marker",
         NEW y, y = ProcessDrawqueue(x)
  PROVE  y \in ContextType /\ \E n : Retires(y, x, n)
<1> DEFINE N == {k \in 0..Len(x.q) : \A i \in 1..k : Expired(x.q[i], RetiredAfter(x, i - 1))}
           n == Max(N)
           z == [x EXCEPT !.q = SubSeq(x.q, n + 1, Len(x.q)), !.queued = x.queued - n,
                          !.retired = RetiredAfter(x, n)]
<1>1. y = IF z.q # <<>> /\ Head(z.q).k = "bind" THEN [z EXCEPT !.q[1].st = "busy"] ELSE z
  BY DEF ProcessDrawqueue
<1>2. n \in 0..Len(x.q) /\ \A i \in 1..n : Expired(x.q[i], RetiredAfter(x, i - 1))
  <2>1. 0 \in N /\ N \subseteq 0..Len(x.q) /\ Len(x.q) \in Nat
    BY QueueFields
  <2> HIDE DEF N
  <2>2. n \in N
    BY <2>1, Greatest
  <2> QED BY <2>2 DEF N
<1> HIDE DEF n
<1>3. n \in Nat /\ n <= Len(x.q) /\ x.q \in Seq(ObjectType) /\ Len(x.q) \in Nat
  BY <1>2, QueueFields, ContextFields
<1>4. PICK s : s = SubSeq(x.q, n + 1, Len(x.q))
  OBVIOUS
<1>5. s \in Seq(ObjectType) /\ Len(s) + n = Len(x.q) /\ \A i \in 1..Len(s) : s[i] = x.q[i + n]
  BY <1>3, <1>4
<1>6. PICK r \in Nat : r = RetiredAfter(x, n)
  BY <1>2, RetiredAfterNat
<1>7. PICK u \in Nat : u = x.queued - n
  BY <1>3, ContextFields
<1>8. PICK v : v = [x EXCEPT !.q = s, !.queued = u, !.retired = r]
  OBVIOUS
<1>9. v = z
  BY <1>4, <1>6, <1>7, <1>8
<1> HIDE DEF z
<1>10. /\ v \in ContextType /\ v.q = s /\ v.queued = u /\ v.retired = r /\ SameRest(v, x)
  BY <1>5, <1>8 DEF ContextType, SameRest
<1>11. \A i \in DOMAIN s : x.q[i + n].skip => x.q[i + n].k = "marker"
  BY <1>3, <1>5
<1>12. CASE ~(z.q # <<>> /\ Head(z.q).k = "bind")
  <2>1. y = v
    BY <1>1, <1>9, <1>12
  <2>2. Shifted(v, x, n)
    <3>1. \A i \in DOMAIN s : s[i] = x.q[i + n] /\ (s[i].skip => s[i].k = "marker")
      BY <1>5, <1>11
    <3>2. Len(v.q) + n = Len(x.q) /\ v.q = s
      BY <1>5, <1>10
    <3> QED BY <1>3, <3>1, <3>2 DEF Shifted
  <2> QED BY <1>2, <1>6, <1>7, <1>10, <2>1, <2>2 DEF Retires
<1>13. CASE z.q # <<>> /\ Head(z.q).k = "bind"
  <2>1. s # <<>> /\ Head(s).k = "bind" /\ y = [v EXCEPT !.q[1].st = "busy"]
    BY <1>1, <1>9, <1>10, <1>13
  <2>2. 1 \in DOMAIN s /\ Head(s) = s[1] /\ s[1] \in ObjectType
    BY <1>5, <2>1
  <2>3. PICK o : o = [s[1] EXCEPT !.st = "busy"]
    OBVIOUS
  <2>4. /\ o \in ObjectType /\ o.k = s[1].k /\ o.ts = s[1].ts /\ o.dep = s[1].dep
        /\ o.skip = s[1].skip
    BY <2>2, <2>3 DEF ObjectType
  <2>5. PICK a : a = [s EXCEPT ![1] = o]
    OBVIOUS
  <2>6. /\ a \in Seq(ObjectType) /\ Len(a) = Len(s) /\ a[1] = o
        /\ \A i \in 1..Len(s) : i # 1 => a[i] = s[i]
    BY <1>5, <2>2, <2>4, <2>5
  <2>7. y = [v EXCEPT !.q = a]
    <3>1. y = [v EXCEPT !.q = [v.q EXCEPT ![1] = [v.q[1] EXCEPT !.st = "busy"]]]
      BY <2>1
    <3>2. [v.q EXCEPT ![1] = [v.q[1] EXCEPT !.st = "busy"]] = a
      BY <1>10, <2>3, <2>5
    <3> QED BY <3>1, <3>2
  <2>8. y \in ContextType /\ y.q = a /\ y.queued = u /\ y.retired = r /\ SameRest(y, x)
    BY <1>10, <2>6, <2>7 DEF ContextType, SameRest
  <2>9. ASSUME NEW i \in DOMAIN a
        PROVE  /\ a[i].k = x.q[i + n].k /\ a[i].ts = x.q[i + n].ts
               /\ a[i].dep = x.q[i + n].dep
               /\ a[i].skip => a[i].k = "marker"
               /\ a[i].k = "sync" /\ a[i].st = "done" => x.q[i + n].st = "done"
    <3>1. i \in 1..Len(s) /\ i \in DOMAIN s /\ s[i] = x.q[i + n]
      BY <1>5, <2>6
    <3>2. CASE i = 1
      BY <1>11, <2>1, <2>2, <2>4, <2>6, <3>1, <3>2
    <3>3. CASE i # 1
      BY <1>11, <2>6, <3>1, <3>3
    <3> QED BY <3>2, <3>3
  <2>10. Shifted(y, x, n)
    BY <1>3, <1>5, <2>6, <2>8, <2>9 DEF Shifted
  <2> QED BY <1>2, <1>6, <1>7, <2>8, <2>10 DEF Retires
<1> QED BY <1>12, <1>13

\* Nothing is pending before a bind operation once the object before it is
\* retired.
LEMMA NothingBeforeBind ==
  ASSUME NEW x \in ContextType, NEW R, R \subseteq Nat, NEW H, RetiredInOrder(x, R, H),
         NEW i \in DOMAIN x.q, x.q[i].k = "bind",
         i > 1 => \E r : Expired(x.q[i - 1], r)
  PROVE  R = {}
<1>1. CASE i = 1
  BY <1>1 DEF RetiredInOrder
<1>2. CASE i > 1
  <2>1. x.q[i - 1].k = "sync" /\ Covers(x, R, H, i, x.q[i - 1].dep)
    BY <1>2 DEF RetiredInOrder
  <2>2. i - 1 \in DOMAIN x.q /\ x.q[i - 1].dep \in Nat /\ x.retired \in Nat
    BY <1>2, QueueFields, ContextFields
  <2>3. x.q[i - 1].st = "done"
    BY <1>2, <2>1 DEF Expired
  <2>4. x.q[i - 1].dep <= x.retired
    BY <2>1, <2>2, <2>3 DEF RetiredInOrder
  <2>5. ASSUME NEW r \in R PROVE FALSE
    <3>1. r <= x.q[i - 1].dep /\ r > x.retired /\ r \in Nat
      BY <2>1 DEF Covers, RetiredInOrder
    <3> QED BY <2>2, <2>4, <3>1
  <2> QED BY <2>5
<1> QED BY <1>1, <1>2, QueueFields

\* A timestamp is written by the driver only if nothing is pending before it.
LEMMA NothingBeforeWritten ==
  ASSUME NEW x \in ContextType, NEW S, NEW H, NEW R, R \subseteq Nat,
         QueueInOrder(x, S, H), RetiredInOrder(x, R, H),
         NEW n \in 0..Len(x.q),
         \A i \in 1..n : Expired(x.q[i], RetiredAfter(x, i - 1)),
         \E i \in 1..n : x.q[i].ts > 0
  PROVE  R = {}
<1> DEFINE W == {i \in 1..n : x.q[i].ts > 0}
<1>1. Len(x.q) \in Nat /\ n \in Nat /\ 1..n \subseteq DOMAIN x.q
  BY QueueFields
<1>2. W \subseteq Nat /\ W # {}
  BY <1>1
<1> HIDE DEF W
<1>3. PICK v \in W : \A k \in W : v <= k
  BY <1>2, LeastNatural
<1>4. v \in 1..n /\ x.q[v].ts > 0 /\ v \in DOMAIN x.q /\ \A i \in 1..n : x.q[i].ts > 0 => v <= i
  BY <1>1, <1>3 DEF W
<1>5. v - 1 \in 0..Len(x.q) /\ \A i \in 1..(v - 1) : ~(x.q[i].ts > 0)
  <2>1. v \in Nat /\ v >= 1 /\ v <= n /\ n <= Len(x.q)
    BY <1>1, <1>4
  <2>2. ASSUME NEW i \in 1..(v - 1) PROVE ~(x.q[i].ts > 0)
    <3>1. i \in 1..n /\ ~(v <= i)
      BY <1>1, <2>1
    <3> QED BY <1>4, <3>1
  <2> QED BY <1>1, <2>1, <2>2
<1>6. RetiredAfter(x, v - 1) = x.retired
  BY <1>5, RetiredAfterValue
<1>7. Expired(x.q[v], x.retired)
  BY <1>4, <1>6
<1>8. x.q[v].k \in {"cmd", "marker", "bind"}
  BY <1>4 DEF QueueInOrder
<1>9. CASE x.q[v].k = "bind"
  <2>1. v > 1 => Expired(x.q[v - 1], RetiredAfter(x, (v - 1) - 1))
    BY <1>1, <1>4
  <2> QED BY <1>4, <1>9, <2>1, NothingBeforeBind
<1>10. CASE x.q[v].k = "marker"
  <2>1. x.q[v].dep <= x.retired
    BY <1>7, <1>10, <1>4, QueueFields, ContextFields DEF Expired
  <2>2. Covers(x, R, H, v, x.q[v].dep)
    BY <1>4, <1>10 DEF RetiredInOrder
  <2>3. ASSUME NEW r \in R PROVE FALSE
    <3>1. r <= x.q[v].dep /\ r > x.retired /\ r \in Nat
      BY <2>2 DEF Covers, RetiredInOrder
    <3> QED BY <1>4, <2>1, <3>1, QueueFields, ContextFields
  <2> QED BY <2>3
<1>11. x.q[v].k # "cmd"
  BY <1>7 DEF Expired
<1> QED BY <1>8, <1>9, <1>10, <1>11

LEMMA RetiresInOrder ==
  ASSUME NEW x \in ContextType, NEW y \in ContextType, NEW n, Retires(y, x, n),
         NEW S, S \subseteq Nat, NEW R, R \subseteq S,
         QueueInOrder(x, S, {}), RetiredInOrder(x, R, {})
  PROVE  RetiredInOrder(y, R, {})
<1>1. /\ n \in 0..Len(x.q) /\ \A i \in 1..n : Expired(x.q[i], RetiredAfter(x, i - 1))
      /\ y.retired = RetiredAfter(x, n) /\ Shifted(y, x, n)
  BY DEF Retires
<1>2. n \in Nat /\ Len(x.q) \in Nat /\ 1..n \subseteq DOMAIN x.q
  BY <1>1, QueueFields
<1>3. 1 \in DOMAIN y.q /\ y.q[1].k = "bind" => R = {}
  <2>1. SUFFICES ASSUME 1 \in DOMAIN y.q, y.q[1].k = "bind" PROVE R = {}
    OBVIOUS
  <2>2. 1 + n \in DOMAIN x.q /\ x.q[1 + n].k = "bind"
    BY <1>1, <2>1, ShiftedDomain DEF Shifted
  <2>3. 1 + n > 1 => Expired(x.q[(1 + n) - 1], RetiredAfter(x, n - 1))
    <3>1. (1 + n) - 1 = n
      BY <1>2
    <3> QED BY <1>1, <1>2, <3>1
  <2> QED BY <2>2, <2>3, NothingBeforeBind
<1>4. CASE y.retired = x.retired /\ \A i \in 1..n : ~(x.q[i].ts > 0)
  <2>1. \A r \in R : r > y.retired
    BY <1>4 DEF RetiredInOrder
  <2>2. ASSUME NEW i \in DOMAIN y.q, y.q[i].ts > 0 PROVE y.q[i].ts > y.retired
    <3>1. i + n \in DOMAIN x.q /\ y.q[i].ts = x.q[i + n].ts
      BY <1>1, ShiftedDomain DEF Shifted
    <3> QED BY <1>4, <2>2, <3>1 DEF RetiredInOrder
  <2>3. x.retired <= y.retired
    BY <1>4, ContextFields
  <2> QED BY <1>1, <1>3, <2>1, <2>2, <2>3, RetiredShift
<1>5. CASE \E w \in 1..n : /\ x.q[w].ts > 0 /\ y.retired = x.q[w].ts
                           /\ \A i \in 1..n : x.q[i].ts > 0 => i <= w
  <2>1. PICK w \in 1..n : x.q[w].ts > 0 /\ y.retired = x.q[w].ts
    BY <1>5
  <2>2. R = {}
    BY <1>1, <2>1, NothingBeforeWritten
  <2>3. ASSUME NEW i \in DOMAIN y.q, y.q[i].ts > 0 PROVE y.q[i].ts > y.retired
    <3>1. i + n \in DOMAIN x.q /\ y.q[i].ts = x.q[i + n].ts /\ i \in Nat /\ i > 0
      BY <1>1, ShiftedDomain DEF Shifted
    <3>2. w \in DOMAIN x.q /\ w < i + n
      BY <1>2, <3>1
    <3>3. x.q[w].ts < x.q[i + n].ts
      BY <2>1, <2>3, <3>1, <3>2 DEF QueueInOrder
    <3> QED BY <2>1, <3>1, <3>2, <3>3, QueueFields
  <2>4. x.retired <= y.retired
    <3>1. w \in DOMAIN x.q /\ x.q[w].ts > x.retired /\ x.q[w].ts \in Nat
      BY <1>2, <2>1, QueueFields DEF RetiredInOrder
    <3> QED BY <2>1, <3>1, ContextFields
  <2> QED BY <1>1, <1>3, <2>2, <2>3, <2>4, RetiredShift
<1> QED BY <1>1, <1>4, <1>5, RetiredAfterValue

LEMMA ProcessKeeps ==
  ASSUME NEW x \in ContextType, NEW S, S \subseteq Nat, NEW R, R \subseteq S,
         ContextInv(x, S, R, {}), NEW y, y = ProcessDrawqueue(x)
  PROVE  /\ y \in ContextType /\ ContextInv(y, S, R, {}) /\ SameRest(y, x)
         /\ y.retired = x.retired \/ \A s \in S : s < y.retired
<1>1. /\ QueueInOrder(x, S, {}) /\ (x.state = {} /\ ~x.stale => RetiredInOrder(x, R, {}))
      /\ CountInv(x)
  BY DEF ContextInv
<1>2. Len(x.q) <= x.queued /\ \A i \in DOMAIN x.q : x.q[i].skip => x.q[i].k = "marker"
  BY <1>1 DEF CountInv, QueueInOrder
<1>3. y \in ContextType
  BY <1>2, ProcessRetires
<1>4. PICK n : Retires(y, x, n)
  BY <1>2, ProcessRetires
<1>5. /\ n \in 0..Len(x.q) /\ y.retired = RetiredAfter(x, n) /\ y.queued = x.queued - n
      /\ SameRest(y, x) /\ Shifted(y, x, n)
  BY <1>4 DEF Retires
<1>6. QueueInOrder(y, S, {})
  BY <1>1, <1>3, <1>5, QueueShift DEF SameRest
<1>7. y.state = {} /\ ~y.stale => RetiredInOrder(y, R, {})
  BY <1>1, <1>3, <1>4, <1>5, RetiresInOrder DEF SameRest
<1>8. CountInv(y)
  <2>1. /\ Len(y.q) + n = Len(x.q) /\ n \in Nat /\ Len(y.q) \in Nat /\ Len(x.q) \in Nat
        /\ x.queued \in Nat /\ y.queued \in Nat
    BY <1>3, <1>5, QueueFields, ContextFields DEF Shifted
  <2>2. Len(x.q) <= x.queued /\ (x.state = {} => x.queued = Len(x.q) /\ x.detach = "no")
    BY <1>1 DEF CountInv
  <2>3. Len(y.q) <= y.queued /\ (y.state = {} => y.queued = Len(y.q) /\ y.detach = "no")
    BY <1>5, <2>1, <2>2 DEF SameRest
  <2> QED BY <2>3 DEF CountInv
<1>9. (y.retired = x.retired \/ \A s \in S : s < y.retired) /\ y.retired <= y.ts
  <2>1. CASE \E w \in 1..n : x.q[w].ts > 0 /\ y.retired = x.q[w].ts
    <3>1. PICK w \in 1..n : x.q[w].ts > 0 /\ y.retired = x.q[w].ts
      BY <2>1
    <3>2. w \in DOMAIN x.q /\ x.q[w].ts \in Nat /\ x.qts \in Nat /\ x.ts \in Nat
      BY <1>5, QueueFields, ContextFields
    <3>3. x.q[w].ts <= x.qts /\ x.qts <= x.ts /\ y.ts = x.ts
      BY <1>1, <1>5, <3>2 DEF QueueInOrder, SameRest
    <3>4. \A s \in S : s < y.retired
      BY <1>1, <3>1, <3>2 DEF QueueInOrder
    <3>5. x.q[w].ts <= x.ts
      BY <3>2, <3>3
    <3>6. y.retired <= y.ts
      BY <3>1, <3>3, <3>5
    <3> QED BY <3>4, <3>6
  <2>2. x.retired <= x.ts /\ y.ts = x.ts
    BY <1>5 DEF ContextInv, SameRest
  <2> QED BY <1>5, <2>1, <2>2, RetiredAfterValue
<1> QED BY <1>3, <1>5, <1>6, <1>7, <1>8, <1>9 DEF ContextInv

-----------------------------------------------------------------------------
(* An object is taken from the queue, put back, or sent.                   *)

LEMMA PopKeeps ==
  ASSUME NEW x \in ContextType, NEW S, S \subseteq Nat, NEW R, R \subseteq S,
         ContextInv(x, S, R, {}), Sendable(x), NEW y, y = Pop(x), NEW o, o = Head(x.q)
  PROVE  /\ y \in ContextType /\ o \in ObjectType /\ ContextInv(y, S, R, {o})
         /\ SameRest(y, x) /\ y.retired = x.retired
<1>1. /\ QueueInOrder(x, S, {}) /\ (x.state = {} /\ ~x.stale => RetiredInOrder(x, R, {}))
      /\ CountInv(x)
  BY DEF ContextInv
<1>2. x.q # <<>> /\ x.q \in Seq(ObjectType) /\ 1 \in DOMAIN x.q /\ o = x.q[1] /\ o \in ObjectType
  BY ContextFields DEF Sendable
<1>3. Len(x.q) <= x.queued
  BY <1>1 DEF CountInv
<1>4. /\ y \in ContextType /\ SameRest(y, x) /\ y.q = Tail(x.q) /\ y.queued = x.queued - 1
      /\ y.retired = x.retired
  BY <1>2, <1>3, PopFields
<1>5. Len(y.q) = Len(x.q) - 1 /\ \A i \in DOMAIN y.q : y.q[i] = x.q[i + 1] /\ i + 1 \in DOMAIN x.q
  BY <1>2, <1>4
<1>6. Shifted(y, x, 1)
  <2>1. \A i \in DOMAIN y.q : y.q[i].skip => y.q[i].k = "marker"
    BY <1>1, <1>5 DEF QueueInOrder
  <2>2. Len(y.q) + 1 = Len(x.q)
    BY <1>4, <1>5, QueueFields
  <2> QED BY <1>5, <2>1, <2>2 DEF Shifted
<1>7. /\ o.k \in {"cmd", "marker"} /\ o.ts > 0 /\ o.ts <= x.qts
      /\ o.skip => o.k = "marker"
  BY <1>1, <1>2 DEF Sendable, QueueInOrder
<1>8. QueueInOrder(y, S, {})
  BY <1>1, <1>4, <1>6, QueueShift DEF SameRest
<1>9. \A i \in DOMAIN y.q : y.q[i].ts > 0 => o.ts < y.q[i].ts
  <2>1. ASSUME NEW i \in DOMAIN y.q, y.q[i].ts > 0 PROVE o.ts < y.q[i].ts
    <3>1. y.q[i] = x.q[i + 1] /\ i + 1 \in DOMAIN x.q /\ 1 < i + 1
      BY <1>4, <1>5, QueueFields
    <3> QED BY <1>1, <1>2, <1>7, <2>1, <3>1 DEF QueueInOrder
  <2> QED BY <2>1
<1>10. \A s \in S : s < o.ts
  BY <1>1, <1>2, <1>7 DEF QueueInOrder
<1>11. QueueInOrder(y, S, {o})
  BY <1>4, <1>7, <1>8, <1>9, <1>10 DEF QueueInOrder, SameRest
<1>12. ASSUME y.state = {}, ~y.stale PROVE RetiredInOrder(y, R, {o})
  <2>1. RetiredInOrder(x, R, {})
    BY <1>1, <1>4, <1>12 DEF SameRest
  <2>2. \A r \in R : r > y.retired
    BY <1>4, <2>1 DEF RetiredInOrder
  <2>3. o.ts > y.retired /\ (o.k = "marker" => \A r \in R : r <= o.dep)
    BY <1>2, <1>4, <1>7, <2>1 DEF RetiredInOrder, Covers
  <2>4. \A i \in DOMAIN y.q : y.q[i].ts > 0 => y.q[i].ts > y.retired
    BY <1>4, <1>5, <2>1 DEF RetiredInOrder
  <2>5. ASSUME NEW i \in DOMAIN y.q, NEW d, Covers(x, R, {}, i + 1, d)
        PROVE  Covers(y, R, {o}, i, d)
    <3>1. 1 < i + 1 /\ i \in Nat
      BY <1>4, QueueFields
    <3>2. ASSUME NEW j \in DOMAIN y.q, j < i PROVE y.q[j].ts <= d
      <4>1. j + 1 \in DOMAIN x.q /\ y.q[j] = x.q[j + 1] /\ j + 1 < i + 1
        BY <1>4, <1>5, <3>1, <3>2, QueueFields
      <4> QED BY <2>5, <4>1 DEF Covers
    <3>3. o.ts <= d
      BY <1>2, <2>5, <3>1 DEF Covers
    <3> QED BY <2>5, <3>2, <3>3 DEF Covers
  <2>6. ASSUME NEW i \in DOMAIN y.q, y.q[i].k = "marker"
        PROVE  Covers(y, R, {o}, i, y.q[i].dep)
    <3>1. Covers(x, R, {}, i + 1, y.q[i].dep)
      BY <1>5, <2>1, <2>6 DEF RetiredInOrder
    <3> QED BY <2>5, <3>1
  <2>7. ASSUME NEW i \in DOMAIN y.q, y.q[i].k = "bind"
        PROVE  i > 1 /\ y.q[i - 1].k = "sync" /\ Covers(y, R, {o}, i, y.q[i - 1].dep)
    <3>1. i + 1 \in DOMAIN x.q /\ x.q[i + 1].k = "bind" /\ i + 1 > 1 /\ (i + 1) - 1 = i
          /\ i \in Nat /\ i >= 1
      BY <1>4, <1>5, <2>7, QueueFields
    <3>2. x.q[i].k = "sync" /\ Covers(x, R, {}, i + 1, x.q[i].dep)
      BY <2>1, <3>1 DEF RetiredInOrder
    <3>3. i # 1
      BY <1>2, <1>7, <3>2
    <3>4. i - 1 \in DOMAIN y.q /\ (i - 1) + 1 = i
      BY <1>4, <3>1, <3>3, QueueFields
    <3>5. y.q[i - 1] = x.q[i]
      BY <1>5, <3>4
    <3>6. Covers(y, R, {o}, i, x.q[i].dep)
      BY <2>5, <3>2
    <3>7. i > 1
      BY <3>1, <3>3
    <3> QED BY <3>2, <3>5, <3>6, <3>7
  <2>8. ASSUME NEW i \in DOMAIN y.q, y.q[i].k = "sync", y.q[i].st = "done"
        PROVE  y.q[i].dep <= y.retired
    BY <1>4, <1>5, <2>1, <2>8 DEF RetiredInOrder
  <2>9. ASSUME NEW i \in DOMAIN y.q
        PROVE  /\ y.q[i].k = "bind" /\ i = 1 => R = {} /\ {o} = {}
               /\ y.q[i].k = "bind" /\ i > 1 => /\ y.q[i - 1].k = "sync"
                                                 /\ Covers(y, R, {o}, i, y.q[i - 1].dep)
    BY <2>7
  <2>10. \A a \in {o} : a.ts > y.retired /\ (a.k = "marker" => \A r \in R : r <= a.dep)
    BY <2>3
  <2> QED BY <2>2, <2>4, <2>6, <2>8, <2>9, <2>10 DEF RetiredInOrder
<1>13. CountInv(y)
  <2>1. Len(x.q) \in Nat /\ Len(y.q) \in Nat /\ x.queued \in Nat /\ y.queued \in Nat
    BY <1>4, QueueFields, ContextFields
  <2>2. Len(x.q) <= x.queued /\ (x.state = {} => x.queued = Len(x.q) /\ x.detach = "no")
    BY <1>1 DEF CountInv
  <2>3. Len(y.q) <= y.queued /\ (y.state = {} => y.queued = Len(y.q) /\ y.detach = "no")
    BY <1>4, <1>5, <2>1, <2>2 DEF SameRest
  <2> QED BY <2>3 DEF CountInv
<1>14. y.retired <= y.ts
  BY <1>4 DEF ContextInv, SameRest
<1> QED BY <1>2, <1>4, <1>11, <1>12, <1>13, <1>14 DEF ContextInv

LEMMA RequeueKeeps ==
  ASSUME NEW x \in ContextType, NEW S, S \subseteq Nat, NEW R, R \subseteq S,
         NEW o \in ObjectType, ContextInv(x, S, R, {o}), NEW y, y = RequeueCmdobj(x, o)
  PROVE  /\ y \in ContextType /\ ContextInv(y, S, R, {})
         /\ SameRest(y, x) /\ y.retired = x.retired
<1>1. /\ QueueInOrder(x, S, {o}) /\ (x.state = {} /\ ~x.stale => RetiredInOrder(x, R, {o}))
      /\ CountInv(x)
  BY DEF ContextInv
<1>2. /\ y \in ContextType /\ SameRest(y, x) /\ y.q = <<o>> \o x.q
      /\ y.queued = x.queued + 1 /\ y.retired = x.retired
  BY RequeueFields
<1>3. /\ Len(y.q) = Len(x.q) + 1 /\ Len(x.q) \in Nat /\ y.q[1] = o
      /\ \A i \in DOMAIN x.q : y.q[i + 1] = x.q[i]
      /\ DOMAIN y.q = 1..Len(y.q) /\ DOMAIN x.q = 1..Len(x.q)
  <2>1. /\ Len(x.q) \in Nat /\ DOMAIN x.q = 1..Len(x.q) /\ DOMAIN y.q = 1..Len(y.q)
        /\ x.q \in Seq(ObjectType)
    BY <1>2, QueueFields, ContextFields
  <2>2. Len(y.q) = Len(x.q) + 1
    BY <1>2, <2>1
  <2>3. y.q[1] = o
    BY <1>2, <2>1
  <2>4. ASSUME NEW i \in DOMAIN x.q PROVE y.q[i + 1] = x.q[i]
    BY <1>2, <2>1
  <2> QED BY <2>1, <2>2, <2>3, <2>4
<1>4. ASSUME NEW i \in DOMAIN y.q
      PROVE  i = 1 \/ (i > 1 /\ i - 1 \in DOMAIN x.q /\ (i - 1) + 1 = i)
  <2>1. i \in 1..(Len(x.q) + 1) /\ Len(x.q) \in Nat
    BY <1>3
  <2>2. i = 1 \/ (i > 1 /\ i - 1 \in 1..Len(x.q) /\ (i - 1) + 1 = i)
    BY <2>1
  <2> QED BY <1>3, <2>2
<1>5. ASSUME NEW i \in DOMAIN y.q, i > 1 PROVE y.q[i] = x.q[i - 1]
  <2>1. i - 1 \in DOMAIN x.q /\ (i - 1) + 1 = i
    BY <1>4, <1>5
  <2>2. y.q[(i - 1) + 1] = x.q[i - 1]
    BY <1>3, <2>1
  <2> QED BY <2>1, <2>2
<1>6. /\ o.k \in {"cmd", "marker"} /\ o.ts > 0 /\ o.ts <= x.qts /\ \A s \in S : s < o.ts
      /\ o.skip => o.k = "marker"
  BY <1>1 DEF QueueInOrder
<1>7. QueueInOrder(y, S, {})
  <2>1. y.qts <= y.ts /\ y.qts = x.qts
    BY <1>1, <1>2 DEF QueueInOrder, SameRest
  <2>2. ASSUME NEW i \in DOMAIN y.q
        PROVE  /\ y.q[i].ts <= y.qts
               /\ y.q[i].ts > 0 <=> y.q[i].k \in {"cmd", "marker", "bind"}
               /\ y.q[i].skip => y.q[i].k = "marker"
               /\ y.q[i].ts > 0 => \A s \in S : s < y.q[i].ts
    <3>1. CASE i = 1
      BY <1>3, <1>6, <2>1, <3>1
    <3>2. CASE i > 1
      <4>1. y.q[i] = x.q[i - 1] /\ i - 1 \in DOMAIN x.q
        BY <1>4, <1>5, <3>2
      <4> QED BY <1>1, <2>1, <4>1 DEF QueueInOrder
    <3> QED BY <1>4, <3>1, <3>2
  <2>3. ASSUME NEW i \in DOMAIN y.q, NEW j \in DOMAIN y.q, i < j, y.q[i].ts > 0, y.q[j].ts > 0
        PROVE  y.q[i].ts < y.q[j].ts
    <3>1. j > 1 /\ y.q[j] = x.q[j - 1] /\ j - 1 \in DOMAIN x.q
      BY <1>3, <1>4, <1>5, <2>3
    <3>2. CASE i = 1
      BY <1>1, <1>3, <2>3, <3>1, <3>2 DEF QueueInOrder
    <3>3. CASE i > 1
      <4>1. y.q[i] = x.q[i - 1] /\ i - 1 \in DOMAIN x.q /\ i - 1 < j - 1
        BY <1>3, <1>4, <1>5, <2>3, <3>3
      <4> QED BY <1>1, <2>3, <3>1, <4>1 DEF QueueInOrder
    <3> QED BY <1>4, <3>2, <3>3
  <2>4. \A s \in S : s <= y.qts
    BY <1>1, <2>1 DEF QueueInOrder
  <2> QED BY <2>1, <2>2, <2>3, <2>4 DEF QueueInOrder
<1>8. ASSUME y.state = {}, ~y.stale PROVE RetiredInOrder(y, R, {})
  <2>1. RetiredInOrder(x, R, {o})
    BY <1>1, <1>2, <1>8 DEF SameRest
  <2>2. \A r \in R : r > y.retired
    BY <1>2, <2>1 DEF RetiredInOrder
  <2>3. o.ts > y.retired /\ (o.k = "marker" => \A r \in R : r <= o.dep)
    BY <1>2, <2>1 DEF RetiredInOrder
  <2>4. ASSUME NEW i \in DOMAIN y.q, i > 1, NEW d, Covers(x, R, {o}, i - 1, d)
        PROVE  Covers(y, R, {}, i, d)
    <3>1. ASSUME NEW j \in DOMAIN y.q, j < i PROVE y.q[j].ts <= d
      <4>1. CASE j = 1
        BY <1>3, <2>4, <4>1 DEF Covers
      <4>2. CASE j > 1
        <5>1. y.q[j] = x.q[j - 1] /\ j - 1 \in DOMAIN x.q
          BY <1>3, <1>4, <1>5, <3>1, <4>2
        <5>2. i \in Nat /\ j \in Nat
          BY <1>3, <1>4
        <5>3. j - 1 < i - 1
          BY ONLY <3>1, <5>2
        <5> QED BY <2>4, <5>1, <5>3 DEF Covers
      <4> QED BY <1>4, <4>1, <4>2
    <3> QED BY <2>4, <3>1 DEF Covers
  <2>5. ASSUME NEW i \in DOMAIN y.q, y.q[i].k = "marker"
        PROVE  Covers(y, R, {}, i, y.q[i].dep)
    <3>1. CASE i = 1
      <4>1. \A j \in DOMAIN y.q : ~(j < i)
        BY <1>3, <3>1
      <4> QED BY <1>3, <2>3, <2>5, <3>1, <4>1 DEF Covers
    <3>2. CASE i > 1
      <4>1. y.q[i] = x.q[i - 1] /\ i - 1 \in DOMAIN x.q
        BY <1>4, <1>5, <3>2
      <4>2. Covers(x, R, {o}, i - 1, y.q[i].dep)
        BY <2>1, <2>5, <4>1 DEF RetiredInOrder
      <4> QED BY <2>4, <3>2, <4>2
    <3> QED BY <1>4, <3>1, <3>2
  <2>6. ASSUME NEW i \in DOMAIN y.q, y.q[i].k = "bind"
        PROVE  i > 1 /\ y.q[i - 1].k = "sync" /\ Covers(y, R, {}, i, y.q[i - 1].dep)
    <3>1. i > 1 /\ i - 1 \in DOMAIN x.q /\ y.q[i] = x.q[i - 1]
      BY <1>3, <1>4, <1>5, <1>6, <2>6
    <3>2. i - 1 # 1
      BY <2>1, <2>6, <3>1 DEF RetiredInOrder
    <3>3. i - 1 > 1 /\ (i - 1) \in DOMAIN y.q
      BY <1>3, <3>1, <3>2
    <3>4. y.q[i - 1] = x.q[(i - 1) - 1]
      BY <1>5, <3>3
    <3>5. x.q[(i - 1) - 1].k = "sync" /\ Covers(x, R, {o}, i - 1, x.q[(i - 1) - 1].dep)
      BY <2>1, <2>6, <3>1, <3>3 DEF RetiredInOrder
    <3>6. Covers(y, R, {}, i, x.q[(i - 1) - 1].dep)
      BY <2>4, <3>1, <3>5
    <3> QED BY <3>1, <3>4, <3>5, <3>6
  <2>7. ASSUME NEW i \in DOMAIN y.q
        PROVE  /\ y.q[i].ts > 0 => y.q[i].ts > y.retired
               /\ y.q[i].k = "sync" /\ y.q[i].st = "done" => y.q[i].dep <= y.retired
    <3>1. CASE i = 1
      BY <1>3, <1>6, <2>3, <3>1
    <3>2. CASE i > 1
      <4>1. y.q[i] = x.q[i - 1] /\ i - 1 \in DOMAIN x.q
        BY <1>4, <1>5, <3>2
      <4> QED BY <1>2, <2>1, <4>1 DEF RetiredInOrder
    <3> QED BY <1>4, <3>1, <3>2
  <2>8. ASSUME NEW i \in DOMAIN y.q
        PROVE  /\ y.q[i].k = "bind" /\ i = 1 => R = {} /\ {} = {}
               /\ y.q[i].k = "bind" /\ i > 1 => /\ y.q[i - 1].k = "sync"
                                                /\ Covers(y, R, {}, i, y.q[i - 1].dep)
    BY <2>6
  <2> QED BY <2>2, <2>5, <2>7, <2>8 DEF RetiredInOrder
<1>9. CountInv(y)
  <2>1. x.queued \in Nat /\ y.queued \in Nat /\ Len(x.q) \in Nat
    BY <1>2, <1>3, ContextFields
  <2>2. Len(x.q) <= x.queued /\ (x.state = {} => x.queued = Len(x.q) /\ x.detach = "no")
    BY <1>1 DEF CountInv
  <2>3. Len(y.q) <= y.queued /\ (y.state = {} => y.queued = Len(y.q) /\ y.detach = "no")
    BY <1>2, <1>3, <2>1, <2>2 DEF SameRest
  <2> QED BY <2>3 DEF CountInv
<1>10. y.retired <= y.ts
  BY <1>2 DEF ContextInv, SameRest
<1> QED BY <1>2, <1>7, <1>8, <1>9, <1>10 DEF ContextInv

\* An object in the dispatcher's hand is sent.
LEMMA SentKeeps ==
  ASSUME NEW x \in ContextType, NEW S, S \subseteq Nat, NEW R, R \subseteq S,
         NEW o \in ObjectType, ContextInv(x, S, R, {o})
  PROVE  ContextInv(x, S \cup {o.ts}, R \cup {o.ts}, {})
<1>1. /\ QueueInOrder(x, S, {o}) /\ (x.state = {} /\ ~x.stale => RetiredInOrder(x, R, {o}))
      /\ CountInv(x)
  BY DEF ContextInv
<1>2. QueueInOrder(x, S \cup {o.ts}, {})
  BY <1>1 DEF QueueInOrder
<1>3. ASSUME x.state = {}, ~x.stale PROVE RetiredInOrder(x, R \cup {o.ts}, {})
  <2>1. RetiredInOrder(x, R, {o})
    BY <1>1, <1>3
  <2>2. \A i \in DOMAIN x.q : \A d : Covers(x, R, {o}, i, d) => Covers(x, R \cup {o.ts}, {}, i, d)
    BY DEF Covers
  <2>3. \A i \in DOMAIN x.q : ~(x.q[i].k = "bind" /\ i = 1)
    BY <2>1 DEF RetiredInOrder
  <2> QED BY <2>1, <2>2, <2>3 DEF RetiredInOrder
<1> QED BY <1>1, <1>2, <1>3 DEF ContextInv

-----------------------------------------------------------------------------
(* The other steps on a context.                                           *)

\* Nothing joins the queue, and what is retired was not pending any more.
LEMMA ShiftKeeps ==
  ASSUME NEW x \in ContextType, NEW y \in ContextType, Shifted(y, x, 0), SameRest(y, x),
         y.queued = x.queued, NEW S, S \subseteq Nat, NEW R, R \subseteq S,
         NEW H, H \subseteq ObjectType, NEW S2, S2 \subseteq S, NEW R2, R2 \subseteq R,
         y.retired <= y.ts, x.state = {} /\ ~x.stale => x.retired <= y.retired,
         x.state = {} /\ ~x.stale => \A r \in R2 : r > y.retired,
         x.state = {} /\ ~x.stale => \A o \in H : o.ts > y.retired,
         x.state = {} /\ ~x.stale =>
           \A i \in DOMAIN y.q : y.q[i].ts > 0 => y.q[i].ts > y.retired,
         ContextInv(x, S, R, H)
  PROVE  ContextInv(y, S2, R2, H)
<1>1. QueueInOrder(y, S2, H)
  BY QueueShift DEF ContextInv, SameRest
<1>2. ASSUME y.state = {}, ~y.stale PROVE RetiredInOrder(y, R2, H)
  <2>1. x.state = {} /\ ~x.stale /\ RetiredInOrder(x, R, H)
    BY <1>2 DEF ContextInv, SameRest
  <2>2. 1 \in DOMAIN y.q /\ y.q[1].k = "bind" => R2 = {} /\ H = {}
    <3>1. SUFFICES ASSUME 1 \in DOMAIN y.q, y.q[1].k = "bind" PROVE R2 = {} /\ H = {}
      OBVIOUS
    <3>2. 1 + 0 \in DOMAIN x.q /\ 1 + 0 = 1
      BY <3>1, ShiftedDomain
    <3>3. x.q[1].k = "bind"
      BY <3>1, <3>2 DEF Shifted
    <3>4. R = {} /\ H = {}
      BY <2>1, <3>2, <3>3 DEF RetiredInOrder
    <3> QED BY <3>4
  <2> QED BY <2>1, <2>2, RetiredShift
<1>3. CountInv(y)
  <2>1. Len(y.q) = Len(x.q)
    BY QueueFields DEF Shifted
  <2> QED BY <2>1 DEF CountInv, ContextInv, SameRest
<1> QED BY <1>1, <1>2, <1>3 DEF ContextInv

LEMMA SameShifted ==
  ASSUME NEW x \in ContextType, NEW S, NEW H, QueueInOrder(x, S, H),
         NEW y \in ContextType, y.q = x.q
  PROVE  Shifted(y, x, 0)
<1>1. \A i \in DOMAIN y.q : i + 0 = i /\ (y.q[i].skip => y.q[i].k = "marker")
  BY QueueFields DEF QueueInOrder
<1>2. Len(y.q) + 0 = Len(x.q)
  BY QueueFields
<1> QED BY <1>1, <1>2 DEF Shifted

\* Less has been sent and not retired.
LEMMA FewerKeeps ==
  ASSUME NEW x \in ContextType, NEW S, S \subseteq Nat, NEW R, R \subseteq S,
         NEW H, H \subseteq ObjectType, NEW S2, S2 \subseteq S, NEW R2, R2 \subseteq R,
         ContextInv(x, S, R, H)
  PROVE  ContextInv(x, S2, R2, H)
<1>1. Shifted(x, x, 0) /\ SameRest(x, x)
  BY SameShifted DEF ContextInv, SameRest
<1>2. x.state = {} /\ ~x.stale => /\ \A r \in R2 : r > x.retired
                                  /\ \A o \in H : o.ts > x.retired
                                  /\ \A i \in DOMAIN x.q : x.q[i].ts > 0 => x.q[i].ts > x.retired
  BY DEF ContextInv, RetiredInOrder
<1>3. x.retired <= x.ts /\ x.retired <= x.retired
  BY ContextFields DEF ContextInv
<1> QED BY <1>1, <1>2, <1>3, ShiftKeeps

\* The GPU retires a timestamp.
LEMMA RetireKeeps ==
  ASSUME NEW x \in ContextType, NEW y \in ContextType, y.q = x.q, SameRest(y, x),
         y.queued = x.queued, NEW S, S \subseteq Nat, NEW R, R \subseteq S,
         NEW H, H \subseteq ObjectType, NEW S2, S2 \subseteq S, NEW R2, R2 \subseteq R,
         y.retired \in R, \A r \in R2 : r > y.retired,
         ContextInv(x, S, R, H)
  PROVE  ContextInv(y, S2, R2, H)
<1>1. Shifted(y, x, 0) /\ QueueInOrder(x, S, H)
  BY SameShifted DEF ContextInv
<1>2. y.retired \in S /\ y.retired <= x.qts /\ x.qts <= x.ts /\ y.ts = x.ts
  BY <1>1 DEF QueueInOrder, SameRest
<1>3. y.retired <= y.ts
  BY <1>2, ContextFields
<1>4. (\A o \in H : o.ts > y.retired)
      /\ (\A i \in DOMAIN y.q : y.q[i].ts > 0 => y.q[i].ts > y.retired)
  <2>1. \A o \in H : y.retired < o.ts /\ o.ts \in Nat
    BY <1>1, <1>2, ObjectFields DEF QueueInOrder
  <2>2. \A i \in DOMAIN y.q : y.q[i].ts > 0 => y.retired < y.q[i].ts
    BY <1>1, <1>2 DEF QueueInOrder
  <2> QED BY <2>1, <2>2, QueueFields, ContextFields
<1>5. x.state = {} /\ ~x.stale => x.retired <= y.retired
  <2>1. x.state = {} /\ ~x.stale => y.retired > x.retired
    BY DEF ContextInv, RetiredInOrder
  <2> QED BY <2>1, ContextFields
<1> QED BY <1>1, <1>3, <1>4, <1>5, ShiftKeeps

\* A context that is bad: nothing is promised any more about what is retired.
Spoils(y, x) ==
  /\ y.q = x.q \/ y.q = <<>>
  /\ y.queued = x.queued /\ y.ts = x.ts /\ y.qts = x.qts
  /\ y.state # {} /\ y.retired <= y.ts

LEMMA BadKeeps ==
  ASSUME NEW x \in ContextType, NEW y \in ContextType, Spoils(y, x), NEW S, S \subseteq Nat,
         NEW H, H \subseteq ObjectType, NEW S2, S2 \subseteq S, NEW R, NEW R2,
         ContextInv(x, S, R, H)
  PROVE  ContextInv(y, S2, R2, H)
<1> USE DEF Spoils
<1>1. QueueInOrder(x, S, H) /\ CountInv(x)
  BY DEF ContextInv
<1>2. QueueInOrder(y, S2, H)
  <2>1. CASE y.q = x.q
    BY <1>1, <2>1 DEF QueueInOrder
  <2>2. CASE y.q = <<>>
    <3>1. DOMAIN y.q = {}
      BY <2>2
    <3> QED BY <1>1, <3>1 DEF QueueInOrder
  <2> QED BY <2>1, <2>2
<1>3. CountInv(y)
  <2>1. Len(y.q) <= y.queued
    <3>1. CASE y.q = x.q
      BY <1>1, <3>1 DEF CountInv
    <3>2. CASE y.q = <<>>
      BY <3>2, ContextFields
    <3> QED BY <3>1, <3>2
  <2> QED BY <1>1, <2>1 DEF CountInv
<1> QED BY <1>2, <1>3 DEF ContextInv

\* A marker is retired on the spot: nothing is pending.
\* The empty queue with a new timestamp, which has retired.
FastRetires(y, x) ==
  /\ y.q = x.q /\ y.queued = x.queued /\ y.ts = x.ts + 1 /\ y.retired = x.ts + 1
  /\ y.qts = x.qts /\ y.state = x.state /\ y.detach = x.detach /\ y.stale = x.stale
  /\ x.queued = 0 /\ x.retired >= x.qts

LEMMA FastKeeps ==
  ASSUME NEW x \in ContextType, NEW y \in ContextType, FastRetires(y, x), NEW S, S \subseteq Nat, NEW R, R \subseteq S,
         NEW H, H \subseteq ObjectType, ContextInv(x, S, R, H)
  PROVE  ContextInv(y, S, R, H) /\ \A s \in S : s < y.retired
<1> USE DEF FastRetires
<1>1. /\ QueueInOrder(x, S, H) /\ (x.state = {} /\ ~x.stale => RetiredInOrder(x, R, H))
      /\ CountInv(x)
  BY DEF ContextInv
<1>2. x.ts \in Nat /\ x.qts \in Nat /\ x.retired \in Nat /\ x.qts <= x.ts /\ x.qts <= y.ts
  BY <1>1, ContextFields DEF QueueInOrder
<1>3. QueueInOrder(y, S, H)
  BY <1>1, <1>2 DEF QueueInOrder
<1>4. \A s \in S : s < y.retired
  <2>1. \A s \in S : s <= x.qts /\ s \in Nat
    BY <1>1 DEF QueueInOrder
  <2> QED BY <1>2, <2>1
<1>5. DOMAIN y.q = {}
  <2>1. Len(x.q) <= 0 /\ Len(x.q) \in Nat /\ DOMAIN y.q = 1..Len(x.q)
    BY <1>1, QueueFields DEF CountInv
  <2> QED BY <2>1
<1>6. ASSUME y.state = {}, ~y.stale PROVE RetiredInOrder(y, R, H)
  <2>1. RetiredInOrder(x, R, H)
    BY <1>1, <1>6
  <2>2. ASSUME NEW r \in R PROVE FALSE
    <3>1. r > x.retired /\ r <= x.qts /\ r \in Nat
      BY <1>1, <2>1 DEF QueueInOrder, RetiredInOrder
    <3> QED BY <1>2, <3>1
  <2>3. ASSUME NEW o \in H PROVE FALSE
    <3>1. o.ts > x.retired /\ o.ts <= x.qts /\ o.ts \in Nat
      BY <1>1, <2>1, ObjectFields DEF QueueInOrder, RetiredInOrder
    <3> QED BY <1>2, <3>1
  <2> QED BY <1>5, <2>2, <2>3 DEF RetiredInOrder
<1>7. CountInv(y)
  BY <1>1 DEF CountInv
<1>8. y.retired <= y.ts
  BY <1>2
<1> QED BY <1>3, <1>4, <1>6, <1>7, <1>8 DEF ContextInv

-----------------------------------------------------------------------------
(* Objects are queued.                                                     *)

\* The part of the invariant of a context that is kept with every object.
InOrder(x, S, R, H) ==
  /\ QueueInOrder(x, S, H) /\ x.retired <= x.ts
  /\ x.state = {} /\ ~x.stale => RetiredInOrder(x, R, H)

\* The queue of y is the queue of x with o at its end.
Pushed(y, x, o) ==
  /\ Len(y.q) = Len(x.q) + 1 /\ y.q[Len(x.q) + 1] = o
  /\ \A i \in DOMAIN x.q :
       /\ y.q[i].k = x.q[i].k /\ y.q[i].ts = x.q[i].ts /\ y.q[i].dep = x.q[i].dep
       /\ y.q[i].st = x.q[i].st
       /\ y.q[i].skip => y.q[i].k = "marker"
  /\ o \in ObjectType /\ o.st = "wait" /\ ~o.skip
  /\ y.queued = x.queued + 1 /\ y.retired = x.retired /\ y.state = x.state
  /\ y.detach = x.detach /\ (x.stale => y.stale)

\* With the timestamp it needs, and the dependencies.
Fits(y, x, o) ==
  \/ o.ts = 0 /\ o.k \in {"sync", "timeline"} /\ y.ts = x.ts /\ y.qts = x.qts
  \/ /\ o.k \in {"cmd", "marker", "bind"} /\ o.ts = x.ts + 1
     /\ y.ts = x.ts + 1 /\ y.qts = x.ts + 1
     /\ o.k = "marker" => o.dep = x.qts
     /\ o.k = "bind" => /\ x.q # <<>> /\ x.q[Len(x.q)].k = "sync"
                        /\ x.stale \/ x.ts <= x.q[Len(x.q)].dep

LEMMA PushedQueue ==
  ASSUME NEW x \in ContextType, NEW y \in ContextType, NEW o, Pushed(y, x, o), Fits(y, x, o),
         NEW S, S \subseteq Nat, NEW H, H \subseteq ObjectType, QueueInOrder(x, S, H)
  PROVE  QueueInOrder(y, S, H)
<1> DEFINE L == Len(x.q) + 1
<1>1. /\ Len(x.q) \in Nat /\ L \in DOMAIN y.q /\ y.q[L] = o
      /\ \A i \in DOMAIN y.q : i = L \/ (i \in DOMAIN x.q /\ i < L)
  BY QueueFields DEF Pushed
<1>2. /\ x.ts \in Nat /\ x.qts \in Nat /\ x.qts <= x.ts /\ x.qts <= y.qts /\ y.qts <= y.ts
      /\ y.qts \in Nat
  BY ContextFields DEF Fits, QueueInOrder
<1>3. /\ o.ts <= y.qts /\ (o.ts > 0 <=> o.k \in {"cmd", "marker", "bind"})
      /\ o.ts > 0 => o.ts = x.ts + 1
  BY <1>2 DEF Fits
<1> HIDE DEF L
<1>4. ASSUME NEW i \in DOMAIN y.q
      PROVE  /\ y.q[i].ts <= y.qts
             /\ y.q[i].ts > 0 <=> y.q[i].k \in {"cmd", "marker", "bind"}
             /\ y.q[i].skip => y.q[i].k = "marker"
  <2>1. CASE i = L
    BY <1>1, <1>3, <2>1 DEF Pushed
  <2>2. CASE i \in DOMAIN x.q
    <3>1. x.q[i].ts <= x.qts /\ x.q[i].ts \in Nat
      BY <2>2, QueueFields DEF QueueInOrder
    <3>2. y.q[i].ts <= y.qts
      BY <1>2, <2>2, <3>1 DEF Pushed
    <3> QED BY <2>2, <3>2 DEF Pushed, QueueInOrder
  <2> QED BY <1>1, <2>1, <2>2
<1>5. \A s \in S : s <= x.qts /\ s \in Nat
  BY DEF QueueInOrder
<1>6. \A a \in H : a.ts <= x.qts /\ a.ts \in Nat
  BY ObjectFields DEF QueueInOrder
<1>7. ASSUME NEW i \in DOMAIN y.q, y.q[i].ts > 0
      PROVE  (\A a \in H : a.ts < y.q[i].ts) /\ (\A s \in S : s < y.q[i].ts)
  <2>1. CASE i = L
    <3>1. y.q[i].ts = x.ts + 1
      BY <1>1, <1>3, <1>7, <2>1
    <3> QED BY <1>2, <1>5, <1>6, <3>1
  <2>2. CASE i \in DOMAIN x.q
    <3>1. x.q[i].ts > 0 /\ y.q[i].ts = x.q[i].ts
      BY <1>7, <2>2 DEF Pushed
    <3> QED BY <2>2, <3>1 DEF QueueInOrder
  <2> QED BY <1>1, <2>1, <2>2
<1>8. ASSUME NEW i \in DOMAIN y.q, NEW j \in DOMAIN y.q, i < j, y.q[i].ts > 0, y.q[j].ts > 0
      PROVE  y.q[i].ts < y.q[j].ts
  <2>1. i \in DOMAIN x.q
    BY <1>1, <1>8, QueueFields DEF L
  <2>2. y.q[i].ts = x.q[i].ts /\ x.q[i].ts <= x.qts /\ x.q[i].ts \in Nat
    BY <2>1, QueueFields DEF Pushed, QueueInOrder
  <2>3. CASE j = L
    <3>1. y.q[j].ts = x.ts + 1
      BY <1>1, <1>3, <1>8, <2>3
    <3> QED BY <1>2, <2>2, <3>1
  <2>4. CASE j \in DOMAIN x.q
    <3>1. y.q[j].ts = x.q[j].ts
      BY <2>4 DEF Pushed
    <3> QED BY <1>8, <2>1, <2>2, <2>4, <3>1 DEF QueueInOrder
  <2> QED BY <1>1, <2>3, <2>4
<1>9. \A a \in H : /\ a.k \in {"cmd", "marker"} /\ a.ts > 0 /\ a.ts <= y.qts
                  /\ (a.skip => a.k = "marker") /\ \A s \in S : s < a.ts
  <2>1. \A a \in H : a.ts <= y.qts
    BY <1>2, <1>6
  <2> QED BY <2>1, Zenon DEF QueueInOrder
<1>10. \A s \in S : s <= y.qts
  BY <1>2, <1>5
<1> QED BY <1>2, <1>4, <1>7, <1>8, <1>9, <1>10 DEF QueueInOrder

LEMMA PushedRetired ==
  ASSUME NEW x \in ContextType, NEW y \in ContextType, NEW o, Pushed(y, x, o), Fits(y, x, o),
         NEW S, S \subseteq Nat, NEW R, R \subseteq S, NEW H, H \subseteq ObjectType,
         QueueInOrder(x, S, H), x.retired <= x.ts, RetiredInOrder(x, R, H), ~x.stale
  PROVE  RetiredInOrder(y, R, H)
<1> DEFINE L == Len(x.q) + 1
<1>1. /\ Len(x.q) \in Nat /\ L \in DOMAIN y.q /\ y.q[L] = o /\ L \in Nat
      /\ \A i \in DOMAIN y.q : i = L \/ (i \in DOMAIN x.q /\ i < L)
      /\ \A i \in DOMAIN x.q : i \in DOMAIN y.q /\ i < L
  BY QueueFields DEF Pushed
<1>2. x.ts \in Nat /\ x.qts \in Nat /\ x.qts <= x.ts /\ x.retired \in Nat /\ y.retired = x.retired
  BY ContextFields DEF QueueInOrder, Pushed
<1>3. ASSUME NEW d \in Nat, x.qts <= d PROVE Covers(y, R, H, L, d)
  <2>1. ASSUME NEW r \in R PROVE r <= d
    <3>1. r <= x.qts /\ r \in Nat
      BY DEF QueueInOrder
    <3> QED BY <1>2, <1>3, <3>1
  <2>2. ASSUME NEW a \in H PROVE a.ts <= d
    <3>1. a.ts <= x.qts /\ a.ts \in Nat
      BY ObjectFields DEF QueueInOrder
    <3> QED BY <1>2, <1>3, <3>1
  <2>3. ASSUME NEW j \in DOMAIN y.q, j < L PROVE y.q[j].ts <= d
    <3>1. j \in DOMAIN x.q
      BY <1>1, <2>3
    <3>2. y.q[j].ts = x.q[j].ts /\ x.q[j].ts <= x.qts /\ x.q[j].ts \in Nat
      BY <3>1, QueueFields DEF Pushed, QueueInOrder
    <3> QED BY <1>2, <1>3, <3>2
  <2> QED BY <2>1, <2>2, <2>3 DEF Covers
<1>4. ASSUME NEW i \in DOMAIN x.q, NEW d, Covers(x, R, H, i, d) PROVE Covers(y, R, H, i, d)
  <2>1. ASSUME NEW j \in DOMAIN y.q, j < i PROVE y.q[j].ts <= d
    <3>1. j \in DOMAIN x.q
      BY <1>1, <2>1, QueueFields
    <3> QED BY <1>4, <2>1, <3>1 DEF Covers, Pushed
  <2> QED BY <1>4, <2>1 DEF Covers
<1> HIDE DEF L
<1>5. ASSUME NEW i \in DOMAIN y.q
      PROVE  /\ y.q[i].ts > 0 => y.q[i].ts > y.retired
             /\ y.q[i].k = "sync" /\ y.q[i].st = "done" => y.q[i].dep <= y.retired
             /\ y.q[i].k = "marker" => Covers(y, R, H, i, y.q[i].dep)
  <2>1. CASE i = L
    <3>1. y.q[i] = o /\ o.st = "wait" /\ o \in ObjectType
      BY <1>1, <2>1 DEF Pushed
    <3>2. o.ts > 0 => o.ts > y.retired
      BY <1>2 DEF Fits
    <3>3. o.k = "marker" => o.dep = x.qts
      BY DEF Fits
    <3>4. o.k = "marker" => Covers(y, R, H, i, o.dep)
      BY <1>2, <1>3, <2>1, <3>3
    <3> QED BY <3>1, <3>2, <3>4
  <2>2. CASE i \in DOMAIN x.q
    <3>1. /\ y.q[i].k = x.q[i].k /\ y.q[i].ts = x.q[i].ts /\ y.q[i].dep = x.q[i].dep
          /\ y.q[i].st = x.q[i].st
      BY <2>2 DEF Pushed
    <3>2. /\ x.q[i].ts > 0 => x.q[i].ts > x.retired
          /\ x.q[i].k = "sync" /\ x.q[i].st = "done" => x.q[i].dep <= x.retired
          /\ x.q[i].k = "marker" => Covers(x, R, H, i, x.q[i].dep)
      BY <2>2 DEF RetiredInOrder
    <3> QED BY <1>2, <1>4, <2>2, <3>1, <3>2
  <2> QED BY <1>1, <2>1, <2>2
<1>6. ASSUME NEW i \in DOMAIN y.q, y.q[i].k = "bind"
      PROVE  /\ i = 1 => R = {} /\ H = {}
             /\ i > 1 => y.q[i - 1].k = "sync" /\ Covers(y, R, H, i, y.q[i - 1].dep)
  <2>1. CASE i = L
    <3>1. x.q # <<>> /\ x.q[Len(x.q)].k = "sync" /\ x.ts <= x.q[Len(x.q)].dep
      BY <1>1, <1>6, <2>1 DEF Fits
    <3>2. Len(x.q) \in DOMAIN x.q /\ L > 1 /\ L - 1 = Len(x.q)
      BY <1>1, <3>1, QueueFields, ContextFields, EmptySeq DEF L
    <3>3. y.q[L - 1].k = "sync" /\ y.q[L - 1].dep = x.q[Len(x.q)].dep
      BY <3>1, <3>2 DEF Pushed
    <3>4. x.q[Len(x.q)].dep \in Nat
      BY <3>2, QueueFields
    <3>5. x.qts <= x.q[Len(x.q)].dep
      BY <1>2, <3>1, <3>4
    <3>6. Covers(y, R, H, L, x.q[Len(x.q)].dep)
      BY <1>3, <3>4, <3>5
    <3> QED BY <2>1, <3>2, <3>3, <3>6
  <2>2. CASE i \in DOMAIN x.q
    <3>1. x.q[i].k = "bind"
      BY <1>6, <2>2 DEF Pushed
    <3>2. /\ i = 1 => R = {} /\ H = {}
          /\ i > 1 => x.q[i - 1].k = "sync" /\ Covers(x, R, H, i, x.q[i - 1].dep)
      BY <2>2, <3>1 DEF RetiredInOrder
    <3>3. i > 1 => i - 1 \in DOMAIN x.q
      BY <2>2, QueueFields
    <3>4. i > 1 => y.q[i - 1].k = x.q[i - 1].k /\ y.q[i - 1].dep = x.q[i - 1].dep
      BY <3>3 DEF Pushed
    <3> QED BY <1>4, <2>2, <3>2, <3>4
  <2> QED BY <1>1, <2>1, <2>2
<1>7. /\ \A r \in R : r > y.retired
      /\ \A a \in H : a.ts > y.retired /\ (a.k = "marker" => \A r \in R : r <= a.dep)
  BY <1>2 DEF RetiredInOrder
<1> QED BY <1>5, <1>6, <1>7 DEF RetiredInOrder

\* The last object of the queue is the implicit sync object of a bind operation:
\* it waits for all timestamps there are.
LastIsSync(x) ==
  /\ x.q # <<>> /\ x.q[Len(x.q)].k = "sync"
  /\ x.stale \/ x.ts <= x.q[Len(x.q)].dep

\* The queue of z holds the objects of x's, marked to be skipped or not.
SameObjects(z, x) ==
  /\ Len(z.q) = Len(x.q)
  /\ \A i \in DOMAIN x.q : /\ z.q[i].k = x.q[i].k /\ z.q[i].ts = x.q[i].ts
                           /\ z.q[i].dep = x.q[i].dep /\ z.q[i].st = x.q[i].st
                           /\ z.q[i].skip => z.q[i].k = "marker"

\* What Push does to a context z that has the queue of x.
LEMMA PushPushes ==
  ASSUME NEW x \in ContextType, NEW z \in ContextType, NEW o \in ObjectType, o.st = "wait", ~o.skip,
         SameObjects(z, x),
         z.queued = x.queued, z.retired = x.retired, z.state = x.state, z.detach = x.detach,
         x.stale => z.stale,
         NEW y, y = Push(z, o)
  PROVE  /\ y \in ContextType /\ Pushed(y, x, o) /\ y.ts = z.ts /\ y.qts = z.qts
         /\ y.stale = z.stale /\ y.q # <<>> /\ y.q[Len(y.q)] = o
<1>1. /\ y \in ContextType /\ SameRest(y, z)
      /\ y.q = Append(z.q, o) /\ y.queued = z.queued + 1 /\ y.retired = z.retired
  BY PushFields
<1>2. Len(x.q) \in Nat /\ DOMAIN x.q = 1..Len(x.q) /\ z.q \in Seq(ObjectType)
  BY QueueFields, ContextFields
<1>3. /\ Len(y.q) = Len(x.q) + 1 /\ y.q[Len(x.q) + 1] = o
      /\ \A i \in DOMAIN x.q : y.q[i] = z.q[i]
  BY <1>1, <1>2 DEF SameObjects
<1>4. y.q # <<>>
  BY <1>2, <1>3
<1>5. Pushed(y, x, o)
  BY <1>1, <1>3 DEF Pushed, SameRest, SameObjects
<1> QED BY <1>1, <1>3, <1>4, <1>5 DEF SameRest

LEMMA QueueObjectPushes ==
  ASSUME NEW x \in ContextType, NEW k \in Kind, NEW seen \in Nat,
         \A i \in DOMAIN x.q : x.q[i].skip => x.q[i].k = "marker",
         k = "bind" => LastIsSync(x),
         NEW y, y = QueueObject(x, k, seen)
  PROVE  /\ y \in ContextType /\ \E o : Pushed(y, x, o) /\ Fits(y, x, o)
         /\ k = "tsync" => LastIsSync(y)
<1>1. x.ts \in Nat /\ x.qts \in Nat /\ x.ts + 1 \in Nat /\ 0 \in Nat
  BY ContextFields
<1>9. \A z : z.q = x.q => SameObjects(z, x)
  BY DEF SameObjects
<1>2. CASE k \in {"sync", "timeline"}
  <2>1. PICK o : o = Object(k, 0, 0)
    OBVIOUS
  <2>2. y = Push(x, o)
    BY <1>2, <2>1 DEF QueueObject
  <2>3. o \in ObjectType /\ o.k = k /\ o.ts = 0 /\ o.st = "wait" /\ o.skip = FALSE
    BY <2>1 DEF Object, ObjectType
  <2>4. y \in ContextType /\ Pushed(y, x, o) /\ y.ts = x.ts /\ y.qts = x.qts
    BY <1>9, <2>2, <2>3, PushPushes
  <2> QED BY <1>2, <2>3, <2>4 DEF Fits
<1>3. CASE k = "tsync"
  <2>1. PICK o : o = Object("sync", 0, seen)
    OBVIOUS
  <2>2. PICK z : z = [x EXCEPT !.stale = x.stale \/ seen < x.ts]
    OBVIOUS
  <2>3. y = Push(z, o)
    BY <1>3, <2>1, <2>2 DEF QueueObject
  <2>4. o \in ObjectType /\ o.k = "sync" /\ o.ts = 0 /\ o.st = "wait" /\ o.skip = FALSE /\ o.dep = seen
    BY <2>1 DEF Object, ObjectType, Kind
  <2>5. (x.stale \/ seen < x.ts) \in BOOLEAN
    OBVIOUS
  <2>6. /\ z \in ContextType /\ z.q = x.q /\ z.queued = x.queued /\ z.ts = x.ts /\ z.qts = x.qts
        /\ z.retired = x.retired /\ z.state = x.state /\ z.detach = x.detach
    BY <2>2, <2>5 DEF ContextType
  <2>7. z.stale = (x.stale \/ seen < x.ts)
    BY <2>2 DEF ContextType
  <2>8. (x.stale => z.stale) /\ (z.stale \/ x.ts <= seen)
    <3>1. seen < x.ts \/ x.ts <= seen
      BY <1>1
    <3> QED BY <2>7, <3>1, Zenon
  <2>9. /\ y \in ContextType /\ Pushed(y, x, o) /\ y.ts = x.ts /\ y.qts = x.qts
        /\ y.stale = z.stale /\ y.q # <<>> /\ y.q[Len(y.q)] = o
    BY <1>9, <2>3, <2>4, <2>6, <2>8, PushPushes
  <2> QED BY <1>3, <2>4, <2>8, <2>9 DEF Fits, LastIsSync
<1>4. PICK z : z = NextTimestamp(x)
  OBVIOUS
<1>5. /\ z \in ContextType /\ z.ts = x.ts + 1 /\ z.qts = x.ts + 1
      /\ z.q = x.q /\ z.queued = x.queued /\ z.retired = x.retired /\ z.state = x.state
      /\ z.detach = x.detach /\ z.stale = x.stale
  BY <1>4, NextTimestampFields
<1>6. CASE k = "bind"
  <2>1. PICK o : o = Object("bind", x.ts + 1, 0)
    OBVIOUS
  <2>2. y = Push(z, o)
    BY <1>4, <1>6, <2>1 DEF QueueObject
  <2>3. o \in ObjectType /\ o.k = k /\ o.ts = x.ts + 1 /\ o.st = "wait" /\ o.skip = FALSE
    BY <1>1, <1>6, <2>1 DEF Object, ObjectType
  <2>4. y \in ContextType /\ Pushed(y, x, o) /\ y.ts = x.ts + 1 /\ y.qts = x.ts + 1
    BY <1>5, <1>9, <2>2, <2>3, PushPushes
  <2> QED BY <1>6, <2>3, <2>4 DEF Fits, LastIsSync
<1>7. CASE k = "marker"
  <2>1. PICK o : o = Object("marker", x.ts + 1, x.qts)
    OBVIOUS
  <2>2. y = Push(z, o)
    BY <1>4, <1>7, <2>1 DEF QueueObject
  <2>3. o \in ObjectType /\ o.k = k /\ o.ts = x.ts + 1 /\ o.st = "wait" /\ o.skip = FALSE
        /\ o.dep = x.qts
    BY <1>1, <1>7, <2>1 DEF Object, ObjectType
  <2>4. y \in ContextType /\ Pushed(y, x, o) /\ y.ts = x.ts + 1 /\ y.qts = x.ts + 1
    BY <1>5, <1>9, <2>2, <2>3, PushPushes
  <2> QED BY <1>7, <2>3, <2>4 DEF Fits
<1>8. CASE k = "cmd"
  <2>1. PICK o : o = Object("cmd", x.ts + 1, 0)
    OBVIOUS
  <2> DEFINE e(i) == IF z.q[i].k = "marker" THEN [z.q[i] EXCEPT !.skip = TRUE] ELSE z.q[i]
  <2>2. PICK s : s = [i \in DOMAIN z.q |-> e(i)]
    OBVIOUS
  <2>3. PICK v : v = [z EXCEPT !.q = s]
    OBVIOUS
  <2>4. y = Push(v, o)
    BY <1>4, <1>8, <2>1, <2>2, <2>3 DEF QueueObject
  <2>5. o \in ObjectType /\ o.k = k /\ o.ts = x.ts + 1 /\ o.st = "wait" /\ o.skip = FALSE
    BY <1>1, <1>8, <2>1 DEF Object, ObjectType
  <2>6. ASSUME NEW i \in DOMAIN x.q
        PROVE  /\ e(i) \in ObjectType /\ e(i).k = x.q[i].k /\ e(i).ts = x.q[i].ts
               /\ e(i).dep = x.q[i].dep /\ e(i).st = x.q[i].st
               /\ e(i).skip => e(i).k = "marker"
    <3>1. PICK a \in ObjectType : a = x.q[i] /\ z.q[i] = a /\ (a.skip => a.k = "marker")
      BY <1>5, QueueFields
    <3>2. CASE a.k = "marker"
      <4>1. PICK w : w = [a EXCEPT !.skip = TRUE]
        OBVIOUS
      <4>2. w \in ObjectType /\ w.k = a.k /\ w.ts = a.ts /\ w.dep = a.dep /\ w.st = a.st
        BY <4>1 DEF ObjectType
      <4>3. e(i) = w
        BY <3>1, <3>2, <4>1
      <4> QED BY <3>1, <3>2, <4>2, <4>3
    <3>3. CASE a.k # "marker"
      BY <3>1, <3>3
    <3> QED BY <3>2, <3>3
  <2> HIDE DEF e
  <2>7. DOMAIN z.q = 1..Len(x.q) /\ Len(x.q) \in Nat /\ DOMAIN x.q = 1..Len(x.q)
    BY <1>5, QueueFields
  <2>8. s \in [1..Len(x.q) -> ObjectType] /\ \A i \in DOMAIN x.q : s[i] = e(i)
    BY <2>2, <2>6, <2>7
  <2>9. s \in Seq(ObjectType) /\ Len(s) = Len(x.q)
    BY <2>7, <2>8
  <2>10. /\ v \in ContextType /\ v.q = s /\ v.queued = z.queued /\ v.ts = z.ts /\ v.qts = z.qts
         /\ v.retired = z.retired /\ v.state = z.state /\ v.detach = z.detach
         /\ v.stale = z.stale
    BY <1>5, <2>3, <2>9 DEF ContextType
  <2>11. SameObjects(v, x)
    BY <2>6, <2>8, <2>9, <2>10 DEF SameObjects
  <2>13. /\ v.queued = x.queued /\ v.retired = x.retired /\ v.state = x.state
         /\ v.detach = x.detach /\ (x.stale => v.stale)
         /\ v.ts = x.ts + 1 /\ v.qts = x.ts + 1 /\ v \in ContextType
    BY ONLY <1>5, <2>10
  <2>12. y \in ContextType /\ Pushed(y, x, o) /\ y.ts = x.ts + 1 /\ y.qts = x.ts + 1
    BY <2>4, <2>5, <2>11, <2>13, PushPushes
  <2> QED BY <1>8, <2>5, <2>12 DEF Fits
<1> QED BY <1>2, <1>3, <1>6, <1>7, <1>8 DEF Kind

\* The recursion of QueueBatch, up to n.
BatchUpTo(g, x, b, seen, n) ==
  g = [m \in 0..n |-> IF m = 0 THEN x ELSE QueueObject(g[m - 1], b[m], seen)]

LEMMA BatchExists ==
  ASSUME NEW x, NEW b, NEW seen, NEW len \in Nat
  PROVE  \E g : BatchUpTo(g, x, b, seen, len)
<1> DEFINE T == {n \in Nat : ~ \E g : BatchUpTo(g, x, b, seen, n)}
<1>1. SUFFICES ASSUME T # {} PROVE FALSE
  BY DEF T
<1>2. T \subseteq Nat
  OBVIOUS
<1>3. PICK m \in T : \A k \in T : m <= k
  BY <1>1, <1>2, LeastNatural
<1>4. m \in Nat /\ ~ \E g : BatchUpTo(g, x, b, seen, m)
  OBVIOUS
<1>5. CASE m = 0
  <2>1. PICK g : g = [k \in 0..m |-> x]
    OBVIOUS
  <2>2. BatchUpTo(g, x, b, seen, m)
    BY <1>5, <2>1 DEF BatchUpTo
  <2> QED BY <1>4, <2>2
<1>6. CASE m # 0
  <2>1. m - 1 \in Nat /\ ~(m <= m - 1)
    BY <1>4, <1>6
  <2>2. m - 1 \notin T
    BY <1>3, <2>1
  <2>3. PICK g : BatchUpTo(g, x, b, seen, m - 1)
    BY <2>1, <2>2
  <2> HIDE DEF T
  <2>4. PICK h : h = [k \in 0..m |-> IF k = m THEN QueueObject(g[m - 1], b[m], seen) ELSE g[k]]
    OBVIOUS
  <2>5. ASSUME NEW k \in 0..m
        PROVE  h[k] = IF k = 0 THEN x ELSE QueueObject(h[k - 1], b[k], seen)
    <3>1. k \in Nat /\ k <= m
      BY <1>4
    <3>2. CASE k = m
      <4>1. m - 1 \in 0..m /\ m - 1 # m
        BY <1>4, <2>1
      <4>2. h[k] = QueueObject(g[m - 1], b[m], seen) /\ h[m - 1] = g[m - 1]
        BY <2>4, <3>2, <4>1
      <4> QED BY <1>6, <3>2, <4>2
    <3>3. CASE k # m
      <4>1. k \in 0..(m - 1) /\ (k # 0 => k - 1 \in 0..m /\ k - 1 # m)
        BY <1>4, <3>1, <3>3
      <4>2. g[k] = IF k = 0 THEN x ELSE QueueObject(g[k - 1], b[k], seen)
        BY <2>3, <4>1 DEF BatchUpTo
      <4>3. h[k] = g[k] /\ (k # 0 => h[k - 1] = g[k - 1])
        BY <2>4, <3>3, <4>1
      <4> QED BY <4>2, <4>3
    <3> QED BY <3>2, <3>3
  <2>6. h = [k \in 0..m |-> h[k]]
    BY <2>4
  <2>7. BatchUpTo(h, x, b, seen, m)
    BY <2>5, <2>6 DEF BatchUpTo
  <2> QED BY <1>4, <2>7
<1> QED BY <1>5, <1>6

LEMMA BatchIsSteps ==
  ASSUME NEW x, NEW b \in Seq(Kind), NEW seen
  PROVE  \E g : BatchUpTo(g, x, b, seen, Len(b)) /\ QueueBatch(x, b, seen) = g[Len(b)]
<1>1. QueueBatch(x, b, seen) = (CHOOSE g : BatchUpTo(g, x, b, seen, Len(b)))[Len(b)]
  BY DEF QueueBatch, BatchUpTo
<1>2. \E g : BatchUpTo(g, x, b, seen, Len(b))
  <2>1. Len(b) \in Nat
    OBVIOUS
  <2> QED BY <2>1, BatchExists
<1>3. BatchUpTo(CHOOSE g : BatchUpTo(g, x, b, seen, Len(b)), x, b, seen, Len(b))
  BY <1>2
<1> QED BY <1>1, <1>3

\* After the first n objects of a batch, from x.
AfterBatch(y, x, b, n, S, R, H) ==
  /\ y \in ContextType /\ InOrder(y, S, R, H)
  /\ Len(y.q) = Len(x.q) + n /\ y.queued = x.queued + n /\ y.retired = x.retired
  /\ y.state = x.state /\ y.detach = x.detach
  /\ n > 0 /\ b[n] = "tsync" => LastIsSync(y)

LEMMA BatchStep ==
  ASSUME NEW x \in ContextType, NEW b \in Seq(Kind), BindsAreSynced(b), NEW seen \in Nat,
         NEW S, S \subseteq Nat, NEW R, R \subseteq S, NEW H, H \subseteq ObjectType,
         NEW n \in Nat, n + 1 \in DOMAIN b, NEW y, AfterBatch(y, x, b, n, S, R, H),
         NEW z, z = QueueObject(y, b[n + 1], seen)
  PROVE  AfterBatch(z, x, b, n + 1, S, R, H)
<1>1. y \in ContextType /\ InOrder(y, S, R, H)
  BY DEF AfterBatch
<1>2. \A i \in DOMAIN y.q : y.q[i].skip => y.q[i].k = "marker"
  BY <1>1 DEF InOrder, QueueInOrder
<1>3. b[n + 1] \in Kind
  OBVIOUS
<1>4. b[n + 1] = "bind" => LastIsSync(y)
  <2>1. SUFFICES ASSUME b[n + 1] = "bind" PROVE LastIsSync(y)
    OBVIOUS
  <2>2. n + 1 > 1 /\ b[(n + 1) - 1] = "tsync"
    BY <2>1 DEF BindsAreSynced
  <2>3. (n + 1) - 1 = n /\ n > 0
    BY <2>2
  <2> QED BY <2>2, <2>3 DEF AfterBatch
<1>5. z \in ContextType /\ (b[n + 1] = "tsync" => LastIsSync(z))
  BY <1>1, <1>2, <1>3, <1>4, QueueObjectPushes
<1>6. PICK o : Pushed(z, y, o) /\ Fits(z, y, o)
  BY <1>1, <1>2, <1>3, <1>4, QueueObjectPushes
<1>7. QueueInOrder(z, S, H)
  BY <1>1, <1>5, <1>6, PushedQueue DEF InOrder
<1>8. z.state = {} /\ ~z.stale => RetiredInOrder(z, R, H)
  <2>1. SUFFICES ASSUME z.state = {}, ~z.stale PROVE RetiredInOrder(z, R, H)
    OBVIOUS
  <2>2. y.state = {} /\ ~y.stale
    BY <1>6, <2>1 DEF Pushed
  <2>3. QueueInOrder(y, S, H) /\ y.retired <= y.ts /\ RetiredInOrder(y, R, H)
    BY <1>1, <2>2 DEF InOrder
  <2> QED BY <1>1, <1>5, <1>6, <2>2, <2>3, PushedRetired
<1>9. z.retired <= z.ts
  <2>1. z.ts = y.ts \/ z.ts = y.ts + 1
    BY <1>6 DEF Fits
  <2>2. z.retired = y.retired
    BY <1>6 DEF Pushed
  <2>3. y.retired <= y.ts
    BY <1>1 DEF InOrder
  <2>4. y.ts \in Nat /\ y.retired \in Nat
    BY <1>1, ContextFields
  <2> QED BY ONLY <2>1, <2>2, <2>3, <2>4
<1>10. Len(z.q) = Len(x.q) + (n + 1) /\ z.queued = x.queued + (n + 1)
  <2>1. /\ Len(z.q) = Len(y.q) + 1 /\ z.queued = y.queued + 1
        /\ Len(y.q) = Len(x.q) + n /\ y.queued = x.queued + n
    BY <1>6 DEF Pushed, AfterBatch
  <2>2. Len(x.q) \in Nat /\ x.queued \in Nat
    BY QueueFields, ContextFields
  <2>3. \A a \in Nat : (a + n) + 1 = a + (n + 1)
    OBVIOUS
  <2> QED BY <2>1, <2>2, <2>3
<1>11. z.retired = x.retired /\ z.state = x.state /\ z.detach = x.detach
  BY <1>6 DEF Pushed, AfterBatch
<1> QED BY <1>5, <1>7, <1>8, <1>9, <1>10, <1>11 DEF AfterBatch, InOrder

LEMMA BatchKeeps ==
  ASSUME NEW x \in ContextType, NEW b \in Seq(Kind), BindsAreSynced(b), NEW seen \in Nat,
         NEW S, S \subseteq Nat, NEW R, R \subseteq S, NEW H, H \subseteq ObjectType,
         InOrder(x, S, R, H)
  PROVE  AfterBatch(QueueBatch(x, b, seen), x, b, Len(b), S, R, H)
<1>1. PICK g : BatchUpTo(g, x, b, seen, Len(b)) /\ QueueBatch(x, b, seen) = g[Len(b)]
  BY BatchIsSteps
<1>2. Len(b) \in Nat /\ DOMAIN b = 1..Len(b)
  OBVIOUS
<1> DEFINE T == {n \in Nat : n <= Len(b) /\ ~AfterBatch(g[n], x, b, n, S, R, H)}
<1>3. SUFFICES T = {}
  BY <1>1, <1>2
<1>4. SUFFICES ASSUME T # {} PROVE FALSE
  OBVIOUS
<1>5. T \subseteq Nat
  OBVIOUS
<1>6. PICK m \in T : \A k \in T : m <= k
  BY <1>4, <1>5, LeastNatural
<1>7. m \in Nat /\ m <= Len(b) /\ ~AfterBatch(g[m], x, b, m, S, R, H)
  OBVIOUS
<1>8. CASE m = 0
  <2>1. g[m] = x
    BY <1>1, <1>2, <1>8 DEF BatchUpTo
  <2>2. Len(x.q) = Len(x.q) + 0 /\ x.queued = x.queued + 0
    BY QueueFields, ContextFields
  <2>3. AfterBatch(x, x, b, 0, S, R, H)
    BY <2>2 DEF AfterBatch
  <2> QED BY <1>7, <1>8, <2>1, <2>3
<1>9. CASE m # 0
  <2>1. m - 1 \in Nat /\ ~(m <= m - 1) /\ m - 1 <= Len(b) /\ (m - 1) + 1 = m /\ m \in DOMAIN b
    BY <1>2, <1>7, <1>9
  <2>2. AfterBatch(g[m - 1], x, b, m - 1, S, R, H)
    BY <1>6, <2>1
  <2> HIDE DEF T
  <2>3. g[m] = QueueObject(g[m - 1], b[m], seen)
    BY <1>1, <1>2, <1>7, <1>9 DEF BatchUpTo
  <2>4. AfterBatch(g[m], x, b, (m - 1) + 1, S, R, H)
    BY <2>1, <2>2, <2>3, BatchStep
  <2> QED BY <1>7, <2>1, <2>4
<1> QED BY <1>8, <1>9

-----------------------------------------------------------------------------
(* What is sent again after a fault.                                       *)

\* h picks the elements of r from the first n of s, in their order.
Picks(h, r, s, n) ==
  /\ h \in [1..Len(r) -> 1..n]
  /\ \A i \in 1..Len(r) : r[i] = s[h[i]]
  /\ \A i, j \in 1..Len(r) : i < j => h[i] < h[j]

LEMMA PicksMore ==
  ASSUME NEW s \in Seq(SentType), NEW n \in Nat, n + 1 \in DOMAIN s,
         NEW r \in Seq(SentType), NEW h, Picks(h, r, s, n),
         NEW t, t = r \/ t = Append(r, s[n + 1])
  PROVE  t \in Seq(SentType) /\ \E k : Picks(k, t, s, n + 1)
<1>1. h \in [1..Len(r) -> 1..n] /\ Len(r) \in Nat
  BY DEF Picks
<1>2. CASE t = r
  <2>1. h \in [1..Len(r) -> 1..(n + 1)]
    BY <1>1
  <2>2. Picks(h, r, s, n + 1)
    BY <2>1 DEF Picks
  <2> QED BY <1>2, <2>2
<1>3. CASE t = Append(r, s[n + 1])
  <2>1. /\ t \in Seq(SentType) /\ Len(t) = Len(r) + 1 /\ t[Len(r) + 1] = s[n + 1]
        /\ \A i \in 1..Len(r) : t[i] = r[i]
    BY <1>3
  <2>2. PICK k : k = [i \in 1..(Len(r) + 1) |-> IF i = Len(r) + 1 THEN n + 1 ELSE h[i]]
    OBVIOUS
  <2>3. \A i \in 1..Len(r) : k[i] = h[i] /\ h[i] \in 1..n
    BY <1>1, <2>2
  <2>4. k[Len(r) + 1] = n + 1
    BY <1>1, <2>2
  <2>5. \A i \in 1..(Len(r) + 1) : i \in 1..Len(r) \/ i = Len(r) + 1
    BY <1>1
  <2>6. k \in [1..Len(t) -> 1..(n + 1)]
    BY <1>1, <2>1, <2>2, <2>3
  <2>7. \A i \in 1..Len(t) : t[i] = s[k[i]]
    BY <2>1, <2>3, <2>4, <2>5 DEF Picks
  <2>8. ASSUME NEW i \in 1..Len(t), NEW j \in 1..Len(t), i < j PROVE k[i] < k[j]
    <3>0. i \in 1..(Len(r) + 1) /\ j \in 1..(Len(r) + 1) /\ Len(r) \in Nat
      BY <1>1, <2>1
    <3>1. i \in 1..Len(r) /\ (j \in 1..Len(r) \/ j = Len(r) + 1)
      BY <2>8, <3>0
    <3>2. CASE j \in 1..Len(r)
      BY <2>3, <2>8, <3>1, <3>2 DEF Picks
    <3>3. CASE j = Len(r) + 1
      BY <2>3, <2>4, <3>1, <3>3
    <3> QED BY <3>1, <3>2, <3>3
  <2>9. Picks(k, t, s, n + 1)
    BY <2>6, <2>7, <2>8 DEF Picks
  <2> QED BY <2>1, <2>9
<1> QED BY <1>2, <1>3

\* The recursion of Replayed, up to n.
ReplayUpTo(g, s, G, n) ==
  g = [m \in 0..n |-> IF m = 0 THEN <<>>
                      ELSE IF s[m].c \in G \/ IsBad(s[m].c) THEN g[m - 1]
                      ELSE Append(g[m - 1], s[m])]

LEMMA ReplayExists ==
  ASSUME NEW s, NEW G, NEW len \in Nat
  PROVE  \E g : ReplayUpTo(g, s, G, len)
<1> DEFINE T == {n \in Nat : ~ \E g : ReplayUpTo(g, s, G, n)}
           Step(r, m) == IF s[m].c \in G \/ IsBad(s[m].c) THEN r ELSE Append(r, s[m])
<1>1. SUFFICES ASSUME T # {} PROVE FALSE
  BY DEF T
<1>2. T \subseteq Nat
  OBVIOUS
<1>3. PICK m \in T : \A k \in T : m <= k
  BY <1>1, <1>2, LeastNatural
<1>4. m \in Nat /\ ~ \E g : ReplayUpTo(g, s, G, m)
  OBVIOUS
<1>5. \A g, n : ReplayUpTo(g, s, G, n)
                  <=> g = [k \in 0..n |-> IF k = 0 THEN <<>> ELSE Step(g[k - 1], k)]
  BY DEF ReplayUpTo
<1> HIDE DEF Step
<1>6. CASE m = 0
  <2>1. PICK g : g = [k \in 0..m |-> <<>>]
    OBVIOUS
  <2>2. g = [k \in 0..m |-> IF k = 0 THEN <<>> ELSE Step(g[k - 1], k)]
    BY <1>6, <2>1
  <2> QED BY <1>4, <1>5, <2>2
<1>7. CASE m # 0
  <2>1. m - 1 \in Nat /\ ~(m <= m - 1)
    BY <1>4, <1>7
  <2>2. m - 1 \notin T
    BY <1>3, <2>1
  <2>3. PICK g : ReplayUpTo(g, s, G, m - 1)
    BY <2>1, <2>2
  <2> HIDE DEF T
  <2>4. PICK h : h = [k \in 0..m |-> IF k = m THEN Step(g[m - 1], m) ELSE g[k]]
    OBVIOUS
  <2>5. ASSUME NEW k \in 0..m
        PROVE  h[k] = IF k = 0 THEN <<>> ELSE Step(h[k - 1], k)
    <3>1. k \in Nat /\ k <= m
      BY <1>4
    <3>2. CASE k = m
      <4>1. m - 1 \in 0..m /\ m - 1 # m
        BY <1>4, <2>1
      <4>2. h[k] = Step(g[m - 1], m) /\ h[m - 1] = g[m - 1]
        BY <2>4, <3>2, <4>1
      <4> QED BY <1>7, <3>2, <4>2
    <3>3. CASE k # m
      <4>1. k \in 0..(m - 1) /\ (k # 0 => k - 1 \in 0..m /\ k - 1 # m)
        BY <1>4, <3>1, <3>3
      <4>2. g[k] = IF k = 0 THEN <<>> ELSE Step(g[k - 1], k)
        BY <1>5, <2>3, <4>1
      <4>3. h[k] = g[k] /\ (k # 0 => h[k - 1] = g[k - 1])
        BY <2>4, <3>3, <4>1
      <4> QED BY <4>2, <4>3
    <3> QED BY <3>2, <3>3
  <2>6. h = [k \in 0..m |-> h[k]]
    BY <2>4
  <2>7. h = [k \in 0..m |-> IF k = 0 THEN <<>> ELSE Step(h[k - 1], k)]
    BY <2>5, <2>6
  <2> QED BY <1>4, <1>5, <2>7
<1> QED BY <1>6, <1>7

LEMMA ReplayIsSteps ==
  ASSUME NEW s \in Seq(SentType), NEW G
  PROVE  \E g : ReplayUpTo(g, s, G, Len(s)) /\ Replayed(s, G) = g[Len(s)]
<1>1. Replayed(s, G) = (CHOOSE g : ReplayUpTo(g, s, G, Len(s)))[Len(s)]
  BY DEF Replayed, ReplayUpTo
<1>2. \E g : ReplayUpTo(g, s, G, Len(s))
  <2>1. Len(s) \in Nat
    OBVIOUS
  <2> QED BY <2>1, ReplayExists
<1>3. ReplayUpTo(CHOOSE g : ReplayUpTo(g, s, G, Len(s)), s, G, Len(s))
  BY <1>2
<1> QED BY <1>1, <1>3

LEMMA ReplayPicks ==
  ASSUME NEW s \in Seq(SentType), NEW G
  PROVE  /\ Replayed(s, G) \in Seq(SentType)
         /\ \E h : Picks(h, Replayed(s, G), s, Len(s))
<1>1. PICK g : ReplayUpTo(g, s, G, Len(s)) /\ Replayed(s, G) = g[Len(s)]
  BY ReplayIsSteps
<1>2. Len(s) \in Nat /\ DOMAIN s = 1..Len(s)
  OBVIOUS
<1> DEFINE P(n) == g[n] \in Seq(SentType) /\ \E h : Picks(h, g[n], s, n)
           T == {n \in Nat : n <= Len(s) /\ ~P(n)}
<1>3. SUFFICES T = {}
  BY <1>1, <1>2
<1>4. SUFFICES ASSUME T # {} PROVE FALSE
  OBVIOUS
<1>5. T \subseteq Nat
  OBVIOUS
<1>6. PICK m \in T : \A k \in T : m <= k
  BY <1>4, <1>5, LeastNatural
<1>7. m \in Nat /\ m <= Len(s) /\ ~P(m)
  OBVIOUS
<1>8. CASE m = 0
  <2>1. g[m] = <<>>
    BY <1>1, <1>2, <1>8 DEF ReplayUpTo
  <2>2. PICK h : h = [i \in 1..0 |-> 0]
    OBVIOUS
  <2>3. Picks(h, <<>>, s, 0) /\ <<>> \in Seq(SentType)
    BY <2>2 DEF Picks
  <2> QED BY <1>7, <1>8, <2>1, <2>3
<1>9. CASE m # 0
  <2>1. m - 1 \in Nat /\ ~(m <= m - 1) /\ m - 1 <= Len(s) /\ (m - 1) + 1 = m /\ m \in DOMAIN s
    BY <1>2, <1>7, <1>9
  <2>2. P(m - 1)
    BY <1>6, <2>1
  <2> HIDE DEF T
  <2>3. g[m] = g[m - 1] \/ g[m] = Append(g[m - 1], s[(m - 1) + 1])
    <3>1. m \in 0..Len(s)
      BY <1>2, <1>7
    <3>2. g[m] = IF s[m].c \in G \/ IsBad(s[m].c) THEN g[m - 1] ELSE Append(g[m - 1], s[m])
      BY <1>1, <1>9, <3>1 DEF ReplayUpTo
    <3> QED BY <2>1, <3>2
  <2>4. PICK h : Picks(h, g[m - 1], s, m - 1)
    BY <2>2
  <2>5. g[m] \in Seq(SentType) /\ \E k : Picks(k, g[m], s, (m - 1) + 1)
    BY <2>1, <2>2, <2>3, <2>4, PicksMore
  <2> QED BY <1>7, <2>1, <2>5
<1> QED BY <1>8, <1>9

-----------------------------------------------------------------------------
(* The dispatching routine and the threads.                                *)

LEMMA DispFields ==
  ASSUME NEW d \in DispType
  PROVE  /\ d.owner \in Owners
         /\ d.pc \in {"free", "fault", "issue", "unlock", "jobs", "send", "sendcmd", "sent"}
         /\ d.pc \in {"free", "fault", "issue", "unlock"}
              => d = [owner |-> d.owner, pc |-> d.pc]
         /\ d.pc \in {"jobs", "send", "sendcmd", "sent"}
              => d.first \subseteq Context /\ d.second \subseteq Context
         /\ d.pc \in {"send", "sendcmd", "sent"} => d.c \in Context
         /\ d.pc \in {"send", "sendcmd"} => d.count \in Nat /\ d.limit \in Nat
         /\ d.pc = "sendcmd" => d.obj \in ObjectType
         /\ d.pc = "sent" => d.ret \in {"none", "count", "busy", "again", "gone"}
BY DEF DispType

LEMMA ThreadFields ==
  ASSUME NEW r \in ThreadType
  PROVE  /\ r.pc \in {"idle", "queue", "test", "sleep", "woken", "job", "issue", "dispatch"}
         /\ r.pc # "idle" => /\ r.c \in Context /\ r.b \in Seq(Kind) /\ r.seen \in Nat
                             /\ r \in [pc : {"queue", "test", "sleep", "woken", "job", "issue",
                                             "dispatch"},
                                       c : Context, b : Seq(Kind), seen : Nat]
BY DEF ThreadType

LEMMA IdleThread == Idle \in ThreadType /\ Idle.pc = "idle"
BY DEF Idle, ThreadType

\* A thread goes to another step of its submission.
LEMMA ThreadStep ==
  ASSUME NEW r \in ThreadType, r.pc # "idle",
         NEW p \in {"queue", "test", "sleep", "woken", "job", "issue", "dispatch"},
         NEW w, w = [r EXCEPT !.pc = p]
  PROVE  w \in ThreadType /\ w.pc = p /\ w.c = r.c /\ w.b = r.b /\ w.seen = r.seen
<1>1. r \in [pc : {"queue", "test", "sleep", "woken", "job", "issue", "dispatch"},
             c : Context, b : Seq(Kind), seen : Nat]
  BY ThreadFields
<1> QED BY <1>1 DEF ThreadType

LEMMA ThreadSet ==
  ASSUME th \in [Thread -> ThreadType], NEW t \in Thread, NEW w \in ThreadType,
         th' = [th EXCEPT ![t] = w]
  PROVE  th' \in [Thread -> ThreadType] /\ th'[t] = w /\ \A u \in Thread \ {t} : th'[u] = th[u]
OBVIOUS

LEMMA ContextSet ==
  ASSUME ctx \in [Context -> ContextType], NEW c \in Context, NEW y \in ContextType,
         ctx' = [ctx EXCEPT ![c] = y]
  PROVE  /\ ctx' \in [Context -> ContextType] /\ ctx'[c] = y
         /\ \A d \in Context \ {c} : ctx'[d] = ctx[d]
OBVIOUS

-----------------------------------------------------------------------------
(* The parts of the invariant together.                                    *)

Sent(c) == Times(inflight, c) \cup Times(ring, c)
QueueInv(c) == ContextInv(ctx[c], Sent(c), Times(ring, c), Hand(c))

LEMMA QueuesAre == QueuesInv <=> \A c \in Context : QueueInv(c)
BY DEF QueuesInv, QueueInv, Sent

LEMMA QueuesAreNext == QueuesInv' <=> \A c \in Context : QueueInv(c)'
BY DEF QueuesInv, QueueInv, Sent

LEMMA SentFields ==
  ASSUME NEW s \in Seq(SentType)
  PROVE  /\ Len(s) \in Nat /\ DOMAIN s = 1..Len(s)
         /\ \A i \in DOMAIN s : s[i] \in SentType /\ s[i].ts \in Nat /\ s[i].c \in Context
<1>1. \A i \in DOMAIN s : s[i] \in SentType
  OBVIOUS
<1>2. \A a \in SentType : a.ts \in Nat /\ a.c \in Context
  BY DEF SentType
<1> QED BY <1>1, <1>2

LEMMA SentTypes ==
  ASSUME StateTypes, NEW c \in Context
  PROVE  /\ ctx[c] \in ContextType
         /\ Sent(c) \subseteq Nat /\ Times(ring, c) \subseteq Sent(c)
         /\ Hand(c) \subseteq ObjectType
<1>1. /\ \A i \in DOMAIN inflight : inflight[i].ts \in Nat
      /\ \A i \in DOMAIN ring : ring[i].ts \in Nat
  BY SentFields DEF StateTypes
<1>2. Times(inflight, c) \subseteq Nat /\ Times(ring, c) \subseteq Nat
  BY <1>1 DEF Times
<1>3. Hand(c) \subseteq ObjectType
  BY DispFields DEF StateTypes, Hand
<1> QED BY <1>2, <1>3 DEF StateTypes, Sent

\* Steps that leave the contexts and what has been sent alone.
LEMMA QueuesUnchanged ==
  ASSUME QueuesInv, FlightInv, UNCHANGED <<ctx, inflight, ring>>,
         \A c \in Context : Hand(c)' = Hand(c)
  PROVE  QueuesInv' /\ FlightInv'
<1>1. \A c \in Context : ctx[c]' = ctx[c] /\ Times(inflight, c)' = Times(inflight, c)
                         /\ Times(ring, c)' = Times(ring, c)
  BY DEF Times
<1>2. QueuesInv'
  BY <1>1 DEF QueuesInv
<1>3. FlightInv'
  BY DEF FlightInv, SentInOrder
<1> QED BY <1>2, <1>3

\* The hand is empty unless a command is being sent.
LEMMA HandEmpty ==
  /\ disp.pc # "sendcmd" => \A c \in Context : Hand(c) = {}
  /\ disp'.pc # "sendcmd" => \A c \in Context : Hand(c)' = {}
  /\ disp' = disp => \A c \in Context : Hand(c)' = Hand(c)
BY DEF Hand

\* What is sent stays; the retired timestamps stay beyond what the GPU has done.
LEMMA FlightSame ==
  ASSUME StateTypes, FlightInv, inflight' = inflight, ring' = ring,
         \A d \in Context : \A s \in Times(inflight, d) :
           s <= ctx[d].retired => s <= ctx'[d].retired
  PROVE  FlightInv'
<1>1. ASSUME NEW i \in DOMAIN inflight, Len(inflight) - i >= Len(ring)
      PROVE  ctx'[inflight[i].c].retired >= inflight[i].ts
  <2>1. /\ inflight[i].c \in Context /\ inflight[i].ts \in Nat
        /\ inflight[i].ts \in Times(inflight, inflight[i].c)
    BY SentFields DEF StateTypes, Times
  <2>2. ctx[inflight[i].c].retired >= inflight[i].ts
    BY <1>1 DEF FlightInv
  <2> QED BY <2>1, <2>2
<1> QED BY <1>1 DEF FlightInv, SentInOrder

\* Threads that do not dispatch move.
LEMMA SubmitterMoves ==
  ASSUME StateTypes, OwnerInv, BatchInv, NEW t \in Thread, th[t].pc # "dispatch",
         NEW w \in ThreadType, w.pc # "dispatch", w.pc # "idle" => BindsAreSynced(w.b),
         th' = [th EXCEPT ![t] = w], disp' = disp
  PROVE  th' \in [Thread -> ThreadType] /\ OwnerInv' /\ BatchInv'
<1>1. th' \in [Thread -> ThreadType] /\ th'[t] = w /\ \A u \in Thread \ {t} : th'[u] = th[u]
  BY ThreadSet DEF StateTypes
<1>2. BatchInv'
  BY <1>1 DEF BatchInv
<1>3. OwnerInv'
  BY <1>1 DEF OwnerInv
<1> QED BY <1>1, <1>2, <1>3

\* Sleepers are woken.
Wakes(r, w) == w = r \/ (r.pc = "sleep" /\ w = [r EXCEPT !.pc = "test"])

LEMMA WakingKeeps ==
  ASSUME StateTypes, OwnerInv, BatchInv, th' = [t \in Thread |-> th'[t]],
         \A t \in Thread : Wakes(th[t], th'[t])
  PROVE  /\ th' \in [Thread -> ThreadType] /\ BatchInv'
         /\ \A t \in Thread : th'[t].pc = "dispatch" <=> th[t].pc = "dispatch"
         /\ \A t \in Thread : th'[t].pc = "job" <=> th[t].pc = "job"
         /\ \A t \in Thread : th'[t].pc = "job" => th'[t].c = th[t].c
<1>1. ASSUME NEW t \in Thread
      PROVE  /\ th'[t] \in ThreadType
             /\ th'[t].pc = "dispatch" <=> th[t].pc = "dispatch"
             /\ th'[t].pc = "job" <=> th[t].pc = "job"
             /\ th'[t].pc = "job" => th'[t].c = th[t].c
             /\ th'[t].pc # "idle" => th[t].pc # "idle" /\ th'[t].b = th[t].b
  <2>1. th[t] \in ThreadType
    BY DEF StateTypes
  <2>2. CASE th'[t] = th[t]
    BY <2>1, <2>2
  <2>3. CASE th[t].pc = "sleep" /\ th'[t] = [th[t] EXCEPT !.pc = "test"]
    <3>1. PICK r \in ThreadType : r = th[t] /\ r.pc = "sleep"
      BY <2>1, <2>3
    <3>2. PICK w : w = th'[t] /\ w = [r EXCEPT !.pc = "test"]
      BY <2>3, <3>1
    <3>3. w \in ThreadType /\ w.pc = "test" /\ w.c = r.c /\ w.b = r.b
      BY <3>1, <3>2, ThreadStep
    <3> QED BY <3>1, <3>2, <3>3
  <2> QED BY <2>2, <2>3 DEF Wakes
<1>2. th' \in [Thread -> ThreadType]
  BY <1>1
<1>3. BatchInv'
  BY <1>1 DEF BatchInv
<1> QED BY <1>1, <1>2, <1>3

LEMMA WakeUpWakes ==
  ASSUME StateTypes, NEW c, th' = WakeUp(th, c)
  PROVE  th' = [t \in Thread |-> th'[t]] /\ \A t \in Thread : Wakes(th[t], th'[t])
<1>1. ASSUME NEW t \in Thread PROVE Wakes(th[t], th'[t])
  <2>1. th'[t] = IF th[t].pc = "sleep" /\ th[t].c = c THEN [th[t] EXCEPT !.pc = "test"] ELSE th[t]
    BY DEF WakeUp
  <2> QED BY <2>1 DEF Wakes
<1>2. th' = [t \in Thread |-> th'[t]]
  BY DEF WakeUp
<1> QED BY <1>1, <1>2

\* The dispatching routine goes on.
LEMMA DispMoves ==
  ASSUME OwnerInv, disp'.owner = disp.owner, disp.pc # "free", disp'.pc # "free",
         \A t \in Thread : th'[t].pc = "dispatch" <=> th[t].pc = "dispatch"
  PROVE  OwnerInv'
BY DEF OwnerInv

-----------------------------------------------------------------------------
(* The steps that do not touch the queues.                                 *)

LEMMA SubmitterKeeps ==
  ASSUME IInv, NEW t \in Thread, th[t].pc # "dispatch",
         NEW w \in ThreadType, w.pc # "dispatch", w.pc # "idle" => BindsAreSynced(w.b),
         th' = [th EXCEPT ![t] = w],
         UNCHANGED <<ctx, requeue, inflight, ring, disp>>, jobs' \subseteq Context,
         gpu' = gpu \/ gpu' = Kicked(gpu)
  PROVE  IInv'
<1>1. th' \in [Thread -> ThreadType] /\ OwnerInv' /\ BatchInv'
  BY SubmitterMoves DEF IInv
<1>2. QueuesInv' /\ FlightInv'
  BY QueuesUnchanged, HandEmpty DEF IInv
<1>3. gpu' \in [kick : BOOLEAN, fault : BOOLEAN, halt : BOOLEAN, left : Nat]
  BY DEF IInv, StateTypes, Kicked
<1>4. StateTypes'
  BY <1>1, <1>3 DEF IInv, StateTypes
<1> QED BY <1>1, <1>2, <1>4 DEF IInv

LEMMA SubmitBeginKeeps ==
  ASSUME IInv, NEW t \in Thread, NEW s \in Submits[t], SubmitBegin(t, s[1], s[2])
  PROVE  IInv'
<1>1. s \in Context \X Seq(Kind) /\ BindsAreSynced(s[2])
  BY DispatchAssumption
<1>2. s[1] \in Context /\ s[2] \in Seq(Kind)
  BY <1>1
<1>3. PICK w : w = [pc |-> "queue", c |-> s[1], b |-> s[2], seen |-> ctx[s[1]].ts]
  OBVIOUS
<1>4. ctx[s[1]].ts \in Nat
  BY <1>2, ContextFields DEF IInv, StateTypes
<1>5. w \in ThreadType /\ w.pc = "queue" /\ w.b = s[2]
  BY <1>2, <1>3, <1>4 DEF ThreadType
<1>6. th[t].pc # "dispatch" /\ th' = [th EXCEPT ![t] = w] /\ jobs' \subseteq Context
  BY <1>3 DEF SubmitBegin, IInv, StateTypes
<1> QED BY <1>1, <1>5, <1>6, SubmitterKeeps DEF SubmitBegin

\* A step of a submission that only changes where the thread is.
LEMMA ThreadMoves ==
  ASSUME IInv, NEW t \in Thread, th[t].pc # "idle", th[t].pc # "dispatch",
         NEW w, \/ w = Idle
                \/ \E p \in {"queue", "test", "sleep", "woken", "job", "issue"} :
                     w = [th[t] EXCEPT !.pc = p],
         th' = [th EXCEPT ![t] = w],
         UNCHANGED <<ctx, requeue, inflight, ring, disp>>, jobs' \subseteq Context,
         gpu' = gpu \/ gpu' = Kicked(gpu)
  PROVE  IInv'
<1>1. th[t] \in ThreadType /\ BindsAreSynced(th[t].b)
  BY DEF IInv, StateTypes, BatchInv
<1>2. CASE w = Idle
  <2>1. w \in ThreadType /\ w.pc = "idle"
    BY <1>2, IdleThread
  <2> QED BY <2>1, SubmitterKeeps
<1>3. CASE \E p \in {"queue", "test", "sleep", "woken", "job", "issue"} : w = [th[t] EXCEPT !.pc = p]
  <2>1. PICK p \in {"queue", "test", "sleep", "woken", "job", "issue"} : w = [th[t] EXCEPT !.pc = p]
    BY <1>3
  <2>2. w \in ThreadType /\ w.pc = p /\ w.b = th[t].b
    BY <1>1, <2>1, ThreadStep
  <2>3. w.pc # "dispatch" /\ (w.pc # "idle" => BindsAreSynced(w.b))
    BY <1>1, <2>2
  <2> QED BY <2>2, <2>3, SubmitterKeeps
<1> QED BY <1>2, <1>3

LEMMA WaitTestKeeps ==
  ASSUME IInv, NEW t \in Thread, WaitTest(t) \/ WaitTimesOut(t)
  PROVE  IInv'
<1>1. jobs \subseteq Context /\ th \in [Thread -> ThreadType]
  BY DEF IInv, StateTypes
<1>2. CASE WaitTest(t)
  <2>1. PICK p \in {"woken", "sleep"} : th' = [th EXCEPT ![t].pc = p]
    BY <1>2 DEF WaitTest
  <2>2. PICK w : w = [th[t] EXCEPT !.pc = p]
    OBVIOUS
  <2>3. th' = [th EXCEPT ![t] = w]
    BY <1>1, <2>1, <2>2
  <2> QED BY <1>1, <1>2, <2>2, <2>3, ThreadMoves DEF WaitTest
<1>3. CASE WaitTimesOut(t)
  BY <1>1, <1>3, ThreadMoves DEF WaitTimesOut
<1> QED BY <1>2, <1>3

LEMMA AddJobKeeps ==
  ASSUME IInv, NEW t \in Thread, AddJob(t)
  PROVE  IInv'
<1>1. th[t] \in ThreadType /\ th[t].pc = "job" /\ jobs \subseteq Context
  BY DEF IInv, StateTypes, AddJob
<1>2. jobs' \subseteq Context
  BY <1>1, ThreadFields DEF AddJob
<1>3. PICK w : /\ th' = [th EXCEPT ![t] = w]
               /\ w = Idle \/ \E p \in {"queue", "test", "sleep", "woken", "job", "issue"} :
                                w = [th[t] EXCEPT !.pc = p]
  BY DEF AddJob
<1> QED BY <1>1, <1>2, <1>3, ThreadMoves DEF AddJob

LEMMA IssueCmdsKeeps ==
  ASSUME IInv, NEW t \in Thread, IssueCmds(t)
  PROVE  IInv'
<1>1. /\ th[t] \in ThreadType /\ th[t].pc = "issue" /\ jobs' = jobs /\ jobs \subseteq Context
      /\ th \in [Thread -> ThreadType]
  BY DEF IInv, StateTypes, IssueCmds
<1>2. CASE gpu' = Kicked(gpu) /\ th' = [th EXCEPT ![t] = Idle] /\ UNCHANGED disp
  <2>1. PICK w : w = Idle
    OBVIOUS
  <2> QED BY <1>1, <1>2, <2>1, ThreadMoves DEF IssueCmds
<1>3. CASE /\ disp.owner = "none" /\ disp' = [owner |-> t, pc |-> "issue"]
           /\ th' = [th EXCEPT ![t].pc = "dispatch"] /\ UNCHANGED gpu
  <2>1. PICK w : w = [th[t] EXCEPT !.pc = "dispatch"]
    OBVIOUS
  <2>2. w \in ThreadType /\ w.pc = "dispatch" /\ w.b = th[t].b
    BY <1>1, <2>1, ThreadStep
  <2>3. th' = [th EXCEPT ![t] = w]
    BY <1>1, <1>3, <2>1
  <2>4. th' \in [Thread -> ThreadType] /\ th'[t] = w /\ \A u \in Thread \ {t} : th'[u] = th[u]
    BY <1>1, <2>2, <2>3, ThreadSet
  <2>5. disp' \in DispType /\ disp'.owner = t /\ disp'.pc = "issue"
    BY <1>3 DEF DispType, Owners
  <2>6. StateTypes'
    BY <1>3, <2>4, <2>5 DEF IInv, StateTypes, IssueCmds
  <2>7. BatchInv'
    BY <1>1, <2>2, <2>4 DEF IInv, BatchInv
  <2>8. OwnerInv'
    <3>1. t # "none"
      BY DispatchAssumption
    <3>2. \A u \in Thread \ {t} : th[u].pc # "dispatch"
      BY <1>3, DispatchAssumption DEF IInv, OwnerInv
    <3> QED BY <2>2, <2>4, <2>5, <3>1, <3>2 DEF OwnerInv
  <2>9. disp.pc = "free"
    BY <1>3 DEF IInv, OwnerInv
  <2>10. QueuesInv' /\ FlightInv'
    BY <2>5, <2>9, HandEmpty, QueuesUnchanged DEF IInv, IssueCmds
  <2> QED BY <2>6, <2>7, <2>8, <2>10 DEF IInv
<1> QED BY <1>2, <1>3 DEF IssueCmds

\* The dispatching routine goes on, without an object in its hand.
LEMMA DispatcherKeeps ==
  ASSUME IInv, disp.pc # "free", disp.pc # "sendcmd", disp' \in DispType,
         disp'.owner = disp.owner, disp'.pc # "free", disp'.pc # "sendcmd",
         UNCHANGED <<ctx, inflight, ring, gpu>>,
         jobs' \subseteq Context, requeue' \subseteq Context,
         th' \in [Thread -> ThreadType], BatchInv',
         \A t \in Thread : th'[t].pc = "dispatch" <=> th[t].pc = "dispatch"
  PROVE  IInv'
<1>1. OwnerInv'
  BY DispMoves DEF IInv
<1>2. QueuesInv' /\ FlightInv'
  BY HandEmpty, QueuesUnchanged DEF IInv
<1>3. StateTypes'
  BY DEF IInv, StateTypes
<1> QED BY <1>1, <1>2, <1>3 DEF IInv

LEMMA ThreadsStay ==
  ASSUME IInv, th' = th
  PROVE  /\ th' \in [Thread -> ThreadType] /\ BatchInv'
         /\ \A t \in Thread : th'[t].pc = "dispatch" <=> th[t].pc = "dispatch"
BY DEF IInv, StateTypes, BatchInv

\* What the routine does next.
LEMMA JobsFields ==
  ASSUME disp \in DispType, disp.pc \in {"jobs", "send", "sendcmd", "sent"}
  PROVE  /\ Jobs \in DispType /\ Jobs.owner = disp.owner /\ Jobs.pc = "jobs"
         /\ Jobs.first = disp.first /\ Jobs.second = disp.second
<1>1. disp.owner \in Owners /\ disp.first \subseteq Context /\ disp.second \subseteq Context
  BY DispFields
<1> QED BY <1>1 DEF Jobs, DispType

LEMMA EndedFields ==
  ASSUME disp \in DispType, disp.pc \in {"send", "sendcmd"},
         NEW ret \in {"none", "busy", "again", "gone"}
  PROVE  /\ Ended(ret) \in DispType /\ Ended(ret).owner = disp.owner /\ Ended(ret).pc = "sent"
         /\ Ended(ret).first = disp.first /\ Ended(ret).second = disp.second
         /\ Ended(ret).c = disp.c
         /\ ret # "none" => Ended(ret).ret = ret
         /\ ret = "none" /\ disp.count > 0 => Ended(ret).ret = "count"
<1>1. /\ disp.owner \in Owners /\ disp.first \subseteq Context /\ disp.second \subseteq Context
      /\ disp.c \in Context
  BY DispFields
<1>2. PICK r \in {"none", "count", "busy", "again", "gone"} :
        /\ r = IF ret # "none" THEN ret ELSE IF disp.count > 0 THEN "count" ELSE "none"
  OBVIOUS
<1>3. Ended(ret) = [owner |-> disp.owner, pc |-> "sent", first |-> disp.first,
                    second |-> disp.second, c |-> disp.c, ret |-> r]
  BY <1>2 DEF Ended
<1>4. Ended(ret) \in DispType
  BY <1>1, <1>3 DEF DispType
<1> QED BY <1>2, <1>3, <1>4

LEMMA NoFaultKeeps ==
  ASSUME IInv, NoFault \/ DoFaultLater \/ JobsDone
  PROVE  IInv'
<1>1. disp \in DispType /\ jobs \subseteq Context /\ requeue \subseteq Context
  BY DEF IInv, StateTypes
<1>2. CASE NoFault
  <2>1. disp = [owner |-> disp.owner, pc |-> "fault"] /\ disp.owner \in Owners
    BY <1>1, <1>2, DispFields DEF NoFault
  <2>2. disp' = [owner |-> disp.owner, pc |-> "issue"]
    BY <1>2, <2>1 DEF NoFault
  <2>3. disp' \in DispType /\ disp'.owner = disp.owner /\ disp'.pc = "issue"
    BY <2>1, <2>2 DEF DispType
  <2> QED BY <1>1, <1>2, <2>3, DispatcherKeeps, ThreadsStay DEF NoFault
<1>3. CASE JobsDone
  <2>1. disp.owner \in Owners
    BY <1>1, DispFields
  <2>2. disp' \in DispType /\ disp'.owner = disp.owner /\ disp'.pc = "unlock"
    BY <1>3, <2>1 DEF DispType, JobsDone
  <2> QED BY <1>1, <1>3, <2>2, DispatcherKeeps, ThreadsStay DEF JobsDone
<1>4. CASE DoFaultLater
  <2>1. disp = [owner |-> disp.owner, pc |-> "fault"] /\ disp.owner \in Owners
    BY <1>1, <1>4, DispFields DEF DoFaultLater
  <2>2. PICK p \in {"unlock", "issue"} : disp' = [owner |-> disp.owner, pc |-> p]
    BY <1>4, <2>1 DEF DoFaultLater
  <2>3. disp' \in DispType /\ disp'.owner = disp.owner /\ disp'.pc \in {"unlock", "issue"}
    BY <2>1, <2>2 DEF DispType
  <2> QED BY <1>1, <1>4, <2>3, DispatcherKeeps, ThreadsStay DEF DoFaultLater
<1> QED BY <1>2, <1>3, <1>4

LEMMA HandleJobsKeeps ==
  ASSUME IInv, HandleJobs
  PROVE  IInv'
<1>1. disp \in DispType /\ jobs \subseteq Context /\ requeue \subseteq Context
  BY DEF IInv, StateTypes
<1>2. disp = [owner |-> disp.owner, pc |-> "issue"] /\ disp.owner \in Owners
  BY <1>1, DispFields DEF HandleJobs
<1>3. CASE gpu.fault /\ disp' = [disp EXCEPT !.pc = "unlock"] /\ UNCHANGED <<jobs, requeue>>
  <2>1. disp' = [owner |-> disp.owner, pc |-> "unlock"]
    BY <1>2, <1>3
  <2>2. disp' \in DispType /\ disp'.owner = disp.owner /\ disp'.pc = "unlock"
    BY <1>2, <2>1 DEF DispType
  <2> QED BY <1>1, <1>2, <1>3, <2>2, DispatcherKeeps, ThreadsStay DEF HandleJobs
<1>4. CASE /\ disp' = [owner |-> disp.owner, pc |-> "jobs", first |-> requeue,
                       second |-> jobs \ requeue]
           /\ jobs' = {} /\ requeue' = {}
  <2>1. disp' \in DispType /\ disp'.owner = disp.owner /\ disp'.pc = "jobs"
    <3>1. jobs \ requeue \subseteq Context
      BY <1>1
    <3> QED BY <1>1, <1>2, <1>4, <3>1 DEF DispType
  <2> QED BY <1>2, <1>4, <2>1, DispatcherKeeps, ThreadsStay DEF HandleJobs
<1> QED BY <1>3, <1>4 DEF HandleJobs

\* The routine goes to the next context: the cases of HandleJob.
LEMMA HandleJobFields ==
  ASSUME IInv, NEW c \in Context, HandleJob(c)
  PROVE  /\ disp' \in DispType /\ disp'.owner = disp.owner
         /\ disp'.first = disp.first \ {c} /\ disp'.second = disp.second \ {c}
         /\ \/ IsBad(c) /\ disp'.pc = "jobs" /\ jobs' = jobs
            \/ disp'.pc = "jobs" /\ jobs' = jobs \cup {c}
            \/ disp'.pc = "send" /\ disp'.c = c /\ jobs' = jobs
<1>1. disp \in DispType /\ disp.pc = "jobs"
  BY DEF IInv, StateTypes, HandleJob
<1>2. disp.owner \in Owners /\ disp.first \subseteq Context /\ disp.second \subseteq Context
  BY <1>1, DispFields
<1>3. PICK f, g : f = disp.first \ {c} /\ g = disp.second \ {c}
  OBVIOUS
<1>4. f \subseteq Context /\ g \subseteq Context
  BY <1>2, <1>3
<1>5. PICK d : d = [Jobs EXCEPT !.first = @ \ {c}, !.second = @ \ {c}]
  OBVIOUS
<1>6. d = [owner |-> disp.owner, pc |-> "jobs", first |-> f, second |-> g]
  BY <1>3, <1>5 DEF Jobs
<1>7. d \in DispType
  BY <1>2, <1>4, <1>6 DEF DispType
<1>8. CASE IsBad(c) /\ disp' = d /\ UNCHANGED jobs
  BY <1>3, <1>6, <1>7, <1>8
<1>9. CASE disp' = d /\ jobs' = jobs \cup {c}
  BY <1>3, <1>6, <1>7, <1>9
<1>10. CASE /\ UNCHANGED jobs
            /\ \E l \in Limits :
                 disp' = [owner |-> d.owner, pc |-> "send", first |-> d.first,
                          second |-> d.second, c |-> c, count |-> 0, limit |-> l]
  <2>1. PICK l \in Limits :
          disp' = [owner |-> disp.owner, pc |-> "send", first |-> f,
                   second |-> g, c |-> c, count |-> 0, limit |-> l]
    BY <1>6, <1>10
  <2>2. l \in Nat
    BY DispatchAssumption
  <2>3. disp' \in DispType
    BY <1>2, <1>4, <2>1, <2>2 DEF DispType
  <2> QED BY <1>3, <1>10, <2>1, <2>3
<1> QED BY <1>5, <1>8, <1>9, <1>10 DEF HandleJob

LEMMA HandleJobKeeps ==
  ASSUME IInv, NEW c \in Context, HandleJob(c)
  PROVE  IInv'
<1>1. jobs \subseteq Context /\ requeue \subseteq Context /\ disp.pc = "jobs"
  BY DEF IInv, StateTypes, HandleJob
<1>2. /\ disp' \in DispType /\ disp'.owner = disp.owner /\ disp'.pc \in {"jobs", "send"}
      /\ jobs' \subseteq Context
  BY <1>1, HandleJobFields
<1> QED BY <1>1, <1>2, DispatcherKeeps, ThreadsStay DEF HandleJob

LEMMA SendBreakKeeps ==
  ASSUME IInv, SendBreak
  PROVE  IInv'
<1>1. disp \in DispType /\ disp.pc = "send" /\ jobs \subseteq Context /\ requeue \subseteq Context
  BY DEF IInv, StateTypes, SendBreak
<1>2. disp' \in DispType /\ disp'.owner = disp.owner /\ disp'.pc = "sent"
  BY <1>1, EndedFields DEF SendBreak
<1> QED BY <1>1, <1>2, DispatcherKeeps, ThreadsStay DEF SendBreak

LEMMA SendEndKeeps ==
  ASSUME IInv, SendEnd
  PROVE  IInv'
<1>1. disp \in DispType /\ disp.pc = "sent" /\ jobs \subseteq Context /\ requeue \subseteq Context
  BY DEF IInv, StateTypes, SendEnd
<1>2. disp' \in DispType /\ disp'.owner = disp.owner /\ disp'.pc = "jobs" /\ disp.c \in Context
  BY <1>1, JobsFields, DispFields DEF SendEnd
<1>3. jobs' \subseteq Context /\ requeue' \subseteq Context
  BY <1>1, <1>2 DEF SendEnd, KeepJob
<1>4. /\ th' \in [Thread -> ThreadType] /\ BatchInv'
      /\ \A t \in Thread : th'[t].pc = "dispatch" <=> th[t].pc = "dispatch"
  <2>1. CASE th' = WakeUp(th, disp.c)
    BY <2>1, WakeUpWakes, WakingKeeps DEF IInv
  <2>2. CASE th' = th
    BY <2>2, ThreadsStay
  <2> QED BY <2>1, <2>2 DEF SendEnd, WakeSleepers
<1> QED BY <1>1, <1>2, <1>3, <1>4, DispatcherKeeps DEF SendEnd

LEMMA UnlockKeeps ==
  ASSUME IInv, Unlock
  PROVE  IInv'
<1>1. th \in [Thread -> ThreadType] /\ disp.pc = "unlock"
  BY DEF IInv, StateTypes, Unlock
<1>2. disp' = [owner |-> "none", pc |-> "free"] /\ disp' \in DispType
  BY DEF Unlock, Free, DispType, Owners
<1>3. ASSUME NEW t \in Thread
      PROVE  /\ th'[t] \in ThreadType /\ (th'[t] = Idle \/ th'[t] = th[t])
             /\ th'[t].pc # "dispatch"
  <2>1. th'[t] = IF t = disp.owner THEN Idle ELSE th[t]
    BY DEF Unlock
  <2>2. CASE t = disp.owner
    BY <2>1, <2>2, IdleThread
  <2>3. CASE t # disp.owner
    BY <1>1, <2>1, <2>3 DEF IInv, OwnerInv
  <2> QED BY <2>2, <2>3
<1>4. th' \in [Thread -> ThreadType]
  BY <1>3 DEF Unlock
<1>5. BatchInv'
  BY <1>3, IdleThread DEF IInv, BatchInv
<1>6. OwnerInv'
  BY <1>2, <1>3, DispatchAssumption DEF OwnerInv
<1>7. StateTypes'
  BY <1>2, <1>4 DEF IInv, StateTypes, Unlock
<1>8. QueuesInv' /\ FlightInv'
  BY <1>1, <1>2, HandEmpty, QueuesUnchanged DEF IInv, Unlock
<1> QED BY <1>5, <1>6, <1>7, <1>8 DEF IInv

LEMMA EventKeeps ==
  ASSUME IInv, Fault \/ FaultRequeued \/ Halt \/ HaltEnd
  PROVE  IInv'
<1>1. UNCHANGED <<ctx, jobs, requeue, inflight, ring, disp, th>>
  BY DEF Fault, FaultRequeued, Halt, HaltEnd
<1>2. gpu' \in [kick : BOOLEAN, fault : BOOLEAN, halt : BOOLEAN, left : Nat]
  <2>1. gpu \in [kick : BOOLEAN, fault : BOOLEAN, halt : BOOLEAN, left : Nat]
    BY DEF IInv, StateTypes
  <2>2. gpu.left \in Nat /\ (gpu.left > 0 => gpu.left - 1 \in Nat)
    BY <2>1
  <2>3. PICK l \in Nat : gpu.left > 0 => l = gpu.left - 1
    BY <2>2
  <2>4. \/ gpu' = [gpu EXCEPT !.fault = TRUE, !.kick = TRUE, !.left = l]
        \/ gpu' = [gpu EXCEPT !.halt = TRUE, !.left = l]
        \/ gpu' = [gpu EXCEPT !.halt = FALSE, !.kick = TRUE]
        \/ gpu' = [gpu EXCEPT !.kick = TRUE]
    BY <2>3 DEF Fault, FaultRequeued, Kicked, Halt, HaltEnd
  <2> QED BY <2>1, <2>4
<1>3. StateTypes' /\ OwnerInv' /\ BatchInv'
  BY <1>1, <1>2 DEF IInv, StateTypes, OwnerInv, BatchInv
<1>4. QueuesInv' /\ FlightInv'
  BY <1>1, HandEmpty, QueuesUnchanged DEF IInv
<1> QED BY <1>3, <1>4 DEF IInv

-----------------------------------------------------------------------------
(* The steps that change one queue.                                        *)

LEMMA OneQueueKeeps ==
  ASSUME IInv, NEW c \in Context, NEW y \in ContextType, ctx' = [ctx EXCEPT ![c] = y],
         inflight' = inflight, ring' = ring,
         \A d \in Context \ {c} : Hand(d)' = Hand(d),
         ContextInv(y, Sent(c), Times(ring, c), Hand(c)'),
         \A s \in Times(inflight, c) : s <= ctx[c].retired => s <= y.retired
  PROVE  ctx' \in [Context -> ContextType] /\ QueuesInv' /\ FlightInv'
<1>1. /\ ctx' \in [Context -> ContextType] /\ ctx'[c] = y
      /\ \A d \in Context \ {c} : ctx'[d] = ctx[d]
  BY ContextSet DEF IInv, StateTypes
<1>2. \A d \in Context : Times(inflight, d)' = Times(inflight, d)
                         /\ Times(ring, d)' = Times(ring, d) /\ Sent(d)' = Sent(d)
  BY DEF Times, Sent
<1>3. ASSUME NEW d \in Context PROVE QueueInv(d)'
  <2>1. CASE d = c
    BY <1>1, <1>2, <2>1 DEF QueueInv
  <2>2. CASE d # c
    <3>1. QueueInv(d)
      BY QueuesAre DEF IInv
    <3>2. ctx'[d] = ctx[d] /\ Hand(d)' = Hand(d)
      BY <1>1, <2>2
    <3> QED BY <1>2, <3>1, <3>2 DEF QueueInv
  <2> QED BY <2>1, <2>2
<1>4. QueuesInv'
  BY <1>3, QueuesAreNext
<1>5. \A d \in Context : \A s \in Times(inflight, d) :
        s <= ctx[d].retired => s <= ctx'[d].retired
  BY <1>1
<1>6. FlightInv'
  BY <1>5, FlightSame DEF IInv
<1> QED BY <1>1, <1>4, <1>6

LEMMA QueueOf ==
  ASSUME IInv, NEW c \in Context
  PROVE  /\ ContextInv(ctx[c], Sent(c), Times(ring, c), Hand(c))
         /\ ctx[c] \in ContextType /\ Sent(c) \subseteq Nat /\ Times(ring, c) \subseteq Sent(c)
         /\ Times(inflight, c) \subseteq Sent(c) /\ Hand(c) \subseteq ObjectType
         /\ disp \in DispType /\ OwnerInv
<1>1. QueueInv(c) /\ StateTypes /\ OwnerInv /\ disp \in DispType
  BY QueuesAre DEF IInv, StateTypes
<1> QED BY <1>1, SentTypes DEF QueueInv, Sent

\* The context of a submission after its objects have been queued.
LEMMA EnqueuedContext ==
  ASSUME IInv, NEW c \in Context, ctx[c].state = {}, NEW b \in Seq(Kind), BindsAreSynced(b),
         NEW seen \in Nat, NEW y, y = QueueBatch(ctx[c], b, seen)
  PROVE  /\ y \in ContextType /\ y.retired = ctx[c].retired
         /\ ContextInv(y, Sent(c), Times(ring, c), Hand(c))
<1> DEFINE x == ctx[c]
           S == Sent(c)
           R == Times(ring, c)
           H == Hand(c)
<1>1. /\ ContextInv(x, S, R, H) /\ x \in ContextType /\ S \subseteq Nat /\ R \subseteq S
      /\ H \subseteq ObjectType
  BY QueueOf
<1>2. InOrder(x, S, R, H) /\ CountInv(x)
  BY <1>1 DEF ContextInv, InOrder
<1>3. AfterBatch(y, x, b, Len(b), S, R, H)
  BY <1>1, <1>2, BatchKeeps
<1>4. y \in ContextType /\ InOrder(y, S, R, H)
  BY <1>3 DEF AfterBatch
<1>5. Len(x.q) \in Nat /\ x.queued \in Nat /\ Len(b) \in Nat
  BY <1>1, QueueFields, ContextFields
<1>6. x.queued = Len(x.q) /\ x.detach = "no"
  BY <1>2 DEF CountInv
<1>7. Len(y.q) = Len(x.q) + Len(b) /\ y.queued = x.queued + Len(b) /\ y.state = x.state
      /\ y.detach = x.detach /\ y.retired = x.retired
  BY <1>3 DEF AfterBatch
<1>8. CountInv(y)
  <2>1. Len(y.q) = y.queued /\ Len(y.q) <= y.queued
    BY <1>5, <1>6, <1>7
  <2> QED BY <1>6, <1>7, <2>1 DEF CountInv
<1> QED BY <1>4, <1>7, <1>8 DEF ContextInv, InOrder

\* A marker that need not be queued.
NotQueued(y, c) ==
  /\ ctx[c].queued = 0 /\ ctx[c].retired >= ctx[c].qts
  /\ y = [ctx[c] EXCEPT !.ts = @ + 1, !.retired = ctx[c].ts + 1]

LEMMA FastContext ==
  ASSUME IInv, NEW c \in Context, NEW y, NotQueued(y, c)
  PROVE  /\ y \in ContextType /\ ContextInv(y, Sent(c), Times(ring, c), Hand(c))
         /\ \A s \in Sent(c) : s < y.retired
<1>1. /\ ContextInv(ctx[c], Sent(c), Times(ring, c), Hand(c)) /\ ctx[c] \in ContextType
      /\ Sent(c) \subseteq Nat /\ Times(ring, c) \subseteq Sent(c) /\ Hand(c) \subseteq ObjectType
  BY QueueOf
<1>2. PICK x : x = ctx[c]
  OBVIOUS
<1>3. x \in ContextType /\ x.ts \in Nat /\ x.ts + 1 \in Nat
  BY <1>1, <1>2, ContextFields
<1>4. PICK n \in Nat : n = x.ts + 1
  BY <1>3
<1>5. y = [x EXCEPT !.ts = n, !.retired = n]
  BY <1>2, <1>4 DEF NotQueued
<1>6. /\ y \in ContextType /\ y.q = x.q /\ y.queued = x.queued /\ y.ts = n /\ y.qts = x.qts
      /\ y.retired = n /\ y.state = x.state /\ y.detach = x.detach
      /\ y.stale = x.stale
  BY <1>3, <1>5 DEF ContextType
<1>7. PICK S, R, H : S = Sent(c) /\ R = Times(ring, c) /\ H = Hand(c)
  OBVIOUS
<1>8. /\ ContextInv(x, S, R, H) /\ S \subseteq Nat /\ R \subseteq S /\ H \subseteq ObjectType
  BY <1>1, <1>2, <1>7
<1>9. FastRetires(y, x)
  BY <1>2, <1>4, <1>6 DEF FastRetires, NotQueued
<1>10. x \in ContextType /\ y \in ContextType
  BY <1>3, <1>6
<1>11. ContextInv(y, S, R, H) /\ \A s \in S : s < y.retired
  BY <1>8, <1>9, <1>10, FastKeeps
<1> QED BY <1>7, <1>10, <1>11

LEMMA EnqueueKeeps ==
  ASSUME IInv, NEW t \in Thread, th[t].pc \in {"queue", "woken"}, ~IsBad(th[t].c), Enqueue(t),
         UNCHANGED <<jobs, requeue, inflight, ring, disp, gpu>>
  PROVE  IInv'
<1>1. th[t] \in ThreadType /\ BindsAreSynced(th[t].b)
  BY DEF IInv, StateTypes, BatchInv
<1>2. PICK c \in Context : c = th[t].c
  BY <1>1, ThreadFields
<1>3. th[t].b \in Seq(Kind) /\ th[t].seen \in Nat /\ ctx[c].state = {}
  BY <1>1, <1>2, ThreadFields DEF IsBad
<1>4. ctx[c] \in ContextType /\ Sent(c) \subseteq Nat /\ Times(inflight, c) \subseteq Sent(c)
  BY QueueOf
<1>5. PICK y : /\ ctx' = [ctx EXCEPT ![c] = y]
               /\ \/ /\ ctx[c].queued = 0 /\ ctx[c].retired >= ctx[c].qts
                     /\ y = [ctx[c] EXCEPT !.ts = @ + 1, !.retired = ctx[c].ts + 1]
                  \/ y = QueueBatch(ctx[c], th[t].b, th[t].seen)
  BY <1>2 DEF Enqueue
<1>6. /\ y \in ContextType /\ ContextInv(y, Sent(c), Times(ring, c), Hand(c))
      /\ y.retired = ctx[c].retired \/ \A s \in Sent(c) : s < y.retired
  <2>1. CASE NotQueued(y, c)
    BY <2>1, FastContext
  <2>2. CASE y = QueueBatch(ctx[c], th[t].b, th[t].seen)
    <3>1. PICK b, seen : b = th[t].b /\ seen = th[t].seen
      OBVIOUS
    <3>2. /\ y = QueueBatch(ctx[c], b, seen) /\ b \in Seq(Kind) /\ BindsAreSynced(b) /\ seen \in Nat
          /\ ctx[c].state = {}
      BY <1>1, <1>3, <2>2, <3>1
    <3> QED BY <3>2, EnqueuedContext
  <2> QED BY <1>5, <2>1, <2>2 DEF NotQueued
<1>7. ASSUME NEW s \in Times(inflight, c), s <= ctx[c].retired PROVE s <= y.retired
  <2>1. s \in Nat /\ y.retired \in Nat /\ s \in Sent(c)
    BY <1>4, <1>6, ContextFields
  <2> QED BY <1>6, <1>7, <2>1
<1>8. \A d \in Context : Hand(d)' = Hand(d)
  BY HandEmpty
<1>9. ctx' \in [Context -> ContextType] /\ QueuesInv' /\ FlightInv'
  BY <1>5, <1>6, <1>7, <1>8, OneQueueKeeps
<1>10. PICK w : th' = [th EXCEPT ![t] = w] /\ (w = Idle \/ w = [th[t] EXCEPT !.pc = "job"])
  BY DEF Enqueue
<1>11. /\ w \in ThreadType /\ w.pc # "dispatch" /\ (w.pc # "idle" => BindsAreSynced(w.b))
  <2>1. CASE w = Idle
    BY <2>1, IdleThread
  <2>2. CASE w = [th[t] EXCEPT !.pc = "job"]
    <3>1. w \in ThreadType /\ w.pc = "job" /\ w.b = th[t].b
      BY <1>1, <2>2, ThreadStep
    <3> QED BY <1>1, <3>1
  <2> QED BY <1>10, <2>1, <2>2
<1>12. th' \in [Thread -> ThreadType] /\ OwnerInv' /\ BatchInv'
  BY <1>10, <1>11, SubmitterMoves DEF IInv
<1>13. StateTypes'
  BY <1>9, <1>12 DEF IInv, StateTypes
<1> QED BY <1>9, <1>12, <1>13 DEF IInv

LEMMA QueueCmdsKeeps ==
  ASSUME IInv, NEW t \in Thread, QueueCmds(t) \/ WokenQueue(t)
  PROVE  IInv'
<1>1. /\ UNCHANGED <<jobs, requeue, inflight, ring, disp, gpu>> /\ th[t].pc \in {"queue", "woken"}
      /\ jobs \subseteq Context /\ th \in [Thread -> ThreadType]
  BY DEF IInv, StateTypes, QueueCmds, WokenQueue
<1>2. CASE ~IsBad(th[t].c) /\ Enqueue(t)
  BY <1>1, <1>2, EnqueueKeeps
<1>3. CASE th' = [th EXCEPT ![t] = Idle] /\ UNCHANGED ctx
  <2>1. PICK w : w = Idle
    OBVIOUS
  <2> QED BY <1>1, <1>3, <2>1, ThreadMoves
<1>4. CASE th' = [th EXCEPT ![t].pc = "test"] /\ UNCHANGED ctx
  <2>1. PICK w : w = [th[t] EXCEPT !.pc = "test"]
    OBVIOUS
  <2>2. th' = [th EXCEPT ![t] = w]
    BY <1>1, <1>4, <2>1
  <2> QED BY <1>1, <1>4, <2>1, <2>2, ThreadMoves
<1> QED BY <1>2, <1>3, <1>4 DEF QueueCmds, WokenQueue

\* The dispatching routine has changed a queue, or what it has in its hand.
LEMMA DispatchedQueue ==
  ASSUME IInv, disp.pc # "free", disp' \in DispType, disp'.owner = disp.owner,
         disp'.pc # "free", UNCHANGED <<gpu, th>>,
         jobs' \subseteq Context, requeue' \subseteq Context,
         inflight' \in Seq(SentType), ring' \in Seq(SentType),
         ctx' \in [Context -> ContextType], QueuesInv', FlightInv'
  PROVE  IInv'
<1>1. \A t \in Thread : th'[t].pc = "dispatch" <=> th[t].pc = "dispatch"
  OBVIOUS
<1>2. OwnerInv'
  BY <1>1, DispMoves DEF IInv
<1>3. BatchInv'
  BY DEF IInv, BatchInv
<1>4. StateTypes'
  BY DEF IInv, StateTypes
<1> QED BY <1>2, <1>3, <1>4 DEF IInv

\* What the driver retires keeps the invariant of the context.
LEMMA ProcessedContext ==
  ASSUME IInv, disp.pc = "send", NEW c \in Context, c = disp.c,
         NEW y, y = ProcessDrawqueue(ctx[c])
  PROVE  /\ y \in ContextType /\ ContextInv(y, Sent(c), Times(ring, c), {})
         /\ Hand(c) = {} /\ y.state = ctx[c].state
         /\ \A s \in Times(inflight, c) : s <= ctx[c].retired => s <= y.retired
<1>1. Hand(c) = {}
  BY HandEmpty
<1>2. PICK x, S, R : x = ctx[c] /\ S = Sent(c) /\ R = Times(ring, c)
  OBVIOUS
<1>3. /\ x \in ContextType /\ S \subseteq Nat /\ R \subseteq S /\ ContextInv(x, S, R, {})
      /\ Times(inflight, c) \subseteq S
  BY <1>1, <1>2, QueueOf
<1>4. y = ProcessDrawqueue(x)
  BY <1>2
<1>5. /\ y \in ContextType /\ ContextInv(y, S, R, {}) /\ SameRest(y, x)
      /\ y.retired = x.retired \/ \A s \in S : s < y.retired
  BY <1>3, <1>4, ProcessKeeps
<1>6. ASSUME NEW s \in Times(inflight, c), s <= x.retired PROVE s <= y.retired
  <2>1. s \in Nat /\ y.retired \in Nat /\ s \in S
    BY <1>3, <1>5, ContextFields
  <2> QED BY <1>5, <1>6, <2>1
<1> QED BY <1>1, <1>2, <1>5, <1>6 DEF SameRest

LEMMA SendFullKeeps ==
  ASSUME IInv, SendFull
  PROVE  IInv'
<1>1. /\ disp \in DispType /\ disp.pc = "send" /\ jobs \subseteq Context /\ requeue \subseteq Context
      /\ inflight \in Seq(SentType) /\ ring \in Seq(SentType)
  BY DEF IInv, StateTypes, SendFull
<1>2. PICK c \in Context : c = disp.c
  BY <1>1, DispFields
<1>3. PICK y : y = ProcessDrawqueue(ctx[c])
  OBVIOUS
<1>4. /\ y \in ContextType /\ ContextInv(y, Sent(c), Times(ring, c), {})
      /\ \A s \in Times(inflight, c) : s <= ctx[c].retired => s <= y.retired
  BY <1>1, <1>2, <1>3, ProcessedContext
<1>5. disp' \in DispType /\ disp'.owner = disp.owner /\ disp'.pc = "jobs"
  BY <1>1, JobsFields DEF SendFull
<1>6. \A d \in Context : Hand(d) = {} /\ Hand(d)' = {}
  BY <1>1, <1>5, HandEmpty
<1>7. ctx' = [ctx EXCEPT ![c] = y] /\ inflight' = inflight /\ ring' = ring
  BY <1>2, <1>3 DEF SendFull
<1>8. ContextInv(y, Sent(c), Times(ring, c), Hand(c)') /\ \A d \in Context \ {c} : Hand(d)' = Hand(d)
  BY <1>4, <1>6
<1>9. ctx' \in [Context -> ContextType] /\ QueuesInv' /\ FlightInv'
  BY <1>4, <1>7, <1>8, OneQueueKeeps
<1>10. requeue' \subseteq Context /\ jobs' \subseteq Context
  BY <1>1, <1>2 DEF SendFull
<1> QED BY <1>1, <1>5, <1>7, <1>9, <1>10, DispatchedQueue DEF SendFull

LEMMA SendNextKeeps ==
  ASSUME IInv, SendNext
  PROVE  IInv'
<1>1. /\ disp \in DispType /\ disp.pc = "send" /\ jobs \subseteq Context /\ requeue \subseteq Context
      /\ inflight \in Seq(SentType) /\ ring \in Seq(SentType)
  BY DEF IInv, StateTypes, SendNext
<1>2. PICK c \in Context : c = disp.c
  BY <1>1, DispFields
<1>3. PICK x : x = ProcessDrawqueue(ctx[c])
  OBVIOUS
<1>4. PICK S, R : S = Sent(c) /\ R = Times(ring, c)
  OBVIOUS
<1>5. /\ x \in ContextType /\ ContextInv(x, S, R, {})
      /\ \A s \in Times(inflight, c) : s <= ctx[c].retired => s <= x.retired
      /\ S \subseteq Nat /\ R \subseteq S
  BY <1>1, <1>2, <1>3, <1>4, ProcessedContext, QueueOf
<1>6. \A d \in Context : Hand(d) = {}
  BY <1>1, HandEmpty
<1>7. inflight' = inflight /\ ring' = ring /\ UNCHANGED <<jobs, requeue, gpu, th>>
  BY DEF SendNext
<1>8. CASE Sendable(x)
  <2>1. PICK y, o : y = Pop(x) /\ o = Head(x.q)
    OBVIOUS
  <2>2. /\ y \in ContextType /\ o \in ObjectType /\ ContextInv(y, S, R, {o})
        /\ y.retired = x.retired
    BY <1>5, <1>8, <2>1, PopKeeps
  <2>3. /\ ctx' = [ctx EXCEPT ![c] = y]
        /\ disp' = [owner |-> disp.owner, pc |-> "sendcmd", first |-> disp.first,
                    second |-> disp.second, c |-> c, count |-> disp.count,
                    limit |-> disp.limit, obj |-> o]
    BY <1>2, <1>3, <1>8, <2>1 DEF SendNext
  <2>4. disp' \in DispType
    <3>1. /\ disp.owner \in Owners /\ disp.first \subseteq Context /\ disp.second \subseteq Context
          /\ disp.count \in Nat /\ disp.limit \in Nat
      BY <1>1, DispFields
    <3> QED BY <2>2, <2>3, <3>1 DEF DispType
  <2>5. disp'.pc = "sendcmd" /\ disp'.c = c /\ disp'.obj = o /\ disp'.owner = disp.owner
    BY <2>3
  <2>6. Hand(c)' = {o} /\ \A d \in Context \ {c} : Hand(d)' = Hand(d)
    BY <1>6, <2>5 DEF Hand
  <2>7. /\ ContextInv(y, Sent(c), Times(ring, c), Hand(c)')
        /\ \A s \in Times(inflight, c) : s <= ctx[c].retired => s <= y.retired
    BY <1>4, <1>5, <2>2, <2>6
  <2>8. ctx' \in [Context -> ContextType] /\ QueuesInv' /\ FlightInv'
    BY <1>7, <2>2, <2>3, <2>6, <2>7, OneQueueKeeps
  <2> QED BY <1>1, <1>7, <2>4, <2>5, <2>8, DispatchedQueue
<1>9. CASE ~Sendable(x)
  <2>1. PICK r \in {"none", "again"} : disp' = Ended(r)
    BY <1>2, <1>3, <1>9 DEF SendNext
  <2>2. ctx' = [ctx EXCEPT ![c] = x]
    BY <1>2, <1>3, <1>9 DEF SendNext
  <2>3. disp' \in DispType /\ disp'.owner = disp.owner /\ disp'.pc = "sent"
    BY <1>1, <2>1, EndedFields
  <2>4. \A d \in Context : Hand(d)' = {}
    BY <2>3, HandEmpty
  <2>5. ContextInv(x, Sent(c), Times(ring, c), Hand(c)') /\ \A d \in Context \ {c} : Hand(d)' = Hand(d)
    BY <1>4, <1>5, <1>6, <2>4
  <2>6. ctx' \in [Context -> ContextType] /\ QueuesInv' /\ FlightInv'
    BY <1>5, <1>7, <2>2, <2>5, OneQueueKeeps
  <2> QED BY <1>1, <1>7, <2>3, <2>6, DispatchedQueue
<1> QED BY <1>8, <1>9

\* The object of a bad context is dropped.
LEMMA DropKeeps ==
  ASSUME NEW x \in ContextType, x.state # {}, NEW S, S \subseteq Nat, NEW R, NEW o \in ObjectType,
         ContextInv(x, S, R, {o})
  PROVE  ContextInv(x, S, R, {})
<1>1. QueueInOrder(x, S, {o}) /\ x.retired <= x.ts /\ CountInv(x)
  BY DEF ContextInv
<1>2. QueueInOrder(x, S, {})
  BY <1>1 DEF QueueInOrder
<1> QED BY <1>1, <1>2 DEF ContextInv

\* The hand of the dispatcher when it has an object.
LEMMA HandIs ==
  ASSUME IInv, disp.pc = "sendcmd", NEW c \in Context, c = disp.c, NEW o, o = disp.obj
  PROVE  o \in ObjectType /\ Hand(c) = {o} /\ \A d \in Context \ {c} : Hand(d) = {}
<1>1. disp \in DispType
  BY DEF IInv, StateTypes
<1> QED BY <1>1, DispFields DEF Hand

LEMMA SendFailsKeeps ==
  ASSUME IInv, SendFails
  PROVE  IInv'
<1>1. /\ disp \in DispType /\ disp.pc = "sendcmd" /\ jobs \subseteq Context
      /\ requeue \subseteq Context /\ inflight \in Seq(SentType) /\ ring \in Seq(SentType)
      /\ ctx \in [Context -> ContextType]
  BY DEF IInv, StateTypes, SendFails
<1>2. PICK c \in Context : c = disp.c
  BY <1>1, DispFields
<1>3. PICK o : o = disp.obj
  OBVIOUS
<1>4. o \in ObjectType /\ Hand(c) = {o} /\ \A d \in Context \ {c} : Hand(d) = {}
  BY <1>1, <1>2, <1>3, HandIs
<1>5. PICK x, S, R : x = ctx[c] /\ S = Sent(c) /\ R = Times(ring, c)
  OBVIOUS
<1>6. /\ x \in ContextType /\ ContextInv(x, S, R, {o}) /\ S \subseteq Nat /\ R \subseteq S
  BY <1>4, <1>5, QueueOf
<1>7. inflight' = inflight /\ ring' = ring /\ UNCHANGED <<jobs, requeue, gpu, th>>
  BY DEF SendFails
<1>8. PICK r \in {"busy", "again", "gone"} : disp' = Ended(r)
  BY DEF SendFails
<1>9. disp' \in DispType /\ disp'.owner = disp.owner /\ disp'.pc = "sent"
  BY <1>1, <1>8, EndedFields
<1>10. \A d \in Context : Hand(d)' = {}
  BY <1>9, HandEmpty
<1>11. PICK y : /\ y \in ContextType /\ ctx' = [ctx EXCEPT ![c] = y]
                /\ ContextInv(y, S, R, {}) /\ y.retired = x.retired
  <2>1. CASE IsBad(c)
    <3>1. ctx' = ctx
      BY <1>2, <2>1 DEF SendFails
    <3>2. ctx' = [ctx EXCEPT ![c] = x]
      BY <1>1, <1>5, <3>1
    <3>3. x.state # {}
      BY <1>5, <2>1 DEF IsBad
    <3>4. ContextInv(x, S, R, {})
      BY <1>4, <1>6, <3>3, DropKeeps
    <3> QED BY <1>6, <3>2, <3>4
  <2>2. CASE ~IsBad(c)
    <3>1. PICK y : y = RequeueCmdobj(x, o)
      OBVIOUS
    <3>2. ctx' = [ctx EXCEPT ![c] = y]
      BY <1>2, <1>3, <1>5, <2>2, <3>1 DEF SendFails
    <3>3. y \in ContextType /\ ContextInv(y, S, R, {}) /\ y.retired = x.retired
      BY <1>4, <1>6, <3>1, RequeueKeeps
    <3> QED BY <3>2, <3>3
  <2> QED BY <2>1, <2>2
<1>12. /\ ContextInv(y, Sent(c), Times(ring, c), Hand(c)')
       /\ \A s \in Times(inflight, c) : s <= ctx[c].retired => s <= y.retired
       /\ \A d \in Context \ {c} : Hand(d)' = Hand(d)
  BY <1>4, <1>5, <1>10, <1>11
<1>13. ctx' \in [Context -> ContextType] /\ QueuesInv' /\ FlightInv'
  BY <1>7, <1>11, <1>12, OneQueueKeeps
<1> QED BY <1>1, <1>7, <1>9, <1>13, DispatchedQueue

-----------------------------------------------------------------------------
(* What is sent and what the GPU does.                                     *)

LEMMA AppendFields ==
  ASSUME NEW s \in Seq(SentType), NEW a \in SentType, NEW r, r = Append(s, a)
  PROVE  /\ r \in Seq(SentType) /\ Len(r) = Len(s) + 1 /\ r[Len(s) + 1] = a
         /\ DOMAIN r = 1..(Len(s) + 1) /\ Len(s) \in Nat /\ DOMAIN s = 1..Len(s)
         /\ \A i \in DOMAIN s : i \in DOMAIN r /\ r[i] = s[i]
         /\ \A i \in DOMAIN r : i = Len(s) + 1 \/ (i \in DOMAIN s /\ i < Len(s) + 1)
<1>1. /\ r \in Seq(SentType) /\ Len(r) = Len(s) + 1 /\ r[Len(s) + 1] = a
      /\ Len(s) \in Nat /\ DOMAIN s = 1..Len(s)
  OBVIOUS
<1>2. DOMAIN r = 1..(Len(s) + 1)
  BY <1>1
<1>3. \A i \in DOMAIN s : r[i] = s[i]
  OBVIOUS
<1>4. \A n \in Nat : \A i \in 1..(n + 1) : i = n + 1 \/ (i \in 1..n /\ i < n + 1)
  OBVIOUS
<1>5. \A n \in Nat : \A i \in 1..n : i \in 1..(n + 1)
  OBVIOUS
<1> QED BY <1>1, <1>2, <1>3, <1>4, <1>5

LEMMA AppendTimes ==
  ASSUME NEW s \in Seq(SentType), NEW a \in SentType, NEW c
  PROVE  /\ a.c = c => Times(Append(s, a), c) = Times(s, c) \cup {a.ts}
         /\ a.c # c => Times(Append(s, a), c) = Times(s, c)
<1>0. PICK r : r = Append(s, a)
  OBVIOUS
<1>1. /\ r[Len(s) + 1] = a /\ Len(s) + 1 \in DOMAIN r
      /\ \A i \in DOMAIN s : i \in DOMAIN r /\ r[i] = s[i]
      /\ \A i \in DOMAIN r : i = Len(s) + 1 \/ i \in DOMAIN s
  BY <1>0, AppendFields
<1>2. \A v : v \in Times(s, c) <=> \E i \in DOMAIN s : s[i].c = c /\ s[i].ts = v
  BY DEF Times
<1>3. \A v : v \in Times(r, c) <=> \E i \in DOMAIN r : r[i].c = c /\ r[i].ts = v
  BY DEF Times
<1>4. ASSUME NEW v PROVE v \in Times(r, c) <=> v \in Times(s, c) \/ (a.c = c /\ v = a.ts)
  BY <1>1, <1>2, <1>3
<1> QED BY <1>0, <1>4

LEMMA AppendInOrder ==
  ASSUME NEW s \in Seq(SentType), NEW a \in SentType, NEW r, r = Append(s, a), SentInOrder(s),
         \A v \in Times(s, a.c) : v < a.ts
  PROVE  SentInOrder(r)
<1>1. /\ r[Len(s) + 1] = a /\ DOMAIN r = 1..(Len(s) + 1) /\ Len(s) \in Nat
      /\ \A i \in DOMAIN s : r[i] = s[i]
      /\ \A i \in DOMAIN r : i = Len(s) + 1 \/ (i \in DOMAIN s /\ i < Len(s) + 1)
  BY AppendFields
<1>2. ASSUME NEW i \in DOMAIN r, NEW j \in DOMAIN r, i < j, r[i].c = r[j].c
      PROVE  r[i].ts < r[j].ts
  <2>1. i # Len(s) + 1
    <3>1. i \in 1..(Len(s) + 1) /\ j \in 1..(Len(s) + 1)
      BY <1>1
    <3> QED BY <1>1, <1>2, <3>1
  <2>2. i \in DOMAIN s /\ r[i] = s[i]
    BY <1>1, <2>1
  <2>3. CASE j = Len(s) + 1
    <3>1. s[i].c = a.c /\ r[j] = a
      BY <1>1, <1>2, <2>2, <2>3
    <3>2. s[i].ts \in Times(s, a.c)
      BY <2>2, <3>1 DEF Times
    <3> QED BY <2>2, <3>1, <3>2
  <2>4. CASE j \in DOMAIN s
    <3>1. r[j] = s[j]
      BY <1>1, <2>4
    <3> QED BY <1>2, <2>2, <2>4, <3>1 DEF SentInOrder
  <2> QED BY <1>1, <2>3, <2>4
<1> QED BY <1>2 DEF SentInOrder

LEMMA AppendFlight ==
  ASSUME StateTypes, FlightInv, NEW a \in SentType, \A v \in Sent(a.c) : v < a.ts,
         inflight' = Append(inflight, a), ring' = Append(ring, a), ctx' = ctx
  PROVE  FlightInv'
<1>1. PICK f, r, f2, r2 : f = inflight /\ r = ring /\ f2 = inflight' /\ r2 = ring'
  OBVIOUS
<1>2. /\ f \in Seq(SentType) /\ r \in Seq(SentType) /\ f2 = Append(f, a) /\ r2 = Append(r, a)
      /\ SentInOrder(f) /\ SentInOrder(r)
      /\ (\A v \in Times(f, a.c) : v < a.ts) /\ (\A v \in Times(r, a.c) : v < a.ts)
  BY <1>1 DEF StateTypes, FlightInv, Sent
<1>3. SentInOrder(f2) /\ SentInOrder(r2)
  BY <1>2, AppendInOrder
<1>4. /\ f2[Len(f) + 1] = a /\ Len(f2) = Len(f) + 1 /\ Len(f) \in Nat
      /\ DOMAIN f = 1..Len(f) /\ \A i \in DOMAIN f : f2[i] = f[i]
      /\ \A i \in DOMAIN f2 : i = Len(f) + 1 \/ (i \in DOMAIN f /\ i < Len(f) + 1)
  BY <1>2, AppendFields
<1>5. /\ r2[Len(r) + 1] = a /\ Len(r2) = Len(r) + 1 /\ Len(r) \in Nat
      /\ DOMAIN r = 1..Len(r) /\ \A i \in DOMAIN r : r2[i] = r[i]
      /\ \A i \in DOMAIN r2 : i = Len(r) + 1 \/ (i \in DOMAIN r /\ i < Len(r) + 1)
  BY <1>2, AppendFields
<1>6. /\ \A i \in DOMAIN f, j \in DOMAIN r : Len(f) - i = Len(r) - j => f[i] = r[j]
      /\ \A i \in DOMAIN f : Len(f) - i >= Len(r) => ctx[f[i].c].retired >= f[i].ts
  BY <1>1 DEF FlightInv
<1>7. ASSUME NEW i \in DOMAIN f2, NEW j \in DOMAIN r2, Len(f2) - i = Len(r2) - j
      PROVE  f2[i] = r2[j]
  <2>1. CASE i = Len(f) + 1
    <3>1. j = Len(r) + 1
      BY <1>4, <1>5, <1>7, <2>1
    <3> QED BY <1>4, <1>5, <2>1, <3>1
  <2>2. CASE i \in DOMAIN f /\ i < Len(f) + 1
    <3>1. j # Len(r) + 1
      BY <1>4, <1>5, <1>7, <2>2
    <3>2. j \in DOMAIN r /\ i \in DOMAIN f
      BY <1>5, <2>2, <3>1
    <3>3. i \in Nat /\ j \in Nat
      BY <1>4, <1>5, <3>2
    <3>4. \A m, n, k, l \in Nat : (m + 1) - k = (n + 1) - l => m - k = n - l
      OBVIOUS
    <3>5. (Len(f) + 1) - i = (Len(r) + 1) - j
      BY <1>4, <1>5, <1>7
    <3>6. Len(f) - i = Len(r) - j
      BY <1>4, <1>5, <3>3, <3>4, <3>5
    <3> QED BY <1>4, <1>5, <1>6, <3>2, <3>6
  <2> QED BY <1>4, <2>1, <2>2
<1>8. ASSUME NEW i \in DOMAIN f2, Len(f2) - i >= Len(r2)
      PROVE  ctx[f2[i].c].retired >= f2[i].ts
  <2>1. i # Len(f) + 1
    BY <1>4, <1>5, <1>8
  <2>2. i \in DOMAIN f /\ Len(f) - i >= Len(r)
    BY <1>4, <1>5, <1>8, <2>1
  <2> QED BY <1>4, <1>6, <2>2
<1>9. SentInOrder(inflight)' /\ SentInOrder(ring)'
  BY <1>1, <1>3 DEF SentInOrder
<1> QED BY <1>1, <1>7, <1>8, <1>9 DEF FlightInv

LEMMA SendCmdKeeps ==
  ASSUME IInv, SendCmd
  PROVE  IInv'
<1>1. /\ disp \in DispType /\ disp.pc = "sendcmd" /\ jobs \subseteq Context
      /\ requeue \subseteq Context /\ inflight \in Seq(SentType) /\ ring \in Seq(SentType)
      /\ ctx \in [Context -> ContextType]
  BY DEF IInv, StateTypes, SendCmd
<1>2. PICK c \in Context : c = disp.c
  BY <1>1, DispFields
<1>3. PICK o : o = disp.obj
  OBVIOUS
<1>4. o \in ObjectType /\ Hand(c) = {o} /\ \A d \in Context \ {c} : Hand(d) = {}
  BY <1>1, <1>2, <1>3, HandIs
<1>5. PICK a : a = [c |-> c, ts |-> o.ts]
  OBVIOUS
<1>6. a \in SentType /\ a.c = c /\ a.ts = o.ts
  BY <1>4, <1>5, ObjectFields DEF SentType
<1>7. /\ inflight' = Append(inflight, a) /\ ring' = Append(ring, a)
      /\ UNCHANGED <<ctx, jobs, requeue, gpu, th>>
  BY <1>2, <1>3, <1>5 DEF SendCmd
<1>8. inflight' \in Seq(SentType) /\ ring' \in Seq(SentType)
  BY <1>1, <1>6, <1>7
<1>9. disp' \in DispType /\ disp'.owner = disp.owner /\ disp'.pc = "send"
  <2>1. /\ disp.owner \in Owners /\ disp.first \subseteq Context /\ disp.second \subseteq Context
        /\ disp.count \in Nat /\ disp.limit \in Nat /\ disp.count + 1 \in Nat
    BY <1>1, DispFields
  <2>2. PICK n \in Nat : n = disp.count + 1
    BY <2>1
  <2>3. disp' = [owner |-> disp.owner, pc |-> "send", first |-> disp.first,
                 second |-> disp.second, c |-> c, count |-> n, limit |-> disp.limit]
    BY <1>2, <2>2 DEF SendCmd
  <2> QED BY <2>1, <2>3 DEF DispType
<1>10. \A d \in Context : Hand(d)' = {}
  BY <1>9, HandEmpty
<1>11. ContextInv(ctx[c], Sent(c), Times(ring, c), {o}) /\ ctx[c] \in ContextType
       /\ Sent(c) \subseteq Nat /\ Times(ring, c) \subseteq Sent(c)
  BY <1>4, QueueOf
<1>12. \A v \in Sent(c) : v < o.ts
  BY <1>11 DEF ContextInv, QueueInOrder
<1>13. FlightInv'
  <2>1. \A v \in Sent(a.c) : v < a.ts
    BY <1>6, <1>12
  <2> QED BY <1>6, <1>7, <2>1, AppendFlight DEF IInv
<1>14. ASSUME NEW d \in Context PROVE QueueInv(d)'
  <2>0. ASSUME NEW f \in Seq(SentType)
        PROVE  /\ a.c = d => Times(Append(f, a), d) = Times(f, d) \cup {a.ts}
               /\ a.c # d => Times(Append(f, a), d) = Times(f, d)
    <3>1. a \in SentType
      BY <1>6
    <3> QED BY ONLY <3>1, AppendTimes, f \in Seq(SentType)
  <2>1. ctx'[d] = ctx[d] /\ Hand(d)' = {}
    BY <1>7, <1>10
  <2>2. /\ Times(inflight, d)' = Times(inflight', d) /\ Times(ring, d)' = Times(ring', d)
    BY DEF Times
  <2>3. CASE d = c
    <3>1. Times(inflight', c) = Times(inflight, c) \cup {o.ts} /\ Times(ring', c) = Times(ring, c) \cup {o.ts}
      BY <1>1, <1>6, <1>7, <2>0, <2>3
    <3>2. Sent(c)' = Sent(c) \cup {o.ts}
      BY <2>2, <2>3, <3>1 DEF Sent
    <3>3. ContextInv(ctx[c], Sent(c) \cup {o.ts}, Times(ring, c) \cup {o.ts}, {})
      BY <1>4, <1>11, SentKeeps
    <3> QED BY <2>1, <2>2, <2>3, <3>1, <3>2, <3>3 DEF QueueInv
  <2>4. CASE d # c
    <3>1. Times(inflight', d) = Times(inflight, d) /\ Times(ring', d) = Times(ring, d)
      BY <1>1, <1>6, <1>7, <2>0, <2>4
    <3>2. Sent(d)' = Sent(d)
      BY <2>2, <3>1 DEF Sent
    <3>3. ContextInv(ctx[d], Sent(d), Times(ring, d), {})
      BY <1>4, <2>4, QueueOf
    <3> QED BY <2>1, <2>2, <3>1, <3>2, <3>3 DEF QueueInv
  <2> QED BY <2>3, <2>4
<1>15. QueuesInv'
  BY <1>14, QueuesAreNext
<1>16. ctx' \in [Context -> ContextType]
  BY <1>1, <1>7
<1> QED BY <1>1, <1>7, <1>8, <1>9, <1>13, <1>15, <1>16, DispatchedQueue

LEMMA TailFields ==
  ASSUME NEW s \in Seq(SentType), s # <<>>, NEW r, r = Tail(s)
  PROVE  /\ r \in Seq(SentType) /\ Len(s) \in Nat /\ Len(r) \in Nat /\ Len(r) + 1 = Len(s)
         /\ DOMAIN s = 1..Len(s) /\ DOMAIN r = 1..Len(r)
         /\ 1 \in DOMAIN s /\ Head(s) = s[1] /\ s[1] \in SentType
         /\ \A i \in DOMAIN r : i + 1 \in DOMAIN s /\ r[i] = s[i + 1] /\ i \in Nat /\ 1 < i + 1
<1>1. /\ r \in Seq(SentType) /\ Len(s) \in Nat /\ Len(r) = Len(s) - 1 /\ Len(s) # 0
      /\ DOMAIN s = 1..Len(s) /\ DOMAIN r = 1..Len(r)
  OBVIOUS
<1>2. Len(r) \in Nat /\ Len(r) + 1 = Len(s) /\ 1 \in DOMAIN s
  BY <1>1
<1>3. Head(s) = s[1] /\ s[1] \in SentType
  BY <1>2
<1>4. ASSUME NEW i \in DOMAIN r PROVE i + 1 \in DOMAIN s /\ i \in Nat /\ 1 < i + 1
  BY <1>1, <1>2
<1>5. \A i \in DOMAIN r : r[i] = s[i + 1]
  BY <1>1
<1> QED BY <1>1, <1>2, <1>3, <1>4, <1>5

\* The GPU executes the first command of the ringbuffer.
LEMMA TailFlight ==
  ASSUME StateTypes, FlightInv, ring # <<>>, ring' = Tail(ring), inflight' = inflight,
         \A d \in Context : ctx'[d].retired = IF d = Head(ring).c THEN Head(ring).ts
                                              ELSE ctx[d].retired
  PROVE  FlightInv'
<1>1. PICK f, r, r2, a : f = inflight /\ r = ring /\ r2 = ring' /\ a = Head(ring)
  OBVIOUS
<1>2. f \in Seq(SentType) /\ r \in Seq(SentType) /\ r # <<>> /\ r2 = Tail(r)
      /\ SentInOrder(f) /\ SentInOrder(r)
  BY <1>1 DEF StateTypes, FlightInv
<1>3. /\ Len(r) \in Nat /\ Len(r2) \in Nat /\ Len(r2) + 1 = Len(r)
      /\ DOMAIN r = 1..Len(r) /\ DOMAIN r2 = 1..Len(r2) /\ 1 \in DOMAIN r /\ a = r[1]
      /\ \A i \in DOMAIN r2 : i + 1 \in DOMAIN r /\ r2[i] = r[i + 1] /\ i \in Nat
  BY <1>1, <1>2, TailFields
<1>4. /\ Len(f) \in Nat /\ DOMAIN f = 1..Len(f)
      /\ \A i \in DOMAIN f : f[i].ts \in Nat /\ f[i].c \in Context
  BY <1>2, SentFields
<1>5. /\ \A i \in DOMAIN f, j \in DOMAIN r : Len(f) - i = Len(r) - j => f[i] = r[j]
      /\ \A i \in DOMAIN f : Len(f) - i >= Len(r) => ctx[f[i].c].retired >= f[i].ts
  BY <1>1 DEF FlightInv
<1>6. SentInOrder(r2)
  <2>1. ASSUME NEW i \in DOMAIN r2, NEW j \in DOMAIN r2, i < j, r2[i].c = r2[j].c
        PROVE  r2[i].ts < r2[j].ts
    <3>1. i + 1 \in DOMAIN r /\ j + 1 \in DOMAIN r /\ i \in Nat /\ j \in Nat
          /\ r2[i] = r[i + 1] /\ r2[j] = r[j + 1]
      BY <1>3
    <3>2. i + 1 < j + 1
      BY <2>1, <3>1
    <3> QED BY <1>2, <2>1, <3>1, <3>2 DEF SentInOrder
  <2> QED BY <2>1 DEF SentInOrder
<1>7. ASSUME NEW i \in DOMAIN f, NEW j \in DOMAIN r2, Len(f) - i = Len(r2) - j
      PROVE  f[i] = r2[j]
  <2>1. j + 1 \in DOMAIN r /\ r2[j] = r[j + 1] /\ j \in Nat /\ i \in Nat
    BY <1>3, <1>4
  <2>2. Len(f) - i = Len(r) - (j + 1)
    BY <1>3, <1>4, <1>7, <2>1
  <2> QED BY <1>5, <2>1, <2>2
<1>8. ASSUME NEW i \in DOMAIN f, Len(f) - i >= Len(r2)
      PROVE  ctx'[f[i].c].retired >= f[i].ts
  <2>1. i \in Nat /\ i >= 1 /\ i <= Len(f) /\ f[i].ts \in Nat /\ f[i].c \in Context
    BY <1>4
  <2>2. PICK m : m = (Len(f) - Len(r)) + 1
    OBVIOUS
  <2>3. m \in Nat /\ i <= m /\ m <= Len(f) /\ m >= 1
    BY <1>3, <1>4, <1>8, <2>1, <2>2
  <2>4. m \in DOMAIN f /\ Len(f) - m = Len(r) - 1
    BY <1>3, <1>4, <2>2, <2>3
  <2>5. f[m] = a
    BY <1>3, <1>5, <2>4
  <2>6. CASE f[i].c = a.c
    <3>1. ctx'[f[i].c].retired = a.ts
      BY <1>1, <2>1, <2>6
    <3>2. CASE i = m
      BY <2>1, <2>5, <3>1, <3>2
    <3>3. CASE i < m
      <4>1. f[i].ts < f[m].ts /\ f[m].ts \in Nat
        BY <1>2, <1>4, <2>4, <2>5, <2>6, <3>3 DEF SentInOrder
      <4> QED BY <2>1, <2>5, <3>1, <4>1
    <3> QED BY <2>1, <2>3, <3>2, <3>3
  <2>7. CASE f[i].c # a.c
    <3>1. ctx'[f[i].c].retired = ctx[f[i].c].retired
      BY <1>1, <2>1, <2>7
    <3>2. i # m
      BY <2>5, <2>7
    <3>3. Len(f) - i >= Len(r)
      BY <1>3, <1>4, <2>1, <2>2, <2>3, <3>2
    <3> QED BY <1>5, <3>1, <3>3
  <2> QED BY <2>6, <2>7
<1>9. SentInOrder(inflight)' /\ SentInOrder(ring)'
  BY <1>1, <1>2, <1>6 DEF SentInOrder
<1> QED BY <1>1, <1>7, <1>8, <1>9 DEF FlightInv

LEMMA GpuRetireKeeps ==
  ASSUME IInv, GpuRetire
  PROVE  IInv'
<1>1. /\ ctx \in [Context -> ContextType] /\ ring \in Seq(SentType) /\ ring # <<>>
      /\ inflight \in Seq(SentType)
  BY DEF IInv, StateTypes, GpuRetire
<1>2. PICK r, r2, a : r = ring /\ r2 = ring' /\ a = Head(ring)
  OBVIOUS
<1>3. r \in Seq(SentType) /\ r # <<>> /\ r2 = Tail(r)
  BY <1>1, <1>2 DEF GpuRetire
<1>4. /\ r2 \in Seq(SentType) /\ 1 \in DOMAIN r /\ a = r[1] /\ a \in SentType
      /\ \A i \in DOMAIN r2 : i + 1 \in DOMAIN r /\ r2[i] = r[i + 1] /\ 1 < i + 1
  BY <1>2, <1>3, TailFields
<1>5. PICK c \in Context, n \in Nat : c = a.c /\ n = a.ts
  BY <1>4 DEF SentType
<1>6. PICK x : x = ctx[c] /\ x \in ContextType
  BY <1>1
<1>7. PICK y : y = [x EXCEPT !.retired = n]
  OBVIOUS
<1>8. /\ y \in ContextType /\ y.q = x.q /\ SameRest(y, x) /\ y.queued = x.queued /\ y.retired = n
  BY <1>6, <1>7 DEF ContextType, SameRest
<1>9. ctx' = [ctx EXCEPT ![c] = y]
  BY <1>1, <1>2, <1>5, <1>6, <1>7 DEF GpuRetire
<1>10. /\ ctx' \in [Context -> ContextType] /\ ctx'[c] = y
       /\ \A d \in Context \ {c} : ctx'[d] = ctx[d]
  BY <1>1, <1>8, <1>9, ContextSet
<1>11. UNCHANGED <<jobs, requeue, inflight, disp, th>> /\ gpu' = Kicked(gpu) /\ ring' = Tail(ring)
  BY DEF GpuRetire
<1>12. FlightInv'
  <2>1. \A d \in Context : ctx'[d].retired = IF d = Head(ring).c THEN Head(ring).ts
                                              ELSE ctx[d].retired
    BY <1>2, <1>5, <1>8, <1>10
  <2> QED BY <1>1, <1>11, <2>1, TailFlight DEF IInv
<1>13. SentInOrder(r)
  BY <1>2 DEF IInv, FlightInv
<1>14. ASSUME NEW d \in Context
       PROVE  /\ Times(ring, d)' \subseteq Times(ring, d) /\ Sent(d)' \subseteq Sent(d)
              /\ Hand(d)' = Hand(d)
              /\ d = c => n \in Times(ring, d) /\ \A v \in Times(ring, d)' : v > n
  <2>1. Times(ring, d)' = {r2[i].ts : i \in {j \in DOMAIN r2 : r2[j].c = d}}
    BY <1>2 DEF Times
  <2>2. Times(ring, d) = {r[i].ts : i \in {j \in DOMAIN r : r[j].c = d}}
    BY <1>2 DEF Times
  <2>3. Times(ring, d)' \subseteq Times(ring, d)
    BY <1>4, <2>1, <2>2
  <2>4. Times(inflight, d)' = Times(inflight, d)
    BY <1>11 DEF Times
  <2>5. ASSUME d = c PROVE n \in Times(ring, d) /\ \A v \in Times(ring, d)' : v > n
    <3>1. n \in Times(ring, d)
      BY <1>4, <1>5, <2>2, <2>5
    <3>2. ASSUME NEW v \in Times(ring, d)' PROVE v > n
      <4>1. PICK i \in DOMAIN r2 : r2[i].c = d /\ v = r2[i].ts
        BY <2>1
      <4>2. i + 1 \in DOMAIN r /\ 1 < i + 1 /\ r[1].c = r[i + 1].c /\ v = r[i + 1].ts
        BY <1>4, <1>5, <2>5, <4>1
      <4>3. r[1].ts < r[i + 1].ts /\ r[1].ts = n
        BY <1>4, <1>5, <1>13, <4>2 DEF SentInOrder
      <4>4. v \in Nat
        BY <1>3, <4>2, SentFields
      <4> QED BY <4>2, <4>3, <4>4
    <3> QED BY <3>1, <3>2
  <2>6. Hand(d)' = Hand(d)
    BY <1>11, HandEmpty
  <2> QED BY <2>3, <2>4, <2>5, <2>6 DEF Sent
<1>15. ASSUME NEW d \in Context PROVE QueueInv(d)'
  <2>1. PICK S, R, H, S2, R2 : /\ S = Sent(d) /\ R = Times(ring, d) /\ H = Hand(d)
                               /\ S2 = Sent(d)' /\ R2 = Times(ring, d)'
    OBVIOUS
  <2>2. /\ S \subseteq Nat /\ R \subseteq S /\ H \subseteq ObjectType /\ ContextInv(ctx[d], S, R, H)
        /\ S2 \subseteq S /\ R2 \subseteq R /\ ctx[d] \in ContextType /\ Hand(d)' = H
    BY <1>14, <2>1, QueueOf
  <2>3. CASE d = c
    <3>1. y.retired \in R /\ \A v \in R2 : v > y.retired
      BY <1>8, <1>14, <2>1, <2>3
    <3>2. ContextInv(x, S, R, H)
      BY <1>6, <2>2, <2>3
    <3>3. ContextInv(y, S2, R2, H)
      BY <1>6, <1>8, <2>2, <3>1, <3>2, RetireKeeps
    <3> QED BY <1>10, <2>1, <2>2, <2>3, <3>3 DEF QueueInv
  <2>4. CASE d # c
    <3>1. ContextInv(ctx[d], S2, R2, H)
      BY <2>2, FewerKeeps
    <3> QED BY <1>10, <2>1, <2>2, <2>4, <3>1 DEF QueueInv
  <2> QED BY <2>3, <2>4
<1>16. QueuesInv'
  BY <1>15, QueuesAreNext
<1>17. OwnerInv' /\ BatchInv'
  BY <1>11 DEF IInv, OwnerInv, BatchInv
<1>18. gpu' \in [kick : BOOLEAN, fault : BOOLEAN, halt : BOOLEAN, left : Nat]
  BY <1>11 DEF IInv, StateTypes, Kicked
<1>19. StateTypes'
  BY <1>2, <1>4, <1>10, <1>11, <1>18 DEF IInv, StateTypes
<1> QED BY <1>12, <1>16, <1>17, <1>19 DEF IInv

-----------------------------------------------------------------------------
(* Sync points, bind operations and detaching.                             *)

\* A context changes outside the dispatcher.
LEMMA OutsideKeeps ==
  ASSUME IInv, NEW c \in Context, NEW y \in ContextType, ctx' = [ctx EXCEPT ![c] = y],
         ContextInv(y, Sent(c), Times(ring, c), Hand(c)),
         \A s \in Times(inflight, c) : s <= ctx[c].retired => s <= y.retired,
         UNCHANGED <<requeue, inflight, ring, disp>>, jobs' \subseteq Context,
         gpu' = gpu \/ gpu' = Kicked(gpu), th' \in [Thread -> ThreadType], BatchInv',
         \A t \in Thread : th'[t].pc = "dispatch" <=> th[t].pc = "dispatch"
  PROVE  IInv'
<1>1. \A d \in Context : Hand(d)' = Hand(d)
  BY HandEmpty
<1>2. ctx' \in [Context -> ContextType] /\ QueuesInv' /\ FlightInv'
  BY <1>1, OneQueueKeeps
<1>3. OwnerInv'
  BY DEF IInv, OwnerInv
<1>4. gpu' \in [kick : BOOLEAN, fault : BOOLEAN, halt : BOOLEAN, left : Nat]
  BY DEF IInv, StateTypes, Kicked
<1>5. StateTypes'
  BY <1>2, <1>4 DEF IInv, StateTypes
<1> QED BY <1>2, <1>3, <1>5 DEF IInv

\* One object of a queue becomes done.
LEMMA DoneFields ==
  ASSUME NEW x \in ContextType, NEW i \in DOMAIN x.q, NEW y, y = [x EXCEPT !.q[i].st = "done"]
  PROVE  /\ y \in ContextType /\ SameRest(y, x) /\ y.queued = x.queued /\ y.retired = x.retired
         /\ Len(y.q) = Len(x.q) /\ DOMAIN y.q = DOMAIN x.q
         /\ \A j \in DOMAIN x.q :
              /\ y.q[j].k = x.q[j].k /\ y.q[j].ts = x.q[j].ts /\ y.q[j].dep = x.q[j].dep
              /\ y.q[j].skip = x.q[j].skip
              /\ j # i => y.q[j].st = x.q[j].st
<1>1. PICK o : o = [x.q[i] EXCEPT !.st = "done"]
  OBVIOUS
<1>2. x.q[i] \in ObjectType /\ x.q \in Seq(ObjectType)
  BY QueueFields, ContextFields
<1>3. /\ o \in ObjectType /\ o.k = x.q[i].k /\ o.ts = x.q[i].ts /\ o.dep = x.q[i].dep
      /\ o.skip = x.q[i].skip
  BY <1>1, <1>2 DEF ObjectType
<1>4. PICK q : q = [x.q EXCEPT ![i] = o]
  OBVIOUS
<1>5. q \in Seq(ObjectType) /\ Len(q) = Len(x.q) /\ DOMAIN q = DOMAIN x.q
      /\ q[i] = o /\ \A j \in DOMAIN x.q : j # i => q[j] = x.q[j]
  BY <1>2, <1>3, <1>4
<1>6. y = [x EXCEPT !.q = q]
  BY <1>1, <1>4
<1>7. /\ y \in ContextType /\ SameRest(y, x) /\ y.queued = x.queued /\ y.retired = x.retired
      /\ y.q = q
  BY <1>5, <1>6 DEF ContextType, SameRest
<1>8. ASSUME NEW j \in DOMAIN x.q
      PROVE  /\ q[j].k = x.q[j].k /\ q[j].ts = x.q[j].ts /\ q[j].dep = x.q[j].dep
             /\ q[j].skip = x.q[j].skip
             /\ j # i => q[j].st = x.q[j].st
  BY <1>3, <1>5
<1> QED BY <1>5, <1>7, <1>8

LEMMA DoneKeeps ==
  ASSUME NEW x \in ContextType, NEW i \in DOMAIN x.q, NEW y, y = [x EXCEPT !.q[i].st = "done"],
         x.q[i].k = "sync" => x.q[i].dep <= x.retired,
         NEW S, S \subseteq Nat, NEW R, R \subseteq S, NEW H, H \subseteq ObjectType,
         ContextInv(x, S, R, H)
  PROVE  ContextInv(y, S, R, H)
<1>1. /\ y \in ContextType /\ SameRest(y, x) /\ y.queued = x.queued /\ y.retired = x.retired
      /\ Len(y.q) = Len(x.q) /\ DOMAIN y.q = DOMAIN x.q
      /\ \A j \in DOMAIN x.q :
           /\ y.q[j].k = x.q[j].k /\ y.q[j].ts = x.q[j].ts /\ y.q[j].dep = x.q[j].dep
           /\ y.q[j].skip = x.q[j].skip
           /\ j # i => y.q[j].st = x.q[j].st
  BY DoneFields
<1>2. /\ QueueInOrder(x, S, H) /\ x.retired <= x.ts
      /\ (x.state = {} /\ ~x.stale => RetiredInOrder(x, R, H))
  BY DEF ContextInv
<1>3. Shifted(y, x, 0)
  <2>1. \A j \in DOMAIN x.q : x.q[j].skip => x.q[j].k = "marker"
    BY <1>2 DEF QueueInOrder
  <2>2. Len(y.q) + 0 = Len(x.q) /\ \A j \in DOMAIN y.q : j + 0 = j
    BY <1>1, QueueFields
  <2>3. ASSUME NEW j \in DOMAIN y.q
        PROVE  /\ y.q[j].k = x.q[j + 0].k /\ y.q[j].ts = x.q[j + 0].ts
               /\ y.q[j].dep = x.q[j + 0].dep
               /\ y.q[j].skip => y.q[j].k = "marker"
               /\ y.q[j].k = "sync" /\ y.q[j].st = "done"
                    => x.q[j + 0].st = "done" \/ x.q[j + 0].dep <= y.retired
    <3>1. j + 0 = j /\ j \in DOMAIN x.q
      BY <1>1, <2>2
    <3> QED BY <1>1, <2>1, <3>1
  <2> QED BY <2>2, <2>3 DEF Shifted
<1>4. x.retired \in Nat /\ x.retired <= y.retired /\ y.retired <= y.ts
  BY <1>1, <1>2, ContextFields DEF SameRest
<1>5. ASSUME x.state = {} /\ ~x.stale
      PROVE  /\ \A r \in R : r > y.retired
             /\ \A o \in H : o.ts > y.retired
             /\ \A j \in DOMAIN y.q : y.q[j].ts > 0 => y.q[j].ts > y.retired
  BY <1>1, <1>2, <1>5 DEF RetiredInOrder
<1> QED BY <1>1, <1>3, <1>4, <1>5, ShiftKeeps

LEMMA PointKeeps ==
  ASSUME IInv, NEW c \in Context, SyncExpires(c) \/ BindDone(c)
  PROVE  IInv'
<1>1. /\ ctx \in [Context -> ContextType] /\ jobs \subseteq Context /\ th' = th
      /\ UNCHANGED <<requeue, inflight, ring, disp>>
  BY DEF IInv, StateTypes, SyncExpires, BindDone
<1>2. PICK x : x = ctx[c] /\ x \in ContextType
  BY <1>1
<1>3. PICK i \in DOMAIN x.q : /\ ctx' = [ctx EXCEPT ![c].q[i].st = "done"]
                              /\ x.q[i].k = "sync" => x.q[i].dep <= x.retired
  <2>1. x.retired \in Nat /\ \A i \in DOMAIN x.q : x.q[i].dep \in Nat
    BY <1>2, ContextFields, QueueFields
  <2>2. CASE SyncExpires(c)
    BY <1>2, <2>1, <2>2 DEF SyncExpires
  <2>3. CASE BindDone(c)
    BY <1>2, <2>3 DEF BindDone
  <2> QED BY <2>2, <2>3
<1>4. PICK y : y = [x EXCEPT !.q[i].st = "done"]
  OBVIOUS
<1>5. ctx' = [ctx EXCEPT ![c] = y]
  <2>1. ctx' = [ctx EXCEPT ![c] = [ctx[c] EXCEPT !.q[i].st = "done"]]
    BY ONLY <1>3
  <2> QED BY ONLY <1>2, <1>4, <2>1
<1>6. y \in ContextType /\ y.retired = x.retired
  BY <1>2, <1>4, DoneFields
<1>7. PICK S, R, H : S = Sent(c) /\ R = Times(ring, c) /\ H = Hand(c)
  OBVIOUS
<1>8. /\ ContextInv(x, S, R, H) /\ S \subseteq Nat /\ R \subseteq S /\ H \subseteq ObjectType
  BY <1>2, <1>7, QueueOf
<1>9. ContextInv(y, S, R, H)
  BY <1>2, <1>3, <1>4, <1>8, DoneKeeps
<1>10. jobs' \subseteq Context /\ gpu' = Kicked(gpu)
  BY <1>1 DEF SyncExpires, BindDone, QueueContext
<1>11. /\ th' \in [Thread -> ThreadType] /\ BatchInv'
       /\ \A t \in Thread : th'[t].pc = "dispatch" <=> th[t].pc = "dispatch"
  BY <1>1, ThreadsStay
<1> QED BY <1>1, <1>2, <1>5, <1>6, <1>7, <1>9, <1>10, <1>11, OutsideKeeps

LEMMA SpoiledKeeps ==
  ASSUME IInv, NEW c \in Context, NEW y \in ContextType, Spoils(y, ctx[c]),
         ctx' = [ctx EXCEPT ![c] = y], y.retired = ctx[c].retired \/ y.retired = ctx[c].ts,
         UNCHANGED <<jobs, requeue, inflight, ring, disp, gpu>>,
         th' \in [Thread -> ThreadType], BatchInv',
         \A t \in Thread : th'[t].pc = "dispatch" <=> th[t].pc = "dispatch"
  PROVE  IInv'
<1>1. PICK x, S, R, H : x = ctx[c] /\ S = Sent(c) /\ R = Times(ring, c) /\ H = Hand(c)
  OBVIOUS
<1>2. /\ ContextInv(x, S, R, H) /\ S \subseteq Nat /\ H \subseteq ObjectType /\ x \in ContextType
      /\ Times(inflight, c) \subseteq S
  BY <1>1, QueueOf
<1>3. Spoils(y, x)
  BY <1>1
<1>4. ContextInv(y, S, R, H)
  BY <1>2, <1>3, BadKeeps
<1>5. ASSUME NEW s \in Times(inflight, c), s <= x.retired PROVE s <= y.retired
  <2>1. s \in Nat /\ s <= x.qts /\ x.qts <= x.ts /\ x.qts \in Nat /\ x.ts \in Nat
    BY <1>2, ContextFields DEF ContextInv, QueueInOrder
  <2>2. CASE y.retired = x.retired
    BY <1>5, <2>2
  <2>3. CASE y.retired = x.ts
    BY <2>1, <2>3
  <2> QED BY <1>1, <2>2, <2>3
<1>6. jobs' \subseteq Context
  BY DEF IInv, StateTypes
<1> QED BY <1>1, <1>4, <1>5, <1>6, OutsideKeeps

LEMMA DetachKeeps ==
  ASSUME IInv, NEW c \in Context, DetachMark(c) \/ DetachTake(c) \/ DetachEnd(c)
  PROVE  IInv'
<1>1. PICK x : x = ctx[c] /\ x \in ContextType /\ ctx \in [Context -> ContextType]
  BY DEF IInv, StateTypes
<1>2. /\ x.q \in Seq(ObjectType) /\ x.queued \in Nat /\ x.ts \in Nat /\ x.qts \in Nat
      /\ x.retired \in Nat /\ x.state \in SUBSET {"invalid", "detached"}
      /\ x.retired <= x.ts /\ (x.detach # "no" => x.state # {})
  <2>1. ContextInv(x, Sent(c), Times(ring, c), Hand(c))
    BY <1>1, QueueOf
  <2> QED BY <1>1, <2>1, ContextFields DEF ContextInv, CountInv
<1>3. CASE DetachMark(c)
  <2>1. PICK v \in SUBSET {"invalid", "detached"} : v = x.state \cup {"detached"}
    BY <1>2
  <2>2. PICK y : y = [x EXCEPT !.state = v, !.detach = "marked"]
    OBVIOUS
  <2>3. y \in ContextType /\ Spoils(y, x) /\ y.retired = x.retired
    BY <1>1, <1>2, <2>1, <2>2 DEF ContextType, Spoils
  <2>4. ctx' = [ctx EXCEPT ![c] = y]
    BY <1>1, <1>3, <2>1, <2>2 DEF DetachMark
  <2> QED BY <1>1, <1>3, <2>3, <2>4, SpoiledKeeps, ThreadsStay DEF DetachMark
<1>4. CASE DetachTake(c)
  <2>1. PICK y : y = [x EXCEPT !.q = <<>>, !.detach = "taken"]
    OBVIOUS
  <2>2. <<>> \in Seq(ObjectType) /\ x.state # {}
    BY <1>1, <1>2, <1>4 DEF DetachTake
  <2>3. y \in ContextType /\ Spoils(y, x) /\ y.retired = x.retired
    BY <1>1, <1>2, <2>1, <2>2 DEF ContextType, Spoils
  <2>4. ctx' = [ctx EXCEPT ![c] = y]
    BY <1>1, <1>4, <2>1 DEF DetachTake, DetachDrawobjs
  <2> QED BY <1>1, <1>4, <2>3, <2>4, SpoiledKeeps, ThreadsStay DEF DetachTake
<1>5. CASE DetachEnd(c)
  <2>1. PICK y : y = [x EXCEPT !.detach = "done", !.retired = x.ts]
    OBVIOUS
  <2>2. x.state # {}
    BY <1>1, <1>2, <1>5 DEF DetachEnd
  <2>3. y \in ContextType /\ Spoils(y, x) /\ y.retired = x.ts
    <3>1. PICK n \in Nat : n = x.ts
      BY <1>2
    <3>2. /\ y \in ContextType /\ y.q = x.q /\ y.queued = x.queued /\ y.ts = x.ts /\ y.qts = x.qts
          /\ y.state = x.state /\ y.retired = n
      BY <1>1, <2>1, <3>1 DEF ContextType
    <3>3. y.retired <= y.ts
      BY <3>1, <3>2
    <3> QED BY <2>2, <3>1, <3>2, <3>3 DEF Spoils
  <2>4. ctx' = [ctx EXCEPT ![c] = y]
    BY <1>1, <1>5, <2>1 DEF DetachEnd
  <2>5. /\ th' \in [Thread -> ThreadType] /\ BatchInv'
        /\ \A t \in Thread : th'[t].pc = "dispatch" <=> th[t].pc = "dispatch"
    BY <1>5, WakeUpWakes, WakingKeeps DEF IInv, DetachEnd
  <2> QED BY <1>1, <1>5, <2>3, <2>4, <2>5, SpoiledKeeps DEF DetachEnd
<1> QED BY <1>3, <1>4, <1>5

-----------------------------------------------------------------------------
(* The worker: what has retired is dropped, after a fault the rest is sent *)
(* again.                                                                  *)

LEMMA RetireFields ==
  ASSUME StateTypes, NEW s \in Seq(SentType), NEW r, r = RetireDrawqueue(s)
  PROVE  /\ r \in Seq(SentType)
         /\ \E m \in Nat :
              /\ m <= Len(s) /\ Len(r) + m = Len(s)
              /\ \A i \in DOMAIN r : i + m \in DOMAIN s /\ r[i] = s[i + m] /\ i \in Nat
              /\ m < Len(s) => ~(ctx[s[m + 1].c].retired >= s[m + 1].ts)
<1>1. Len(s) \in Nat /\ DOMAIN s = 1..Len(s)
  OBVIOUS
<1> DEFINE T == {n \in 0..Len(s) : \A i \in 1..n : ctx[s[i].c].retired >= s[i].ts}
<1>2. 0 \in T
  BY <1>1
<1>3. T \subseteq 0..Len(s)
  OBVIOUS
<1>4. PICK m : m = RetiredCount(s)
  OBVIOUS
<1>5. m = Max(T)
  BY <1>4 DEF RetiredCount
<1>6. m \in T /\ \A y \in T : y <= m
  BY <1>1, <1>2, <1>3, <1>5, Greatest
<1>7. m \in Nat /\ m <= Len(s) /\ \A i \in 1..m : ctx[s[i].c].retired >= s[i].ts
  BY <1>1, <1>6
<1>8. ASSUME m < Len(s) PROVE ~(ctx[s[m + 1].c].retired >= s[m + 1].ts)
  <2>1. SUFFICES ASSUME ctx[s[m + 1].c].retired >= s[m + 1].ts PROVE FALSE
    OBVIOUS
  <2>2. m + 1 \in 0..Len(s) /\ \A i \in 1..(m + 1) : i \in 1..m \/ i = m + 1
    BY <1>1, <1>7, <1>8
  <2>3. m + 1 \in T
    BY <1>7, <2>1, <2>2
  <2> HIDE DEF T
  <2> QED BY <1>6, <1>7, <2>3
<1> HIDE DEF T
<1>9. r = SubSeq(s, m + 1, Len(s))
  BY <1>4 DEF RetireDrawqueue
<1>10. \A i \in (m + 1)..Len(s) : s[i] \in SentType
  BY <1>1, <1>7
<1>11. /\ r \in Seq(SentType) /\ Len(r) = IF m + 1 <= Len(s) THEN Len(s) - (m + 1) + 1 ELSE 0
       /\ \A i \in 1..(Len(s) - (m + 1) + 1) : r[i] = s[(m + 1) + i - 1]
  BY <1>1, <1>7, <1>9, <1>10, SubSeqProperties
<1>12. Len(r) + m = Len(s) /\ Len(r) \in Nat
  <2>1. CASE m + 1 <= Len(s)
    <3>1. Len(r) = Len(s) - (m + 1) + 1
      BY <1>11, <2>1
    <3> QED BY <1>1, <1>7, <2>1, <3>1
  <2>2. CASE ~(m + 1 <= Len(s))
    <3>1. Len(r) = 0
      BY <1>11, <2>2
    <3> QED BY <1>1, <1>7, <2>2, <3>1
  <2> QED BY <2>1, <2>2
<1>13. ASSUME NEW i \in DOMAIN r PROVE i + m \in DOMAIN s /\ r[i] = s[i + m] /\ i \in Nat
  <2>1. i \in 1..Len(r) /\ i \in Nat
    BY <1>11
  <2>2. i + m \in 1..Len(s) /\ i \in 1..(Len(s) - (m + 1) + 1) /\ (m + 1) + i - 1 = i + m
    BY <1>1, <1>7, <1>12, <2>1
  <2> QED BY <1>1, <1>11, <2>1, <2>2
<1> QED BY <1>7, <1>8, <1>11, <1>12, <1>13

\* A part of a sequence that is in order.
LEMMA PartInOrder ==
  ASSUME NEW r, NEW s, NEW h, SentInOrder(s), \A i \in DOMAIN r : h[i] \in DOMAIN s /\ r[i] = s[h[i]],
         \A i, j \in DOMAIN r : i < j => h[i] < h[j]
  PROVE  SentInOrder(r) /\ \A c : Times(r, c) \subseteq Times(s, c)
<1>1. SentInOrder(r)
  BY DEF SentInOrder
<1>2. ASSUME NEW c, NEW v \in Times(r, c) PROVE v \in Times(s, c)
  <2>1. PICK i \in DOMAIN r : r[i].c = c /\ v = r[i].ts
    BY DEF Times
  <2>2. h[i] \in DOMAIN s /\ s[h[i]].c = c /\ v = s[h[i]].ts
    BY <2>1
  <2> QED BY <2>2 DEF Times
<1> QED BY <1>1, <1>2

LEMMA RetiredPart ==
  ASSUME StateTypes, SentInOrder(inflight), NEW r, r = RetireDrawqueue(inflight)
  PROVE  SentInOrder(r) /\ \A c : Times(r, c) \subseteq Times(inflight, c)
<1>1. PICK s : s = inflight /\ s \in Seq(SentType) /\ SentInOrder(s) /\ r = RetireDrawqueue(s)
  BY DEF StateTypes
<1>2. PICK m \in Nat : \A i \in DOMAIN r : i + m \in DOMAIN s /\ r[i] = s[i + m] /\ i \in Nat
  BY <1>1, RetireFields
<1>3. PICK h : h = [i \in DOMAIN r |-> i + m]
  OBVIOUS
<1>4. \A i \in DOMAIN r : h[i] \in DOMAIN s /\ r[i] = s[h[i]] /\ h[i] = i + m
  BY <1>2, <1>3
<1>5. \A i, j \in DOMAIN r : i < j => h[i] < h[j]
  BY <1>2, <1>4
<1>6. SentInOrder(r) /\ \A c : Times(r, c) \subseteq Times(s, c)
  BY <1>1, <1>4, <1>5, PartInOrder
<1> QED BY <1>1, <1>6

LEMMA WorkBeginKeeps ==
  ASSUME IInv, WorkBegin
  PROVE  IInv'
<1>1. PICK f, r, g : f = inflight /\ r = RetireDrawqueue(inflight) /\ g = ring
  OBVIOUS
<1>2. /\ f \in Seq(SentType) /\ g \in Seq(SentType) /\ inflight' = r /\ StateTypes /\ FlightInv
      /\ r = RetireDrawqueue(f)
  BY <1>1 DEF IInv, StateTypes, WorkBegin
<1>3. r \in Seq(SentType)
  BY <1>2, RetireFields
<1>4. PICK m \in Nat :
        /\ m <= Len(f) /\ Len(r) + m = Len(f)
        /\ \A i \in DOMAIN r : i + m \in DOMAIN f /\ r[i] = f[i + m] /\ i \in Nat
  BY <1>2, RetireFields
<1>5. SentInOrder(r) /\ \A c : Times(r, c) \subseteq Times(inflight, c)
  BY <1>1, <1>2, RetiredPart DEF FlightInv
<1>6. /\ UNCHANGED <<ctx, jobs, requeue, ring, th>> /\ disp.owner = "none"
      /\ disp' = [owner |-> "worker", pc |-> "fault"]
  BY DEF WorkBegin
<1>7. disp' \in DispType /\ disp'.owner = "worker" /\ disp'.pc = "fault"
  BY <1>6 DEF DispType, Owners
<1>8. disp.pc = "free" /\ \A t \in Thread : th[t].pc # "dispatch"
  BY <1>6, DispatchAssumption DEF IInv, OwnerInv
<1>9. OwnerInv'
  BY <1>6, <1>7, <1>8, DispatchAssumption DEF OwnerInv
<1>10. BatchInv'
  BY <1>6 DEF IInv, BatchInv
<1>11. gpu' \in [kick : BOOLEAN, fault : BOOLEAN, halt : BOOLEAN, left : Nat]
  BY DEF IInv, StateTypes, WorkBegin
<1>12. StateTypes'
  BY <1>2, <1>3, <1>6, <1>7, <1>11 DEF StateTypes
<1>13. ASSUME NEW c \in Context PROVE QueueInv(c)'
  <2>1. Times(inflight, c)' = Times(r, c) /\ Times(ring, c)' = Times(ring, c) /\ ctx'[c] = ctx[c]
    BY <1>2, <1>6 DEF Times
  <2>2. PICK S, R, S2 : S = Sent(c) /\ R = Times(ring, c) /\ S2 = Sent(c)'
    OBVIOUS
  <2>3. S2 \subseteq S
    BY <1>5, <2>1, <2>2 DEF Sent
  <2>4. Hand(c) = {} /\ Hand(c)' = {}
    BY <1>7, <1>8, HandEmpty
  <2>5. /\ S \subseteq Nat /\ R \subseteq S /\ ctx[c] \in ContextType
        /\ ContextInv(ctx[c], S, R, {})
    BY <2>2, <2>4, QueueOf
  <2>6. ContextInv(ctx[c], S2, R, {})
    BY <2>3, <2>5, FewerKeeps
  <2> QED BY <2>1, <2>2, <2>4, <2>6 DEF QueueInv
<1>14. QueuesInv'
  BY <1>13, QueuesAreNext
<1>15. FlightInv'
  <2>1. /\ \A i \in DOMAIN f, j \in DOMAIN g : Len(f) - i = Len(g) - j => f[i] = g[j]
        /\ \A i \in DOMAIN f : Len(f) - i >= Len(g) => ctx[f[i].c].retired >= f[i].ts
        /\ SentInOrder(g)
    BY <1>1, <1>2 DEF FlightInv
  <2>2. Len(f) \in Nat /\ Len(r) \in Nat /\ Len(g) \in Nat /\ DOMAIN g = 1..Len(g)
    BY <1>2, <1>3
  <2>3. ASSUME NEW i \in DOMAIN r, NEW j \in DOMAIN g, Len(r) - i = Len(g) - j PROVE r[i] = g[j]
    <3>1. i + m \in DOMAIN f /\ r[i] = f[i + m] /\ i \in Nat /\ j \in Nat
      BY <1>4, <2>2
    <3>2. Len(f) - (i + m) = Len(g) - j
      BY ONLY <1>4, <2>2, <2>3, <3>1
    <3> QED BY <2>1, <3>1, <3>2
  <2>4. ASSUME NEW i \in DOMAIN r, Len(r) - i >= Len(g) PROVE ctx[r[i].c].retired >= r[i].ts
    <3>1. i + m \in DOMAIN f /\ r[i] = f[i + m] /\ i \in Nat
      BY <1>4
    <3>2. Len(f) - (i + m) >= Len(g)
      BY ONLY <1>4, <2>2, <2>4, <3>1
    <3> QED BY <2>1, <3>1, <3>2
  <2>5. SentInOrder(inflight)' /\ SentInOrder(ring)'
    BY <1>1, <1>2, <1>5, <1>6, <2>1 DEF SentInOrder
  <2> QED BY <1>1, <1>2, <1>6, <2>3, <2>4, <2>5 DEF FlightInv
<1> QED BY <1>9, <1>10, <1>12, <1>14, <1>15 DEF IInv

\* What the driver has not dropped the GPU has not executed.
LEMMA LeftIsPending ==
  ASSUME StateTypes, FlightInv, NEW r, r = RetireDrawqueue(inflight), NEW i \in DOMAIN r
  PROVE  \E j \in DOMAIN ring : r[i] = ring[j]
<1>1. PICK f, g : f = inflight /\ g = ring
  OBVIOUS
<1>2. f \in Seq(SentType) /\ g \in Seq(SentType) /\ r = RetireDrawqueue(f)
  BY <1>1 DEF StateTypes
<1>3. r \in Seq(SentType)
  BY <1>2, RetireFields
<1>4. PICK m \in Nat :
        /\ m <= Len(f) /\ Len(r) + m = Len(f)
        /\ \A k \in DOMAIN r : k + m \in DOMAIN f /\ r[k] = f[k + m] /\ k \in Nat
        /\ m < Len(f) => ~(ctx[f[m + 1].c].retired >= f[m + 1].ts)
  BY <1>2, RetireFields
<1>5. Len(f) \in Nat /\ Len(r) \in Nat /\ Len(g) \in Nat /\ DOMAIN g = 1..Len(g)
      /\ DOMAIN f = 1..Len(f) /\ DOMAIN r = 1..Len(r)
  BY <1>2, <1>3
<1>6. i \in Nat /\ i >= 1 /\ i <= Len(r) /\ i + m \in DOMAIN f /\ r[i] = f[i + m]
  BY <1>4, <1>5
<1>7. m < Len(f) /\ m + 1 \in DOMAIN f
  BY <1>4, <1>5, <1>6
<1>8. /\ \A k \in DOMAIN f, j \in DOMAIN g : Len(f) - k = Len(g) - j => f[k] = g[j]
      /\ \A k \in DOMAIN f : Len(f) - k >= Len(g) => ctx[f[k].c].retired >= f[k].ts
  BY <1>1 DEF FlightInv
<1>9. ~(Len(f) - (m + 1) >= Len(g))
  BY ONLY <1>4, <1>7, <1>8
<1>10. PICK j : j = Len(g) - (Len(f) - (i + m))
  OBVIOUS
<1>11. j \in 1..Len(g) /\ Len(f) - (i + m) = Len(g) - j
  <2>1. PICK a, b \in Nat : a = Len(f) /\ b = Len(g)
    BY <1>5
  <2>2. i + m <= a /\ ~(a - (m + 1) >= b) /\ i >= 1
    BY <1>5, <1>6, <1>9, <2>1
  <2>3. i \in Nat /\ m \in Nat /\ j = b - (a - (i + m))
    BY <1>6, <1>10, <2>1
  <2>4. j \in 1..b /\ a - (i + m) = b - j
    BY ONLY <2>1, <2>2, <2>3
  <2> QED BY ONLY <2>1, <2>4
<1>12. f[i + m] = g[j]
  BY <1>5, <1>6, <1>8, <1>11
<1> QED BY <1>1, <1>5, <1>6, <1>11, <1>12

\* What is sent again is a part of the ringbuffer.
LEMMA ReplayedPart ==
  ASSUME StateTypes, FlightInv, NEW G, NEW s, s = Replayed(RetireDrawqueue(inflight), G)
  PROVE  /\ s \in Seq(SentType) /\ SentInOrder(s)
         /\ \A c : Times(s, c) \subseteq Times(inflight, c) /\ Times(s, c) \subseteq Times(ring, c)
<1>1. PICK r : r = RetireDrawqueue(inflight)
  OBVIOUS
<1>2. r \in Seq(SentType)
  BY <1>1, RetireFields DEF StateTypes
<1>3. SentInOrder(r) /\ \A c : Times(r, c) \subseteq Times(inflight, c)
  BY <1>1, RetiredPart DEF FlightInv
<1>4. s = Replayed(r, G)
  BY <1>1
<1>5. s \in Seq(SentType)
  BY <1>2, <1>4, ReplayPicks
<1>6. PICK h : Picks(h, s, r, Len(r))
  BY <1>2, <1>4, ReplayPicks
<1>7. DOMAIN s = 1..Len(s) /\ DOMAIN r = 1..Len(r)
  BY <1>2, <1>5
<1>8. /\ \A i \in DOMAIN s : h[i] \in DOMAIN r /\ s[i] = r[h[i]]
      /\ \A i, j \in DOMAIN s : i < j => h[i] < h[j]
  BY <1>6, <1>7 DEF Picks
<1>9. SentInOrder(s) /\ \A c : Times(s, c) \subseteq Times(r, c)
  BY <1>3, <1>8, PartInOrder
<1>10. ASSUME NEW c, NEW v \in Times(r, c) PROVE v \in Times(ring, c)
  <2>1. PICK i \in DOMAIN r : r[i].c = c /\ v = r[i].ts
    BY DEF Times
  <2>2. PICK j \in DOMAIN ring : r[i] = ring[j]
    BY <1>1, <2>1, LeftIsPending
  <2> QED BY <2>1, <2>2 DEF Times
<1> QED BY <1>3, <1>5, <1>9, <1>10

LEMMA DoFaultKeeps ==
  ASSUME IInv, DoFault
  PROVE  IInv'
<1>1. PICK G : /\ ctx' = [c \in Context |-> IF c \in G THEN Invalidated(ctx[c]) ELSE ctx[c]]
               /\ inflight' = Replayed(RetireDrawqueue(inflight), G)
               /\ th' = [t \in Thread |-> IF th[t].pc = "sleep" /\ th[t].c \in G
                                          THEN [th[t] EXCEPT !.pc = "test"] ELSE th[t]]
  BY DEF DoFault
<1>2. /\ disp.pc = "fault" /\ ring' = inflight' /\ UNCHANGED <<jobs, requeue>>
      /\ gpu' = [gpu EXCEPT !.fault = FALSE, !.kick = TRUE]
      /\ disp' = [disp EXCEPT !.pc = "unlock"]
  BY DEF DoFault
<1>3. StateTypes /\ FlightInv /\ OwnerInv /\ BatchInv
  BY DEF IInv
<1>4. PICK s : s = inflight'
  OBVIOUS
<1>5. /\ s \in Seq(SentType) /\ SentInOrder(s)
      /\ \A c : Times(s, c) \subseteq Times(inflight, c) /\ Times(s, c) \subseteq Times(ring, c)
  BY <1>1, <1>3, <1>4, ReplayedPart
<1>6. disp' = [owner |-> disp.owner, pc |-> "unlock"] /\ disp.owner \in Owners
  <2>1. disp = [owner |-> disp.owner, pc |-> "fault"] /\ disp.owner \in Owners
    BY <1>2, <1>3, DispFields DEF StateTypes
  <2> QED BY <1>2, <2>1
<1>7. disp' \in DispType /\ disp'.owner = disp.owner /\ disp'.pc = "unlock"
  BY <1>6 DEF DispType
<1>8. /\ th' \in [Thread -> ThreadType] /\ BatchInv'
      /\ \A t \in Thread : th'[t].pc = "dispatch" <=> th[t].pc = "dispatch"
  <2>1. ASSUME NEW t \in Thread PROVE Wakes(th[t], th'[t])
    <3>1. th'[t] = IF th[t].pc = "sleep" /\ th[t].c \in G THEN [th[t] EXCEPT !.pc = "test"] ELSE th[t]
      BY <1>1
    <3> QED BY <3>1 DEF Wakes
  <2>2. th' = [t \in Thread |-> th'[t]]
    BY <1>1
  <2> QED BY <1>3, <2>1, <2>2, WakingKeeps
<1>9. OwnerInv'
  BY <1>2, <1>3, <1>7, <1>8, DispMoves
<1>10. ASSUME NEW c \in Context
       PROVE  ctx'[c] \in ContextType /\ QueueInv(c)'
  <2>1. PICK S, R, S2, R2 : /\ S = Sent(c) /\ R = Times(ring, c)
                            /\ S2 = Sent(c)' /\ R2 = Times(ring, c)'
    OBVIOUS
  <2>2. Times(inflight, c)' = Times(s, c) /\ Times(ring, c)' = Times(s, c)
    BY <1>2, <1>4 DEF Times
  <2>3. S2 \subseteq S /\ R2 \subseteq R
    BY <1>5, <2>1, <2>2 DEF Sent
  <2>4. Hand(c) = {} /\ Hand(c)' = {}
    BY <1>2, <1>7, HandEmpty
  <2>5. PICK x : x = ctx[c]
    OBVIOUS
  <2>6. /\ S \subseteq Nat /\ R \subseteq S /\ x \in ContextType /\ ContextInv(x, S, R, {})
    BY <2>1, <2>4, <2>5, QueueOf
  <2>7. CASE c \in G
    <3>1. PICK y : y = Invalidated(x)
      OBVIOUS
    <3>2. PICK v \in SUBSET {"invalid", "detached"}, n \in Nat :
            v = x.state \cup {"invalid"} /\ n = x.ts
      BY <2>6, ContextFields
    <3>3. y = [x EXCEPT !.q = <<>>, !.state = v, !.retired = n]
      BY <3>1, <3>2 DEF Invalidated, DetachDrawobjs
    <3>4. <<>> \in Seq(ObjectType)
      OBVIOUS
    <3>5. /\ y \in ContextType /\ y.q = <<>> /\ y.queued = x.queued /\ y.ts = x.ts /\ y.qts = x.qts
          /\ y.state = v /\ y.retired = n
      BY <2>6, <3>3, <3>4 DEF ContextType
    <3>6. y.retired <= y.ts /\ y.state # {}
      BY <3>2, <3>5
    <3>7. Spoils(y, x)
      BY <3>5, <3>6 DEF Spoils
    <3>8. ContextInv(y, S2, R2, {})
      BY <2>3, <2>6, <3>5, <3>7, BadKeeps
    <3>9. ctx'[c] = y
      BY <1>1, <2>5, <2>7, <3>1
    <3> QED BY <2>1, <2>4, <3>5, <3>8, <3>9 DEF QueueInv
  <2>8. CASE c \notin G
    <3>1. ContextInv(x, S2, R2, {})
      BY <2>3, <2>6, FewerKeeps
    <3>2. ctx'[c] = x
      BY <1>1, <2>5, <2>8
    <3> QED BY <2>1, <2>4, <2>6, <3>1, <3>2 DEF QueueInv
  <2> QED BY <2>7, <2>8
<1>11. QueuesInv'
  BY <1>10, QueuesAreNext
<1>12. ctx' \in [Context -> ContextType]
  BY <1>1, <1>10
<1>13. FlightInv'
  <2>1. Len(s) \in Nat /\ DOMAIN s = 1..Len(s)
    BY <1>5
  <2>2. ASSUME NEW i \in DOMAIN s, NEW j \in DOMAIN s, Len(s) - i = Len(s) - j PROVE s[i] = s[j]
    <3>1. i = j
      BY <2>1, <2>2
    <3> QED BY <3>1
  <2>3. \A i \in DOMAIN s : ~(Len(s) - i >= Len(s))
    BY <2>1
  <2> QED BY <1>2, <1>4, <1>5, <2>2, <2>3 DEF FlightInv, SentInOrder
<1>14. gpu' \in [kick : BOOLEAN, fault : BOOLEAN, halt : BOOLEAN, left : Nat]
  BY <1>2, <1>3 DEF StateTypes
<1>15. StateTypes'
  BY <1>2, <1>3, <1>4, <1>5, <1>7, <1>8, <1>12, <1>14 DEF StateTypes
<1> QED BY <1>8, <1>9, <1>11, <1>13, <1>15 DEF IInv

-----------------------------------------------------------------------------
(* The invariant holds in every state.                                     *)

LEMMA InitInv == Init => IInv
<1> SUFFICES ASSUME Init PROVE IInv
  OBVIOUS
<1>1. PICK x : x = [q |-> <<>>, queued |-> 0, ts |-> 0, qts |-> 0, retired |-> 0, state |-> {},
                    detach |-> "no", stale |-> FALSE]
  OBVIOUS
<1>2. \A c \in Context : ctx[c] = x
  BY <1>1 DEF Init
<1>3. <<>> \in Seq(ObjectType) /\ <<>> \in Seq(SentType)
  OBVIOUS
<1>4. x \in ContextType
  BY <1>1, <1>3 DEF ContextType
<1>5. ctx \in [Context -> ContextType]
  BY <1>2, <1>4 DEF Init
<1>6. disp = [owner |-> "none", pc |-> "free"] /\ disp \in DispType
  BY DEF Init, Free, DispType, Owners
<1>7. gpu \in [kick : BOOLEAN, fault : BOOLEAN, halt : BOOLEAN, left : Nat]
  BY DispatchAssumption DEF Init
<1>8. th \in [Thread -> ThreadType] /\ \A t \in Thread : th[t].pc = "idle"
  BY IdleThread DEF Init
<1>9. StateTypes
  BY <1>3, <1>5, <1>6, <1>7, <1>8 DEF StateTypes, Init
<1>10. OwnerInv /\ BatchInv
  BY <1>6, <1>8, DispatchAssumption DEF OwnerInv, BatchInv
<1>11. DOMAIN inflight = {} /\ DOMAIN ring = {}
  BY DEF Init
<1>12. FlightInv
  BY <1>11 DEF FlightInv, SentInOrder
<1>13. \A c \in Context : Times(inflight, c) = {} /\ Times(ring, c) = {} /\ Hand(c) = {}
  BY <1>6, <1>11 DEF Times, Hand
<1>14. ContextInv(x, {}, {}, {})
  <2>1. DOMAIN x.q = {} /\ Len(x.q) = 0
    BY <1>1
  <2>2. QueueInOrder(x, {}, {}) /\ x.retired <= x.ts
    BY <1>1, <2>1 DEF QueueInOrder
  <2>3. RetiredInOrder(x, {}, {})
    BY <2>1 DEF RetiredInOrder
  <2>4. CountInv(x)
    <3>1. Len(x.q) = 0 /\ x.queued = 0 /\ x.detach = "no"
      BY <1>1, <2>1
    <3>2. Len(x.q) <= x.queued
      BY <3>1
    <3> QED BY <3>1, <3>2 DEF CountInv
  <2> QED BY <2>2, <2>3, <2>4 DEF ContextInv
<1>15. {} \cup {} = {}
  OBVIOUS
<1>16. QueuesInv
  BY <1>2, <1>13, <1>14, <1>15 DEF QueuesInv
<1> QED BY <1>9, <1>10, <1>12, <1>16 DEF IInv

LEMMA NextInv == IInv /\ [Next]_vars => IInv'
<1> SUFFICES ASSUME IInv, [Next]_vars PROVE IInv'
  OBVIOUS
<1>1. CASE UNCHANGED vars
  <2>1. StateTypes' /\ OwnerInv' /\ BatchInv'
    BY <1>1 DEF vars, IInv, StateTypes, OwnerInv, BatchInv
  <2>2. QueuesInv' /\ FlightInv'
    BY <1>1, HandEmpty, QueuesUnchanged DEF vars, IInv
  <2> QED BY <2>1, <2>2 DEF IInv
<1>2. ASSUME NEW t \in Thread, Submit(t) PROVE IInv'
  BY <1>2, QueueCmdsKeeps, WaitTestKeeps, AddJobKeeps, IssueCmdsKeeps DEF Submit
<1>3. ASSUME NEW t \in Thread, WaitTimesOut(t) PROVE IInv'
  BY <1>3, WaitTestKeeps
<1>4. ASSUME NEW t \in Thread, NEW s \in Submits[t], SubmitBegin(t, s[1], s[2]) PROVE IInv'
  BY <1>4, SubmitBeginKeeps
<1>5. CASE Dispatching
  <2>1. ASSUME NEW c \in Context, HandleJob(c) PROVE IInv'
    BY <2>1, HandleJobKeeps
  <2> QED BY <1>5, <2>1, WorkBeginKeeps, DoFaultKeeps, NoFaultKeeps, UnlockKeeps,
             HandleJobsKeeps, SendFullKeeps, SendBreakKeeps, SendNextKeeps, SendCmdKeeps,
             SendFailsKeeps, SendEndKeeps DEF Dispatching
<1>6. CASE GpuRetire \/ Fault \/ FaultRequeued \/ Halt \/ HaltEnd
  BY <1>6, GpuRetireKeeps, EventKeeps
<1>7. ASSUME NEW c \in Context, SyncExpires(c) \/ BindDone(c) \/ DetachMark(c) \/ Detaching(c)
      PROVE  IInv'
  BY <1>7, PointKeeps, DetachKeeps DEF Detaching
<1> QED BY <1>1, <1>2, <1>3, <1>4, <1>5, <1>6, <1>7 DEF Next

\* What every reachable state satisfies: types, the owner of the mutex, the order
\* of each context's timestamps, and the two views of what has been sent.
THEOREM DispatcherInv == Spec => []IInv
BY InitInv, NextInv, PTL DEF Spec

LEMMA InvTypes == IInv => DispatchTypeOK
<1> SUFFICES ASSUME IInv PROVE DispatchTypeOK
  OBVIOUS
<1>1. ASSUME NEW c \in Context
      PROVE  /\ ctx[c].queued \in Nat /\ ctx[c].state \subseteq {"invalid", "detached"}
             /\ ~IsBad(c) => ctx[c].queued = Len(ctx[c].q)
  <2>1. ctx[c] \in ContextType /\ ContextInv(ctx[c], Sent(c), Times(ring, c), Hand(c))
    BY QueueOf
  <2> QED BY <2>1, ContextFields DEF ContextInv, CountInv, IsBad
<1>2. disp.owner \in Thread \cup {"worker", "none"}
  BY DispFields DEF IInv, StateTypes, Owners
<1> QED BY <1>1, <1>2 DEF DispatchTypeOK, IInv, StateTypes, OwnerInv

LEMMA InvLinear == IInv => TimeIsLinear
<1> SUFFICES ASSUME IInv PROVE TimeIsLinear
  OBVIOUS
<1>1. \A i, j \in DOMAIN inflight :
        i < j /\ inflight[i].c = inflight[j].c => inflight[i].ts < inflight[j].ts
  BY DEF IInv, FlightInv, SentInOrder
<1>2. ASSUME NEW c \in Context
      PROVE  LET q == ctx[c].q
                 W == {i \in DOMAIN q : q[i].ts > 0}
             IN  /\ \A i, j \in W : i < j => q[i].ts < q[j].ts
                 /\ \A o \in Hand(c) : \A i \in W : o.ts < q[i].ts
                 /\ \A s \in Times(inflight, c) :
                      (\A o \in Hand(c) : s < o.ts) /\ (\A i \in W : s < q[i].ts)
  <2>1. QueueInOrder(ctx[c], Sent(c), Hand(c)) /\ Times(inflight, c) \subseteq Sent(c)
    BY QueueOf DEF ContextInv
  <2> QED BY <2>1 DEF QueueInOrder
<1> QED BY <1>1, <1>2 DEF TimeIsLinear

LEMMA InvRetired == IInv => RetiredIsDone
<1> SUFFICES ASSUME IInv, NEW c \in Context, ~IsBad(c), ~ctx[c].stale
             PROVE  /\ \A i \in DOMAIN ctx[c].q : ctx[c].q[i].ts > 0 => ctx[c].q[i].ts > ctx[c].retired
                    /\ disp.pc = "sendcmd" /\ disp.c = c => disp.obj.ts > ctx[c].retired
                    /\ \A i \in DOMAIN ring : ring[i].c = c => ring[i].ts > ctx[c].retired
  BY DEF RetiredIsDone
<1>1. RetiredInOrder(ctx[c], Times(ring, c), Hand(c))
  BY QueueOf DEF ContextInv, IsBad
<1>2. disp.pc = "sendcmd" /\ disp.c = c => disp.obj \in Hand(c)
  BY DEF Hand
<1>3. \A i \in DOMAIN ring : ring[i].c = c => ring[i].ts \in Times(ring, c)
  BY DEF Times
<1> QED BY <1>1, <1>2, <1>3 DEF RetiredInOrder

\* The timestamps of a context increase from the retired one through what is
\* sent and what the dispatcher holds to the end of the queue, however many
\* contexts, threads and objects there are: dispatcher_context_sendcmds may put
\* an object back, dispatcher_do_fault send commands again, and markers and bind
\* operations retire without the GPU.
THEOREM TimestampsInOrder == Spec => []DispatchInv
<1>1. IInv => DispatchInv
  BY InvTypes, InvLinear, InvRetired DEF DispatchInv
<1> QED BY <1>1, DispatcherInv, PTL

-----------------------------------------------------------------------------
(* No context with work is forgotten.                                      *)

\* The dispatching routine is going to look at c.
DispJob(d, c) ==
  \/ d.pc \in {"jobs", "send", "sendcmd", "sent"} /\ c \in d.first \cup d.second
  \/ d.pc \in {"send", "sendcmd"} /\ d.c = c
  \/ d.pc = "sent" /\ d.c = c /\ d.ret \in {"count", "again", "busy"}

\* A submitter is about to list c.
ThreadJob(s, c) == \E t \in Thread : s[t].pc = "job" /\ s[t].c = c

\* What a step may do to c.
Kept(c) == Forgotten(c)' => Forgotten(c) \/ gpu.fault

LEMMA HasJobIs ==
  ASSUME NEW c
  PROVE  /\ HasJob(c) <=> c \in jobs \cup requeue \/ DispJob(disp, c) \/ ThreadJob(th, c)
         /\ HasJob(c)' <=> c \in jobs' \cup requeue' \/ DispJob(disp', c) \/ ThreadJob(th', c)
BY DEF HasJob, DispJob, ThreadJob

\* The three ways a step keeps c: its work is as before and whoever was to look
\* at it still is, somebody is afterwards, or the context is bad or empty.
LEMMA KeptSame ==
  ASSUME NEW c, ctx'[c].q = ctx[c].q, ctx'[c].state = ctx[c].state, HasJob(c) => HasJob(c)'
  PROVE  Kept(c)
BY DEF Kept, Forgotten, IsBad

LEMMA KeptJob ==
  ASSUME NEW c, HasJob(c)' \/ ctx'[c].state # {} \/ ctx'[c].q = <<>> \/ gpu.fault
  PROVE  Kept(c)
BY DEF Kept, Forgotten, IsBad

LEMMA ThreadJobStays ==
  ASSUME NEW c, \A t \in Thread : th[t].pc = "job" => th'[t].pc = "job" /\ th'[t].c = th[t].c
  PROVE  ThreadJob(th, c) => ThreadJob(th', c)
BY DEF ThreadJob

\* A thread that is not about to list a context moves.
LEMMA SubmitterJobs ==
  ASSUME IInv, NEW t \in Thread, th[t].pc # "job", NEW w, th' = [th EXCEPT ![t] = w], NEW c
  PROVE  ThreadJob(th, c) => ThreadJob(th', c)
<1>1. \A u \in Thread \ {t} : th'[u] = th[u]
  BY DEF IInv, StateTypes
<1> QED BY <1>1, ThreadJobStays

LEMMA WakingJobs ==
  ASSUME IInv, NEW a, th' = WakeUp(th, a), NEW c
  PROVE  ThreadJob(th, c) => ThreadJob(th', c)
<1>1. StateTypes /\ OwnerInv /\ BatchInv
  BY DEF IInv
<1>2. th' = [t \in Thread |-> th'[t]] /\ \A t \in Thread : Wakes(th[t], th'[t])
  BY <1>1, WakeUpWakes
<1>3. \A t \in Thread : th[t].pc = "job" => th'[t].pc = "job" /\ th'[t].c = th[t].c
  BY <1>1, <1>2, WakingKeeps
<1> QED BY <1>3, ThreadJobStays

LEMMA EnqueueJobs ==
  ASSUME IInv, NEW t \in Thread, th[t].pc \in {"queue", "woken"}, Enqueue(t),
         UNCHANGED <<jobs, requeue, disp>>, NEW c \in Context
  PROVE  Kept(c)
<1>1. th[t] \in ThreadType /\ th \in [Thread -> ThreadType] /\ ctx \in [Context -> ContextType]
  BY DEF IInv, StateTypes
<1>2. PICK w : th' = [th EXCEPT ![t] = w]
  BY DEF Enqueue
<1>3. HasJob(c) => HasJob(c)'
  BY <1>2, SubmitterJobs, HasJobIs
<1>4. CASE c # th[t].c
  <2>1. ctx'[c] = ctx[c]
    BY <1>1, <1>4 DEF Enqueue
  <2> QED BY <1>3, <2>1, KeptSame
<1>5. CASE c = th[t].c
  <2>1. CASE th' = [th EXCEPT ![t] = [th[t] EXCEPT !.pc = "job"]]
    <3>1. PICK r : r = [th[t] EXCEPT !.pc = "job"]
      OBVIOUS
    <3>2. r.pc = "job" /\ r.c = c
      BY <1>1, <1>5, <3>1, ThreadStep
    <3>3. th'[t] = r
      BY <1>1, <2>1, <3>1
    <3>4. HasJob(c)'
      BY <3>2, <3>3, HasJobIs DEF ThreadJob
    <3> QED BY <3>4, KeptJob
  <2>2. CASE ctx' = [ctx EXCEPT ![c] = [ctx[c] EXCEPT !.ts = @ + 1, !.retired = ctx[c].ts + 1]]
    <3>1. ctx[c] \in ContextType
      BY <1>1
    <3>2. ctx'[c] = [ctx[c] EXCEPT !.ts = @ + 1, !.retired = ctx[c].ts + 1]
      BY <1>1, <2>2
    <3>3. ctx'[c].q = ctx[c].q /\ ctx'[c].state = ctx[c].state
      BY <3>1, <3>2 DEF ContextType
    <3> QED BY <1>3, <3>3, KeptSame
  <2> QED BY <1>5, <2>1, <2>2 DEF Enqueue
<1> QED BY <1>4, <1>5

LEMMA SubmitJobs ==
  ASSUME IInv, NEW t \in Thread, NEW c \in Context,
         \/ Submit(t) \/ WaitTimesOut(t)
         \/ \E s \in Submits[t] : SubmitBegin(t, s[1], s[2])
  PROVE  Kept(c)
<1>1. th[t] \in ThreadType /\ th \in [Thread -> ThreadType] /\ disp \in DispType
  BY DEF IInv, StateTypes
<1>2. CASE (QueueCmds(t) \/ WokenQueue(t)) /\ Enqueue(t)
  BY <1>2, EnqueueJobs DEF QueueCmds, WokenQueue
<1>3. CASE AddJob(t)
  <2>1. CASE c = th[t].c
    <3>1. c \in jobs'
      BY <1>3, <2>1 DEF AddJob
    <3> QED BY <3>1, HasJobIs, KeptJob
  <2>2. CASE c # th[t].c
    <3>1. \A u \in Thread \ {t} : th'[u] = th[u]
      BY <1>1, <1>3 DEF AddJob
    <3>2. ThreadJob(th, c) => ThreadJob(th', c)
      BY <2>2, <3>1 DEF ThreadJob
    <3>3. HasJob(c) => HasJob(c)'
      BY <1>3, <3>2, HasJobIs DEF AddJob
    <3> QED BY <1>3, <3>3, KeptSame DEF AddJob
  <2> QED BY <2>1, <2>2
<1>4. CASE IssueCmds(t)
  <2>1. PICK w : th' = [th EXCEPT ![t] = w]
    BY <1>4 DEF IssueCmds
  <2>2. ThreadJob(th, c) => ThreadJob(th', c)
    BY <1>4, <2>1, SubmitterJobs DEF IssueCmds
  <2>3. DispJob(disp, c) => disp.owner # "none"
    BY DEF IInv, OwnerInv, DispJob
  <2>4. DispJob(disp, c) => DispJob(disp', c) \/ disp.owner = "none"
    BY <1>4 DEF IssueCmds
  <2>5. HasJob(c) => HasJob(c)'
    BY <1>4, <2>2, <2>3, <2>4, HasJobIs DEF IssueCmds
  <2> QED BY <1>4, <2>5, KeptSame DEF IssueCmds
<1>5. CASE /\ ~AddJob(t) /\ ~IssueCmds(t)
           /\ ~((QueueCmds(t) \/ WokenQueue(t)) /\ Enqueue(t))
  <2>1. UNCHANGED <<ctx, jobs, requeue, disp>> /\ th[t].pc # "job"
    BY <1>5 DEF Submit, QueueCmds, WaitTest, WokenQueue, WaitTimesOut, SubmitBegin
  <2>2. PICK w : th' = [th EXCEPT ![t] = w]
    BY <1>5 DEF Submit, QueueCmds, WaitTest, WokenQueue, WaitTimesOut, SubmitBegin
  <2>3. HasJob(c) => HasJob(c)'
    BY <2>1, <2>2, SubmitterJobs, HasJobIs
  <2> QED BY <2>1, <2>3, KeptSame
<1> QED BY <1>2, <1>3, <1>4, <1>5

\* Steps of the routine at which nobody is in its hands.
LEMMA QuietJobs ==
  ASSUME IInv, NEW c \in Context,
         WorkBegin \/ NoFault \/ DoFaultLater \/ Unlock \/ JobsDone
         \/ Fault \/ FaultRequeued \/ Halt \/ HaltEnd
  PROVE  Kept(c)
<1>1. UNCHANGED <<ctx, jobs, requeue>>
  BY DEF WorkBegin, NoFault, DoFaultLater, Unlock, JobsDone, Fault, FaultRequeued, Halt, HaltEnd
<1>2. DispJob(disp, c) => DispJob(disp', c)
  <2>1. CASE WorkBegin
    BY <2>1 DEF WorkBegin, IInv, OwnerInv, DispJob
  <2>2. CASE NoFault \/ DoFaultLater \/ Unlock
    BY <2>2 DEF NoFault, DoFaultLater, Unlock, DispJob
  <2>3. CASE Fault \/ FaultRequeued \/ Halt \/ HaltEnd
    BY <2>3 DEF Fault, FaultRequeued, Halt, HaltEnd
  <2>4. CASE JobsDone
    BY <2>4 DEF JobsDone, DispJob
  <2> QED BY <2>1, <2>2, <2>3, <2>4
<1>3. ThreadJob(th, c) => ThreadJob(th', c)
  <2>1. CASE Unlock
    <3>1. \A t \in Thread : t = disp.owner => th[t].pc = "dispatch"
      BY DEF IInv, OwnerInv
    <3>2. \A t \in Thread : th[t].pc = "job" => th'[t] = th[t]
      BY <2>1, <3>1 DEF Unlock
    <3> QED BY <3>2, ThreadJobStays
  <2>2. CASE ~Unlock
    <3>1. th' = th
      BY <2>2 DEF WorkBegin, NoFault, DoFaultLater, JobsDone, Fault, FaultRequeued, Halt, HaltEnd
    <3> QED BY <3>1
  <2> QED BY <2>1, <2>2
<1> QED BY <1>1, <1>2, <1>3, HasJobIs, KeptSame

LEMMA HandleJobsJobs ==
  ASSUME IInv, NEW c \in Context, HandleJobs
  PROVE  Kept(c)
<1>1. CASE gpu.fault
  BY <1>1, KeptJob
<1>2. CASE ~gpu.fault
  <2>1. /\ disp' = [owner |-> disp.owner, pc |-> "jobs", first |-> requeue,
                    second |-> jobs \ requeue]
        /\ disp.pc = "issue" /\ UNCHANGED <<ctx, th>>
    BY <1>2 DEF HandleJobs
  <2>2. disp'.pc = "jobs" /\ disp'.first = requeue /\ disp'.second = jobs \ requeue
    BY <2>1
  <2>3. c \in jobs \cup requeue => DispJob(disp', c)
    BY <2>2 DEF DispJob
  <2>4. ~DispJob(disp, c)
    BY <2>1 DEF DispJob
  <2> QED BY <2>1, <2>3, <2>4, HasJobIs, KeptSame
<1> QED BY <1>1, <1>2

LEMMA HandleJobJobs ==
  ASSUME IInv, NEW c \in Context, NEW a \in Context, HandleJob(a)
  PROVE  Kept(c)
<1>1. /\ disp.pc = "jobs" /\ UNCHANGED <<ctx, requeue, th>>
      /\ disp'.first = disp.first \ {a} /\ disp'.second = disp.second \ {a}
      /\ \/ IsBad(a) /\ disp'.pc = "jobs" /\ jobs' = jobs
         \/ disp'.pc = "jobs" /\ jobs' = jobs \cup {a}
         \/ disp'.pc = "send" /\ disp'.c = a /\ jobs' = jobs
  BY HandleJobFields DEF HandleJob
<1>2. CASE c = a
  <2>1. HasJob(c)' \/ IsBad(a)
    BY <1>1, <1>2, HasJobIs DEF DispJob
  <2>2. IsBad(a) => ctx'[c].state # {}
    BY <1>1, <1>2 DEF IsBad
  <2> QED BY <2>1, <2>2, KeptJob
<1>3. CASE c # a
  <2>1. DispJob(disp, c) => DispJob(disp', c)
    BY <1>1, <1>3 DEF DispJob
  <2>2. c \in jobs \cup requeue => c \in jobs' \cup requeue'
    BY <1>1
  <2> QED BY <1>1, <2>1, <2>2, HasJobIs, KeptSame
<1> QED BY <1>2, <1>3

\* The routine is busy with one context: the others wait as before.
LEMMA OthersWait ==
  ASSUME NEW c \in Context, disp.pc \in {"send", "sendcmd", "sent"}, c # disp.c,
         disp'.pc \in {"jobs", "send", "sendcmd", "sent"},
         disp'.first = disp.first, disp'.second = disp.second,
         jobs \subseteq jobs', requeue \subseteq requeue',
         ThreadJob(th, c) => ThreadJob(th', c), ctx'[c] = ctx[c]
  PROVE  Kept(c)
<1>1. DispJob(disp, c) => DispJob(disp', c)
  BY DEF DispJob
<1>2. HasJob(c) => HasJob(c)'
  BY <1>1, HasJobIs
<1> QED BY <1>2, KeptSame

LEMMA SendJobs ==
  ASSUME IInv, NEW c \in Context, SendFull \/ SendBreak \/ SendNext \/ SendCmd \/ SendFails
  PROVE  Kept(c)
<1>1. /\ disp \in DispType /\ disp.pc \in {"send", "sendcmd"} /\ UNCHANGED <<jobs, th>>
      /\ ctx \in [Context -> ContextType] /\ requeue \subseteq requeue'
  BY DEF IInv, StateTypes, SendFull, SendBreak, SendNext, SendCmd, SendFails
<1>2. PICK a \in Context : a = disp.c
  BY <1>1, DispFields
<1>3. /\ disp'.pc \in {"jobs", "send", "sendcmd", "sent"}
      /\ disp'.first = disp.first /\ disp'.second = disp.second
  <2>1. CASE SendFull
    BY <1>1, <2>1, JobsFields DEF SendFull
  <2>2. CASE SendBreak
    BY <1>1, <2>2, EndedFields DEF SendBreak
  <2>3. CASE SendNext
    <3>1. CASE Sendable(ProcessDrawqueue(ctx[disp.c]))
      <4>1. PICK o : disp' = [owner |-> disp.owner, pc |-> "sendcmd", first |-> disp.first,
                              second |-> disp.second, c |-> disp.c, count |-> disp.count,
                              limit |-> disp.limit, obj |-> o]
        BY <2>3, <3>1 DEF SendNext
      <4> QED BY <4>1
    <3>2. CASE ~Sendable(ProcessDrawqueue(ctx[disp.c]))
      <4>1. PICK r \in {"none", "again"} : disp' = Ended(r)
        BY <2>3, <3>2 DEF SendNext
      <4> QED BY <1>1, <4>1, EndedFields
    <3> QED BY <3>1, <3>2
  <2>4. CASE SendCmd
    BY <2>4 DEF SendCmd
  <2>5. CASE SendFails
    <3>1. PICK r \in {"busy", "again", "gone"} : disp' = Ended(r)
      BY <2>5 DEF SendFails
    <3> QED BY <1>1, <3>1, EndedFields
  <2> QED BY <2>1, <2>2, <2>3, <2>4, <2>5
<1>4. CASE c # a
  <2>1. ctx'[c] = ctx[c]
    BY <1>1, <1>2, <1>4 DEF SendFull, SendBreak, SendNext, SendCmd, SendFails
  <2> QED BY <1>1, <1>2, <1>3, <1>4, <2>1, OthersWait
<1>5. CASE c = a
  <2>1. CASE SendFull
    <3>1. c \in requeue'
      BY <1>2, <1>5, <2>1 DEF SendFull
    <3> QED BY <3>1, HasJobIs, KeptJob
  <2>2. CASE SendBreak
    <3>1. CASE gpu.fault
      BY <3>1, KeptJob
    <3>2. CASE ~gpu.fault
      <4>1. disp.pc = "send" /\ disp.count \in Nat /\ Burst \in Nat \ {0} /\ disp' = Ended("none")
            /\ disp.limit \in Nat /\ Len(inflight) \in Nat
        BY <1>1, <2>2, DispFields, DispatchAssumption DEF SendBreak, IInv, StateTypes
      <4>2. disp.count > 0
        <5>1. disp.count = 0 => Len(inflight) < disp.limit
          BY <2>2 DEF SendBreak
        <5>2. disp.count >= Burst \/ Len(inflight) >= disp.limit
          BY <2>2, <3>2 DEF SendBreak
        <5> QED BY <4>1, <5>1, <5>2
      <4>3. disp'.pc = "sent" /\ disp'.c = disp.c /\ disp'.ret = "count"
        BY <1>1, <4>1, <4>2, EndedFields
      <4>4. HasJob(c)'
        BY <1>2, <1>5, <4>3, HasJobIs DEF DispJob
      <4> QED BY <4>4, KeptJob
    <3> QED BY <3>1, <3>2
  <2>3. CASE SendNext
    <3>1. PICK x : x = ProcessDrawqueue(ctx[c])
      OBVIOUS
    <3>2. CASE Sendable(x)
      <4>1. PICK o : disp' = [owner |-> disp.owner, pc |-> "sendcmd", first |-> disp.first,
                              second |-> disp.second, c |-> disp.c, count |-> disp.count,
                              limit |-> disp.limit, obj |-> o]
        BY <1>2, <1>5, <2>3, <3>1, <3>2 DEF SendNext
      <4>2. disp'.pc = "sendcmd" /\ disp'.c = disp.c
        BY <4>1
      <4>3. HasJob(c)'
        BY <1>2, <1>5, <4>2, HasJobIs DEF DispJob
      <4> QED BY <4>3, KeptJob
    <3>3. CASE ~Sendable(x) /\ x.q = <<>>
      <4>1. ctx'[c] = x
        BY <1>1, <1>2, <1>5, <2>3, <3>1, <3>3 DEF SendNext
      <4> QED BY <3>3, <4>1, KeptJob
    <3>4. CASE ~Sendable(x) /\ x.q # <<>>
      <4>1. disp' = Ended("again")
        BY <1>2, <1>5, <2>3, <3>1, <3>4 DEF SendNext
      <4>2. disp'.pc = "sent" /\ disp'.c = disp.c /\ disp'.ret = "again"
        BY <1>1, <4>1, EndedFields
      <4>3. HasJob(c)'
        BY <1>2, <1>5, <4>2, HasJobIs DEF DispJob
      <4> QED BY <4>3, KeptJob
    <3> QED BY <3>2, <3>3, <3>4
  <2>4. CASE SendCmd
    <3>1. disp'.pc = "send" /\ disp'.c = disp.c
      BY <2>4 DEF SendCmd
    <3>2. HasJob(c)'
      BY <1>2, <1>5, <3>1, HasJobIs DEF DispJob
    <3> QED BY <3>2, KeptJob
  <2>5. CASE SendFails
    <3>1. CASE IsBad(c)
      <4>1. ctx' = ctx
        BY <1>2, <1>5, <2>5, <3>1 DEF SendFails
      <4> QED BY <3>1, <4>1, KeptJob DEF IsBad
    <3>2. CASE ~IsBad(c)
      <4>1. ~Detached(c)
        BY <3>2 DEF IsBad, Detached
      <4>2. PICK r \in {"busy", "again"} : disp' = Ended(r)
        BY <1>2, <1>5, <2>5, <3>2, <4>1 DEF SendFails
      <4>3. disp'.pc = "sent" /\ disp'.c = disp.c /\ disp'.ret = r
        BY <1>1, <4>2, EndedFields
      <4>4. HasJob(c)'
        BY <1>2, <1>5, <4>3, HasJobIs DEF DispJob
      <4> QED BY <4>4, KeptJob
    <3> QED BY <3>1, <3>2
  <2> QED BY <2>1, <2>2, <2>3, <2>4, <2>5
<1> QED BY <1>4, <1>5

LEMMA SendEndJobs ==
  ASSUME IInv, NEW c \in Context, SendEnd
  PROVE  Kept(c)
<1>1. disp \in DispType /\ disp.pc = "sent" /\ ctx' = ctx
  BY DEF IInv, StateTypes, SendEnd
<1>2. /\ disp'.pc = "jobs" /\ disp'.first = disp.first /\ disp'.second = disp.second
  BY <1>1, JobsFields DEF SendEnd
<1>3. ThreadJob(th, c) => ThreadJob(th', c)
  BY WakingJobs DEF SendEnd, WakeSleepers
<1>4. jobs \subseteq jobs' /\ requeue \subseteq requeue'
  BY DEF SendEnd, KeepJob
<1>5. CASE c # disp.c
  BY <1>1, <1>2, <1>3, <1>4, <1>5, OthersWait
<1>6. CASE c = disp.c
  <2>1. disp.ret \in {"count", "again", "busy"} => c \in jobs' \cup requeue'
    BY <1>6 DEF SendEnd, KeepJob
  <2>2. DispJob(disp, c) => DispJob(disp', c) \/ c \in jobs' \cup requeue'
    BY <1>1, <1>2, <2>1 DEF DispJob
  <2>3. HasJob(c) => HasJob(c)'
    BY <1>3, <1>4, <2>2, HasJobIs
  <2> QED BY <1>1, <2>3, KeptSame
<1> QED BY <1>5, <1>6

LEMMA OutsideJobs ==
  ASSUME IInv, NEW c \in Context,
         \/ GpuRetire
         \/ \E a \in Context : SyncExpires(a) \/ BindDone(a) \/ DetachMark(a) \/ Detaching(a)
  PROVE  Kept(c)
<1>1. ctx \in [Context -> ContextType] /\ ctx[c] \in ContextType
  BY DEF IInv, StateTypes
<1>2. CASE GpuRetire
  <2>1. PICK n, a : ctx' = [ctx EXCEPT ![a].retired = n]
    BY <1>2 DEF GpuRetire
  <2>2. ctx'[c] = ctx[c] \/ ctx'[c] = [ctx[c] EXCEPT !.retired = n]
    BY <1>1, <2>1
  <2>3. ctx'[c].q = ctx[c].q /\ ctx'[c].state = ctx[c].state
    BY <1>1, <2>2 DEF ContextType
  <2>4. HasJob(c) => HasJob(c)'
    BY <1>2, HasJobIs DEF GpuRetire
  <2> QED BY <2>3, <2>4, KeptSame
<1>3. ASSUME NEW a \in Context, SyncExpires(a) \/ BindDone(a) PROVE Kept(c)
  <2>1. UNCHANGED <<requeue, disp, th>> /\ jobs' = IF Detached(a) THEN jobs ELSE jobs \cup {a}
    BY <1>3 DEF SyncExpires, BindDone, QueueContext
  <2>2. PICK i : ctx' = [ctx EXCEPT ![a].q[i].st = "done"]
    BY <1>3 DEF SyncExpires, BindDone
  <2>3. CASE c = a
    <3>1. CASE Detached(a)
      <4>1. ctx'[c] = [ctx[c] EXCEPT !.q[i].st = "done"]
        BY <1>1, <2>2, <2>3
      <4>2. ctx'[c].state = ctx[c].state
        BY <1>1, <4>1 DEF ContextType
      <4> QED BY <2>3, <3>1, <4>2, KeptJob DEF Detached
    <3>2. CASE ~Detached(a)
      <4>1. HasJob(c)'
        BY <2>1, <2>3, <3>2, HasJobIs
      <4> QED BY <4>1, KeptJob
    <3> QED BY <3>1, <3>2
  <2>4. CASE c # a
    <3>1. ctx'[c] = ctx[c]
      BY <1>1, <2>2, <2>4
    <3>2. HasJob(c) => HasJob(c)'
      BY <2>1, HasJobIs
    <3> QED BY <3>1, <3>2, KeptSame
  <2> QED BY <2>3, <2>4
<1>4. ASSUME NEW a \in Context, DetachMark(a) \/ Detaching(a) PROVE Kept(c)
  <2>1. UNCHANGED <<jobs, requeue, disp>>
    BY <1>4 DEF DetachMark, Detaching, DetachTake, DetachEnd
  <2>2. ThreadJob(th, c) => ThreadJob(th', c)
    BY <1>4, WakingJobs DEF DetachMark, Detaching, DetachTake, DetachEnd
  <2>3. CASE c # a
    <3>1. ctx'[c] = ctx[c]
      BY <1>1, <1>4, <2>3 DEF DetachMark, Detaching, DetachTake, DetachEnd
    <3>2. HasJob(c) => HasJob(c)'
      BY <2>1, <2>2, HasJobIs
    <3> QED BY <3>1, <3>2, KeptSame
  <2>4. CASE c = a
    <3>1. ctx[c].detach # "no" => ctx[c].state # {}
      BY QueueOf DEF ContextInv, CountInv
    <3>2. CASE DetachMark(a)
      <4>1. ctx'[c] = [ctx[c] EXCEPT !.state = @ \cup {"detached"}, !.detach = "marked"]
        BY <1>1, <2>4, <3>2 DEF DetachMark
      <4>2. "detached" \in ctx'[c].state
        BY <1>1, <4>1 DEF ContextType
      <4> QED BY <4>2, KeptJob
    <3>3. CASE DetachTake(a)
      <4>1. ctx'[c] = [[ctx[c] EXCEPT !.q = <<>>] EXCEPT !.detach = "taken"]
        BY <1>1, <2>4, <3>3 DEF DetachTake, DetachDrawobjs
      <4>2. ctx'[c].q = <<>>
        BY <1>1, <4>1 DEF ContextType
      <4> QED BY <4>2, KeptJob
    <3>4. CASE DetachEnd(a)
      <4>1. ctx'[c] = [ctx[c] EXCEPT !.detach = "done", !.retired = ctx[c].ts]
        BY <1>1, <2>4, <3>4 DEF DetachEnd
      <4>2. ctx'[c].state = ctx[c].state /\ ctx[c].detach = "taken"
        BY <1>1, <2>4, <3>4, <4>1 DEF ContextType, DetachEnd
      <4> QED BY <3>1, <4>2, KeptJob
    <3> QED BY <1>4, <3>2, <3>3, <3>4 DEF Detaching
  <2> QED BY <2>3, <2>4
<1> QED BY <1>2, <1>3, <1>4

\* A context with queued objects is forgotten by the dispatcher, on no list and
\* in nobody's hands, only if a fault comes in while it sends: KeepJob, the early
\* returns of sendcmd and the full ringbuffer all put it back.
THEOREM JobsAreKept == Spec => JobIsKept
<1>1. IInv /\ [Next]_vars => [\A c \in Context : Forgotten(c)' => Forgotten(c) \/ gpu.fault]_vars
  <2> SUFFICES ASSUME IInv, Next, NEW c \in Context PROVE Kept(c)
    BY DEF Kept
  <2>1. ASSUME DoFault PROVE Kept(c)
    BY <2>1, KeptJob DEF DoFault
  <2>2. ASSUME NEW a \in Context, HandleJob(a) PROVE Kept(c)
    BY <2>2, HandleJobJobs
  <2>3. ASSUME Dispatching PROVE Kept(c)
    BY <2>1, <2>2, <2>3, QuietJobs, HandleJobsJobs, SendJobs, SendEndJobs DEF Dispatching
  <2>4. ASSUME NEW t \in Thread, \/ Submit(t) \/ WaitTimesOut(t)
                                 \/ \E s \in Submits[t] : SubmitBegin(t, s[1], s[2])
        PROVE  Kept(c)
    BY <2>4, SubmitJobs
  <2>5. ASSUME NEW a \in Context, SyncExpires(a) \/ BindDone(a) \/ DetachMark(a) \/ Detaching(a)
        PROVE  Kept(c)
    BY <2>5, OutsideJobs
  <2>6. ASSUME GpuRetire \/ Fault \/ FaultRequeued \/ Halt \/ HaltEnd PROVE Kept(c)
    BY <2>6, OutsideJobs, QuietJobs
  <2> QED BY <2>3, <2>4, <2>5, <2>6 DEF Next
<1> QED BY <1>1, DispatcherInv, PTL DEF JobIsKept, Spec
=============================================================================
