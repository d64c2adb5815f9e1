------------------------ MODULE KgslTimelineObjProofs ------------------------
(***************************************************************************)
(* Timeline objects and the references of timelines, for any number of     *)
(* timelines and any finite number of fences, objects and threads: ObjIInv *)
(* is inductive relative to FenceIInv; the events of a timeline stay in    *)
(* order and queries are monotonic; with the references TimelineIInv is    *)
(* inductive, and a timeline has as many references as users.              *)
(***************************************************************************)
EXTENDS KgslTimelineProofs, WellFoundedInduction, FunctionTheorems
-----------------------------------------------------------------------------
(* Arrays, lists of events, and sets that change by one.                   *)

LEMMA LeastNatural ==
  ASSUME NEW T, T \subseteq Nat, T # {}
  PROVE  \E m \in T : \A k \in T : m <= k
<1>1. PICK R : R = OpToRel(<, Nat) /\ IsWellFoundedOn(R, Nat)
  BY NatLessThanWellFounded
<1>2. PICK m \in T : \A y \in T : ~(<<y, m>> \in R)
  BY <1>1, WFMin, Zenon
<1>3. \A y \in T : y < m => <<y, m>> \in R
  BY <1>1 DEF OpToRel
<1>4. ASSUME NEW k \in T PROVE m <= k
  <2>1. m \in Nat /\ k \in Nat
    OBVIOUS
  <2>2. ~(k < m)
    BY <1>2, <1>3
  <2> QED BY <2>1, <2>2
<1> QED BY <1>4

LEMMA GreatestNatural ==
  ASSUME NEW n \in Nat, NEW T, T \subseteq 0..n, T # {}
  PROVE  \E m \in T : \A k \in T : k <= m
<1> DEFINE D == {n - t : t \in T}
<1>0. \A t \in T : n - t \in Nat
  OBVIOUS
<1>1. D \subseteq Nat /\ D # {}
  BY <1>0
<1> HIDE DEF D
<1>2. PICK d \in D : \A k \in D : d <= k
  BY <1>1, LeastNatural
<1>3. PICK m \in T : d = n - m
  BY DEF D
<1>4. \A y \in T : n - y \in D
  BY DEF D
<1>5. ASSUME NEW y \in T PROVE y <= m
  <2>1. n - m <= n - y
    BY <1>2, <1>3, <1>4
  <2> QED BY <2>1
<1> QED BY <1>5

LEMMA ToSetTail ==
  ASSUME NEW S, NEW s \in Seq(S), s # <<>>
  PROVE  ToSet(s) = {Head(s)} \cup ToSet(Tail(s)) /\ ToSet(Tail(s)) \subseteq ToSet(s)
<1>1. /\ Tail(s) \in Seq(S) /\ Len(Tail(s)) = Len(s) - 1 /\ Len(s) \in Nat \ {0}
      /\ \A i \in 1..Len(Tail(s)) : Tail(s)[i] = s[i + 1]
  BY HeadTailProperties, EmptySeq
<1>2. DOMAIN s = 1..Len(s) /\ DOMAIN Tail(s) = 1..(Len(s) - 1) /\ Head(s) = s[1]
  BY <1>1, LenProperties
<1>3. ASSUME NEW v \in ToSet(s) PROVE v \in {Head(s)} \cup ToSet(Tail(s))
  <2>1. PICK i \in 1..Len(s) : v = s[i]
    BY <1>2, <1>3 DEF ToSet
  <2>2. CASE i = 1
    BY <1>2, <2>1, <2>2
  <2>3. CASE i # 1
    <3>1. i - 1 \in 1..(Len(s) - 1)
      BY <1>1, <2>3
    <3>2. Tail(s)[i - 1] = s[i]
      BY <1>1, <3>1
    <3> QED BY <1>2, <2>1, <3>1, <3>2 DEF ToSet
  <2> QED BY <2>2, <2>3
<1>4. ASSUME NEW v \in ToSet(Tail(s)) PROVE v \in ToSet(s)
  <2>1. PICK i \in 1..(Len(s) - 1) : v = Tail(s)[i]
    BY <1>2, <1>4 DEF ToSet
  <2>2. i + 1 \in 1..Len(s) /\ v = s[i + 1]
    BY <1>1, <2>1
  <2> QED BY <1>2, <2>2 DEF ToSet
<1>5. Head(s) \in ToSet(s)
  BY <1>1, <1>2 DEF ToSet
<1> QED BY <1>3, <1>4, <1>5

LEMMA ToSetAppend ==
  ASSUME NEW S, NEW s \in Seq(S), NEW v \in S
  PROVE  ToSet(Append(s, v)) = ToSet(s) \cup {v}
<1>1. /\ Append(s, v) \in Seq(S) /\ Len(Append(s, v)) = Len(s) + 1 /\ Len(s) \in Nat
      /\ \A i \in 1..Len(s) : Append(s, v)[i] = s[i]
      /\ Append(s, v)[Len(s) + 1] = v
  BY AppendProperties, LenProperties
<1>2. DOMAIN s = 1..Len(s) /\ DOMAIN Append(s, v) = 1..(Len(s) + 1)
  BY <1>1, LenProperties
<1>3. 1..(Len(s) + 1) = 1..Len(s) \cup {Len(s) + 1}
  BY <1>1
<1> QED BY <1>1, <1>2, <1>3 DEF ToSet

LEMMA ToSetEmpty == ToSet(<<>>) = {}
BY DEF ToSet

LEMMA InToSet ==
  ASSUME NEW S, NEW s \in Seq(S)
  PROVE  ToSet(s) \subseteq S /\ \A i \in DOMAIN s : s[i] \in ToSet(s)
BY DEF ToSet

\* All the events a signal of seq leaves on a list in order are beyond seq.
LEMMA PrefixRetired ==
  ASSUME NEW E \in Seq([o : Obj, seq : Seqno]), NEW v \in Seqno, InOrder(E, v), NEW q \in Seqno
  PROVE  LET n == RetiredPrefix(E, q)
             F == SubSeq(E, n + 1, Len(E))
         IN /\ n \in 0..Len(E)
            /\ \A i \in 1..n : E[i].seq <= q
            /\ \A i \in (n + 1)..Len(E) : E[i].seq > q
            /\ F \in Seq([o : Obj, seq : Seqno]) /\ Len(F) = Len(E) - n
            /\ \A i \in 1..Len(F) : F[i] = E[n + i]
            /\ InOrder(F, q)
            /\ ToSet(F) = {e \in ToSet(E) : e.seq > q}
<1> DEFINE n == RetiredPrefix(E, q)
           F == SubSeq(E, n + 1, Len(E))
<1>0. Len(E) \in Nat
  BY LenProperties
<1>1. /\ Len(E) \in Nat /\ DOMAIN E = 1..Len(E)
      /\ \A i \in 1..Len(E) : E[i] \in [o : Obj, seq : Seqno] /\ E[i].seq \in Nat
      /\ q \in Nat
  <2>1. Len(E) \in Nat /\ DOMAIN E = 1..Len(E)
    BY LenProperties
  <2>2. \A i \in 1..Len(E) : E[i] \in [o : Obj, seq : Seqno]
    BY ElementOfSeq
  <2>3. Seqno \subseteq Nat
    BY TimelineAssumption DEF Seqno
  <2> QED BY <2>1, <2>2, <2>3
<1>2. \A i, j \in 1..Len(E) : i < j => E[i].seq <= E[j].seq
  BY <1>1 DEF InOrder
<1>3. /\ n \in 0..Len(E)
      /\ \A i \in 1..n : E[i].seq <= q
      /\ \A i \in (n + 1)..Len(E) : E[i].seq > q
  <2>1. CASE ~\E i \in DOMAIN E : E[i].seq > q
    <3>1. n = Len(E)
      BY <2>1 DEF RetiredPrefix
    <3> QED BY <1>1, <2>1, <3>1
  <2>2. CASE \E i \in DOMAIN E : E[i].seq > q
    <3> DEFINE P(i) == E[i].seq > q /\ \A j \in 1..(i - 1) : E[j].seq <= q
    <3>1. \E i \in DOMAIN E : P(i)
      <4>1. PICK k \in 1..Len(E) : E[k].seq > q
        BY <1>1, <2>2
      <4> DEFINE T == {i \in 1..Len(E) : E[i].seq > q}
      <4>2. T \in SUBSET Nat /\ T # {}
        BY <1>1, <4>1
      <4>3. PICK m \in T : \A i \in T : m <= i
        BY <4>2, LeastNatural
      <4>4. \A j \in 1..(m - 1) : E[j].seq <= q
        BY <1>1, <4>3
      <4> QED BY <1>1, <4>3, <4>4
    <3> DEFINE m == CHOOSE i \in DOMAIN E : P(i)
    <3>2. m \in DOMAIN E /\ P(m)
      BY <3>1
    <3>3. n = m - 1
      BY <2>2 DEF RetiredPrefix
    <3> HIDE DEF m
    <3>4. \A i \in m..Len(E) : E[i].seq > q
      BY <1>1, <1>2, <3>2
    <3> QED BY <1>1, <3>2, <3>3, <3>4
  <2> QED BY <2>1, <2>2
<1> HIDE DEF n
<1>4. /\ F \in Seq([o : Obj, seq : Seqno]) /\ Len(F) = Len(E) - n
      /\ \A i \in 1..Len(F) : F[i] = E[n + i]
  <2>1. \A i \in (n + 1)..Len(E) : E[i] \in [o : Obj, seq : Seqno]
    BY <1>1, <1>3
  <2>2. /\ F \in Seq([o : Obj, seq : Seqno])
        /\ Len(F) = IF n + 1 <= Len(E) THEN Len(E) - (n + 1) + 1 ELSE 0
        /\ \A i \in 1..(Len(E) - (n + 1) + 1) : F[i] = E[(n + 1) + i - 1]
    BY <1>1, <1>3, <2>1, SubSeqProperties
  <2> HIDE DEF F
  <2>3. Len(F) = Len(E) - n
    <3>1. n \in 0..Len(E) /\ Len(F) = IF n + 1 <= Len(E) THEN Len(E) - (n + 1) + 1 ELSE 0
      BY <1>3, <2>2
    <3> QED BY <1>0, <3>1
  <2>4. ASSUME NEW i \in 1..Len(F) PROVE F[i] = E[n + i]
    <3>1. i \in 1..(Len(E) - (n + 1) + 1) /\ (n + 1) + i - 1 = n + i
      BY <1>1, <1>3, <2>3
    <3> QED BY <2>2, <3>1
  <2> QED BY <2>2, <2>3, <2>4
<1> HIDE DEF F
<1>5. DOMAIN F = 1..Len(F)
  BY <1>4, LenProperties
<1>6. InOrder(F, q)
  <2>1. ASSUME NEW i \in 1..Len(F)
        PROVE  F[i].seq > q /\ \A j \in 1..Len(F) : i < j => F[i].seq <= F[j].seq
    <3>1. n + i \in (n + 1)..Len(E) /\ n + i \in 1..Len(E)
      BY <1>1, <1>3, <1>4
    <3>2. ASSUME NEW j \in 1..Len(F), i < j PROVE F[i].seq <= F[j].seq
      <4>1. n + j \in 1..Len(E) /\ n + i < n + j
        BY <1>1, <1>3, <1>4, <3>2
      <4> QED BY <1>2, <1>4, <3>1, <4>1
    <3> QED BY <1>3, <1>4, <3>1, <3>2
  <2> QED BY <1>5, <2>1 DEF InOrder
<1>7. ToSet(F) = {e \in ToSet(E) : e.seq > q}
  <2>1. ASSUME NEW e \in ToSet(F) PROVE e \in ToSet(E) /\ e.seq > q
    <3>1. PICK i \in 1..Len(F) : e = F[i]
      BY <1>5, <2>1 DEF ToSet
    <3>2. n + i \in (n + 1)..Len(E) /\ n + i \in 1..Len(E) /\ e = E[n + i]
      BY <1>1, <1>3, <1>4, <3>1
    <3> QED BY <1>1, <1>3, <3>2 DEF ToSet
  <2>2. ASSUME NEW e \in ToSet(E), e.seq > q PROVE e \in ToSet(F)
    <3>1. PICK i \in 1..Len(E) : e = E[i]
      BY <1>1, <2>2 DEF ToSet
    <3>2. i \notin 1..n
      BY <1>1, <1>3, <2>2, <3>1
    <3>3. i - n \in 1..Len(F) /\ F[i - n] = E[n + (i - n)] /\ n + (i - n) = i
      BY <1>1, <1>3, <1>4, <3>1, <3>2
    <3> QED BY <1>5, <3>1, <3>3 DEF ToSet
  <2> QED BY <2>1, <2>2
<1> QED BY <1>3, <1>4, <1>6, <1>7 DEF n, F

LEMMA OneMember ==
  ASSUME NEW S, IsFiniteSet(S), NEW T, NEW e, \A y : y # e => (y \in T <=> y \in S)
  PROVE  IsFiniteSet(T) /\ Cardinality(S) \in Nat
         /\ Cardinality(T) = Cardinality(S) + Bit(e \in T) - Bit(e \in S)
<1>0. Cardinality(S) \in Nat
  BY FS_CardinalityType
<1>1. CASE e \in T
  <2>1. T = S \cup {e}
    BY <1>1
  <2>2. IsFiniteSet(T) /\ Cardinality(T) = IF e \in S THEN Cardinality(S) ELSE Cardinality(S) + 1
    BY <2>1, FS_AddElement
  <2> QED BY <1>0, <1>1, <2>2 DEF Bit
<1>2. CASE e \notin T
  <2>1. T = S \ {e}
    BY <1>2
  <2>2. IsFiniteSet(T) /\ Cardinality(T) = IF e \in S THEN Cardinality(S) - 1 ELSE Cardinality(S)
    BY <2>1, FS_RemoveElement
  <2> QED BY <1>0, <1>2, <2>2 DEF Bit
<1> QED BY <1>1, <1>2

LEMMA InsertAtIs ==
  ASSUME NEW E, NEW k, NEW e
  PROVE  InsertAt(E, k, e) = SubSeq(E, 1, k - 1) \o <<e>> \o SubSeq(E, k, Len(E))
BY DEF InsertAt

\* A new event goes behind the last one not beyond it.
LEMMA Inserted ==
  ASSUME NEW E \in Seq([o : Obj, seq : Seqno]), NEW v \in Seqno, InOrder(E, v),
         NEW e \in [o : Obj, seq : Seqno], e.seq > v
  PROVE  LET behind == Cardinality({i \in DOMAIN E : \E j \in i..Len(E) : E[j].seq <= e.seq})
             F == InsertAt(E, behind + 1, e)
         IN /\ behind \in 0..Len(E)
            /\ \A i \in 1..behind : E[i].seq <= e.seq
            /\ \A i \in (behind + 1)..Len(E) : E[i].seq > e.seq
            /\ F \in Seq([o : Obj, seq : Seqno]) /\ Len(F) = Len(E) + 1
            /\ \A i \in 1..behind : F[i] = E[i]
            /\ F[behind + 1] = e
            /\ \A i \in (behind + 1)..Len(E) : F[i + 1] = E[i]
            /\ InOrder(F, v)
            /\ ToSet(F) = ToSet(E) \cup {e}
<1> DEFINE Ev == [o : Obj, seq : Seqno]
           q == e.seq
           n == RetiredPrefix(E, q)
           B == {i \in DOMAIN E : \E j \in i..Len(E) : E[j].seq <= e.seq}
           behind == Cardinality(B)
           F == InsertAt(E, behind + 1, e)
<1>0. Len(E) \in Nat
  BY LenProperties
<1>1. DOMAIN E = 1..Len(E) /\ \A i \in 1..Len(E) : E[i] \in Ev
  BY LenProperties, ElementOfSeq
<1>2. q \in Seqno /\ q \in Nat /\ v \in Nat /\ \A i \in 1..Len(E) : E[i].seq \in Nat
  <2>1. Seqno \subseteq Nat
    BY TimelineAssumption DEF Seqno
  <2> QED BY <1>1, <2>1
<1>3. /\ n \in 0..Len(E)
      /\ \A i \in 1..n : E[i].seq <= q
      /\ \A i \in (n + 1)..Len(E) : E[i].seq > q
  BY <1>2, PrefixRetired
<1> HIDE DEF n
<1>4. behind = n
  <2>1. ASSUME NEW i \in B PROVE i \in 1..n
    <3>1. PICK j \in i..Len(E) : E[j].seq <= q
      OBVIOUS
    <3>2. i \in 1..Len(E) /\ j \in 1..Len(E)
      BY <1>0, <1>1, <3>1
    <3>3. ~(E[j].seq > q)
      BY <1>2, <3>1, <3>2
    <3>4. j \notin (n + 1)..Len(E)
      BY <1>3, <3>3
    <3> QED BY <1>0, <1>3, <3>1, <3>2, <3>4
  <2>2. ASSUME NEW i \in 1..n PROVE i \in B
    <3>1. i \in 1..Len(E) /\ i \in i..Len(E)
      BY <1>0, <1>3
    <3> QED BY <1>1, <1>3, <3>1
  <2>3. B = 1..n
    BY <2>1, <2>2
  <2>4. Cardinality(1..n) = n
    BY <1>0, <1>3, FS_Interval
  <2> QED BY <2>3, <2>4
<1> HIDE DEF behind
<1> DEFINE s == SubSeq(E, 1, n)
           r == SubSeq(E, n + 1, Len(E))
<1>5. n \in Nat /\ n <= Len(E)
  BY <1>0, <1>3
<1>6. s \in Seq(Ev) /\ Len(s) = n /\ \A i \in 1..n : s[i] = E[i]
  <2>1. \A i \in 1..n : E[i] \in Ev
    BY <1>0, <1>1, <1>5
  <2>2. s \in Seq(Ev) /\ Len(s) = (IF 1 <= n THEN n - 1 + 1 ELSE 0)
        /\ \A i \in 1..(n - 1 + 1) : s[i] = E[1 + i - 1]
    BY <1>5, <2>1, SubSeqProperties
  <2> HIDE DEF s
  <2>3. Len(s) = n
    BY <1>5, <2>2
  <2>4. ASSUME NEW i \in 1..n PROVE s[i] = E[i]
    <3>1. i \in 1..(n - 1 + 1) /\ 1 + i - 1 = i
      BY <1>5
    <3> QED BY <2>2, <3>1
  <2> QED BY <2>2, <2>3, <2>4
<1>7. r \in Seq(Ev) /\ Len(r) = Len(E) - n /\ \A i \in 1..(Len(E) - n) : r[i] = E[n + i]
  BY <1>2, PrefixRetired DEF n
<1>8. F = (s \o <<e>>) \o r
  <2>1. (n + 1) - 1 = n
    BY <1>5
  <2>2. F = InsertAt(E, n + 1, e)
    BY <1>4
  <2>3. InsertAt(E, n + 1, e) = SubSeq(E, 1, (n + 1) - 1) \o <<e>> \o SubSeq(E, n + 1, Len(E))
    BY InsertAtIs, Zenon
  <2> HIDE DEF F
  <2>4. SubSeq(E, 1, (n + 1) - 1) = s
    BY <2>1
  <2> QED BY <2>2, <2>3, <2>4, Zenon
<1> HIDE DEF s, r, F
<1>9. <<e>> \in Seq(Ev) /\ Len(<<e>>) = 1 /\ <<e>>[1] = e
  OBVIOUS
<1>10. /\ s \o <<e>> \in Seq(Ev) /\ Len(s \o <<e>>) = n + 1
       /\ \A i \in 1..(n + 1) : (s \o <<e>>)[i] = IF i <= n THEN s[i] ELSE <<e>>[i - n]
  BY <1>5, <1>6, <1>9, ConcatProperties
<1> DEFINE a == s \o <<e>>
<1>11. /\ a \in Seq(Ev) /\ Len(a) = n + 1 /\ a[n + 1] = e
       /\ \A i \in 1..n : a[i] = E[i]
  <2>1. n + 1 \in 1..(n + 1) /\ ~(n + 1 <= n) /\ n + 1 - n = 1
    BY <1>5
  <2>2. ASSUME NEW i \in 1..n PROVE a[i] = E[i]
    <3>1. i \in 1..(n + 1) /\ i <= n
      BY <1>5
    <3> QED BY <1>6, <1>10, <3>1
  <2>3. a[n + 1] = <<e>>[1]
    BY <1>10, <2>1
  <2>4. a[n + 1] = e
    BY <1>9, <2>3
  <2> QED BY <1>10, <2>2, <2>4
<1> HIDE DEF a
<1>12. F = a \o r
  BY <1>8 DEF a
<1>13. /\ F \in Seq(Ev) /\ Len(F) = Len(a) + Len(r)
       /\ \A i \in 1..(Len(a) + Len(r)) : F[i] = IF i <= Len(a) THEN a[i] ELSE r[i - Len(a)]
  BY <1>7, <1>11, <1>12, ConcatProperties
<1>14. Len(F) = Len(E) + 1 /\ Len(a) + Len(r) = Len(E) + 1
  BY <1>0, <1>5, <1>7, <1>11, <1>13
<1>15. \A i \in 1..n : F[i] = E[i]
  <2> SUFFICES ASSUME NEW i \in 1..n PROVE F[i] = E[i]
    OBVIOUS
  <2>1. i \in 1..(Len(E) + 1) /\ i <= n + 1
    BY <1>0, <1>5
  <2> QED BY <1>11, <1>13, <1>14, <2>1
<1>16. F[n + 1] = e
  <2>1. n + 1 \in 1..(Len(E) + 1) /\ n + 1 <= n + 1
    BY <1>0, <1>5
  <2> QED BY <1>11, <1>13, <1>14, <2>1
<1>17. \A i \in (n + 1)..Len(E) : F[i + 1] = E[i]
  <2> SUFFICES ASSUME NEW i \in (n + 1)..Len(E) PROVE F[i + 1] = E[i]
    OBVIOUS
  <2>1. /\ i + 1 \in 1..(Len(E) + 1) /\ ~(i + 1 <= n + 1) /\ (i + 1) - (n + 1) = i - n
        /\ i - n \in 1..(Len(E) - n) /\ n + (i - n) = i
    BY <1>0, <1>5
  <2> QED BY <1>7, <1>11, <1>13, <1>14, <2>1
<1>18. \A k \in 1..(Len(E) + 1) : \/ k \in 1..n /\ F[k] = E[k]
                                  \/ k = n + 1 /\ F[k] = e
                                  \/ k - 1 \in (n + 1)..Len(E) /\ F[k] = E[k - 1]
  <2> SUFFICES ASSUME NEW k \in 1..(Len(E) + 1), k # n + 1, k \notin 1..n
               PROVE  k - 1 \in (n + 1)..Len(E) /\ F[k] = E[k - 1]
    BY <1>15, <1>16
  <2>1. k - 1 \in (n + 1)..Len(E) /\ (k - 1) + 1 = k
    BY <1>0, <1>5
  <2> QED BY <1>17, <2>1
<1>19. DOMAIN F = 1..(Len(E) + 1)
  BY <1>13, <1>14, LenProperties
<1>20. \A i, j \in 1..Len(E) : i < j => E[i].seq <= E[j].seq
  BY <1>1 DEF InOrder
<1>21. \A i \in 1..Len(E) : E[i].seq > v
  BY <1>1 DEF InOrder
<1>22. ASSUME NEW k \in 1..(Len(E) + 1) PROVE F[k].seq > v
  BY <1>0, <1>5, <1>18, <1>21
<1>23. ASSUME NEW k \in 1..(Len(E) + 1), NEW m \in 1..(Len(E) + 1), k < m
       PROVE  F[k].seq <= F[m].seq
  <2>1. CASE k \in 1..n /\ F[k] = E[k]
    <3>1. CASE m \in 1..n /\ F[m] = E[m]
      BY <1>0, <1>5, <1>20, <1>23, <2>1, <3>1
    <3>2. CASE m = n + 1 /\ F[m] = e
      BY <1>3, <2>1, <3>2
    <3>3. CASE m - 1 \in (n + 1)..Len(E) /\ F[m] = E[m - 1]
      <4>1. k < m - 1 /\ k \in 1..Len(E) /\ m - 1 \in 1..Len(E)
        BY <1>0, <1>5, <2>1, <3>3
      <4> QED BY <1>20, <2>1, <3>3, <4>1
    <3> QED BY <1>18, <3>1, <3>2, <3>3
  <2>2. CASE k = n + 1 /\ F[k] = e
    <3>1. m - 1 \in (n + 1)..Len(E) /\ F[m] = E[m - 1]
      BY <1>0, <1>5, <1>18, <1>23, <2>2
    <3>2. E[m - 1].seq > q /\ m - 1 \in 1..Len(E)
      BY <1>0, <1>3, <1>5, <3>1
    <3> QED BY <1>2, <2>2, <3>1, <3>2
  <2>3. CASE k - 1 \in (n + 1)..Len(E) /\ F[k] = E[k - 1]
    <3>1. m - 1 \in (n + 1)..Len(E) /\ F[m] = E[m - 1]
      BY <1>0, <1>5, <1>18, <1>23, <2>3
    <3>2. k - 1 < m - 1 /\ k - 1 \in 1..Len(E) /\ m - 1 \in 1..Len(E)
      BY <1>0, <1>5, <1>23, <2>3, <3>1
    <3> QED BY <1>20, <2>3, <3>1, <3>2
  <2> QED BY <1>18, <2>1, <2>2, <2>3
<1>24. InOrder(F, v)
  BY <1>19, <1>22, <1>23 DEF InOrder
<1>25. ToSet(F) = ToSet(E) \cup {e}
  <2>1. ASSUME NEW y \in ToSet(F) PROVE y \in ToSet(E) \cup {e}
    <3>1. PICK k \in 1..(Len(E) + 1) : y = F[k]
      BY <1>19, <2>1 DEF ToSet
    <3>2. y = e \/ \E i \in 1..Len(E) : y = E[i]
      BY <1>0, <1>5, <1>18, <3>1
    <3> QED BY <1>1, <3>2 DEF ToSet
  <2>2. ASSUME NEW y \in ToSet(E) PROVE y \in ToSet(F)
    <3>1. PICK i \in 1..Len(E) : y = E[i]
      BY <1>1, <2>2 DEF ToSet
    <3>2. \E k \in 1..(Len(E) + 1) : F[k] = y
      <4>1. CASE i <= n
        BY <1>0, <1>5, <1>15, <3>1, <4>1
      <4>2. CASE i > n
        <5>1. i \in (n + 1)..Len(E) /\ i + 1 \in 1..(Len(E) + 1)
          BY <1>0, <1>5, <4>2
        <5> QED BY <1>17, <3>1, <5>1
      <4> QED BY <1>5, <4>1, <4>2
    <3> QED BY <1>19, <3>2 DEF ToSet
  <2>3. e \in ToSet(F)
    <3>1. n + 1 \in 1..(Len(E) + 1)
      BY <1>0, <1>5
    <3> QED BY <1>16, <1>19, <3>1 DEF ToSet
  <2> QED BY <2>1, <2>2, <2>3
<1> QED BY <1>3, <1>4, <1>13, <1>14, <1>15, <1>16, <1>17, <1>24, <1>25 DEF behind, F

-----------------------------------------------------------------------------
(* What each action does to the thread that takes it.                      *)

\* Thread x gets to step pc of its call, or of another one; the others stay.
Goes(x, pc, why, todo, tl, o) ==
  /\ \A y \in Thread \ {x} : th'[y] = th[y]
  /\ th'[x].pc = pc /\ th'[x].why = why /\ th'[x].todo = todo
  /\ th'[x].tl = tl /\ th'[x].o = o

LEMMA GoesTo ==
  ASSUME FenceIInv, NEW x \in Thread, NEW r, IsThread(r), th' = [th EXCEPT ![x] = r]
  PROVE  Goes(x, r.pc, r.why, r.todo, r.tl, r.o)
BY DEF Goes, FenceIInv, StateShape, ThreadShape

LEMMA GoesSame ==
  ASSUME FenceIInv, NEW x \in Thread, UNCHANGED th
  PROVE  Goes(x, th[x].pc, th[x].why, th[x].todo, th[x].tl, th[x].o)
BY DEF Goes

LEMMA GoesPc ==
  ASSUME FenceIInv, NEW x \in Thread, NEW pc, th' = [th EXCEPT ![x].pc = pc]
  PROVE  Goes(x, pc, th[x].why, th[x].todo, th[x].tl, th[x].o)
<1>1. IsThread(th[x]) /\ ThreadShape
  BY ThreadIs DEF FenceIInv, StateShape
<1> QED BY <1>1 DEF Goes, ThreadShape, IsThread, ThreadFields

LEMMA GoesPcWhy ==
  ASSUME FenceIInv, NEW x \in Thread, NEW pc, NEW why,
         th' = [th EXCEPT ![x].pc = pc, ![x].why = why]
  PROVE  Goes(x, pc, why, th[x].todo, th[x].tl, th[x].o)
<1>1. IsThread(th[x]) /\ ThreadShape
  BY ThreadIs DEF FenceIInv, StateShape
<1> QED BY <1>1 DEF Goes, ThreadShape, IsThread, ThreadFields

LEMMA GoesWhy ==
  ASSUME FenceIInv, NEW x \in Thread, NEW why, th' = [th EXCEPT ![x].why = why]
  PROVE  Goes(x, th[x].pc, why, th[x].todo, th[x].tl, th[x].o)
<1>1. IsThread(th[x]) /\ ThreadShape
  BY ThreadIs DEF FenceIInv, StateShape
<1> QED BY <1>1 DEF Goes, ThreadShape, IsThread, ThreadFields

LEMMA GoesPcTl ==
  ASSUME FenceIInv, NEW x \in Thread, NEW pc, NEW t,
         th' = [th EXCEPT ![x].pc = pc, ![x].tl = t]
  PROVE  Goes(x, pc, th[x].why, th[x].todo, t, th[x].o)
<1>1. IsThread(th[x]) /\ ThreadShape
  BY ThreadIs DEF FenceIInv, StateShape
<1> QED BY <1>1 DEF Goes, ThreadShape, IsThread, ThreadFields

LEMMA GoesPcMine ==
  ASSUME FenceIInv, NEW x \in Thread, NEW pc, NEW f,
         th' = [th EXCEPT ![x].pc = pc, ![x].mine = @ \cup {f}]
  PROVE  Goes(x, pc, th[x].why, th[x].todo, th[x].tl, th[x].o)
<1>1. IsThread(th[x]) /\ ThreadShape
  BY ThreadIs DEF FenceIInv, StateShape
<1> QED BY <1>1 DEF Goes, ThreadShape, IsThread, ThreadFields

LEMMA GoesPcTemp ==
  ASSUME FenceIInv, NEW x \in Thread, NEW pc, NEW F,
         th' = [th EXCEPT ![x].pc = pc, ![x].temp = F]
  PROVE  Goes(x, pc, th[x].why, th[x].todo, th[x].tl, th[x].o)
<1>1. IsThread(th[x]) /\ ThreadShape
  BY ThreadIs DEF FenceIInv, StateShape
<1> QED BY <1>1 DEF Goes, ThreadShape, IsThread, ThreadFields

LEMMA GoesTodo ==
  ASSUME FenceIInv, NEW x \in Thread, NEW pc, NEW todo,
         \/ th' = [th EXCEPT ![x].pc = pc, ![x].todo = todo]
         \/ pc = th[x].pc /\ th' = [th EXCEPT ![x].todo = todo]
  PROVE  Goes(x, pc, th[x].why, todo, th[x].tl, th[x].o)
<1>1. IsThread(th[x]) /\ ThreadShape
  BY ThreadIs DEF FenceIInv, StateShape
<1>2. CASE th' = [th EXCEPT ![x].pc = pc, ![x].todo = todo]
  BY <1>1, <1>2 DEF Goes, ThreadShape, IsThread, ThreadFields
<1>3. CASE pc = th[x].pc /\ th' = [th EXCEPT ![x].todo = todo]
  BY <1>1, <1>3 DEF Goes, ThreadShape, IsThread, ThreadFields
<1> QED BY <1>2, <1>3

LEMMA GoesValue ==
  ASSUME FenceIInv, NEW x \in Thread, NEW pc, NEW todo, NEW t,
         th' = [th EXCEPT ![x].pc = pc, ![x].todo = todo, ![x].tl = t]
  PROVE  Goes(x, pc, th[x].why, todo, t, th[x].o)
<1>1. IsThread(th[x]) /\ ThreadShape
  BY ThreadIs DEF FenceIInv, StateShape
<1> QED BY <1>1 DEF Goes, ThreadShape, IsThread, ThreadFields

LEMMA GoesDying ==
  ASSUME FenceIInv, NEW x \in Thread, th' = [th EXCEPT ![x].dying = Null]
  PROVE  Goes(x, th[x].pc, th[x].why, th[x].todo, th[x].tl, th[x].o)
<1>1. IsThread(th[x]) /\ ThreadShape
  BY ThreadIs DEF FenceIInv, StateShape
<1> QED BY <1>1 DEF Goes, ThreadShape, IsThread, ThreadFields

LEMMA GoesPut ==
  ASSUME FenceIInv, NEW x \in Thread, NEW r, IsThread(r), NEW f, NEW s, FencePut(x, r, f, s)
  PROVE  Goes(x, r.pc, r.why, r.todo, r.tl, r.o)
<1>1. ThreadShape
  BY DEF FenceIInv, StateShape
<1>2. CASE th' = [th EXCEPT ![x] = r]
  BY <1>2, GoesTo
<1>3. CASE th' = [th EXCEPT ![x] = [r EXCEPT !.dying = f]]
  BY <1>1, <1>3 DEF Goes, ThreadShape, IsThread, ThreadFields
<1> QED BY <1>2, <1>3 DEF FencePut

-----------------------------------------------------------------------------
(* Steps that leave the timeline objects and the events alone.             *)

Aside(r) == r.pc \notin SchedSteps \cup {"announced"}

Others(x) == \A y \in Thread \ {x} : th'[y] = th[y]

\* The thread does no work for an object, or goes on with it.
KeepsSide(x) ==
  /\ Others(x)
  /\ x \in Thread =>
       /\ WorkOK(th'[x])
       /\ \/ Aside(th[x]) /\ Aside(th'[x])
          \/ /\ th'[x].pc = th[x].pc /\ th'[x].o = th[x].o
             /\ ToSet(th'[x].todo) \subseteq ToSet(th[x].todo)
       /\ th'[x].why = "retire" <=> th[x].why = "retire"
       /\ th[x].why = "retire" =>
            th'[x].o = th[x].o /\ ToSet(th'[x].todo) \subseteq ToSet(th[x].todo)

\* And it has as much left to signal.
KeepsWork(x) ==
  /\ KeepsSide(x)
  /\ x \in Thread /\ th[x].why = "retire" => ToSet(Left(th[x])) \subseteq ToSet(Left(th'[x]))

ObjsSame ==
  \A o \in Obj : /\ obj'[o].st = obj[o].st /\ obj'[o].sig = obj[o].sig
                 /\ obj'[o].vals = obj[o].vals /\ obj'[o].event = obj[o].event

\* A value changes only before there is an id.
ListsSame ==
  \A t \in Timeline :
    /\ tline'[t].events = tline[t].events
    /\ idr[t] # "none" => idr'[t] # "none" /\ tline'[t].value = tline[t].value

IdsKept == \A t \in Timeline : idr[t] # "none" => idr'[t] # "none"

\* The object a thread works on.
LEMMA WorksOn ==
  ASSUME FenceIInv, NEW x \in Thread, ~Aside(th[x]) \/ th[x].why = "retire"
  PROVE  th[x].o \in Obj
BY ThreadIs DEF ThreadOK, Aside, SchedSteps, ObjSteps

LEMMA ValsAre ==
  ASSUME FenceIInv, NEW n \in Obj
  PROVE  obj[n].vals \in Seq(Val) /\ \A v \in ToSet(obj[n].vals) : v \in Val /\ v.tl \in Timeline
<1>1. obj[n].vals \in Seq(Val)
  BY DEF FenceIInv, StateShape
<1>2. ToSet(obj[n].vals) \subseteq Val
  BY <1>1, InToSet
<1> QED BY <1>1, <1>2 DEF Val

LEMMA EventIs ==
  ASSUME ObjIInv, NEW t \in Timeline, NEW e \in ToSet(tline[t].events)
  PROVE  e \in [o : Obj, seq : Seqno] /\ e.o \in Obj /\ e.seq \in Seqno
<1>1. tline[t].events \in Seq([o : Obj, seq : Seqno])
  BY DEF ObjIInv, EventInv
<1>2. e \in [o : Obj, seq : Seqno]
  BY <1>1, InToSet
<1> QED BY <1>2

\* A timeline with an event has got its id.
LEMMA EventHasId ==
  ASSUME FenceIInv, ObjIInv, NEW t \in Timeline, NEW e \in ToSet(tline[t].events)
  PROVE  idr[t] # "none"
<1>1. e.o \in Obj
  BY EventIs
<1>2. [tl |-> t, seq |-> e.seq] \in ToSet(obj[e.o].vals)
  BY DEF ObjIInv, EventInv
<1> QED BY <1>1, <1>2 DEF ObjIInv, ArrayInv

LEMMA NoEvents ==
  ASSUME NEW E \in Seq([o : Obj, seq : Seqno]), ToSet(E) = {}, NEW v
  PROVE  E = <<>> /\ InOrder(E, v)
<1>1. DOMAIN E = {}
  BY InToSet
<1>2. E = <<>>
  BY <1>1, EmptySeq, LenProperties
<1> QED BY <1>1, <1>2 DEF InOrder

LEMMA SideFrame ==
  ASSUME FenceIInv, ObjIInv, NEW x, KeepsSide(x), ObjsSame, IdsKept
  PROVE  (\A y \in Thread : WorkOK(th'[y])) /\ OneSide' /\ SideInv' /\ ArrayInv'
<1> USE DEF Others
<1>1. \A y \in Thread : WorkOK(th'[y])
  BY DEF ObjIInv, KeepsSide
<1>2. /\ \A y \in Thread : Aside(th[y]) <=> Aside(th'[y])
      /\ \A y \in Thread : ~Aside(th[y]) =>
           /\ th'[y].pc = th[y].pc /\ th'[y].o = th[y].o
           /\ ToSet(th'[y].todo) \subseteq ToSet(th[y].todo)
      /\ \A y \in Thread : th'[y].why = "retire" <=> th[y].why = "retire"
      /\ \A y \in Thread : th[y].why = "retire" =>
           /\ th'[y].o = th[y].o
           /\ ToSet(th'[y].todo) \subseteq ToSet(th[y].todo)
  BY DEF KeepsSide, Aside
<1>3. OneSide'
  BY <1>2 DEF ObjIInv, OneSide, Aside
<1>4. SideInv'
  <2>1. ASSUME NEW n \in Obj
        PROVE  (SchedPending(n)' <=> SchedPending(n)) /\ (EventPending(n)' <=> EventPending(n))
    <3>1. \A y \in Thread : (th'[y].pc \in SchedSteps /\ th'[y].o = n)
                            <=> (th[y].pc \in SchedSteps /\ th[y].o = n)
      BY <1>2 DEF Aside
    <3>2. \A y \in Thread : (th'[y].pc = "announced" /\ th'[y].o = n)
                            <=> (th[y].pc = "announced" /\ th[y].o = n)
      BY <1>2 DEF Aside
    <3> QED BY <3>1, <3>2 DEF SchedPending, EventPending, ObjsSame
  <2>2. \A n \in Obj :
          /\ obj'[n].st \in {"none", "filling", "queued", "done"}
          /\ obj'[n].sig = Bit(SchedPending(n)') + Bit(EventPending(n)')
          /\ obj'[n].st = "none" => ~SchedPending(n)' /\ obj'[n].vals = <<>>
          /\ obj'[n].st \in {"none", "filling"} => ~EventPending(n)'
    BY <2>1 DEF ObjIInv, SideInv, ObjsSame, Bit
  <2>3. ASSUME NEW y \in Thread
        PROVE  /\ th'[y].pc \in {"fill", "empty"} => obj'[th'[y].o].st = "filling"
               /\ th'[y].pc = "announce" => obj'[th'[y].o].st = "done"
               /\ th'[y].pc = "announced" => obj'[th'[y].o].event = "fired"
    <3>1. CASE Aside(th'[y])
      BY <3>1 DEF Aside, SchedSteps
    <3>2. CASE ~Aside(th'[y])
      <4>1. th'[y].pc = th[y].pc /\ th'[y].o = th[y].o /\ th[y].o \in Obj
        BY <1>2, <3>2, WorksOn
      <4> QED BY <4>1 DEF ObjIInv, SideInv, ObjsSame
    <3> QED BY <3>1, <3>2
  <2>4. ASSUME NEW y \in Thread, th'[y].why = "retire"
        PROVE  obj'[th'[y].o].sig = 0 /\ obj'[th'[y].o].st = "done"
    <3>1. th[y].o \in Obj /\ th'[y].o = th[y].o /\ th[y].why = "retire"
      BY <1>2, <2>4, WorksOn
    <3> QED BY <3>1 DEF ObjIInv, SideInv, ObjsSame
  <2> QED BY <2>2, <2>3, <2>4 DEF SideInv
<1>5. ArrayInv'
  <2>1. ASSUME NEW n \in Obj, NEW v \in ToSet(obj'[n].vals)
        PROVE  idr'[v.tl] # "none"
    <3>1. v \in ToSet(obj[n].vals) /\ v.tl \in Timeline
      BY <2>1, ValsAre DEF ObjsSame
    <3> QED BY <3>1 DEF ObjIInv, ArrayInv, IdsKept
  <2>2. ASSUME NEW y \in Thread, th'[y].pc = "announce" \/ th'[y].why = "retire"
        PROVE  ToSet(th'[y].todo) \subseteq ToSet(obj'[th'[y].o].vals)
    <3>1. CASE th'[y].pc = "announce"
      <4>1. /\ th'[y].pc = th[y].pc /\ th'[y].o = th[y].o /\ th[y].o \in Obj
            /\ ToSet(th'[y].todo) \subseteq ToSet(th[y].todo)
        BY <1>2, <3>1, WorksOn DEF Aside, SchedSteps
      <4> QED BY <3>1, <4>1 DEF ObjIInv, ArrayInv, ObjsSame
    <3>2. CASE th'[y].why = "retire"
      <4>1. th[y].o \in Obj /\ th'[y].o = th[y].o /\ th[y].why = "retire"
            /\ ToSet(th'[y].todo) \subseteq ToSet(th[y].todo)
        BY <1>2, <3>2, WorksOn
      <4>2. ToSet(th[y].todo) \subseteq ToSet(obj[th[y].o].vals)
        BY <4>1 DEF ObjIInv, ArrayInv
      <4> QED BY <4>1, <4>2 DEF ObjsSame
    <3> QED BY <2>2, <3>1, <3>2
  <2> QED BY <2>1, <2>2 DEF ArrayInv
<1> QED BY <1>1, <1>3, <1>4, <1>5

LEMMA ObjFrame ==
  ASSUME FenceIInv, ObjIInv, NEW x, KeepsWork(x), ObjsSame, ListsSame
  PROVE  ObjIInv'
<1>1. (\A y \in Thread : WorkOK(th'[y])) /\ OneSide' /\ SideInv' /\ ArrayInv'
  BY SideFrame DEF KeepsWork, ListsSame, IdsKept
<1>2. /\ \A y \in Thread : th'[y].why = "retire" <=> th[y].why = "retire"
      /\ \A y \in Thread : th[y].why = "retire" =>
           th'[y].o = th[y].o /\ ToSet(Left(th[y])) \subseteq ToSet(Left(th'[y]))
  BY DEF KeepsWork, KeepsSide, Others
<1>6. EventInv'
  <2> SUFFICES ASSUME NEW t \in Timeline
               PROVE  /\ tline'[t].events \in Seq([o : Obj, seq : Seqno])
                      /\ InOrder(tline'[t].events, tline'[t].value)
                      /\ \A e \in ToSet(tline'[t].events) :
                           /\ [tl |-> t, seq |-> e.seq] \in ToSet(obj'[e.o].vals)
                           /\ obj'[e.o].st = "done"
                           /\ \A y \in Thread : Retires(y, e.o)' =>
                                [tl |-> t, seq |-> e.seq] \in ToSet(Left(th'[y]))
    BY DEF EventInv
  <2>1. tline'[t].events = tline[t].events
        /\ tline[t].events \in Seq([o : Obj, seq : Seqno])
    BY DEF ListsSame, ObjIInv, EventInv
  <2>2. InOrder(tline'[t].events, tline'[t].value)
    <3>1. CASE ToSet(tline[t].events) = {}
      BY <2>1, <3>1, NoEvents
    <3>2. CASE ToSet(tline[t].events) # {}
      <4>1. idr[t] # "none"
        BY <3>2, EventHasId
      <4> QED BY <2>1, <4>1 DEF ListsSame, ObjIInv, EventInv
    <3> QED BY <3>1, <3>2
  <2>3. ASSUME NEW e \in ToSet(tline[t].events)
        PROVE  /\ [tl |-> t, seq |-> e.seq] \in ToSet(obj'[e.o].vals)
               /\ obj'[e.o].st = "done"
    <3>1. e.o \in Obj
      BY EventIs
    <3> QED BY <3>1 DEF ObjsSame, ObjIInv, EventInv
  <2>4. ASSUME NEW e \in ToSet(tline[t].events), NEW y \in Thread, Retires(y, e.o)'
        PROVE  [tl |-> t, seq |-> e.seq] \in ToSet(Left(th'[y]))
    <3>1. Retires(y, e.o) /\ ToSet(Left(th[y])) \subseteq ToSet(Left(th'[y]))
      BY <1>2, <2>4 DEF Retires
    <3>2. [tl |-> t, seq |-> e.seq] \in ToSet(Left(th[y]))
      BY <3>1 DEF ObjIInv, EventInv
    <3> QED BY <3>1, <3>2
  <2> QED BY <2>1, <2>2, <2>3, <2>4
<1> QED BY <1>1, <1>6 DEF ObjIInv

-----------------------------------------------------------------------------
(* What an action does to a timeline, apart from its lock and its fences.  *)

TlineGoes(t, ref, value, events) ==
  /\ \A u \in Timeline \ {t} : tline'[u] = tline[u]
  /\ tline'[t].ref = ref /\ tline'[t].value = value /\ tline'[t].events = events

LEMMA TlineIs ==
  ASSUME FenceIInv, NEW t \in Timeline
  PROVE  TlineShape /\ IsTline(tline[t]) /\ TlineOK(t)
BY DEF FenceIInv, StateShape, TlineShape

LEMMA TlineGets ==
  ASSUME FenceIInv, NEW t \in Timeline, tline' = TimelineGet(t)
  PROVE  TlineGoes(t, tline[t].ref + 1, tline[t].value, tline[t].events)
BY TlineIs DEF TimelineGet, TlineGoes, TlineShape, IsTline, TlineFields

LEMMA TlinePuts ==
  ASSUME FenceIInv, NEW t \in Timeline, tline' = TimelinePut(t)
  PROVE  TlineGoes(t, tline[t].ref - 1, tline[t].value, tline[t].events)
BY TlineIs DEF TimelinePut, TlineGoes, TlineShape, IsTline, TlineFields

LEMMA TlineRefFences ==
  ASSUME FenceIInv, NEW t \in Timeline, NEW n, NEW F,
         tline' = [tline EXCEPT ![t].ref = n, ![t].fences = F]
  PROVE  TlineGoes(t, n, tline[t].value, tline[t].events)
BY TlineIs DEF TlineGoes, TlineShape, IsTline, TlineFields

LEMMA TlineFences ==
  ASSUME FenceIInv, NEW t \in Timeline, NEW F, tline' = [tline EXCEPT ![t].fences = F]
  PROVE  TlineGoes(t, tline[t].ref, tline[t].value, tline[t].events)
BY TlineIs DEF TlineGoes, TlineShape, IsTline, TlineFields

LEMMA TlineLock ==
  ASSUME FenceIInv, NEW t \in Timeline, NEW l, tline' = [tline EXCEPT ![t].lock = l]
  PROVE  TlineGoes(t, tline[t].ref, tline[t].value, tline[t].events)
BY TlineIs DEF TlineGoes, TlineShape, IsTline, TlineFields

LEMMA TlineFresh ==
  ASSUME FenceIInv, NEW t \in Timeline, NEW n, NEW v,
         tline' = [tline EXCEPT ![t].ref = n, ![t].value = v]
  PROVE  TlineGoes(t, n, v, tline[t].events)
BY TlineIs DEF TlineGoes, TlineShape, IsTline, TlineFields

LEMMA TlineEvents ==
  ASSUME FenceIInv, NEW t \in Timeline, NEW E, tline' = [tline EXCEPT ![t].events = E]
  PROVE  TlineGoes(t, tline[t].ref, tline[t].value, E)
BY TlineIs DEF TlineGoes, TlineShape, IsTline, TlineFields

LEMMA TlineAdvances ==
  ASSUME FenceIInv, NEW t \in Timeline, NEW l, NEW v, NEW E,
         tline' = [tline EXCEPT ![t].lock = l, ![t].value = v, ![t].events = E]
  PROVE  TlineGoes(t, tline[t].ref, v, E)
BY TlineIs DEF TlineGoes, TlineShape, IsTline, TlineFields

LEMMA ListsKept ==
  ASSUME NEW t \in Timeline, NEW n, TlineGoes(t, n, tline[t].value, tline[t].events),
         UNCHANGED idr
  PROVE  ListsSame
BY DEF TlineGoes, ListsSame

LEMMA NothingChanges == (UNCHANGED obj => ObjsSame) /\ (UNCHANGED <<idr, tline>> => ListsSame)
BY DEF ObjsSame, ListsSame

LEMMA AsideStep ==
  ASSUME NEW x \in Thread, NEW pc, NEW why, NEW todo, NEW tl, NEW n,
         Goes(x, pc, why, todo, tl, n), Aside(th[x]),
         th[x].why # "retire", why # "retire",
         pc \notin SchedSteps \cup {"announced", "retired"},
         tl # Null <=> pc \in ValueSteps \cup {"commit"}
  PROVE  KeepsWork(x)
BY DEF KeepsWork, KeepsSide, Goes, Others, Aside, WorkOK, SchedSteps

LEMMA SameStep ==
  ASSUME ObjIInv, NEW x \in Thread,
         Goes(x, th[x].pc, th[x].why, th[x].todo, th[x].tl, th[x].o)
  PROVE  KeepsWork(x)
<1>1. WorkOK(th[x])
  BY DEF ObjIInv
<1> QED BY <1>1 DEF KeepsWork, KeepsSide, Goes, Others, WorkOK, Left

\* A walk goes on, for a retiring thread too.
LEMMA WalkOn ==
  ASSUME ObjIInv, NEW x \in Thread, NEW pc,
         Goes(x, pc, th[x].why, th[x].todo, th[x].tl, th[x].o),
         th[x].pc \in {"collect", "signaling", "relock", "failing", "steal"},
         pc \in {"signaling", "got", "relock", "failing"},
         pc \in {"relock", "failing"} => th[x].why # "retire"
  PROVE  KeepsWork(x)
<1>1. WorkOK(th[x])
  BY DEF ObjIInv
<1>2. WorkOK(th'[x])
  BY <1>1 DEF Goes, WorkOK, ValueSteps, DestroySteps
<1>3. Aside(th[x]) /\ Aside(th'[x])
  BY DEF Goes, Aside, SchedSteps
<1> QED BY <1>2, <1>3 DEF KeepsWork, KeepsSide, Goes, Others, Left

LEMMA NotRetiring ==
  ASSUME ObjIInv, NEW x \in Thread
  PROVE  /\ th[x].pc \notin {"retire", "collect", "signaling", "got", "retired"}
              => th[x].why # "retire"
         /\ th[x].tl # Null <=> th[x].pc \in ValueSteps \cup {"commit"}
BY DEF ObjIInv, WorkOK

\* The record of a thread that is in nothing yet.
LEMMA IdleGoes ==
  ASSUME FenceIInv, NEW x \in Thread, th' = [th EXCEPT ![x] = Idle]
  PROVE  Goes(x, "idle", "none", <<>>, Null, Null)
BY IdleIsThread, IdleFields, GoesTo

-----------------------------------------------------------------------------
(* The timeline objects through the actions that are not about them.       *)

LEMMA ObjTimelineAlloc ==
  ASSUME FenceIInv, ObjIInv, NEW x \in Thread, NEW t \in Timeline, TimelineAlloc(x, t)
  PROVE  ObjIInv'
<1> USE DEF TimelineAlloc, At
<1> DEFINE s == [Idle EXCEPT !.pc = "commit", !.tl = t]
<1>1. IsThread(s) /\ s.pc = "commit" /\ s.why = "none" /\ s.todo = <<>> /\ s.tl = t /\ s.o = Null
  BY IdleIsThread, IdleFields DEF IsThread, ThreadFields
<1>2. th' = [th EXCEPT ![x] = s]
  OBVIOUS
<1> HIDE DEF s
<1>3. Goes(x, "commit", "none", <<>>, t, Null)
  <2>1. Goes(x, s.pc, s.why, s.todo, s.tl, s.o)
    BY <1>1, <1>2, GoesTo
  <2> QED BY <2>1, <1>1, <1>2 DEF Goes
<1>4. KeepsWork(x)
  BY <1>3, AsideStep, NotRetiring, TimelineAssumption DEF Aside, SchedSteps
<1>5. PICK v \in Seqno : tline' = [tline EXCEPT ![t].ref = 1, ![t].value = v]
  OBVIOUS
<1>6. TlineGoes(t, 1, v, tline[t].events)
  BY <1>5, TlineFresh
<1>7. DOMAIN idr = Timeline
  BY DEF FenceIInv, StateShape
<1>8. ListsSame
  BY <1>6, <1>7 DEF ListsSame, TlineGoes
<1> QED BY <1>4, <1>8, NothingChanges, ObjFrame

LEMMA ObjTimelineCreate ==
  ASSUME FenceIInv, ObjIInv, NEW x \in Thread, TimelineCreate(x)
  PROVE  ObjIInv'
<1> USE DEF TimelineCreate, At
<1>1. Goes(x, "idle", "none", <<>>, Null, Null)
  BY IdleGoes
<1>2. KeepsWork(x)
  BY <1>1, AsideStep, NotRetiring DEF Aside, SchedSteps, ValueSteps, DestroySteps
<1>3. DOMAIN idr = Timeline
  BY DEF FenceIInv, StateShape
<1>4. ListsSame
  BY <1>3 DEF ListsSame
<1> QED BY <1>2, <1>4, NothingChanges, ObjFrame

LEMMA ObjCall ==
  ASSUME FenceIInv, ObjIInv, NEW x \in Thread, NEW why, NEW vals \in Arrays, Call(x, why, vals)
  PROVE  ObjIInv'
<1> USE DEF Call, At
<1>1. PICK any \in BOOLEAN :
        th' = [th EXCEPT ![x] = [Idle EXCEPT !.pc = "lookup", !.why = why,
                                             !.todo = vals, !.any = any]]
  OBVIOUS
<1> DEFINE s == [Idle EXCEPT !.pc = "lookup", !.why = why, !.todo = vals, !.any = any]
<1>2. IsThread(s) /\ s.pc = "lookup" /\ s.why = why /\ s.todo = vals /\ s.tl = Null /\ s.o = Null
  BY IdleIsThread, IdleFields DEF IsThread, ThreadFields
<1>3. th' = [th EXCEPT ![x] = s]
  BY <1>1
<1> HIDE DEF s
<1>4. Goes(x, "lookup", why, vals, Null, Null)
  <2>1. Goes(x, s.pc, s.why, s.todo, s.tl, s.o)
    BY <1>2, <1>3, GoesTo
  <2> QED BY <2>1, <1>2, <1>3 DEF Goes
<1>5. KeepsWork(x)
  BY <1>4, AsideStep, NotRetiring DEF Aside, SchedSteps, ValueSteps, DestroySteps
<1> QED BY <1>5, NothingChanges, ObjFrame

LEMMA ObjDestroyId ==
  ASSUME FenceIInv, ObjIInv, NEW x \in Thread, NEW t \in Timeline, DestroyId(x, t)
  PROVE  ObjIInv'
<1> USE DEF DestroyId, At
<1> DEFINE v == <<[tl |-> t, seq |-> 0]>>
           s == [Idle EXCEPT !.pc = "steal", !.why = "destroy", !.tl = t, !.todo = v]
<1>1. th' = [th EXCEPT ![x] = s]
  OBVIOUS
<1> HIDE DEF v
<1>2. IsThread(s) /\ s.pc = "steal" /\ s.why = "destroy" /\ s.todo = v /\ s.tl = t /\ s.o = Null
  BY IdleIsThread, IdleFields DEF IsThread, ThreadFields
<1> HIDE DEF s
<1>3. Goes(x, "steal", "destroy", v, t, Null)
  <2>1. Goes(x, s.pc, s.why, s.todo, s.tl, s.o)
    BY <1>1, <1>2, GoesTo
  <2> QED BY <2>1, <1>1, <1>2 DEF Goes
<1>4. KeepsWork(x)
  BY <1>3, AsideStep, NotRetiring, TimelineAssumption DEF Aside, SchedSteps, ValueSteps, DestroySteps
<1>5. DOMAIN idr = Timeline
  BY DEF FenceIInv, StateShape
<1>6. ListsSame
  BY <1>5 DEF ListsSame
<1> QED BY <1>4, <1>6, NothingChanges, ObjFrame

LEMMA ObjLookup ==
  ASSUME FenceIInv, ObjIInv, NEW x \in Thread, Lookup(x)
  PROVE  ObjIInv'
<1> USE DEF Lookup, At
<1> DEFINE t == Head(th[x].todo).tl
<1>1. t \in Timeline /\ th[x].pc = "lookup" /\ th[x].why \in {"fence_get", "wait", "signal"}
  BY ThreadIs, FirstValue DEF ThreadOK, ValueSteps, Agree
<1>2. Aside(th[x]) /\ th[x].tl = Null
  BY <1>1, NotRetiring DEF Aside, SchedSteps, ValueSteps, DestroySteps
<1>3. CASE tline' = TimelineGet(t) /\ th' = [th EXCEPT ![x].pc = th[x].why, ![x].tl = t]
  <2>1. Goes(x, th[x].why, th[x].why, th[x].todo, t, th[x].o)
    BY <1>3, GoesPcTl
  <2>2. KeepsWork(x)
    BY <1>1, <1>2, <2>1, AsideStep, TimelineAssumption DEF SchedSteps, ValueSteps, DestroySteps
  <2>3. ListsSame
    BY <1>1, <1>3, TlineGets, ListsKept
  <2> QED BY <2>2, <2>3, NothingChanges, ObjFrame
<1>4. CASE th' = [th EXCEPT ![x].pc = "unwind"] /\ UNCHANGED tline
  <2>1. Goes(x, "unwind", th[x].why, th[x].todo, th[x].tl, th[x].o)
    BY <1>4, GoesPc
  <2>2. KeepsWork(x)
    BY <1>1, <1>2, <2>1, AsideStep DEF SchedSteps, ValueSteps, DestroySteps
  <2> QED BY <1>4, <2>2, NothingChanges, ObjFrame
<1> QED BY <1>3, <1>4

LEMMA ObjFenceAlloc ==
  ASSUME FenceIInv, ObjIInv, NEW x \in Thread, FenceAlloc(x)
  PROVE  ObjIInv'
<1> USE DEF FenceAlloc, At
<1> DEFINE t == th[x].tl
<1>1. t \in Timeline /\ th[x].pc \in {"fence_get", "wait"} /\ th[x].why \in {"fence_get", "wait"}
  BY ThreadIs DEF ThreadOK, ValueSteps, Agree
<1>2. Aside(th[x])
  BY <1>1 DEF Aside, SchedSteps
<1>3. CASE \E f \in Fence :
             /\ th' = [th EXCEPT ![x].pc = "got", ![x].mine = @ \cup {f}]
             /\ \E F : tline' = [tline EXCEPT ![t].ref = @ + 1, ![t].fences = F]
  <2>1. PICK f, F :
             /\ f \in Fence
             /\ th' = [th EXCEPT ![x].pc = "got", ![x].mine = @ \cup {f}]
             /\ tline' = [tline EXCEPT ![t].ref = @ + 1, ![t].fences = F]
    BY <1>3
  <2>2. Goes(x, "got", th[x].why, th[x].todo, t, th[x].o)
    BY <2>1, GoesPcMine
  <2>3. KeepsWork(x)
    BY <1>1, <1>2, <2>2, AsideStep, TimelineAssumption DEF SchedSteps, ValueSteps
  <2>4. tline' = [tline EXCEPT ![t].ref = tline[t].ref + 1, ![t].fences = F]
    BY <1>1, <2>1, TlineIs DEF TlineShape
  <2>5. ListsSame
    BY <1>1, <2>4, TlineRefFences, ListsKept
  <2> QED BY <2>3, <2>5, NothingChanges, ObjFrame
<1>4. CASE th' = [th EXCEPT ![x].pc = "got", ![x].why = "failed"] /\ UNCHANGED <<tline, fence>>
  <2>1. Goes(x, "got", "failed", th[x].todo, t, th[x].o)
    BY <1>4, GoesPcWhy
  <2>2. KeepsWork(x)
    BY <1>1, <1>2, <2>1, AsideStep, TimelineAssumption DEF SchedSteps, ValueSteps
  <2> QED BY <1>4, <2>2, NothingChanges, ObjFrame
<1> QED BY <1>3, <1>4

LEMMA ObjFenceGetFile ==
  ASSUME FenceIInv, ObjIInv, NEW x \in Thread, FenceGetFile(x)
  PROVE  ObjIInv'
<1> USE DEF FenceGetFile, At
<1>1. th[x].pc = "got" /\ th[x].why = "fence_get" /\ Aside(th[x]) /\ th[x].tl # Null
  BY NotRetiring DEF Aside, SchedSteps, ValueSteps
<1>2. PICK why \in {"filed", "unfiled"} : th' = [th EXCEPT ![x].why = why]
  OBVIOUS
<1>3. Goes(x, "got", why, th[x].todo, th[x].tl, th[x].o)
  BY <1>1, <1>2, GoesWhy
<1>4. KeepsWork(x)
  BY <1>1, <1>3, AsideStep DEF SchedSteps, ValueSteps
<1> QED BY <1>4, NothingChanges, ObjFrame

LEMMA ObjFenceGetPut ==
  ASSUME FenceIInv, ObjIInv, NEW x \in Thread, FenceGetPut(x)
  PROVE  ObjIInv'
<1> USE DEF FenceGetPut, At
<1> DEFINE r == [th[x] EXCEPT !.mine = {}]
<1>1. IsThread(r) /\ r.pc = th[x].pc /\ r.why = th[x].why /\ r.todo = th[x].todo
      /\ r.tl = th[x].tl /\ r.o = th[x].o
  BY ThreadIs DEF IsThread, ThreadFields
<1>2. PICK f \in th[x].mine : FencePut(x, r, f, fence[f].status)
  OBVIOUS
<1> HIDE DEF r
<1>3. Goes(x, th[x].pc, th[x].why, th[x].todo, th[x].tl, th[x].o)
  BY <1>1, <1>2, GoesPut
<1> QED BY <1>3, SameStep, NothingChanges, ObjFrame

LEMMA ObjWaitEnds ==
  ASSUME FenceIInv, ObjIInv, NEW x \in Thread, WaitReturns(x) \/ WaitTimesOut(x)
  PROVE  ObjIInv'
<1> USE DEF WaitReturns, WaitTimesOut, At
<1>1. th[x].pc = "waiting" /\ Aside(th[x]) /\ th[x].tl = Null /\ th[x].why # "retire"
  BY NotRetiring DEF Aside, SchedSteps, ValueSteps, DestroySteps
<1>2. Goes(x, "unwind", th[x].why, th[x].todo, th[x].tl, th[x].o)
  BY GoesPc
<1>3. KeepsWork(x)
  BY <1>1, <1>2, AsideStep DEF SchedSteps, ValueSteps, DestroySteps
<1> QED BY <1>3, NothingChanges, ObjFrame

LEMMA ObjUnwind ==
  ASSUME FenceIInv, ObjIInv, NEW x \in Thread, Unwind(x)
  PROVE  ObjIInv'
<1> USE DEF Unwind, At
<1>1. CASE th[x].mine # {}
  <2>1. PICK f \in th[x].mine :
          FencePut(x, [th[x] EXCEPT !.mine = @ \ {f}], f, fence[f].status)
    BY <1>1
  <2> DEFINE r == [th[x] EXCEPT !.mine = @ \ {f}]
  <2>2. IsThread(r) /\ r.pc = th[x].pc /\ r.why = th[x].why /\ r.todo = th[x].todo
        /\ r.tl = th[x].tl /\ r.o = th[x].o
    BY ThreadIs DEF IsThread, ThreadFields
  <2>3. FencePut(x, r, f, fence[f].status)
    BY <2>1
  <2> HIDE DEF r
  <2>4. Goes(x, th[x].pc, th[x].why, th[x].todo, th[x].tl, th[x].o)
    BY <2>2, <2>3, GoesPut
  <2> QED BY <2>4, SameStep, NothingChanges, ObjFrame
<1>2. CASE th[x].mine = {}
  <2>1. Goes(x, "idle", "none", <<>>, Null, Null)
    BY <1>2, IdleGoes
  <2>2. KeepsWork(x)
    BY <2>1, AsideStep, NotRetiring DEF Aside, SchedSteps, ValueSteps, DestroySteps
  <2> QED BY <2>2, NothingChanges, ObjFrame
<1> QED BY <1>1, <1>2

LEMMA ObjCloseFile ==
  ASSUME FenceIInv, ObjIInv, NEW x \in Thread, NEW f \in Fence, CloseFile(x, f)
  PROVE  ObjIInv'
<1> USE DEF CloseFile, At
<1> DEFINE r == [Idle EXCEPT !.pc = "unwind"]
<1>1. IsThread(r) /\ r.pc = "unwind" /\ r.why = "none" /\ r.todo = <<>> /\ r.tl = Null /\ r.o = Null
  BY IdleIsThread, IdleFields DEF IsThread, ThreadFields
<1>2. FencePut(x, r, f, fence[f].status)
  OBVIOUS
<1> HIDE DEF r
<1>3. Goes(x, "unwind", "none", <<>>, Null, Null)
  BY <1>1, <1>2, GoesPut
<1>4. KeepsWork(x)
  BY <1>3, AsideStep, NotRetiring DEF Aside, SchedSteps, ValueSteps, DestroySteps
<1> QED BY <1>4, NothingChanges, ObjFrame

LEMMA ObjFenceRelease ==
  ASSUME FenceIInv, ObjIInv, NEW x \in Thread, FenceRelease(x)
  PROVE  ObjIInv'
<1> DEFINE f == th[x].dying   t == fence[f].tl
<1>1. /\ f # Null /\ th' = [th EXCEPT ![x].dying = Null] /\ UNCHANGED <<idr, files, obj>>
      /\ tline' = [tline EXCEPT ![t].ref = @ - 1, ![t].fences = @ \ {f}]
  BY DEF FenceRelease
<1>2. t \in Timeline
  BY <1>1, ThreadIs DEF ThreadOK, FenceIInv, RefInv, IdInv
<1> HIDE DEF t, f
<1>3. tline' = [tline EXCEPT ![t].ref = tline[t].ref - 1, ![t].fences = tline[t].fences \ {f}]
  BY <1>1, <1>2, TlineIs DEF TlineShape
<1>4. ListsSame
  BY <1>1, <1>2, <1>3, TlineRefFences, ListsKept
<1>5. KeepsWork(x)
  BY <1>1, GoesDying, SameStep
<1> QED BY <1>1, <1>4, <1>5, NothingChanges, ObjFrame

LEMMA ObjWalk ==
  ASSUME FenceIInv, ObjIInv, NEW x \in Thread,
         \/ SignalCollect(x) \/ SignalFence(x) \/ SignalUnlock(x)
         \/ DestroySteal(x) \/ DestroyLock(x) \/ DestroyFence(x) \/ DestroyUnlock(x)
  PROVE  ObjIInv'
<1> DEFINE t == th[x].tl
<1>1. UNCHANGED <<idr, obj>> /\ th[x].pc \in {"collect", "signaling", "steal", "relock", "failing"}
  BY DEF SignalCollect, SignalFence, SignalUnlock, DestroySteal, DestroyLock, DestroyFence,
         DestroyUnlock, At
<1>2. t \in Timeline
  BY <1>1, ThreadIs DEF ThreadOK, ValueSteps, DestroySteps
<1>3. th[x].pc \in {"steal", "relock", "failing"} => th[x].why # "retire"
  BY NotRetiring
<1>4. CASE SignalCollect(x)
  <2>1. PICK F, G : /\ tline' = [tline EXCEPT ![t].fences = F]
                    /\ th' = [th EXCEPT ![x].pc = "signaling", ![x].temp = G]
    <3>1. PICK G : /\ tline' = [tline EXCEPT ![t].fences = @ \ G]
                   /\ th' = [th EXCEPT ![x].pc = "signaling", ![x].temp = G]
      BY <1>4 DEF SignalCollect
    <3>2. tline' = [tline EXCEPT ![t].fences = tline[t].fences \ G]
      BY <1>2, <3>1, TlineIs DEF TlineShape
    <3> QED BY <3>1, <3>2
  <2>2. ListsSame
    BY <1>1, <1>2, <2>1, TlineFences, ListsKept
  <2>3. th[x].pc = "collect"
    BY <1>4 DEF SignalCollect, At
  <2>4. KeepsWork(x)
    BY <2>1, <2>3, GoesPcTemp, WalkOn
  <2> QED BY <1>1, <2>2, <2>4, NothingChanges, ObjFrame
<1>5. CASE SignalFence(x) \/ DestroyFence(x)
  <2>1. PICK f, s : FencePut(x, [th[x] EXCEPT !.temp = @ \ {f}], f, s)
    BY <1>5 DEF SignalFence, DestroyFence
  <2> DEFINE r == [th[x] EXCEPT !.temp = @ \ {f}]
  <2>2. IsThread(r) /\ r.pc = th[x].pc /\ r.why = th[x].why /\ r.todo = th[x].todo
        /\ r.tl = th[x].tl /\ r.o = th[x].o
    BY ThreadIs DEF IsThread, ThreadFields
  <2>3. FencePut(x, r, f, s)
    BY <2>1
  <2> HIDE DEF r
  <2>4. Goes(x, th[x].pc, th[x].why, th[x].todo, th[x].tl, th[x].o)
    BY <2>2, <2>3, GoesPut
  <2>5. UNCHANGED tline
    BY <1>5 DEF SignalFence, DestroyFence
  <2> QED BY <1>1, <2>4, <2>5, SameStep, NothingChanges, ObjFrame
<1>6. CASE SignalUnlock(x) \/ DestroyUnlock(x)
  <2>1. /\ tline' = [tline EXCEPT ![t].lock = Null]
        /\ th' = [th EXCEPT ![x].pc = "got"]
    BY <1>6 DEF SignalUnlock, DestroyUnlock
  <2>2. ListsSame
    BY <1>1, <1>2, <2>1, TlineLock, ListsKept
  <2>3. KeepsWork(x)
    BY <1>1, <2>1, GoesPc, WalkOn
  <2> QED BY <1>1, <2>2, <2>3, NothingChanges, ObjFrame
<1>7. CASE DestroySteal(x)
  <2>1. PICK G : /\ tline' = [tline EXCEPT ![t].fences = {}]
                 /\ th' = [th EXCEPT ![x].pc = "relock", ![x].temp = G]
    BY <1>7 DEF DestroySteal
  <2>2. ListsSame
    BY <1>1, <1>2, <2>1, TlineFences, ListsKept
  <2>3. th[x].pc = "steal"
    BY <1>7 DEF DestroySteal, At
  <2>4. KeepsWork(x)
    BY <1>3, <2>1, <2>3, GoesPcTemp, WalkOn
  <2> QED BY <1>1, <2>2, <2>4, NothingChanges, ObjFrame
<1>8. CASE DestroyLock(x)
  <2>1. /\ tline' = [tline EXCEPT ![t].lock = x] /\ th[x].pc = "relock"
        /\ th' = [th EXCEPT ![x].pc = "failing"]
    BY <1>8 DEF DestroyLock, At
  <2>2. ListsSame
    BY <1>1, <1>2, <2>1, TlineLock, ListsKept
  <2>3. KeepsWork(x)
    BY <1>3, <2>1, GoesPc, WalkOn
  <2> QED BY <1>1, <2>2, <2>3, NothingChanges, ObjFrame
<1> QED BY <1>4, <1>5, <1>6, <1>7, <1>8

LEMMA ObjFencePoll ==
  ASSUME FenceIInv, ObjIInv, NEW f \in Fence, FencePoll(f)
  PROVE  ObjIInv'
<1>1. KeepsWork(Null)
  BY TimelineAssumption DEF FencePoll, KeepsWork, KeepsSide, Others
<1> QED BY <1>1, NothingChanges, ObjFrame DEF FencePoll

-----------------------------------------------------------------------------
(* A value is done; a value is signaled.                                   *)

LEMMA ObjValueDone ==
  ASSUME FenceIInv, ObjIInv, NEW x \in Thread, ValueDone(x)
  PROVE  ObjIInv'
<1> DEFINE rest == Tail(th[x].todo)
           next == AfterValue(th[x].why, rest)
           tl == IF next = "retire" THEN rest[1].tl ELSE Null
<1>1. /\ th[x].pc = "got" /\ tline' = TimelinePut(th[x].tl)
      /\ th' = [th EXCEPT ![x].pc = next, ![x].todo = rest, ![x].tl = tl]
      /\ UNCHANGED <<idr, fence, files, obj>> /\ th[x].why # "fence_get"
  BY DEF ValueDone, At
<1>2. /\ th[x].tl \in Timeline /\ th[x].todo \in Seq(Val) /\ th[x].todo # <<>>
      /\ th[x].why \in {"filed", "unfiled", "wait", "failed", "signal", "retire", "destroy"}
      /\ WorkOK(th[x])
  BY <1>1, ThreadIs DEF ThreadOK, Agree, ValueSteps, ObjIInv
<1>3. ListsSame
  BY <1>1, <1>2, TlinePuts, ListsKept
<1>4. Goes(x, next, th[x].why, rest, tl, th[x].o)
  BY <1>1, GoesValue
<1>5. rest \in Seq(Val) /\ ToSet(rest) \subseteq ToSet(th[x].todo)
  BY <1>2, TailIsSeq, ToSetTail
<1>6. CASE th[x].why # "retire"
  <2>1. next \in {"unwind", "lookup", "waiting"} /\ tl = Null
    BY <1>2, <1>6 DEF AfterValue
  <2>2. KeepsWork(x)
    BY <1>1, <1>4, <1>6, <2>1, AsideStep DEF Aside, SchedSteps, ValueSteps, DestroySteps
  <2> QED BY <1>1, <1>3, <2>2, NothingChanges, ObjFrame
<1>7. CASE th[x].why = "retire"
  <2>1. next = IF rest = <<>> THEN "retired" ELSE "retire"
    BY <1>7 DEF AfterValue
  <2>2. WorkOK(th'[x])
    <3>1. CASE rest = <<>>
      BY <1>4, <1>7, <2>1, <3>1 DEF Goes, WorkOK, ValueSteps, DestroySteps
    <3>2. CASE rest # <<>>
      <4>1. tl = Head(rest).tl /\ tl \in Timeline
        <5>1. tl = rest[1].tl
          BY <2>1, <3>2
        <5> HIDE DEF rest, tl
        <5>2. Head(rest).tl \in Timeline
          BY <1>5, <3>2, FirstValue
        <5>3. rest[1] = Head(rest)
          BY <1>5, <3>2
        <5> QED BY <5>1, <5>2, <5>3
      <4> QED BY <1>4, <1>7, <2>1, <3>2, <4>1, TimelineAssumption
              DEF Goes, WorkOK, ValueSteps
    <3> QED BY <3>1, <3>2
  <2>3. Left(th[x]) = rest /\ Left(th'[x]) = rest
    BY <1>1, <1>4, <2>1 DEF Left, Goes
  <2>4. KeepsWork(x)
    BY <1>1, <1>4, <1>5, <2>1, <2>2, <2>3 DEF KeepsWork, KeepsSide, Goes, Others, Aside, SchedSteps
  <2> QED BY <1>1, <1>3, <2>4, NothingChanges, ObjFrame
<1> QED BY <1>6, <1>7

LEMMA ObjSignalValue ==
  ASSUME FenceIInv, ObjIInv, NEW x \in Thread, SignalValue(x)
  PROVE  ObjIInv'
<1> DEFINE t == th[x].tl   v == Head(th[x].todo)   q == v.seq
           E == tline[t].events
           S == [o : Obj, seq : Seqno]
<1>1. th[x].pc \in {"signal", "retire"} /\ UNCHANGED <<idr, fence, files, obj>>
  BY DEF SignalValue, At
<1>2. /\ t \in Timeline /\ th[x].todo \in Seq(Val) /\ th[x].todo # <<>>
      /\ v \in Val /\ q \in Seqno /\ WorkOK(th[x])
      /\ th[x].why \in {"signal", "retire"}
      /\ th[x].pc = "signal" => th[x].why = "signal"
  <2>1. /\ t \in Timeline /\ th[x].todo \in Seq(Val) /\ th[x].todo # <<>>
        /\ th[x].why \in {"signal", "retire"} /\ (th[x].pc = "signal" => th[x].why = "signal")
    BY <1>1, ThreadIs DEF ThreadOK, Agree, ValueSteps
  <2> QED BY <2>1, FirstValue DEF ObjIInv
<1>3. E \in Seq(S) /\ tline[t].value \in Seqno /\ InOrder(E, tline[t].value)
  BY <1>2, TlineIs DEF TlineOK, ObjIInv, EventInv
<1>4. PICK pc, value, F :
        /\ pc \in {"got", "collect"} /\ th' = [th EXCEPT ![x].pc = pc]
        /\ TlineGoes(t, tline[t].ref, value, F)
        /\ F \in Seq(S) /\ InOrder(F, value)
        /\ ToSet(F) \subseteq ToSet(E) /\ \A e \in ToSet(F) : e.seq > q
  <2>1. CASE q < tline[t].value /\ th' = [th EXCEPT ![x].pc = "got"] /\ UNCHANGED tline
    <3>1. TlineGoes(t, tline[t].ref, tline[t].value, E)
      BY <2>1 DEF TlineGoes
    <3>2. ASSUME NEW e \in ToSet(E) PROVE e.seq > q
      <4>1. PICK i \in DOMAIN E : e = E[i]
        BY <3>2 DEF ToSet
      <4>2. e.seq > tline[t].value /\ e.seq \in Seqno
        BY <1>2, <1>3, <4>1, EventIs DEF InOrder
      <4>3. Seqno \subseteq Nat
        BY TimelineAssumption DEF Seqno
      <4> QED BY <1>2, <1>3, <2>1, <4>2, <4>3
    <3> QED BY <1>3, <2>1, <3>1, <3>2
  <2>2. CASE /\ tline' = [tline EXCEPT ![t].lock = x, ![t].value = q,
                            ![t].events = SubSeq(@, RetiredPrefix(@, q) + 1, Len(@))]
             /\ th' = [th EXCEPT ![x].pc = "collect"]
    <3> DEFINE F == SubSeq(E, RetiredPrefix(E, q) + 1, Len(E))
    <3>1. F \in Seq(S) /\ InOrder(F, q) /\ ToSet(F) = {e \in ToSet(E) : e.seq > q}
      BY <1>2, <1>3, PrefixRetired
    <3>2. tline' = [tline EXCEPT ![t].lock = x, ![t].value = q, ![t].events = F]
      BY <1>2, <2>2, TlineIs DEF TlineShape, IsTline, TlineFields
    <3> HIDE DEF F
    <3>3. TlineGoes(t, tline[t].ref, q, F)
      BY <1>2, <3>2, TlineAdvances
    <3> QED BY <2>2, <3>1, <3>3
  <2> QED BY <2>1, <2>2 DEF SignalValue
<1> HIDE DEF E, v, t, q
<1>5. Goes(x, pc, th[x].why, th[x].todo, t, th[x].o)
  BY <1>4, GoesPc DEF t
<1>6. KeepsSide(x)
  <2>1. WorkOK(th'[x])
    BY <1>1, <1>2, <1>4, <1>5 DEF Goes, WorkOK, ValueSteps, t
  <2> QED BY <1>1, <1>4, <1>5, <2>1 DEF KeepsSide, Goes, Others, Aside, SchedSteps
<1>7. ObjsSame /\ IdsKept
  BY <1>1 DEF ObjsSame, IdsKept
<1>8. (\A y \in Thread : WorkOK(th'[y])) /\ OneSide' /\ SideInv' /\ ArrayInv'
  BY <1>6, <1>7, SideFrame
<1>9. EventInv'
  <2> SUFFICES ASSUME NEW u \in Timeline
               PROVE  /\ tline'[u].events \in Seq(S)
                      /\ InOrder(tline'[u].events, tline'[u].value)
                      /\ \A e \in ToSet(tline'[u].events) :
                           /\ [tl |-> u, seq |-> e.seq] \in ToSet(obj'[e.o].vals)
                           /\ obj'[e.o].st = "done"
                           /\ \A y \in Thread : Retires(y, e.o)' =>
                                [tl |-> u, seq |-> e.seq] \in ToSet(Left(th'[y]))
    BY DEF EventInv
  <2>1. /\ tline'[u].events \in Seq(S)
        /\ InOrder(tline'[u].events, tline'[u].value)
        /\ ToSet(tline'[u].events) \subseteq ToSet(tline[u].events)
        /\ u = t => \A e \in ToSet(tline'[u].events) : e.seq > q
    <3>1. CASE u = t
      BY <1>2, <1>4, <3>1 DEF TlineGoes, E
    <3>2. CASE u # t
      BY <1>2, <1>4, <3>2 DEF TlineGoes, ObjIInv, EventInv
    <3> QED BY <3>1, <3>2
  <2>2. ASSUME NEW e \in ToSet(tline'[u].events)
        PROVE  /\ [tl |-> u, seq |-> e.seq] \in ToSet(obj'[e.o].vals)
               /\ obj'[e.o].st = "done"
    BY <1>1, <2>1, <2>2 DEF ObjIInv, EventInv
  <2>3. ASSUME NEW e \in ToSet(tline'[u].events), NEW y \in Thread, Retires(y, e.o)'
        PROVE  [tl |-> u, seq |-> e.seq] \in ToSet(Left(th'[y]))
    <3> DEFINE w == [tl |-> u, seq |-> e.seq]
    <3>1. Retires(y, e.o)
      BY <1>5, <2>3 DEF Retires, Goes
    <3>2. w \in ToSet(Left(th[y]))
      BY <2>1, <3>1 DEF ObjIInv, EventInv
    <3>3. CASE y # x
      BY <1>5, <3>2, <3>3 DEF Goes
    <3>4. CASE y = x
      <4>1. th[x].why = "retire" /\ th[x].pc = "retire"
        BY <1>1, <1>2, <3>1, <3>4 DEF Retires
      <4>2. Left(th[x]) = th[x].todo /\ Left(th'[x]) = Tail(th[x].todo) /\ t = v.tl
        BY <1>2, <1>4, <1>5, <4>1 DEF Left, Goes, WorkOK, t, v
      <4>3. w = v \/ w \in ToSet(Tail(th[x].todo))
        BY <1>2, <3>2, <3>4, <4>2, ToSetTail DEF v
      <4>4. w # v
        <5> SUFFICES ASSUME w = v PROVE FALSE
          OBVIOUS
        <5>1. u = t /\ e.seq = q
          BY <4>2 DEF q
        <5>2. q \in Nat
          BY <1>2, TimelineAssumption DEF Seqno
        <5> QED BY <2>1, <5>1, <5>2
      <4> QED BY <3>4, <4>2, <4>3, <4>4
    <3> QED BY <3>3, <3>4
  <2> QED BY <2>1, <2>2, <2>3
<1> QED BY <1>8, <1>9 DEF ObjIInv

LEMMA ObjTimestampRetires ==
  ASSUME FenceIInv, ObjIInv, NEW n \in Obj, TimestampRetires(n)
  PROVE  ObjIInv'
<1>1. KeepsWork(Null)
  BY TimelineAssumption DEF TimestampRetires, KeepsWork, KeepsSide, Others
<1>2. ObjShape
  BY DEF FenceIInv, StateShape
<1>3. ObjsSame
  BY <1>2 DEF TimestampRetires, ObjsSame, ObjShape, IsObj, ObjFields
<1> QED BY <1>1, <1>3, NothingChanges, ObjFrame DEF TimestampRetires

-----------------------------------------------------------------------------
(* Steps that change one timeline object.                                  *)

\* The invariant, as far as object n is concerned.
SideAt(n) ==
  /\ obj[n].st \in {"none", "filling", "queued", "done"}
  /\ obj[n].sig = Bit(SchedPending(n)) + Bit(EventPending(n))
  /\ obj[n].st = "none" => ~SchedPending(n) /\ obj[n].vals = <<>>
  /\ obj[n].st \in {"none", "filling"} => ~EventPending(n)
  /\ \A y \in Thread : th[y].o = n =>
       /\ th[y].pc \in {"fill", "empty"} => obj[n].st = "filling"
       /\ th[y].pc = "announce" => obj[n].st = "done"
       /\ th[y].pc = "announced" => obj[n].event = "fired"
       /\ th[y].why = "retire" => obj[n].sig = 0 /\ obj[n].st = "done"
  /\ \A y, z \in Thread : th[y].o = n /\ th[z].o = n =>
       /\ th[y].pc \in SchedSteps /\ th[z].pc \in SchedSteps => y = z
       /\ th[y].pc = "announced" /\ th[z].pc = "announced" => y = z
       /\ th[y].why = "retire" /\ th[z].why = "retire" => y = z

ArrayAt(n) ==
  /\ \A v \in ToSet(obj[n].vals) : idr[v.tl] # "none"
  /\ \A y \in Thread : th[y].o = n /\ (th[y].pc = "announce" \/ th[y].why = "retire")
       => ToSet(th[y].todo) \subseteq ToSet(obj[n].vals)

EventAt(n) ==
  \A t \in Timeline : \A e \in ToSet(tline[t].events) : e.o = n =>
    /\ [tl |-> t, seq |-> e.seq] \in ToSet(obj[n].vals)
    /\ obj[n].st = "done"
    /\ \A y \in Thread : Retires(y, n) => [tl |-> t, seq |-> e.seq] \in ToSet(Left(th[y]))

WorksFor(r, n) == ~Aside(r) \/ r.why = "retire" => r.o = n

LEMMA AtObj ==
  ASSUME ObjIInv, NEW n \in Obj
  PROVE  SideAt(n) /\ ArrayAt(n) /\ EventAt(n)
<1>1. SideAt(n)
  BY DEF ObjIInv, SideInv, OneSide, SideAt
<1>2. ArrayAt(n)
  BY DEF ObjIInv, ArrayInv, ArrayAt
<1>3. EventAt(n)
  BY DEF ObjIInv, EventInv, EventAt
<1> QED BY <1>1, <1>2, <1>3

LEMMA OneObjStep ==
  ASSUME FenceIInv, ObjIInv, NEW x \in Thread, NEW n \in Obj,
         Others(x), WorkOK(th'[x]), WorksFor(th[x], n), WorksFor(th'[x], n),
         \A m \in Obj \ {n} : obj'[m] = obj[m],
         UNCHANGED idr, \A t \in Timeline : tline'[t].events = tline[t].events,
         \A t \in Timeline : tline'[t].value = tline[t].value,
         SideAt(n)', ArrayAt(n)', EventAt(n)'
  PROVE  ObjIInv'
<1>1. \A y \in Thread : WorkOK(th'[y])
  BY DEF ObjIInv, Others
<1>2. ASSUME NEW y \in Thread, ~Aside(th'[y]) \/ th'[y].why = "retire"
      PROVE  th'[y].o \in Obj
  <2>1. CASE y = x
    BY <1>2, <2>1 DEF WorksFor
  <2>2. CASE y # x
    BY <1>2, <2>2, WorksOn DEF Others
  <2> QED BY <2>1, <2>2
<1>3. ASSUME NEW m \in Obj \ {n}, NEW y \in Thread
      PROVE  /\ (th'[y].pc \in SchedSteps /\ th'[y].o = m) <=> (th[y].pc \in SchedSteps /\ th[y].o = m)
             /\ (th'[y].pc = "announced" /\ th'[y].o = m) <=> (th[y].pc = "announced" /\ th[y].o = m)
             /\ (th'[y].why = "retire" /\ th'[y].o = m) <=> (th[y].why = "retire" /\ th[y].o = m)
             /\ th'[y].o = m /\ (~Aside(th'[y]) \/ th'[y].why = "retire") => th'[y] = th[y]
  <2>1. CASE y = x
    BY <2>1 DEF WorksFor, Aside
  <2>2. CASE y # x
    BY <2>2 DEF Others
  <2> QED BY <2>1, <2>2
<1>4. ASSUME NEW m \in Obj \ {n}
      PROVE  SideAt(m)' /\ ArrayAt(m)' /\ EventAt(m)'
  <2>1. SideAt(m) /\ ArrayAt(m) /\ EventAt(m) /\ obj'[m] = obj[m]
    BY AtObj
  <2>2. (SchedPending(m)' <=> SchedPending(m)) /\ (EventPending(m)' <=> EventPending(m))
    BY <1>3, <2>1 DEF SchedPending, EventPending
  <2>3. SideAt(m)'
    <3>1. /\ obj'[m].st \in {"none", "filling", "queued", "done"}
          /\ obj'[m].sig = Bit(SchedPending(m)') + Bit(EventPending(m)')
          /\ obj'[m].st = "none" => ~SchedPending(m)' /\ obj'[m].vals = <<>>
          /\ obj'[m].st \in {"none", "filling"} => ~EventPending(m)'
      BY <2>1, <2>2 DEF SideAt, Bit
    <3>2. \A y \in Thread : th'[y].o = m =>
             /\ th'[y].pc \in {"fill", "empty"} => obj'[m].st = "filling"
             /\ th'[y].pc = "announce" => obj'[m].st = "done"
             /\ th'[y].pc = "announced" => obj'[m].event = "fired"
             /\ th'[y].why = "retire" => obj'[m].sig = 0 /\ obj'[m].st = "done"
      BY <1>3, <2>1 DEF SideAt, Aside, SchedSteps
    <3>3. \A y, z \in Thread : th'[y].o = m /\ th'[z].o = m =>
            /\ th'[y].pc \in SchedSteps /\ th'[z].pc \in SchedSteps => y = z
            /\ th'[y].pc = "announced" /\ th'[z].pc = "announced" => y = z
            /\ th'[y].why = "retire" /\ th'[z].why = "retire" => y = z
      BY <1>3, <2>1 DEF SideAt
    <3> QED BY <3>1, <3>2, <3>3 DEF SideAt
  <2>4. ArrayAt(m)'
    BY <1>3, <2>1 DEF ArrayAt, Aside, SchedSteps
  <2>5. EventAt(m)'
    <3>1. \A y \in Thread : Retires(y, m)' => Retires(y, m) /\ th'[y] = th[y]
      BY <1>3 DEF Retires
    <3> QED BY <2>1, <3>1 DEF EventAt
  <2> QED BY <2>3, <2>4, <2>5
<1>5. \A m \in Obj : SideAt(m)' /\ ArrayAt(m)' /\ EventAt(m)'
  BY <1>4
<1>6. OneSide'
  BY <1>2, <1>5 DEF OneSide, SideAt, Aside, SchedSteps
<1>7. SideInv'
  <2>1. \A m \in Obj :
          /\ obj'[m].st \in {"none", "filling", "queued", "done"}
          /\ obj'[m].sig = Bit(SchedPending(m)') + Bit(EventPending(m)')
          /\ obj'[m].st = "none" => ~SchedPending(m)' /\ obj'[m].vals = <<>>
          /\ obj'[m].st \in {"none", "filling"} => ~EventPending(m)'
    BY <1>5 DEF SideAt
  <2>2. \A y \in Thread :
          /\ th'[y].pc \in {"fill", "empty"} => obj'[th'[y].o].st = "filling"
          /\ th'[y].pc = "announce" => obj'[th'[y].o].st = "done"
          /\ th'[y].pc = "announced" => obj'[th'[y].o].event = "fired"
          /\ th'[y].why = "retire" => obj'[th'[y].o].sig = 0 /\ obj'[th'[y].o].st = "done"
    BY <1>2, <1>5 DEF SideAt, Aside, SchedSteps
  <2> QED BY <2>1, <2>2 DEF SideInv
<1>8. ArrayInv'
  BY <1>2, <1>5 DEF ArrayInv, ArrayAt, Aside, SchedSteps
<1>9. EventInv'
  <2> SUFFICES ASSUME NEW t \in Timeline
               PROVE  /\ tline'[t].events \in Seq([o : Obj, seq : Seqno])
                      /\ InOrder(tline'[t].events, tline'[t].value)
                      /\ \A e \in ToSet(tline'[t].events) :
                           /\ [tl |-> t, seq |-> e.seq] \in ToSet(obj'[e.o].vals)
                           /\ obj'[e.o].st = "done"
                           /\ \A y \in Thread : Retires(y, e.o)' =>
                                [tl |-> t, seq |-> e.seq] \in ToSet(Left(th'[y]))
    BY DEF EventInv
  <2>1. /\ tline'[t].events \in Seq([o : Obj, seq : Seqno])
        /\ InOrder(tline'[t].events, tline'[t].value)
    BY DEF ObjIInv, EventInv
  <2>2. ASSUME NEW e \in ToSet(tline'[t].events)
        PROVE  /\ [tl |-> t, seq |-> e.seq] \in ToSet(obj'[e.o].vals)
               /\ obj'[e.o].st = "done"
               /\ \A y \in Thread : Retires(y, e.o)' =>
                    [tl |-> t, seq |-> e.seq] \in ToSet(Left(th'[y]))
    <3>1. e.o \in Obj
      BY EventIs
    <3> QED BY <1>5, <3>1 DEF EventAt
  <2> QED BY <2>1, <2>2
<1> QED BY <1>1, <1>6, <1>7, <1>8, <1>9 DEF ObjIInv

-----------------------------------------------------------------------------
(* The life of a timeline object.                                          *)

\* Object n changes, and no other.
ObjGoes(n, st, sig, vals, event) ==
  /\ \A m \in Obj \ {n} : obj'[m] = obj[m]
  /\ obj'[n].st = st /\ obj'[n].sig = sig /\ obj'[n].vals = vals /\ obj'[n].event = event

ListsStay ==
  /\ UNCHANGED idr
  /\ \A t \in Timeline : tline'[t].events = tline[t].events
  /\ \A t \in Timeline : tline'[t].value = tline[t].value

LEMMA ListsStayed ==
  ASSUME NEW t \in Timeline, NEW n, TlineGoes(t, n, tline[t].value, tline[t].events),
         UNCHANGED idr
  PROVE  ListsStay
BY DEF TlineGoes, ListsStay

LEMMA ObjIs ==
  ASSUME FenceIInv, NEW n \in Obj
  PROVE  ObjShape /\ IsObj(obj[n])
BY DEF FenceIInv, StateShape, ObjShape

LEMMA Bits ==
  ASSUME NEW n \in Obj, SideAt(n)
  PROVE  /\ obj[n].sig \in 0..2
         /\ SchedPending(n) \/ EventPending(n) => obj[n].sig > 0
         /\ SchedPending(n) /\ EventPending(n) <=> obj[n].sig = 2
BY DEF SideAt, Bit

\* No event of an object is on a list before it is done, nor any thread that
\* announces or retires it.
LEMMA NotDone ==
  ASSUME NEW n \in Obj, SideAt(n), EventAt(n), obj[n].st # "done"
  PROVE  /\ \A t \in Timeline : \A e \in ToSet(tline[t].events) : e.o # n
         /\ \A y \in Thread : th[y].o = n => th[y].pc # "announce" /\ th[y].why # "retire"
BY DEF SideAt, EventAt

LEMMA ObjObjCreate ==
  ASSUME FenceIInv, ObjIInv, NEW x \in Thread, NEW n \in Obj, NEW vals \in Arrays,
         ObjCreate(x, n, vals)
  PROVE  ObjIInv'
<1> USE DEF ObjCreate, At
<1> DEFINE s == [Idle EXCEPT !.pc = "fill", !.why = "aux", !.todo = vals, !.o = n]
<1>1. IsThread(s) /\ s.pc = "fill" /\ s.why = "aux" /\ s.todo = vals /\ s.tl = Null /\ s.o = n
  BY IdleIsThread, IdleFields DEF IsThread, ThreadFields
<1>2. th' = [th EXCEPT ![x] = s]
  OBVIOUS
<1> HIDE DEF s
<1>3. Goes(x, "fill", "aux", vals, Null, n)
  <2>1. Goes(x, s.pc, s.why, s.todo, s.tl, s.o)
    BY <1>1, <1>2, GoesTo
  <2> QED BY <1>1, <2>1 DEF Goes
<1>4. ObjGoes(n, "filling", 1, obj[n].vals, obj[n].event)
  BY ObjIs DEF ObjGoes, ObjShape, IsObj, ObjFields
<1>5. SideAt(n) /\ ArrayAt(n) /\ EventAt(n) /\ obj[n].st = "none"
  BY AtObj
<1>6. ~SchedPending(n) /\ ~EventPending(n) /\ obj[n].vals = <<>>
  BY <1>5 DEF SideAt
<1>7. /\ \A t \in Timeline : \A e \in ToSet(tline[t].events) : e.o # n
      /\ \A y \in Thread : th[y].o = n => th[y].pc # "announce" /\ th[y].why # "retire"
  BY <1>5, NotDone
<1>8. WorkOK(th'[x]) /\ WorksFor(th[x], n) /\ WorksFor(th'[x], n)
  BY <1>3, NotRetiring DEF Goes, WorkOK, WorksFor, Aside, SchedSteps, ValueSteps, DestroySteps
<1>9. \A y \in Thread \ {x} : th'[y] = th[y]
                              /\ (th[y].o = n => th[y].pc \notin SchedSteps \cup {"announced"})
  BY <1>3, <1>6 DEF Goes, SchedPending, EventPending
<1>10. SchedPending(n)' /\ ~EventPending(n)'
  BY <1>3, <1>4, <1>6, <1>9 DEF Goes, ObjGoes, SchedPending, EventPending, SchedSteps
<1>11. SideAt(n)'
  <2>1. /\ obj'[n].st = "filling" /\ obj'[n].sig = 1
        /\ obj'[n].sig = Bit(SchedPending(n)') + Bit(EventPending(n)')
    BY <1>4, <1>10 DEF ObjGoes, Bit
  <2>2. \A y \in Thread : th'[y].o = n =>
          th'[y].pc \notin {"announce", "announced"} /\ th'[y].why # "retire"
    BY <1>3, <1>7, <1>9 DEF Goes
  <2>3. \A y \in Thread : th'[y].o = n /\ th'[y].pc \in SchedSteps => y = x
    BY <1>9
  <2> QED BY <1>10, <2>1, <2>2, <2>3 DEF SideAt
<1>12. ArrayAt(n)'
  BY <1>3, <1>4, <1>6, <1>7, <1>9, ToSetEmpty DEF ArrayAt, Goes, ObjGoes
<1>13. EventAt(n)'
  BY <1>7 DEF EventAt
<1> QED BY <1>3, <1>4, <1>8, <1>11, <1>12, <1>13, OneObjStep DEF Goes, Others, ObjGoes

\* The scheduler's thread goes on with object n, which is not done yet.
LEMMA FillStep ==
  ASSUME FenceIInv, ObjIInv, NEW x \in Thread, NEW n \in Obj, n = th[x].o,
         th[x].pc \in {"fill", "empty"},
         NEW pc \in {"fill", "empty"}, NEW todo, NEW vals,
         Goes(x, pc, th[x].why, todo, th[x].tl, n),
         pc = "empty" => todo = <<>>,
         ObjGoes(n, obj[n].st, obj[n].sig, vals, obj[n].event),
         \A v \in ToSet(vals) : idr[v.tl] # "none",
         ListsStay
  PROVE  ObjIInv'
<1>1. SideAt(n) /\ ArrayAt(n) /\ EventAt(n)
  BY AtObj
<1>2. obj[n].st = "filling" /\ th[x].why # "retire" /\ th[x].tl = Null
  BY <1>1, NotRetiring DEF SideAt, ValueSteps, DestroySteps
<1>3. /\ \A t \in Timeline : \A e \in ToSet(tline[t].events) : e.o # n
      /\ \A y \in Thread : th[y].o = n => th[y].pc # "announce" /\ th[y].why # "retire"
  BY <1>1, <1>2, NotDone
<1>4. WorkOK(th'[x]) /\ WorksFor(th[x], n) /\ WorksFor(th'[x], n)
  BY <1>2 DEF Goes, WorkOK, WorksFor, Aside, SchedSteps, ValueSteps, DestroySteps
<1>5. /\ \A y \in Thread : th'[y].o = n <=> th[y].o = n
      /\ \A y \in Thread : th'[y].pc \in SchedSteps <=> th[y].pc \in SchedSteps
      /\ \A y \in Thread : th'[y].pc = "announced" <=> th[y].pc = "announced"
      /\ \A y \in Thread : th'[y].why = th[y].why
      /\ \A y \in Thread : th'[y].pc \in {"fill", "empty"} <=> th[y].pc \in {"fill", "empty"}
      /\ \A y \in Thread : th'[y].pc = "announce" <=> th[y].pc = "announce"
  BY DEF Goes, SchedSteps
<1>6. (SchedPending(n)' <=> SchedPending(n)) /\ (EventPending(n)' <=> EventPending(n))
  BY <1>5 DEF ObjGoes, SchedPending, EventPending
<1>7. SideAt(n)'
  <2>1. /\ obj'[n].st = "filling"
        /\ obj'[n].sig = Bit(SchedPending(n)') + Bit(EventPending(n)')
        /\ ~EventPending(n)'
    BY <1>1, <1>2, <1>6 DEF SideAt, ObjGoes, Bit
  <2>2. \A y \in Thread : th'[y].o = n =>
          th'[y].pc # "announce" /\ th'[y].pc # "announced" /\ th'[y].why # "retire"
    BY <1>1, <1>2, <1>3, <1>5 DEF SideAt, EventPending
  <2>3. \A y, z \in Thread : th'[y].o = n /\ th'[z].o = n =>
          (th'[y].pc \in SchedSteps /\ th'[z].pc \in SchedSteps => y = z)
    BY <1>1, <1>5 DEF SideAt
  <2> QED BY <2>1, <2>2, <2>3 DEF SideAt
<1>8. ArrayAt(n)'
  BY <1>3, <1>5 DEF ArrayAt, ObjGoes, ListsStay
<1>9. EventAt(n)'
  BY <1>3 DEF EventAt, ListsStay
<1> QED BY <1>4, <1>7, <1>8, <1>9, OneObjStep DEF Goes, Others, ObjGoes, ListsStay

LEMMA ObjObjFill ==
  ASSUME FenceIInv, ObjIInv, NEW x \in Thread, ObjFill(x)
  PROVE  ObjIInv'
<1> DEFINE v == Head(th[x].todo)   n == th[x].o
<1>1. th[x].pc = "fill" /\ th[x].todo # <<>> /\ UNCHANGED <<idr, fence, files>>
  BY DEF ObjFill, At
<1>2. v \in Val /\ v.tl \in Timeline /\ n \in Obj /\ obj[n].vals \in Seq(Val)
  BY <1>1, ThreadIs, FirstValue, ValsAre DEF ThreadOK, ObjSteps
<1>3. \A w \in ToSet(obj[n].vals) : idr[w.tl] # "none"
  BY <1>2 DEF ObjIInv, ArrayInv
<1>4. CASE /\ TimelineById(v.tl)
           /\ tline' = TimelineGet(v.tl)
           /\ obj' = [obj EXCEPT ![n].vals = Append(@, v)]
           /\ th' = [th EXCEPT ![x].todo = Tail(@)]
  <2>1. ListsStay
    BY <1>1, <1>2, <1>4, TlineGets, ListsStayed
  <2>2. ObjGoes(n, obj[n].st, obj[n].sig, Append(obj[n].vals, v), obj[n].event)
    BY <1>2, <1>4, ObjIs DEF ObjGoes, ObjShape, IsObj, ObjFields
  <2>3. \A w \in ToSet(Append(obj[n].vals, v)) : idr[w.tl] # "none"
    BY <1>2, <1>3, <1>4, ToSetAppend DEF TimelineById
  <2>4. th' = [th EXCEPT ![x].todo = Tail(th[x].todo)]
    BY <1>4 DEF FenceIInv, StateShape, ThreadShape
  <2>5. Goes(x, "fill", th[x].why, Tail(th[x].todo), th[x].tl, n)
    BY <1>1, <2>4, GoesTodo
  <2> QED BY <1>1, <1>2, <2>1, <2>2, <2>3, <2>5, FillStep
<1>5. CASE th' = [th EXCEPT ![x].pc = "empty", ![x].todo = <<>>] /\ UNCHANGED <<tline, obj>>
  <2>1. ListsStay
    BY <1>1, <1>5 DEF ListsStay
  <2>2. ObjGoes(n, obj[n].st, obj[n].sig, obj[n].vals, obj[n].event)
    BY <1>5 DEF ObjGoes
  <2>3. Goes(x, "empty", th[x].why, <<>>, th[x].tl, n)
    BY <1>5, GoesTodo
  <2> QED BY <1>1, <1>2, <1>3, <2>1, <2>2, <2>3, FillStep
<1> QED BY <1>4, <1>5 DEF ObjFill

LEMMA ObjObjAddEvent ==
  ASSUME FenceIInv, ObjIInv, NEW x \in Thread, ObjAddEvent(x)
  PROVE  ObjIInv'
<1>1. th[x].pc = "fill" /\ th[x].todo = <<>> /\ UNCHANGED <<idr, tline, fence, files>>
  BY DEF ObjAddEvent, At
<1>0. PICK n \in Obj : n = th[x].o
  BY <1>1, ThreadIs DEF ThreadOK, ObjSteps
<1>2. n \in Obj /\ n = th[x].o /\ ListsStay
  BY <1>0, <1>1 DEF ListsStay
<1>3. SideAt(n) /\ ArrayAt(n) /\ EventAt(n)
  BY <1>2, AtObj
<1>4. CASE /\ obj' = [obj EXCEPT ![n].count = Len(obj[n].vals), ![n].sig = 2,
                                 ![n].event = "armed", ![n].st = "queued"]
           /\ th' = [th EXCEPT ![x] = Idle]
  <2>1. ObjGoes(n, "queued", 2, obj[n].vals, "armed")
    BY <1>2, <1>4, ObjIs DEF ObjGoes, ObjShape, IsObj, ObjFields
  <2>2. Goes(x, "idle", "none", <<>>, Null, Null)
    BY <1>4, IdleGoes
  <2>3. WorkOK(th'[x]) /\ WorksFor(th[x], n) /\ WorksFor(th'[x], n)
    BY <1>1, <1>2, <2>2 DEF Goes, WorkOK, WorksFor, Aside, SchedSteps, ValueSteps, DestroySteps
  <2>4. obj[n].st = "filling" /\ ~EventPending(n)
    BY <1>1, <1>2, <1>3 DEF SideAt
  <2>5. /\ \A t \in Timeline : \A e \in ToSet(tline[t].events) : e.o # n
        /\ \A y \in Thread : th[y].o = n => th[y].pc # "announce" /\ th[y].why # "retire"
    BY <1>2, <1>3, <2>4, NotDone
  <2>6. \A y \in Thread : th'[y].o = n =>
          th'[y].pc \notin SchedSteps \cup {"announced"} /\ th'[y].why # "retire"
    <3>1. CASE \E y \in Thread : y = x /\ th'[y].o = n
      BY <2>2, <3>1, <1>2, TimelineAssumption DEF Goes
    <3>2. ASSUME NEW y \in Thread \ {x}, th[y].o = n
          PROVE  th[y].pc \notin SchedSteps \cup {"announced"} /\ th[y].why # "retire"
      BY <1>1, <1>2, <1>3, <2>4, <2>5, <3>2 DEF SideAt, EventPending, SchedSteps
    <3> QED BY <2>2, <3>1, <3>2 DEF Goes
  <2>7. SchedPending(n)' /\ EventPending(n)'
    BY <2>1 DEF ObjGoes, SchedPending, EventPending
  <2>8. SideAt(n)'
    BY <2>1, <2>6, <2>7 DEF SideAt, ObjGoes, Bit, SchedSteps
  <2>9. ArrayAt(n)'
    BY <1>2, <1>3, <2>1, <2>6 DEF ArrayAt, ObjGoes, SchedSteps, ListsStay
  <2>10. EventAt(n)'
    BY <1>2, <2>5 DEF EventAt, ListsStay
  <2> QED BY <1>2, <2>1, <2>2, <2>3, <2>8, <2>9, <2>10, OneObjStep
          DEF Goes, Others, ObjGoes, ListsStay
<1>5. CASE /\ obj' = [obj EXCEPT ![n].count = Len(obj[n].vals)]
           /\ th' = [th EXCEPT ![x].pc = "empty"]
  <2>1. ObjGoes(n, obj[n].st, obj[n].sig, obj[n].vals, obj[n].event)
    BY <1>2, <1>5, ObjIs DEF ObjGoes, ObjShape, IsObj, ObjFields
  <2>2. Goes(x, "empty", th[x].why, <<>>, th[x].tl, n)
    BY <1>1, <1>2, <1>5, GoesPc
  <2>3. \A w \in ToSet(obj[n].vals) : idr[w.tl] # "none"
    BY <1>3 DEF ArrayAt
  <2> QED BY <1>1, <1>2, <2>1, <2>2, <2>3, FillStep
<1> QED BY <1>2, <1>4, <1>5 DEF ObjAddEvent

LEMMA ObjObjEmpty ==
  ASSUME FenceIInv, ObjIInv, NEW x \in Thread, ObjEmpty(x)
  PROVE  ObjIInv'
<1>1. th[x].pc = "empty" /\ UNCHANGED <<idr, fence, files>> /\ th[x].todo = <<>>
  BY DEF ObjEmpty, At, ObjIInv, WorkOK
<1>0. PICK n \in Obj : n = th[x].o
  BY <1>1, ThreadIs DEF ThreadOK, ObjSteps
<1>2. n \in Obj /\ n = th[x].o /\ obj[n].vals \in Seq(Val)
  BY <1>0, ValsAre
<1>3. SideAt(n) /\ ArrayAt(n) /\ EventAt(n)
  BY <1>2, AtObj
<1>4. CASE /\ obj[n].vals # <<>>
           /\ tline' = TimelinePut(Head(obj[n].vals).tl)
           /\ obj' = [obj EXCEPT ![n].vals = Tail(@)]
           /\ UNCHANGED th
  <2>1. Head(obj[n].vals).tl \in Timeline /\ ToSet(Tail(obj[n].vals)) \subseteq ToSet(obj[n].vals)
    BY <1>2, <1>4, FirstValue, ToSetTail
  <2>2. ListsStay
    BY <1>1, <1>4, <2>1, TlinePuts, ListsStayed
  <2>3. ObjGoes(n, obj[n].st, obj[n].sig, Tail(obj[n].vals), obj[n].event)
    BY <1>2, <1>4, ObjIs DEF ObjGoes, ObjShape, IsObj, ObjFields
  <2>4. Goes(x, "empty", th[x].why, <<>>, th[x].tl, n)
    BY <1>1, <1>2, <1>4 DEF Goes
  <2>5. \A w \in ToSet(Tail(obj[n].vals)) : idr[w.tl] # "none"
    BY <1>3, <2>1 DEF ArrayAt
  <2> QED BY <1>1, <1>2, <2>2, <2>3, <2>4, <2>5, FillStep
<1>5. CASE /\ obj[n].vals = <<>>
           /\ obj' = [obj EXCEPT ![n].st = "done"]
           /\ th' = [th EXCEPT ![x].pc = "announce"]
           /\ UNCHANGED tline
  <2>1. ObjGoes(n, "done", obj[n].sig, <<>>, obj[n].event)
    BY <1>2, <1>5, ObjIs DEF ObjGoes, ObjShape, IsObj, ObjFields
  <2>2. Goes(x, "announce", th[x].why, <<>>, th[x].tl, n) /\ ListsStay
    BY <1>1, <1>2, <1>5, GoesPc DEF ListsStay
  <2>3. th[x].why # "retire" /\ th[x].tl = Null
    BY <1>1, NotRetiring DEF ValueSteps, DestroySteps
  <2>4. WorkOK(th'[x]) /\ WorksFor(th[x], n) /\ WorksFor(th'[x], n)
    BY <1>1, <1>2, <2>2, <2>3 DEF Goes, WorkOK, WorksFor, Aside, SchedSteps, ValueSteps, DestroySteps
  <2>5. obj[n].st = "filling" /\ ~EventPending(n)
    BY <1>1, <1>2, <1>3 DEF SideAt
  <2>6. /\ \A t \in Timeline : \A e \in ToSet(tline[t].events) : e.o # n
        /\ \A y \in Thread : th[y].o = n => th[y].pc # "announce" /\ th[y].why # "retire"
    BY <1>2, <1>3, <2>5, NotDone
  <2>7. \A y \in Thread : th'[y].o = n =>
          /\ th'[y].pc \notin {"fill", "empty", "announced"} /\ th'[y].why # "retire"
          /\ th'[y].pc \in SchedSteps => y = x
    <3>1. ASSUME NEW y \in Thread \ {x}, th[y].o = n
          PROVE  th[y].pc \notin SchedSteps \cup {"announced"} /\ th[y].why # "retire"
      BY <1>1, <1>2, <1>3, <2>5, <2>6, <3>1 DEF SideAt, EventPending, SchedSteps
    <3> QED BY <2>2, <2>3, <3>1 DEF Goes, SchedSteps
  <2>8. SchedPending(n) /\ SchedPending(n)' /\ ~EventPending(n)'
    BY <1>1, <1>2, <2>1, <2>2, <2>5, <2>7 DEF ObjGoes, Goes, SchedPending, EventPending, SchedSteps
  <2>9. SideAt(n)'
    <3>1. obj'[n].st = "done" /\ obj'[n].sig = Bit(SchedPending(n)') + Bit(EventPending(n)')
      BY <1>3, <2>1, <2>5, <2>8 DEF SideAt, ObjGoes, Bit
    <3> QED BY <2>7, <3>1 DEF SideAt
  <2>10. ArrayAt(n)'
    <3>1. \A y \in Thread : th'[y].o = n /\ (th'[y].pc = "announce" \/ th'[y].why = "retire")
            => y = x
      BY <2>7 DEF SchedSteps
    <3> QED BY <2>1, <2>2, <3>1, ToSetEmpty DEF ArrayAt, ObjGoes, Goes
  <2>11. EventAt(n)'
    BY <2>2, <2>6 DEF EventAt, ListsStay
  <2> QED BY <1>2, <2>1, <2>2, <2>4, <2>9, <2>10, <2>11, OneObjStep
          DEF Goes, Others, ObjGoes, ListsStay
<1> QED BY <1>2, <1>4, <1>5 DEF ObjEmpty

LEMMA ObjObjDestroy ==
  ASSUME FenceIInv, ObjIInv, NEW x \in Thread, NEW n \in Obj, ObjDestroy(x, n)
  PROVE  ObjIInv'
<1> USE DEF ObjDestroy, At
<1> DEFINE s == [Idle EXCEPT !.pc = "announce", !.why = "aux", !.o = n, !.todo = obj[n].vals]
<1>1. IsThread(s) /\ s.pc = "announce" /\ s.why = "aux" /\ s.todo = obj[n].vals /\ s.tl = Null
      /\ s.o = n
  BY IdleIsThread, IdleFields DEF IsThread, ThreadFields
<1>2. th' = [th EXCEPT ![x] = s]
  OBVIOUS
<1> HIDE DEF s
<1>3. Goes(x, "announce", "aux", obj[n].vals, Null, n) /\ ListsStay
  <2>1. Goes(x, s.pc, s.why, s.todo, s.tl, s.o)
    BY <1>1, <1>2, GoesTo
  <2> QED BY <1>1, <2>1 DEF Goes, ListsStay
<1>4. ObjGoes(n, "done", obj[n].sig, obj[n].vals, obj[n].event)
  BY ObjIs DEF ObjGoes, ObjShape, IsObj, ObjFields
<1>5. SideAt(n) /\ ArrayAt(n) /\ EventAt(n) /\ obj[n].st = "queued"
  BY AtObj
<1>6. /\ \A t \in Timeline : \A e \in ToSet(tline[t].events) : e.o # n
      /\ \A y \in Thread : th[y].o = n => th[y].pc # "announce" /\ th[y].why # "retire"
  BY <1>5, NotDone
<1>7. WorkOK(th'[x]) /\ WorksFor(th[x], n) /\ WorksFor(th'[x], n)
  BY <1>3, NotRetiring DEF Goes, WorkOK, WorksFor, Aside, SchedSteps, ValueSteps, DestroySteps
<1>8. \A y \in Thread \ {x} : /\ th'[y] = th[y]
                              /\ th[y].o = n => th[y].pc \notin SchedSteps
  BY <1>3, <1>5, <1>6 DEF Goes, SideAt, SchedSteps
<1>9. \A y \in Thread : th'[y].pc = "announced" /\ th'[y].o = n <=>
                        th[y].pc = "announced" /\ th[y].o = n
  BY <1>3 DEF Goes
<1>10. SchedPending(n) /\ SchedPending(n)' /\ (EventPending(n)' <=> EventPending(n))
  BY <1>3, <1>4, <1>5, <1>9 DEF Goes, ObjGoes, SchedPending, EventPending, SchedSteps
<1>11. SideAt(n)'
  <2>1. /\ obj'[n].st = "done"
        /\ obj'[n].sig = Bit(SchedPending(n)') + Bit(EventPending(n)')
    BY <1>4, <1>5, <1>10 DEF SideAt, ObjGoes, Bit
  <2>2. \A y \in Thread : th'[y].o = n =>
          /\ th'[y].pc \notin {"fill", "empty"} /\ th'[y].why # "retire"
          /\ th'[y].pc \in SchedSteps => y = x
          /\ th'[y].pc = "announced" => obj'[n].event = "fired"
    BY <1>3, <1>4, <1>5, <1>6, <1>8 DEF Goes, ObjGoes, SideAt, SchedSteps
  <2>3. \A y, z \in Thread : th'[y].o = n /\ th'[z].o = n
          /\ th'[y].pc = "announced" /\ th'[z].pc = "announced" => y = z
    BY <1>5, <1>9 DEF SideAt
  <2> QED BY <2>1, <2>2, <2>3 DEF SideAt
<1>12. ArrayAt(n)'
  BY <1>3, <1>4, <1>5, <1>6, <1>8 DEF ArrayAt, Goes, ObjGoes, ListsStay
<1>13. EventAt(n)'
  BY <1>6 DEF EventAt
<1> QED BY <1>3, <1>4, <1>7, <1>11, <1>12, <1>13, OneObjStep DEF Goes, Others, ObjGoes, ListsStay

LEMMA ObjTimelineSignaled ==
  ASSUME FenceIInv, ObjIInv, NEW x \in Thread, NEW n \in Obj, TimelineSignaled(x, n)
  PROVE  ObjIInv'
<1> USE DEF TimelineSignaled, At
<1> DEFINE s == [Idle EXCEPT !.pc = "announced", !.why = "aux", !.o = n]
<1>1. IsThread(s) /\ s.pc = "announced" /\ s.why = "aux" /\ s.todo = <<>> /\ s.tl = Null
      /\ s.o = n
  BY IdleIsThread, IdleFields DEF IsThread, ThreadFields
<1>2. th' = [th EXCEPT ![x] = s]
  OBVIOUS
<1> HIDE DEF s
<1>3. Goes(x, "announced", "aux", <<>>, Null, n) /\ ListsStay
  <2>1. Goes(x, s.pc, s.why, s.todo, s.tl, s.o)
    BY <1>1, <1>2, GoesTo
  <2> QED BY <1>1, <2>1 DEF Goes, ListsStay
<1>4. ObjGoes(n, obj[n].st, obj[n].sig, obj[n].vals, "fired")
  BY ObjIs DEF ObjGoes, ObjShape, IsObj, ObjFields
<1>5. SideAt(n) /\ ArrayAt(n) /\ EventAt(n) /\ obj[n].event = "armed" /\ EventPending(n)
  BY AtObj DEF EventPending
<1>6. obj[n].sig > 0 /\ obj[n].st \notin {"none", "filling"}
  BY <1>5, Bits DEF SideAt
<1>7. WorkOK(th'[x]) /\ WorksFor(th[x], n) /\ WorksFor(th'[x], n)
  BY <1>3, NotRetiring DEF Goes, WorkOK, WorksFor, Aside, SchedSteps, ValueSteps, DestroySteps
<1>8. \A y \in Thread \ {x} : /\ th'[y] = th[y]
                              /\ th[y].o = n => th[y].pc # "announced" /\ th[y].why # "retire"
  <2>1. \A y \in Thread : th[y].o = n /\ th[y].pc = "announced" => obj[n].event = "fired"
    BY <1>5 DEF SideAt
  <2>2. \A y \in Thread : th[y].o = n /\ th[y].why = "retire" => obj[n].sig = 0
    BY <1>5 DEF SideAt
  <2>3. obj[n].event # "fired" /\ obj[n].sig # 0
    BY <1>5, <1>6
  <2> QED BY <1>3, <2>1, <2>2, <2>3 DEF Goes
<1>9. \A y \in Thread : th'[y].pc \in SchedSteps /\ th'[y].o = n <=>
                        th[y].pc \in SchedSteps /\ th[y].o = n
  BY <1>3 DEF Goes, SchedSteps
<1>10. EventPending(n)' /\ (SchedPending(n)' <=> SchedPending(n))
  BY <1>3, <1>4, <1>9 DEF Goes, ObjGoes, SchedPending, EventPending
<1>11. SideAt(n)'
  <2>1. /\ obj'[n].st = obj[n].st /\ obj'[n].st \in {"queued", "done"}
        /\ obj'[n].sig = Bit(SchedPending(n)') + Bit(EventPending(n)')
    BY <1>4, <1>5, <1>6, <1>10 DEF SideAt, ObjGoes, Bit
  <2>2. \A y \in Thread : th'[y].o = n =>
          /\ th'[y].pc \in {"fill", "empty"} => obj'[n].st = "filling"
          /\ th'[y].pc = "announce" => obj'[n].st = "done"
          /\ th'[y].why # "retire"
          /\ th'[y].pc = "announced" => y = x /\ obj'[n].event = "fired"
    <3>1. \A y \in Thread : th[y].o = n =>
            /\ th[y].pc \in {"fill", "empty"} => obj[n].st = "filling"
            /\ th[y].pc = "announce" => obj[n].st = "done"
      BY <1>5 DEF SideAt
    <3>2. obj'[n].st = obj[n].st /\ obj'[n].event = "fired"
      BY <1>4 DEF ObjGoes
    <3>3. th'[x].pc = "announced" /\ th'[x].why = "aux"
      BY <1>3 DEF Goes
    <3> QED BY <1>8, <3>1, <3>2, <3>3
  <2>3. \A y, z \in Thread : th'[y].o = n /\ th'[z].o = n
          /\ th'[y].pc \in SchedSteps /\ th'[z].pc \in SchedSteps => y = z
    BY <1>5, <1>9 DEF SideAt
  <2> QED BY <2>1, <2>2, <2>3 DEF SideAt
<1>12. ArrayAt(n)'
  BY <1>3, <1>4, <1>5, <1>8 DEF ArrayAt, Goes, ObjGoes, ListsStay
<1>13. EventAt(n)'
  <2>1. \A y \in Thread : ~Retires(y, n)'
    BY <1>3, <1>8 DEF Goes, Retires
  <2> QED BY <1>3, <1>4, <1>5, <2>1 DEF EventAt, ObjGoes, ListsStay
<1> QED BY <1>3, <1>4, <1>7, <1>11, <1>12, <1>13, OneObjStep DEF Goes, Others, ObjGoes, ListsStay

LEMMA ObjTimelineobjRetire ==
  ASSUME FenceIInv, ObjIInv, NEW x \in Thread, TimelineobjRetire(x)
  PROVE  ObjIInv'
<1>1. /\ th[x].pc = "retired" /\ th' = [th EXCEPT ![x] = Idle]
      /\ UNCHANGED <<idr, tline, fence, files>>
  BY DEF TimelineobjRetire, At
<1>0. PICK n \in Obj : n = th[x].o
  BY <1>1, ThreadIs DEF ThreadOK, ObjSteps
<1>2. th[x].why = "retire" /\ th[x].todo = <<>> /\ th[x].o = n
  BY <1>0, <1>1, ThreadIs DEF ThreadOK, Agree, ObjIInv, WorkOK
<1>3. ObjGoes(n, obj[n].st, obj[n].sig, <<>>, obj[n].event)
  BY <1>0, ObjIs DEF TimelineobjRetire, ObjGoes, ObjShape, IsObj, ObjFields
<1>4. Goes(x, "idle", "none", <<>>, Null, Null) /\ ListsStay
  BY <1>1, IdleGoes DEF ListsStay
<1>5. SideAt(n) /\ ArrayAt(n) /\ EventAt(n) /\ obj[n].sig = 0 /\ obj[n].st = "done"
  BY <1>2, AtObj DEF SideAt
<1>6. ~SchedPending(n) /\ ~EventPending(n)
  BY <1>5, Bits
<1>7. WorkOK(th'[x]) /\ WorksFor(th[x], n) /\ WorksFor(th'[x], n)
  BY <1>2, <1>4 DEF Goes, WorkOK, WorksFor, ValueSteps, DestroySteps, Aside, SchedSteps
<1>8. \A y \in Thread : th'[y].o = n =>
        th'[y].pc \notin SchedSteps \cup {"announced"} /\ th'[y].why # "retire"
  <2>1. ASSUME NEW y \in Thread \ {x}, th[y].o = n
        PROVE  th[y].pc \notin SchedSteps \cup {"announced"} /\ th[y].why # "retire"
    BY <1>2, <1>5, <1>6, <2>1 DEF SideAt, SchedPending, EventPending
  <2> QED BY <1>4, <2>1, TimelineAssumption DEF Goes
<1>9. ~SchedPending(n)' /\ ~EventPending(n)'
  BY <1>3, <1>6, <1>8 DEF ObjGoes, SchedPending, EventPending
<1>10. SideAt(n)'
  <2>1. /\ obj'[n].st = "done"
        /\ obj'[n].sig = Bit(SchedPending(n)') + Bit(EventPending(n)')
    BY <1>3, <1>5, <1>9 DEF ObjGoes, Bit
  <2> QED BY <1>8, <2>1 DEF SideAt, SchedSteps
<1>11. ArrayAt(n)'
  BY <1>3, <1>8, ToSetEmpty DEF ArrayAt, ObjGoes, SchedSteps
<1>12. \A t \in Timeline : \A e \in ToSet(tline[t].events) : e.o # n
  <2> SUFFICES ASSUME NEW t \in Timeline, NEW e \in ToSet(tline[t].events), e.o = n PROVE FALSE
    OBVIOUS
  <2>1. [tl |-> t, seq |-> e.seq] \in ToSet(Left(th[x]))
    BY <1>2, <1>5 DEF EventAt, Retires
  <2>2. Left(th[x]) = <<>>
    BY <1>1, <1>2 DEF Left
  <2> QED BY <2>1, <2>2, ToSetEmpty
<1>13. EventAt(n)'
  BY <1>4, <1>12 DEF EventAt, ListsStay
<1> QED BY <1>3, <1>4, <1>7, <1>10, <1>11, <1>13, OneObjStep DEF Goes, Others, ObjGoes, ListsStay

LEMMA ObjTimelineobjSignal ==
  ASSUME FenceIInv, ObjIInv, NEW x \in Thread, TimelineobjSignal(x)
  PROVE  ObjIInv'
<1>1. /\ th[x].pc \in {"announce", "announced"} /\ UNCHANGED <<idr, tline, fence, files>>
  BY DEF TimelineobjSignal, At
<1>0. PICK n \in Obj : n = th[x].o
  BY <1>1, ThreadIs DEF ThreadOK, ObjSteps
<1>2. th[x].o = n /\ th[x].why # "retire" /\ ListsStay /\ obj[n].vals \in Seq(Val)
  BY <1>0, <1>1, NotRetiring, ValsAre DEF ListsStay
<1>3. ObjGoes(n, obj[n].st, obj[n].sig - 1, obj[n].vals, obj[n].event)
  BY <1>0, ObjIs DEF TimelineobjSignal, ObjGoes, ObjShape, IsObj, ObjFields
<1>4. SideAt(n) /\ ArrayAt(n) /\ EventAt(n)
  BY AtObj
<1>5. /\ th[x].pc = "announce" => SchedPending(n) /\ obj[n].st = "done"
      /\ th[x].pc = "announced" => EventPending(n) /\ obj[n].event = "fired"
  BY <1>2, <1>4 DEF SideAt, SchedPending, EventPending, SchedSteps
<1>6. obj[n].sig \in 1..2 /\ \A y \in Thread : th[y].o = n => th[y].why # "retire"
  BY <1>1, <1>4, <1>5, Bits DEF SideAt
<1>7. obj[n].st \in {"queued", "done"}
  BY <1>1, <1>4, <1>5 DEF SideAt
<1>8. PICK pc, why, todo, tl, m :
        /\ pc \in {"idle", "retire"}
        /\ Goes(x, pc, why, todo, tl, m)
        /\ pc = "idle" => why = "none" /\ tl = Null /\ m = Null
        /\ pc = "retire" => /\ why = "retire" /\ todo = obj[n].vals /\ todo # <<>>
                            /\ tl = Head(todo).tl /\ tl \in Timeline /\ m = n
                            /\ obj[n].sig = 1
  <2>1. CASE th' = [th EXCEPT ![x] = Idle]
    <3>1. Goes(x, "idle", "none", <<>>, Null, Null)
      BY <2>1, IdleGoes
    <3> WITNESS "idle", "none", <<>>, Null, Null
    <3> QED BY <3>1
  <2>2. CASE /\ obj[n].vals # <<>> /\ ~(obj[n].sig > 1)
             /\ th' = [th EXCEPT ![x] = [Idle EXCEPT !.pc = "retire", !.why = "retire", !.o = n,
                                         !.todo = obj[n].vals, !.tl = obj[n].vals[1].tl]]
    <3> DEFINE s == [Idle EXCEPT !.pc = "retire", !.why = "retire", !.o = n,
                                 !.todo = obj[n].vals, !.tl = obj[n].vals[1].tl]
    <3>1. IsThread(s) /\ s.pc = "retire" /\ s.why = "retire" /\ s.todo = obj[n].vals
          /\ s.tl = obj[n].vals[1].tl /\ s.o = n
      BY IdleIsThread, IdleFields DEF IsThread, ThreadFields
    <3>2. th' = [th EXCEPT ![x] = s]
      BY <2>2
    <3> HIDE DEF s
    <3>3. Goes(x, "retire", "retire", obj[n].vals, obj[n].vals[1].tl, n)
      <4>1. Goes(x, s.pc, s.why, s.todo, s.tl, s.o)
        BY <3>1, <3>2, GoesTo
      <4> QED BY <3>1, <4>1 DEF Goes
    <3>4. Head(obj[n].vals) = obj[n].vals[1] /\ Head(obj[n].vals).tl \in Timeline
      BY <1>2, <2>2, FirstValue
    <3>5. obj[n].sig = 1
      BY <1>6, <2>2
    <3> QED BY <2>2, <3>3, <3>4, <3>5
  <2> QED BY <1>2, <2>1, <2>2 DEF TimelineobjSignal
<1>9. WorkOK(th'[x]) /\ WorksFor(th[x], n) /\ WorksFor(th'[x], n)
  BY <1>2, <1>8, TimelineAssumption
     DEF Goes, WorkOK, WorksFor, ValueSteps, DestroySteps, Aside, SchedSteps
<1>10. /\ \A y \in Thread \ {x} : th'[y] = th[y]
       /\ \A y \in Thread : th'[y].o = n /\ th'[y].pc \in SchedSteps
            <=> y # x /\ th[y].o = n /\ th[y].pc \in SchedSteps
       /\ \A y \in Thread : th'[y].o = n /\ th'[y].pc = "announced"
            <=> y # x /\ th[y].o = n /\ th[y].pc = "announced"
       /\ \A y \in Thread : th'[y].o = n /\ th'[y].why = "retire" => y = x /\ pc = "retire"
  BY <1>6, <1>8 DEF Goes, SchedSteps
<1>11. obj'[n].sig = Bit(SchedPending(n)') + Bit(EventPending(n)')
  <2>1. CASE th[x].pc = "announce"
    <3>1. \A y \in Thread : ~(th'[y].o = n /\ th'[y].pc \in SchedSteps)
      BY <1>2, <1>4, <1>10, <2>1 DEF SideAt, SchedSteps
    <3>2. \A y \in Thread : th'[y].o = n /\ th'[y].pc = "announced"
            <=> th[y].o = n /\ th[y].pc = "announced"
      BY <1>10, <2>1
    <3>3. ~SchedPending(n)' /\ (EventPending(n)' <=> EventPending(n))
      BY <1>3, <1>5, <2>1, <3>1, <3>2 DEF ObjGoes, SchedPending, EventPending
    <3> QED BY <1>3, <1>4, <1>5, <2>1, <3>3 DEF SideAt, ObjGoes, Bit
  <2>2. CASE th[x].pc = "announced"
    <3>1. \A y \in Thread : ~(th'[y].o = n /\ th'[y].pc = "announced")
      BY <1>2, <1>4, <1>10, <2>2 DEF SideAt
    <3>2. \A y \in Thread : th'[y].o = n /\ th'[y].pc \in SchedSteps
            <=> th[y].o = n /\ th[y].pc \in SchedSteps
      BY <1>10, <2>2 DEF SchedSteps
    <3>3. ~EventPending(n)' /\ (SchedPending(n)' <=> SchedPending(n))
      BY <1>3, <1>5, <2>2, <3>1, <3>2 DEF ObjGoes, SchedPending, EventPending
    <3> QED BY <1>3, <1>4, <1>5, <2>2, <3>3 DEF SideAt, ObjGoes, Bit
  <2> QED BY <1>1, <2>1, <2>2
<1>12. pc = "retire" => obj'[n].sig = 0 /\ obj'[n].st = "done"
  <2> SUFFICES ASSUME pc = "retire" PROVE obj'[n].sig = 0 /\ obj'[n].st = "done"
    OBVIOUS
  <2>1. obj'[n].sig = 0
    BY <1>3, <1>8 DEF ObjGoes
  <2>2. ~SchedPending(n)'
    BY <1>11, <2>1 DEF Bit
  <2> QED BY <1>3, <1>7, <2>1, <2>2 DEF ObjGoes, SchedPending
<1>13. SideAt(n)'
  <2>1. obj'[n].st = obj[n].st /\ obj'[n].st \in {"queued", "done"} /\ obj'[n].event = obj[n].event
    BY <1>3, <1>7 DEF ObjGoes
  <2>2. \A y \in Thread : th'[y].o = n =>
          /\ th'[y].pc \notin {"fill", "empty"}
          /\ th'[y].pc = "announce" => obj'[n].st = "done"
          /\ th'[y].pc = "announced" => obj'[n].event = "fired"
          /\ th'[y].why = "retire" => obj'[n].sig = 0 /\ obj'[n].st = "done"
    BY <1>4, <1>10, <1>12, <2>1, <1>8 DEF SideAt, SchedSteps, Goes
  <2>3. \A y, z \in Thread : th'[y].o = n /\ th'[z].o = n =>
          /\ th'[y].pc \in SchedSteps /\ th'[z].pc \in SchedSteps => y = z
          /\ th'[y].pc = "announced" /\ th'[z].pc = "announced" => y = z
          /\ th'[y].why = "retire" /\ th'[z].why = "retire" => y = z
    BY <1>4, <1>10 DEF SideAt
  <2> QED BY <1>11, <2>1, <2>2, <2>3 DEF SideAt
<1>14. ArrayAt(n)'
  <2>1. \A v \in ToSet(obj'[n].vals) : idr'[v.tl] # "none"
    BY <1>2, <1>3, <1>4 DEF ArrayAt, ObjGoes, ListsStay
  <2>2. ASSUME NEW y \in Thread, th'[y].o = n, th'[y].pc = "announce"
        PROVE  ToSet(th'[y].todo) \subseteq ToSet(obj'[n].vals)
    <3>1. y # x /\ th[y].o = n /\ th[y].pc = "announce" /\ th'[y] = th[y]
      BY <1>10, <2>2 DEF SchedSteps
    <3> QED BY <1>3, <1>4, <3>1 DEF ArrayAt, ObjGoes
  <2>3. ASSUME NEW y \in Thread, th'[y].o = n, th'[y].why = "retire"
        PROVE  ToSet(th'[y].todo) \subseteq ToSet(obj'[n].vals)
    <3>1. y = x /\ pc = "retire"
      BY <1>10, <2>3
    <3> QED BY <1>3, <1>8, <3>1 DEF Goes, ObjGoes
  <2> QED BY <2>1, <2>2, <2>3 DEF ArrayAt
<1>15. EventAt(n)'
  <2>1. ASSUME NEW t \in Timeline, NEW e \in ToSet(tline'[t].events), e.o = n
        PROVE  [tl |-> t, seq |-> e.seq] \in ToSet(obj'[n].vals) /\ obj'[n].st = "done"
    BY <1>2, <1>3, <1>4, <2>1 DEF EventAt, ObjGoes, ListsStay
  <2>2. ASSUME NEW y \in Thread, Retires(y, n)'
        PROVE  Left(th'[y]) = obj'[n].vals
    <3>1. y = x /\ pc = "retire"
      BY <1>10, <2>2 DEF Retires
    <3> QED BY <1>3, <1>8, <3>1 DEF Goes, ObjGoes, Left
  <2> QED BY <2>1, <2>2 DEF EventAt
<1> QED BY <1>2, <1>3, <1>8, <1>9, <1>13, <1>14, <1>15, OneObjStep DEF Goes, Others, ObjGoes, ListsStay

LEMMA ObjAddSignal ==
  ASSUME FenceIInv, ObjIInv, NEW x \in Thread, AddSignal(x)
  PROVE  ObjIInv'
<1> DEFINE S == [o : Obj, seq : Seqno]
<1>1. /\ th[x].pc = "announce" /\ th[x].todo # <<>> /\ UNCHANGED <<idr, fence, files, obj>>
      /\ th' = [th EXCEPT ![x].todo = Tail(@)]
  BY DEF AddSignal, At
<1>2. th[x].todo \in Seq(Val) /\ th[x].o \in Obj /\ WorkOK(th[x])
  BY <1>1, ThreadIs DEF ThreadOK, ObjSteps, ObjIInv
<1>3. PICK v \in Val, n \in Obj, t \in Timeline : v = Head(th[x].todo) /\ n = th[x].o /\ t = v.tl
  BY <1>1, <1>2, FirstValue
<1>4. v.seq \in Seqno /\ v \in ToSet(th[x].todo) /\ v = [tl |-> t, seq |-> v.seq]
  BY <1>1, <1>2, <1>3, ToSetTail DEF Val
<1>5. Goes(x, "announce", th[x].why, Tail(th[x].todo), th[x].tl, n)
  <2>1. th' = [th EXCEPT ![x].todo = Tail(th[x].todo)]
    BY <1>1 DEF FenceIInv, StateShape, ThreadShape
  <2> QED BY <1>1, <1>3, <2>1, GoesTodo
<1>6. SideAt(n) /\ ArrayAt(n) /\ EventAt(n)
  BY AtObj
<1>7. /\ obj[n].st = "done" /\ v \in ToSet(obj[n].vals)
      /\ \A y \in Thread : ~Retires(y, n)
  <2>1. obj[n].st = "done"
    BY <1>1, <1>3, <1>6 DEF SideAt
  <2>2. obj[n].sig > 0
    BY <1>1, <1>3, <1>6, Bits DEF SchedPending, SchedSteps
  <2>3. \A y \in Thread : th[y].o = n /\ th[y].why = "retire" => obj[n].sig = 0
    BY <1>6 DEF SideAt
  <2>4. ToSet(th[x].todo) \subseteq ToSet(obj[n].vals)
    BY <1>1, <1>3, <1>6 DEF ArrayAt
  <2> QED BY <1>4, <2>1, <2>2, <2>3, <2>4 DEF Retires
<1>8. tline[t].events \in Seq(S) /\ tline[t].value \in Seqno
      /\ InOrder(tline[t].events, tline[t].value)
  BY TlineIs DEF TlineOK, ObjIInv, EventInv
<1>9. PICK F : /\ TlineGoes(t, tline[t].ref, tline[t].value, F)
               /\ F \in Seq(S) /\ InOrder(F, tline[t].value)
               /\ ToSet(F) \subseteq ToSet(tline[t].events) \cup {[o |-> n, seq |-> v.seq]}
  <2> DEFINE E == tline[t].events
             e == [o |-> n, seq |-> v.seq]
             behind == Cardinality({i \in DOMAIN E : \E j \in i..Len(E) : E[j].seq <= e.seq})
             F == IF tline[t].value >= v.seq THEN E ELSE InsertAt(E, behind + 1, e)
  <2>2. e \in S /\ e.seq = v.seq
    BY <1>4
  <2>1. tline' = [tline EXCEPT ![t].events = F]
    BY <1>1, <1>3, <2>2, TlineIs DEF AddSignal, TlineShape, IsTline, TlineFields
  <2>3. F \in Seq(S) /\ InOrder(F, tline[t].value) /\ ToSet(F) \subseteq ToSet(E) \cup {e}
    <3>1. CASE tline[t].value >= v.seq
      BY <1>8, <3>1
    <3>2. CASE ~(tline[t].value >= v.seq)
      <4>1. e.seq > tline[t].value
        BY <1>4, <1>8, <3>2, TimelineAssumption DEF Seqno
      <4>2. /\ InsertAt(E, behind + 1, e) \in Seq(S)
            /\ InOrder(InsertAt(E, behind + 1, e), tline[t].value)
            /\ ToSet(InsertAt(E, behind + 1, e)) = ToSet(E) \cup {e}
        <5> HIDE DEF e
        <5> QED BY <1>8, <2>2, <4>1, Inserted
      <4> QED BY <3>2, <4>2
    <3> QED BY <3>1, <3>2
  <2> HIDE DEF F
  <2>4. TlineGoes(t, tline[t].ref, tline[t].value, F)
    BY <2>1, TlineEvents
  <2> QED BY <2>3, <2>4
<1>10. KeepsSide(x)
  <2>1. ToSet(Tail(th[x].todo)) \subseteq ToSet(th[x].todo)
    BY <1>1, <1>2, ToSetTail
  <2>2. WorkOK(th'[x]) /\ th[x].why # "retire"
    BY <1>1, <1>2, <1>5 DEF Goes, WorkOK
  <2> QED BY <1>1, <1>3, <1>5, <2>1, <2>2 DEF KeepsSide, Goes, Others
<1>11. ObjsSame /\ IdsKept
  BY <1>1 DEF ObjsSame, IdsKept
<1>12. (\A y \in Thread : WorkOK(th'[y])) /\ OneSide' /\ SideInv' /\ ArrayInv'
  BY <1>10, <1>11, SideFrame
<1>13. \A y \in Thread : /\ th'[y].why = th[y].why /\ th'[y].o = th[y].o
                         /\ th[y].why = "retire" => th'[y] = th[y]
  BY <1>1, <1>2, <1>3, <1>5 DEF Goes, WorkOK
<1>14. EventInv'
  <2> SUFFICES ASSUME NEW u \in Timeline
               PROVE  /\ tline'[u].events \in Seq(S)
                      /\ InOrder(tline'[u].events, tline'[u].value)
                      /\ \A e \in ToSet(tline'[u].events) :
                           /\ [tl |-> u, seq |-> e.seq] \in ToSet(obj'[e.o].vals)
                           /\ obj'[e.o].st = "done"
                           /\ \A y \in Thread : Retires(y, e.o)' =>
                                [tl |-> u, seq |-> e.seq] \in ToSet(Left(th'[y]))
    BY DEF EventInv
  <2>1. /\ tline'[u].events \in Seq(S)
        /\ InOrder(tline'[u].events, tline'[u].value)
        /\ \A e \in ToSet(tline'[u].events) :
             e \in ToSet(tline[u].events) \/ (u = t /\ e = [o |-> n, seq |-> v.seq])
    <3>1. CASE u = t
      BY <1>9, <3>1 DEF TlineGoes
    <3>2. CASE u # t
      BY <1>9, <3>2 DEF TlineGoes, ObjIInv, EventInv
    <3> QED BY <3>1, <3>2
  <2>2. ASSUME NEW e \in ToSet(tline[u].events)
        PROVE  /\ [tl |-> u, seq |-> e.seq] \in ToSet(obj'[e.o].vals)
               /\ obj'[e.o].st = "done"
               /\ \A y \in Thread : Retires(y, e.o)' =>
                    [tl |-> u, seq |-> e.seq] \in ToSet(Left(th'[y]))
    <3>1. \A y \in Thread : Retires(y, e.o)' => Retires(y, e.o) /\ th'[y] = th[y]
      BY <1>13 DEF Retires
    <3> QED BY <1>1, <3>1 DEF ObjIInv, EventInv
  <2>3. ASSUME u = t, NEW e, e = [o |-> n, seq |-> v.seq]
        PROVE  /\ [tl |-> u, seq |-> e.seq] \in ToSet(obj'[e.o].vals)
               /\ obj'[e.o].st = "done"
               /\ \A y \in Thread : Retires(y, e.o)' =>
                    [tl |-> u, seq |-> e.seq] \in ToSet(Left(th'[y]))
    <3>1. \A y \in Thread : ~Retires(y, n)'
      BY <1>7, <1>13 DEF Retires
    <3>2. e.o = n /\ [tl |-> u, seq |-> e.seq] = v
      BY <1>4, <2>3
    <3> QED BY <1>1, <1>7, <3>1, <3>2
  <2> QED BY <2>1, <2>2, <2>3
<1> QED BY <1>12, <1>14 DEF ObjIInv

-----------------------------------------------------------------------------
(* Every step.                                                             *)

LEMMA ObjInit ==
  ASSUME Init
  PROVE  ObjIInv
<1>1. /\ \A x \in Thread : th[x] = Idle
      /\ \A t \in Timeline : tline[t].events = <<>> /\ tline[t].value = 0
      /\ \A n \in Obj : obj[n].st = "none" /\ obj[n].sig = 0 /\ obj[n].vals = <<>>
                        /\ obj[n].event = "none"
  BY DEF Init
<1>2. \A x \in Thread : /\ th[x].pc = "idle" /\ th[x].why = "none" /\ th[x].tl = Null
                        /\ th[x].todo = <<>>
  BY <1>1, IdleFields
<1>3. \A x \in Thread : WorkOK(th[x])
  BY <1>2 DEF WorkOK, ValueSteps, DestroySteps
<1>4. OneSide
  BY <1>2 DEF OneSide, SchedSteps
<1>5. \A n \in Obj : ~SchedPending(n) /\ ~EventPending(n)
  BY <1>1, <1>2 DEF SchedPending, EventPending, SchedSteps
<1>6. SideInv
  <2>1. \A n \in Obj : obj[n].sig = Bit(SchedPending(n)) + Bit(EventPending(n))
    BY <1>1, <1>5 DEF Bit
  <2> QED BY <1>1, <1>2, <1>5, <2>1 DEF SideInv
<1>7. ArrayInv
  BY <1>1, <1>2, ToSetEmpty DEF ArrayInv
<1>8. EventInv
  <2>1. InOrder(<<>>, 0) /\ <<>> \in Seq([o : Obj, seq : Seqno])
    BY DEF InOrder
  <2> QED BY <1>1, <2>1, ToSetEmpty DEF EventInv
<1> QED BY <1>3, <1>4, <1>6, <1>7, <1>8 DEF ObjIInv

LEMMA ObjStutter == FenceIInv /\ ObjIInv /\ UNCHANGED vars => ObjIInv'
<1> SUFFICES ASSUME FenceIInv, ObjIInv, UNCHANGED vars PROVE ObjIInv'
  OBVIOUS
<1>1. KeepsWork(Null)
  BY TimelineAssumption DEF vars, KeepsWork, KeepsSide, Others
<1> QED BY <1>1, NothingChanges, ObjFrame DEF vars

LEMMA ObjBegin ==
  ASSUME FenceIInv, ObjIInv, NEW x \in Thread, Begin(x)
  PROVE  ObjIInv'
<1>1. ASSUME NEW t \in Timeline, TimelineAlloc(x, t) PROVE ObjIInv'
  BY <1>1, ObjTimelineAlloc
<1>2. ASSUME NEW t \in Timeline, DestroyId(x, t) PROVE ObjIInv'
  BY <1>2, ObjDestroyId
<1>3. ASSUME NEW vals \in Arrays, NEW why, Call(x, why, vals) PROVE ObjIInv'
  BY <1>3, ObjCall
<1>4. ASSUME NEW vals \in Arrays, NEW n \in Obj, ObjCreate(x, n, vals) PROVE ObjIInv'
  BY <1>4, ObjObjCreate
<1>5. ASSUME NEW f \in Fence, CloseFile(x, f) PROVE ObjIInv'
  BY <1>5, ObjCloseFile
<1>6. ASSUME NEW n \in Obj, ObjDestroy(x, n) PROVE ObjIInv'
  BY <1>6, ObjObjDestroy
<1>7. ASSUME NEW n \in Obj, TimelineSignaled(x, n) PROVE ObjIInv'
  BY <1>7, ObjTimelineSignaled
<1> QED BY <1>1, <1>2, <1>3, <1>4, <1>5, <1>6, <1>7 DEF Begin

LEMMA ObjResume ==
  ASSUME FenceIInv, ObjIInv, NEW x \in Thread, Resume(x)
  PROVE  ObjIInv'
<1>1. CASE FenceRelease(x) \/ TimelineCreate(x) \/ Lookup(x)
  BY <1>1, ObjFenceRelease, ObjTimelineCreate, ObjLookup
<1>2. CASE FenceAlloc(x) \/ FenceGetFile(x) \/ FenceGetPut(x)
  BY <1>2, ObjFenceAlloc, ObjFenceGetFile, ObjFenceGetPut
<1>3. CASE ValueDone(x) \/ SignalValue(x)
  BY <1>3, ObjValueDone, ObjSignalValue
<1>4. CASE WaitReturns(x) \/ Unwind(x)
  BY <1>4, ObjWaitEnds, ObjUnwind
<1>5. CASE \/ SignalCollect(x) \/ SignalFence(x) \/ SignalUnlock(x)
           \/ DestroySteal(x) \/ DestroyLock(x) \/ DestroyFence(x) \/ DestroyUnlock(x)
  BY <1>5, ObjWalk
<1>6. CASE ObjFill(x) \/ ObjAddEvent(x) \/ ObjEmpty(x)
  BY <1>6, ObjObjFill, ObjObjAddEvent, ObjObjEmpty
<1>7. CASE AddSignal(x) \/ TimelineobjSignal(x) \/ TimelineobjRetire(x)
  BY <1>7, ObjAddSignal, ObjTimelineobjSignal, ObjTimelineobjRetire
<1> QED BY <1>1, <1>2, <1>3, <1>4, <1>5, <1>6, <1>7 DEF Resume

LEMMA ObjNext ==
  ASSUME FenceIInv, ObjIInv, [Next]_vars
  PROVE  ObjIInv'
<1>1. ASSUME NEW x \in Thread, Begin(x) PROVE ObjIInv'
  BY <1>1, ObjBegin
<1>2. ASSUME NEW x \in Thread, Resume(x) PROVE ObjIInv'
  BY <1>2, ObjResume
<1>3. ASSUME NEW x \in Thread, WaitTimesOut(x) PROVE ObjIInv'
  BY <1>3, ObjWaitEnds
<1>4. ASSUME NEW f \in Fence, FencePoll(f) PROVE ObjIInv'
  BY <1>4, ObjFencePoll
<1>5. ASSUME NEW n \in Obj, TimestampRetires(n) PROVE ObjIInv'
  BY <1>5, ObjTimestampRetires
<1>6. CASE Next
  BY <1>1, <1>2, <1>3, <1>4, <1>5, <1>6 DEF Next
<1>7. CASE UNCHANGED vars
  BY <1>7, ObjStutter
<1> QED BY <1>6, <1>7

\* The sides of a timeline object, its array and the events of its entries
\* agree in every reachable state.
THEOREM ObjInvariance == Spec => []ObjIInv
<1>1. Init => ObjIInv
  BY ObjInit
<1>2. FenceIInv /\ ObjIInv /\ [Next]_vars => ObjIInv'
  BY ObjNext
<1> QED BY <1>1, <1>2, FenceInvariance, PTL DEF Spec

-----------------------------------------------------------------------------
(* The list of events.                                                     *)

LEMMA SeqnoIsNat == Seqno \subseteq Nat
BY TimelineAssumption DEF Seqno

\* In every reachable state an event on a timeline's list belongs to an entry
\* of an array that has not been freed, is beyond the timeline's value, and is
\* in its place: what the walks of kgsl_timeline_signal and timeline_query
\* read, and what lets them stop early.
THEOREM EventsStayInOrder == Spec => []EventsInOrder
<1>1. ObjIInv => EventsInOrder
  <2> SUFFICES ASSUME ObjIInv, NEW t \in Timeline, NEW i \in DOMAIN tline[t].events
               PROVE  LET E == tline[t].events
                      IN /\ E[i].seq > tline[t].value
                         /\ \E j \in DOMAIN obj[E[i].o].vals :
                              obj[E[i].o].vals[j] = [tl |-> t, seq |-> E[i].seq]
                         /\ \A j \in DOMAIN E : i < j => E[i].seq <= E[j].seq
    BY DEF EventsInOrder
  <2>1. /\ InOrder(tline[t].events, tline[t].value)
        /\ \A e \in ToSet(tline[t].events) : [tl |-> t, seq |-> e.seq] \in ToSet(obj[e.o].vals)
    BY DEF ObjIInv, EventInv
  <2>2. tline[t].events[i] \in ToSet(tline[t].events)
    BY DEF ToSet
  <2>3. [tl |-> t, seq |-> tline[t].events[i].seq] \in ToSet(obj[tline[t].events[i].o].vals)
    BY <2>1, <2>2
  <2> QED BY <2>1, <2>3 DEF InOrder, ToSet
<1> QED BY <1>1, ObjInvariance, PTL

Retired(t) == {i \in DOMAIN tline[t].events : obj[tline[t].events[i].o].retired}

\* What a query returns: the greatest of the value and the retired seqnos.
LEMMA QueryIs ==
  ASSUME FenceIInv, ObjIInv, NEW t \in Timeline
  PROVE  /\ TimelineQuery(t) \in Nat /\ tline[t].value \in Nat
         /\ tline[t].value <= TimelineQuery(t)
         /\ \A e \in ToSet(tline[t].events) :
              e.seq \in Nat /\ (obj[e.o].retired => e.seq <= TimelineQuery(t))
         /\ \/ TimelineQuery(t) = tline[t].value
            \/ \E e \in ToSet(tline[t].events) : obj[e.o].retired /\ TimelineQuery(t) = e.seq
<1> DEFINE E == tline[t].events   R == Retired(t)
<1>1. E \in Seq([o : Obj, seq : Seqno]) /\ tline[t].value \in Seqno /\ InOrder(E, tline[t].value)
  BY TlineIs DEF TlineOK, ObjIInv, EventInv
<1>2. /\ Len(E) \in Nat /\ DOMAIN E = 1..Len(E) /\ tline[t].value \in Nat
      /\ \A i \in 1..Len(E) : E[i].seq \in Nat
  <2>1. Len(E) \in Nat /\ DOMAIN E = 1..Len(E)
    BY <1>1, LenProperties
  <2>2. \A i \in 1..Len(E) : E[i] \in [o : Obj, seq : Seqno]
    BY <1>1, ElementOfSeq
  <2> QED BY <1>1, <2>1, <2>2, SeqnoIsNat
<1>3. \A e \in ToSet(E) : \E i \in 1..Len(E) : e = E[i]
  BY <1>2 DEF ToSet
<1>4. \A i \in 1..Len(E) : E[i] \in ToSet(E) /\ E[i].seq > tline[t].value
  BY <1>1, <1>2 DEF ToSet, InOrder
<1>5. CASE R = {}
  <2>1. TimelineQuery(t) = tline[t].value
    BY <1>5 DEF TimelineQuery, Retired
  <2>2. \A i \in 1..Len(E) : ~obj[E[i].o].retired
    BY <1>2, <1>5 DEF Retired
  <2> QED BY <1>2, <1>3, <2>1, <2>2
<1>6. CASE R # {}
  <2> DEFINE m == CHOOSE i \in R : \A j \in R : j <= i
  <2>1. \E i \in R : \A j \in R : j <= i
    <3>1. R \subseteq 0..Len(E)
      BY <1>2 DEF Retired
    <3> HIDE DEF R, E
    <3> QED BY <1>2, <1>6, <3>1, GreatestNatural
  <2>2. m \in R /\ \A j \in R : j <= m
    BY <2>1
  <2>3. TimelineQuery(t) = E[m].seq
    BY <1>6 DEF TimelineQuery, Retired
  <2> HIDE DEF m
  <2>4. m \in 1..Len(E) /\ obj[E[m].o].retired
    BY <1>2, <2>2 DEF Retired
  <2>5. ASSUME NEW e \in ToSet(E), obj[e.o].retired
        PROVE  e.seq <= E[m].seq
    <3>1. PICK i \in 1..Len(E) : e = E[i]
      BY <1>3
    <3>2. i \in R
      BY <1>2, <2>5, <3>1 DEF Retired
    <3>3. i <= m
      BY <2>2, <3>2
    <3>4. i < m => E[i].seq <= E[m].seq
      BY <1>1, <1>2, <2>4 DEF InOrder
    <3> QED BY <1>2, <2>4, <3>1, <3>3, <3>4
  <2>6. E[m].seq \in Nat /\ E[m].seq > tline[t].value /\ E[m] \in ToSet(E)
    BY <1>2, <1>4, <2>4
  <2>7. \A e \in ToSet(E) : e.seq \in Nat
    BY <1>2, <1>3
  <2> QED BY <1>2, <2>3, <2>4, <2>5, <2>6, <2>7
<1> QED BY <1>5, <1>6

\* The value goes up, and what leaves the list is not beyond it.
Forward(t) ==
  /\ tline[t].value <= tline'[t].value
  /\ \A e \in ToSet(tline[t].events) : e \in ToSet(tline'[t].events) \/ e.seq <= tline'[t].value

RetiredStay == \A n \in Obj : obj[n].retired => obj'[n].retired

LEMMA ForwardGoes ==
  ASSUME FenceIInv, NEW t \in Timeline, NEW u \in Timeline, NEW n,
         TlineGoes(u, n, tline[u].value, tline[u].events)
  PROVE  Forward(t)
<1>1. tline[t].value \in Nat
  BY TlineIs, SeqnoIsNat DEF TlineOK
<1>2. tline'[t].value = tline[t].value /\ tline'[t].events = tline[t].events
  BY DEF TlineGoes
<1> QED BY <1>1, <1>2 DEF Forward

LEMMA ForwardSame ==
  ASSUME FenceIInv, NEW t \in Timeline, UNCHANGED tline
  PROVE  Forward(t)
BY ForwardGoes DEF TlineGoes

LEMMA ForwardBegin ==
  ASSUME FenceIInv, ObjIInv, NEW t \in Timeline, idr[t] # "none", NEW x \in Thread, Begin(x)
  PROVE  Forward(t)
<1>1. ASSUME NEW u \in Timeline, TimelineAlloc(x, u) PROVE Forward(t)
  <2>1. tline'[t] = tline[t]
    BY <1>1, TlineIs DEF TimelineAlloc, TlineShape
  <2>2. tline[t].value \in Nat
    BY TlineIs, SeqnoIsNat DEF TlineOK
  <2> QED BY <2>1, <2>2 DEF Forward
<1>2. ASSUME NEW vals, NEW why, Call(x, why, vals) PROVE UNCHANGED tline
  BY <1>2 DEF Call
<1>3. ASSUME NEW n, NEW vals, ObjCreate(x, n, vals) PROVE UNCHANGED tline
  BY <1>3 DEF ObjCreate
<1>4. ASSUME NEW n, ObjDestroy(x, n) \/ TimelineSignaled(x, n) PROVE UNCHANGED tline
  BY <1>4 DEF ObjDestroy, TimelineSignaled
<1>5. ASSUME NEW u, DestroyId(x, u) \/ CloseFile(x, u) PROVE UNCHANGED tline
  BY <1>5 DEF DestroyId, CloseFile
<1> QED BY <1>1, <1>2, <1>3, <1>4, <1>5, ForwardSame DEF Begin

LEMMA ForwardValue ==
  ASSUME FenceIInv, ObjIInv, NEW t \in Timeline, NEW x \in Thread, SignalValue(x)
  PROVE  Forward(t)
<1>1. /\ th[x].tl \in Timeline /\ Head(th[x].todo).seq \in Seqno
      /\ th[x].todo # <<>> /\ th[x].todo \in Seq(Val)
  BY ThreadIs, FirstValue DEF SignalValue, At, ThreadOK, ValueSteps
<1>2. PICK u \in Timeline, q \in Seqno : u = th[x].tl /\ q = Head(th[x].todo).seq
  BY <1>1
<1>3. q \in Nat /\ tline[u].value \in Nat /\ tline[u].value \in Seqno
  BY TlineIs, SeqnoIsNat DEF TlineOK
<1>4. CASE UNCHANGED tline
  BY <1>4, ForwardSame
<1>5. CASE /\ q >= tline[u].value
           /\ tline' = [tline EXCEPT ![u].lock = x, ![u].value = q,
                          ![u].events = SubSeq(@, RetiredPrefix(@, q) + 1, Len(@))]
  <2> DEFINE E == tline[u].events
             F == SubSeq(E, RetiredPrefix(E, q) + 1, Len(E))
  <2>1. E \in Seq([o : Obj, seq : Seqno]) /\ InOrder(E, tline[u].value)
    BY DEF ObjIInv, EventInv
  <2>2. ToSet(F) = {e \in ToSet(E) : e.seq > q}
    BY <1>3, <2>1, PrefixRetired
  <2>3. tline' = [tline EXCEPT ![u].lock = x, ![u].value = q, ![u].events = F]
    BY <1>5, TlineIs DEF TlineShape, IsTline, TlineFields
  <2> HIDE DEF F
  <2>4. TlineGoes(u, tline[u].ref, q, F)
    BY <2>3, TlineAdvances
  <2>5. CASE t # u
    <3>1. tline'[t] = tline[t] /\ tline[t].value \in Nat
      BY <2>4, <2>5, TlineIs, SeqnoIsNat DEF TlineGoes, TlineOK
    <3> QED BY <3>1 DEF Forward
  <2>6. CASE t = u
    <3>1. \A e \in ToSet(E) : e.seq \in Nat
      BY EventIs, SeqnoIsNat
    <3>2. tline'[t].value = q /\ tline'[t].events = F
      BY <2>4, <2>6 DEF TlineGoes
    <3>3. \A e \in ToSet(E) : e \in ToSet(F) \/ e.seq <= q
      BY <1>3, <2>2, <3>1
    <3> QED BY <1>3, <1>5, <2>6, <3>2, <3>3 DEF Forward
  <2> QED BY <2>5, <2>6
<1> QED BY <1>2, <1>4, <1>5 DEF SignalValue

LEMMA ForwardAdd ==
  ASSUME FenceIInv, ObjIInv, NEW t \in Timeline, NEW x \in Thread, AddSignal(x)
  PROVE  Forward(t)
<1>1. th[x].o \in Obj /\ th[x].todo \in Seq(Val) /\ th[x].todo # <<>>
  BY ThreadIs DEF AddSignal, At, ThreadOK, ObjSteps
<1>2. PICK e \in [o : Obj, seq : Seqno], u \in Timeline :
        u = Head(th[x].todo).tl /\ e = [o |-> th[x].o, seq |-> Head(th[x].todo).seq]
  BY <1>1, FirstValue
<1>3. e.seq = Head(th[x].todo).seq /\ e.seq \in Nat /\ tline[u].value \in Seqno
      /\ tline[u].value \in Nat
  BY <1>2, SeqnoIsNat, TlineIs DEF TlineOK
<1> DEFINE E == tline[u].events
           behind == Cardinality({i \in DOMAIN E : \E j \in i..Len(E) : E[j].seq <= e.seq})
           F == IF tline[u].value >= e.seq THEN E ELSE InsertAt(E, behind + 1, e)
<1>4. tline' = [tline EXCEPT ![u].events = F]
  BY <1>2, <1>3, TlineIs DEF AddSignal, TlineShape, IsTline, TlineFields
<1>5. E \in Seq([o : Obj, seq : Seqno]) /\ InOrder(E, tline[u].value)
  BY DEF ObjIInv, EventInv
<1>6. ToSet(E) \subseteq ToSet(F)
  <2>1. CASE tline[u].value >= e.seq
    BY <2>1
  <2>2. CASE ~(tline[u].value >= e.seq)
    <3>1. e.seq > tline[u].value
      BY <1>3, <2>2
    <3>2. ToSet(InsertAt(E, behind + 1, e)) = ToSet(E) \cup {e}
      BY <1>3, <1>5, <3>1, Inserted
    <3> QED BY <2>2, <3>2
  <2> QED BY <2>1, <2>2
<1> HIDE DEF F
<1>7. TlineGoes(u, tline[u].ref, tline[u].value, F)
  BY <1>4, TlineEvents
<1>8. tline[t].value \in Nat
  BY TlineIs, SeqnoIsNat DEF TlineOK
<1> QED BY <1>6, <1>7, <1>8 DEF TlineGoes, Forward

LEMMA ForwardResume ==
  ASSUME FenceIInv, ObjIInv, NEW t \in Timeline, NEW x \in Thread, Resume(x)
  PROVE  Forward(t)
<1>0. ThreadOK(th[x])
  BY ThreadIs
<1>1. CASE FenceRelease(x)
  <2>1. th[x].dying \in Fence /\ Live(th[x].dying) /\ fence[th[x].dying].tl \in Timeline
    BY <1>0, <1>1 DEF FenceRelease, ThreadOK, FenceIInv, RefInv, IdInv
  <2>2. PICK u \in Timeline : u = fence[th[x].dying].tl
    BY <2>1
  <2>3. tline' = [tline EXCEPT ![u].ref = tline[u].ref - 1, ![u].fences = tline[u].fences \ {th[x].dying}]
    BY <1>1, <2>2, TlineIs DEF FenceRelease, TlineShape, IsTline, TlineFields
  <2> QED BY <2>3, TlineRefFences, ForwardGoes
<1>2. CASE \/ TimelineCreate(x) \/ FenceGetFile(x) \/ FenceGetPut(x) \/ WaitReturns(x) \/ Unwind(x)
           \/ SignalFence(x) \/ DestroyFence(x) \/ ObjAddEvent(x) \/ TimelineobjSignal(x)
           \/ TimelineobjRetire(x)
  BY <1>2, ForwardSame DEF TimelineCreate, FenceGetFile, FenceGetPut, WaitReturns, Unwind,
       SignalFence, DestroyFence, ObjAddEvent, TimelineobjSignal, TimelineobjRetire
<1>3. CASE Lookup(x)
  <2>1. Head(th[x].todo).tl \in Timeline
    BY <1>0, <1>3, FirstValue DEF Lookup, At, ThreadOK
  <2> QED BY <1>3, <2>1, TlineGets, ForwardGoes, ForwardSame DEF Lookup
<1>4. CASE FenceAlloc(x)
  <2>1. PICK u \in Timeline : u = th[x].tl
    BY <1>0, <1>4 DEF FenceAlloc, At, ThreadOK, ValueSteps
  <2>2. CASE UNCHANGED tline
    BY <2>2, ForwardSame
  <2>3. CASE \E f \in Fence : tline' = [tline EXCEPT ![u].ref = @ + 1,
               ![u].fences = IF Reached(u, Head(th[x].todo).seq) THEN @ ELSE @ \cup {f}]
    <3>1. PICK f \in Fence : tline' = [tline EXCEPT ![u].ref = @ + 1,
               ![u].fences = IF Reached(u, Head(th[x].todo).seq) THEN @ ELSE @ \cup {f}]
      BY <2>3
    <3> DEFINE F == IF Reached(u, Head(th[x].todo).seq) THEN tline[u].fences
                    ELSE tline[u].fences \cup {f}
    <3>2. tline' = [tline EXCEPT ![u].ref = tline[u].ref + 1, ![u].fences = F]
      BY <3>1, TlineIs DEF TlineShape, IsTline, TlineFields
    <3> HIDE DEF F
    <3> QED BY <3>2, TlineRefFences, ForwardGoes
  <2> QED BY <1>4, <2>1, <2>2, <2>3 DEF FenceAlloc
<1>5. CASE ValueDone(x)
  <2>1. th[x].tl \in Timeline
    BY <1>0, <1>5 DEF ValueDone, At, ThreadOK, ValueSteps
  <2> QED BY <1>5, <2>1, TlinePuts, ForwardGoes DEF ValueDone
<1>6. CASE SignalValue(x)
  BY <1>6, ForwardValue
<1>7. CASE \/ SignalCollect(x) \/ SignalUnlock(x)
           \/ DestroySteal(x) \/ DestroyLock(x) \/ DestroyUnlock(x)
  <2>1. PICK u \in Timeline : u = th[x].tl
    BY <1>0, <1>7 DEF SignalCollect, SignalUnlock, DestroySteal, DestroyLock, DestroyUnlock,
         At, ThreadOK, ValueSteps, DestroySteps
  <2>2. (\E F : tline' = [tline EXCEPT ![u].fences = F])
        \/ (\E l : tline' = [tline EXCEPT ![u].lock = l])
    <3>1. CASE SignalCollect(x)
      <4>1. PICK F : F = {f \in tline[u].fences : Reached(u, fence[f].seq) /\ fence[f].ref > 0}
        OBVIOUS
      <4>2. tline' = [tline EXCEPT ![u].fences = tline[u].fences \ F]
        BY <2>1, <3>1, <4>1, TlineIs DEF SignalCollect, TlineShape, IsTline, TlineFields
      <4> QED BY <4>2
    <3>2. CASE DestroySteal(x)
      BY <2>1, <3>2 DEF DestroySteal
    <3>3. CASE SignalUnlock(x) \/ DestroyLock(x) \/ DestroyUnlock(x)
      BY <2>1, <3>3 DEF SignalUnlock, DestroyLock, DestroyUnlock
    <3> QED BY <1>7, <3>1, <3>2, <3>3
  <2> QED BY <2>2, TlineFences, TlineLock, ForwardGoes
<1>8. CASE ObjFill(x)
  <2>1. th[x].todo # <<>> => Head(th[x].todo).tl \in Timeline
    BY <1>0, FirstValue DEF ThreadOK
  <2> QED BY <1>8, <2>1, TlineGets, ForwardGoes, ForwardSame DEF ObjFill
<1>9. CASE ObjEmpty(x)
  <2>1. th[x].o \in Obj
    BY <1>0, <1>9 DEF ObjEmpty, At, ThreadOK, ObjSteps
  <2>2. obj[th[x].o].vals # <<>> => Head(obj[th[x].o].vals).tl \in Timeline
    BY <2>1, ValsAre, FirstValue
  <2> QED BY <1>9, <2>2, TlinePuts, ForwardGoes, ForwardSame DEF ObjEmpty
<1>10. CASE AddSignal(x)
  BY <1>10, ForwardAdd
<1> QED BY <1>1, <1>2, <1>3, <1>4, <1>5, <1>6, <1>7, <1>8, <1>9, <1>10 DEF Resume

SameRetired == \A n \in Obj : obj'[n].retired = obj[n].retired

\* A timestamp that has retired stays so.
LEMMA RetiredKept ==
  ASSUME FenceIInv, Next
  PROVE  RetiredStay
<1>0. ObjShape
  BY DEF FenceIInv, StateShape
<1>1. ASSUME NEW x \in Thread, Begin(x) PROVE RetiredStay
  <2>1. CASE UNCHANGED obj
    BY <2>1 DEF RetiredStay
  <2>2. ASSUME NEW n \in Obj, ObjDestroy(x, n) \/ TimelineSignaled(x, n) PROVE SameRetired
    BY <1>0, <2>2 DEF SameRetired, ObjShape, IsObj, ObjFields, ObjDestroy, TimelineSignaled
  <2>3. ASSUME NEW n \in Obj, NEW vals, ObjCreate(x, n, vals) PROVE SameRetired
    BY <1>0, <2>3 DEF SameRetired, ObjShape, IsObj, ObjFields, ObjCreate
  <2>4. CASE SameRetired
    BY <2>4 DEF SameRetired, RetiredStay
  <2> QED BY <1>1, <2>1, <2>2, <2>3, <2>4 DEF Begin, TimelineAlloc, DestroyId, Call, CloseFile
<1>2. ASSUME NEW x \in Thread, Resume(x) PROVE RetiredStay
  <2>1. CASE UNCHANGED obj
    BY <2>1 DEF RetiredStay
  <2>2. ASSUME NEW n \in Obj, n = th[x].o,
               ObjFill(x) \/ ObjAddEvent(x) \/ ObjEmpty(x)
        PROVE  SameRetired
    <3>1. CASE ObjFill(x)
      <4>1. obj' = [obj EXCEPT ![n].vals = Append(@, Head(th[x].todo))] \/ UNCHANGED obj
        BY <2>2, <3>1 DEF ObjFill
      <4>2. CASE obj' = [obj EXCEPT ![n].vals = Append(@, Head(th[x].todo))]
        BY <1>0, <4>2 DEF SameRetired, ObjShape, IsObj, ObjFields
      <4> QED BY <4>1, <4>2 DEF SameRetired
    <3>2. CASE ObjAddEvent(x)
      <4>1. \/ obj' = [obj EXCEPT ![n].count = Len(obj[n].vals), ![n].sig = 2,
                                  ![n].event = "armed", ![n].st = "queued"]
            \/ obj' = [obj EXCEPT ![n].count = Len(obj[n].vals)]
        BY <2>2, <3>2 DEF ObjAddEvent
      <4> QED BY <1>0, <4>1 DEF SameRetired, ObjShape, IsObj, ObjFields
    <3>3. CASE ObjEmpty(x)
      BY <1>0, <2>2, <3>3 DEF SameRetired, ObjShape, IsObj, ObjFields, ObjEmpty
    <3> QED BY <2>2, <3>1, <3>2, <3>3
  <2>3. ASSUME NEW n \in Obj, n = th[x].o, TimelineobjSignal(x) \/ TimelineobjRetire(x)
        PROVE  SameRetired
    <3>1. CASE TimelineobjSignal(x)
      BY <1>0, <2>3, <3>1 DEF SameRetired, ObjShape, IsObj, ObjFields, TimelineobjSignal
    <3>2. CASE TimelineobjRetire(x)
      BY <1>0, <2>3, <3>2 DEF SameRetired, ObjShape, IsObj, ObjFields, TimelineobjRetire
    <3> QED BY <2>3, <3>1, <3>2
  <2>4. CASE \/ ObjFill(x) \/ ObjAddEvent(x) \/ ObjEmpty(x)
             \/ TimelineobjSignal(x) \/ TimelineobjRetire(x)
    <3>1. th[x].o \in Obj
      BY <2>4, ThreadIs DEF ObjFill, ObjAddEvent, ObjEmpty, TimelineobjSignal, TimelineobjRetire,
           At, ThreadOK, ObjSteps
    <3>2. SameRetired
      BY <2>2, <2>3, <2>4, <3>1
    <3> QED BY <3>2 DEF SameRetired, RetiredStay
  <2> QED BY <1>2, <2>1, <2>4 DEF Resume, FenceRelease, TimelineCreate, Lookup, FenceAlloc,
          FenceGetFile, FenceGetPut, ValueDone, WaitReturns, Unwind, SignalValue, SignalCollect,
          SignalFence, SignalUnlock, DestroySteal, DestroyLock, DestroyFence, DestroyUnlock, AddSignal
<1>3. ASSUME NEW x \in Thread, WaitTimesOut(x) PROVE RetiredStay
  BY <1>3 DEF WaitTimesOut, RetiredStay
<1>4. ASSUME NEW f \in Fence, FencePoll(f) PROVE RetiredStay
  BY <1>4 DEF FencePoll, RetiredStay
<1>5. ASSUME NEW n \in Obj, TimestampRetires(n) PROVE RetiredStay
  BY <1>0, <1>5 DEF TimestampRetires, RetiredStay, ObjShape, IsObj, ObjFields
<1> QED BY <1>1, <1>2, <1>3, <1>4, <1>5 DEF Next

QueryBound(t) ==
  /\ TimelineQuery(t) \in Nat /\ tline[t].value \in Nat
  /\ tline[t].value <= TimelineQuery(t)
  /\ \A e \in ToSet(tline[t].events) : obj[e.o].retired => e.seq <= TimelineQuery(t)

QueryInv == \A t \in Timeline : QueryBound(t)

LEMMA QueryStep ==
  ASSUME FenceIInv, ObjIInv, QueryInv', Next, NEW t \in Timeline, idr[t] # "none"
  PROVE  TimelineQuery(t) <= TimelineQuery(t)'
<1>1. Forward(t)
  <2>1. ASSUME NEW x \in Thread, Begin(x) PROVE Forward(t)
    BY <2>1, ForwardBegin
  <2>2. ASSUME NEW x \in Thread, Resume(x) PROVE Forward(t)
    BY <2>2, ForwardResume
  <2>3. ASSUME NEW x \in Thread, WaitTimesOut(x) PROVE Forward(t)
    BY <2>3, ForwardSame DEF WaitTimesOut
  <2>4. ASSUME NEW f \in Fence, FencePoll(f) PROVE Forward(t)
    BY <2>4, ForwardSame DEF FencePoll
  <2>5. ASSUME NEW n \in Obj, TimestampRetires(n) PROVE Forward(t)
    BY <2>5, ForwardSame DEF TimestampRetires
  <2> QED BY <2>1, <2>2, <2>3, <2>4, <2>5 DEF Next
<1>2. RetiredStay
  BY RetiredKept
<1>3. /\ TimelineQuery(t) \in Nat /\ tline[t].value \in Nat
      /\ \A e \in ToSet(tline[t].events) : e.seq \in Nat
      /\ \/ TimelineQuery(t) = tline[t].value
         \/ \E e \in ToSet(tline[t].events) : obj[e.o].retired /\ TimelineQuery(t) = e.seq
  BY QueryIs
<1>4. /\ TimelineQuery(t)' \in Nat /\ tline'[t].value \in Nat
      /\ tline'[t].value <= TimelineQuery(t)'
      /\ \A e \in ToSet(tline'[t].events) : obj'[e.o].retired => e.seq <= TimelineQuery(t)'
  BY DEF QueryInv, QueryBound
<1>5. CASE TimelineQuery(t) = tline[t].value
  <2>1. tline[t].value <= tline'[t].value
    BY <1>1 DEF Forward
  <2> QED BY <1>3, <1>4, <1>5, <2>1
<1>6. CASE \E e \in ToSet(tline[t].events) : obj[e.o].retired /\ TimelineQuery(t) = e.seq
  <2>1. PICK e \in ToSet(tline[t].events) : obj[e.o].retired /\ TimelineQuery(t) = e.seq
    BY <1>6
  <2>2. obj'[e.o].retired
    BY <1>2, <2>1, EventIs DEF RetiredStay
  <2>3. e \in ToSet(tline'[t].events) \/ e.seq <= tline'[t].value
    BY <1>1 DEF Forward
  <2> QED BY <1>3, <1>4, <2>1, <2>2, <2>3
<1> QED BY <1>3, <1>5, <1>6

\* Successive queries of a timeline that has been created never go back: no
\* step of any thread lowers what timeline_query returns, across the hand-over
\* from retired events to the value and back.
THEOREM QueriesAreMonotonic == Spec => QueryMonotonic
<1>1. ASSUME FenceIInv, ObjIInv, QueryInv', Next
      PROVE  \A t \in Timeline : idr[t] \in {"live", "removed"}
               => TimelineQuery(t) <= TimelineQuery(t)'
  BY <1>1, QueryStep
<1>0. FenceIInv /\ ObjIInv => QueryInv
  BY QueryIs DEF QueryInv, QueryBound
<1>2. FenceIInv /\ ObjIInv /\ QueryInv' /\ [Next]_vars =>
        [\A t \in Timeline : idr[t] \in {"live", "removed"}
           => TimelineQuery(t) <= TimelineQuery(t)']_vars
  BY <1>1
<1> QED BY <1>0, <1>2, FenceInvariance, ObjInvariance, PTL DEF Spec, QueryMonotonic

-----------------------------------------------------------------------------
(* Counting the users of a timeline.                                       *)

\* The entries of object n, with the threads in h and the objects in b.
EntriesOf(h, b, n) ==
  IF \E x \in Thread : h[x].why = "retire" /\ h[x].o = n
  THEN h[CHOOSE x \in Thread : h[x].why = "retire" /\ h[x].o = n].todo
  ELSE b[n].vals

LEMMA EntriesOfAre ==
  ASSUME NEW h, NEW b, NEW n,
         \A y, z \in Thread : h[y].why = "retire" /\ h[y].o = n
                              /\ h[z].why = "retire" /\ h[z].o = n => y = z
  PROVE  /\ \A y \in Thread : h[y].why = "retire" /\ h[y].o = n => EntriesOf(h, b, n) = h[y].todo
         /\ (\A y \in Thread : ~(h[y].why = "retire" /\ h[y].o = n)) => EntriesOf(h, b, n) = b[n].vals
<1>1. ASSUME NEW y \in Thread, h[y].why = "retire", h[y].o = n
      PROVE  EntriesOf(h, b, n) = h[y].todo
  <2> DEFINE z == CHOOSE x \in Thread : h[x].why = "retire" /\ h[x].o = n
  <2>1. z \in Thread /\ h[z].why = "retire" /\ h[z].o = n
    BY <1>1
  <2>2. z = y
    BY <1>1, <2>1
  <2> QED BY <1>1, <2>2 DEF EntriesOf
<1>2. ASSUME \A y \in Thread : ~(h[y].why = "retire" /\ h[y].o = n)
      PROVE  EntriesOf(h, b, n) = b[n].vals
  BY <1>2 DEF EntriesOf
<1> QED BY <1>1, <1>2

LEMMA EntriesNow ==
  ASSUME ObjIInv, NEW n \in Obj
  PROVE  /\ \A y \in Thread : Retires(y, n) => Entries(n) = th[y].todo
         /\ (\A y \in Thread : ~Retires(y, n)) => Entries(n) = obj[n].vals
<1>1. Entries(n) = EntriesOf(th, obj, n)
  BY DEF Entries, EntriesOf
<1>2. \A y, z \in Thread : th[y].why = "retire" /\ th[y].o = n
                           /\ th[z].why = "retire" /\ th[z].o = n => y = z
  BY DEF ObjIInv, OneSide
<1> QED BY <1>1, <1>2, EntriesOfAre DEF Retires

LEMMA EntriesNext ==
  ASSUME ObjIInv', NEW n \in Obj
  PROVE  /\ \A y \in Thread : Retires(y, n)' => Entries(n)' = th'[y].todo
         /\ (\A y \in Thread : ~Retires(y, n)') => Entries(n)' = obj'[n].vals
<1>1. Entries(n)' = EntriesOf(th', obj', n)
  BY DEF Entries, EntriesOf
<1>2. \A y, z \in Thread : th'[y].why = "retire" /\ th'[y].o = n
                           /\ th'[z].why = "retire" /\ th'[z].o = n => y = z
  BY DEF ObjIInv, OneSide
<1> QED BY <1>1, <1>2, EntriesOfAre DEF Retires

\* The entries are values of timelines that have been created.
LEMMA EntriesAre ==
  ASSUME FenceIInv, ObjIInv, NEW n \in Obj
  PROVE  Entries(n) \in Seq(Val) /\ ToSet(Entries(n)) \subseteq ToSet(obj[n].vals)
<1>1. CASE \E y \in Thread : Retires(y, n)
  <2>1. PICK y \in Thread : Retires(y, n)
    BY <1>1
  <2>2. Entries(n) = th[y].todo
    BY <2>1, EntriesNow
  <2>3. th[y].todo \in Seq(Val)
    BY ThreadIs DEF ThreadOK
  <2>4. ToSet(th[y].todo) \subseteq ToSet(obj[n].vals)
    BY <2>1 DEF Retires, ObjIInv, ArrayInv
  <2> QED BY <2>2, <2>3, <2>4
<1>2. CASE \A y \in Thread : ~Retires(y, n)
  BY <1>2, EntriesNow, ValsAre
<1> QED BY <1>1, <1>2

SameEntries == \A n \in Obj : Entries(n)' = Entries(n)

\* The thread that moves retires nothing, or goes on with the same values.
LEMMA EntriesStay ==
  ASSUME ObjIInv, ObjIInv', NEW x, Others(x), \A n \in Obj : obj'[n].vals = obj[n].vals,
         x \in Thread =>
           \/ th[x].why # "retire" /\ th'[x].why # "retire"
           \/ th'[x].why = th[x].why /\ th'[x].o = th[x].o /\ th'[x].todo = th[x].todo
  PROVE  SameEntries
<1> SUFFICES ASSUME NEW n \in Obj PROVE Entries(n)' = Entries(n)
  BY DEF SameEntries
<1>1. \A y \in Thread : (Retires(y, n)' <=> Retires(y, n))
                        /\ (Retires(y, n) => th'[y].todo = th[y].todo)
  BY DEF Retires, Others
<1>2. CASE \E y \in Thread : Retires(y, n)
  BY <1>1, <1>2, EntriesNow, EntriesNext
<1>3. CASE \A y \in Thread : ~Retires(y, n)
  BY <1>1, <1>3, EntriesNow, EntriesNext
<1> QED BY <1>2, <1>3

LEMMA EntryUser ==
  ASSUME NEW t
  PROVE  \A p : p \in EntryUsers(t) <=>
           \E n \in Obj : \E i \in DOMAIN Entries(n) : Entries(n)[i].tl = t /\ p = <<n, i>>
BY DEF EntryUsers

LEMMA EntryUserNext ==
  ASSUME NEW t
  PROVE  \A p : p \in EntryUsers(t)' <=>
           \E n \in Obj : \E i \in DOMAIN Entries(n)' : Entries(n)'[i].tl = t /\ p = <<n, i>>
BY DEF EntryUsers

LEMMA EntriesFixed ==
  ASSUME SameEntries, NEW t
  PROVE  EntryUsers(t)' = EntryUsers(t)
BY EntryUser, EntryUserNext DEF SameEntries

\* An entry is added at the end, or the first one goes.
LEMMA EntryAdded ==
  ASSUME NEW t, IsFiniteSet(EntryUsers(t)), NEW n \in Obj, NEW v \in Val,
         Entries(n) \in Seq(Val), Entries(n)' = Append(Entries(n), v),
         \A m \in Obj \ {n} : Entries(m)' = Entries(m)
  PROVE  /\ IsFiniteSet(EntryUsers(t)') /\ Cardinality(EntryUsers(t)) \in Nat
         /\ Cardinality(EntryUsers(t)') = Cardinality(EntryUsers(t)) + Bit(v.tl = t)
<1> DEFINE k == Len(Entries(n)) + 1   e == <<n, k>>
<1>1. /\ Len(Entries(n)) \in Nat /\ DOMAIN Entries(n) = 1..Len(Entries(n))
      /\ DOMAIN Entries(n)' = 1..k /\ Entries(n)'[k] = v
      /\ \A i \in 1..Len(Entries(n)) : Entries(n)'[i] = Entries(n)[i]
  <2>1. Len(Entries(n)) \in Nat /\ DOMAIN Entries(n) = 1..Len(Entries(n))
    BY LenProperties
  <2>2. /\ Append(Entries(n), v) \in Seq(Val) /\ Len(Append(Entries(n), v)) = k
        /\ \A i \in 1..Len(Entries(n)) : Append(Entries(n), v)[i] = Entries(n)[i]
        /\ Append(Entries(n), v)[k] = v
    BY AppendProperties
  <2>3. DOMAIN Append(Entries(n), v) = 1..k
    BY <2>2, LenProperties
  <2> QED BY <2>1, <2>2, <2>3
<1>2. e \notin EntryUsers(t)
  <2>1. k \notin DOMAIN Entries(n)
    BY <1>1
  <2> QED BY <2>1, EntryUser
<1>3. e \in EntryUsers(t)' <=> v.tl = t
  <2>1. k \in DOMAIN Entries(n)'
    BY <1>1
  <2> QED BY <1>1, <2>1, EntryUserNext
<1>4. ASSUME NEW p, p # e PROVE p \in EntryUsers(t)' <=> p \in EntryUsers(t)
  <2>1. ASSUME NEW m \in Obj, NEW i, p = <<m, i>>
        PROVE  (i \in DOMAIN Entries(m)' /\ Entries(m)'[i].tl = t)
               <=> (i \in DOMAIN Entries(m) /\ Entries(m)[i].tl = t)
    <3>1. CASE m = n
      <4>1. i # k
        BY <1>4, <2>1, <3>1
      <4>2. i \in 1..k <=> i \in 1..Len(Entries(n))
        BY <1>1, <4>1
      <4> QED BY <1>1, <3>1, <4>2
    <3>2. CASE m # n
      BY <3>2
    <3> QED BY <3>1, <3>2
  <2> QED BY <2>1, EntryUser, EntryUserNext
<1> HIDE DEF e
<1>5. /\ IsFiniteSet(EntryUsers(t)') /\ Cardinality(EntryUsers(t)) \in Nat
      /\ Cardinality(EntryUsers(t)') = Cardinality(EntryUsers(t))
           + Bit(e \in EntryUsers(t)') - Bit(e \in EntryUsers(t))
  BY <1>4, OneMember
<1> QED BY <1>2, <1>3, <1>5 DEF Bit

LEMMA EntryGone ==
  ASSUME NEW t, IsFiniteSet(EntryUsers(t)), NEW n \in Obj,
         Entries(n) \in Seq(Val), Entries(n) # <<>>, Entries(n)' = Tail(Entries(n)),
         \A m \in Obj \ {n} : Entries(m)' = Entries(m)
  PROVE  /\ IsFiniteSet(EntryUsers(t)') /\ Cardinality(EntryUsers(t)) \in Nat
         /\ Cardinality(EntryUsers(t)') = Cardinality(EntryUsers(t)) - Bit(Head(Entries(n)).tl = t)
<1> DEFINE s == Entries(n)   e == <<n, 1>>   S == EntryUsers(t) \ {e}
           T == EntryUsers(t)'
           g == [p \in T |-> IF p[1] = n THEN <<n, p[2] + 1>> ELSE p]
<1>1. /\ Len(s) \in Nat \ {0} /\ DOMAIN s = 1..Len(s) /\ Head(s) = s[1]
      /\ DOMAIN Entries(n)' = 1..(Len(s) - 1)
      /\ \A i \in 1..(Len(s) - 1) : Entries(n)'[i] = s[i + 1]
  <2>1. /\ Tail(s) \in Seq(Val) /\ Len(Tail(s)) = Len(s) - 1 /\ Len(s) \in Nat \ {0}
        /\ \A i \in 1..Len(Tail(s)) : Tail(s)[i] = s[i + 1]
    BY HeadTailProperties, EmptySeq
  <2>2. DOMAIN Tail(s) = 1..(Len(s) - 1) /\ DOMAIN s = 1..Len(s) /\ Head(s) = s[1]
    BY <2>1, LenProperties
  <2> QED BY <2>1, <2>2
<1>2. e \in EntryUsers(t) <=> Head(s).tl = t
  <2>1. 1 \in DOMAIN s
    BY <1>1
  <2> QED BY <1>1, <2>1, EntryUser
<1>3. \A p \in T : \E m \in Obj : \E i \in DOMAIN Entries(m)' :
        Entries(m)'[i].tl = t /\ p = <<m, i>>
  BY EntryUserNext
<1>4. ASSUME NEW p \in T PROVE g[p] \in S
  <2>1. PICK m, i : m \in Obj /\ i \in DOMAIN Entries(m)' /\ Entries(m)'[i].tl = t /\ p = <<m, i>>
    BY <1>3
  <2>2. CASE m = n
    <3>1. i \in 1..(Len(s) - 1) /\ i + 1 \in DOMAIN s /\ i + 1 # 1 /\ s[i + 1].tl = t
      BY <1>1, <2>1, <2>2
    <3>2. g[p] = <<n, i + 1>>
      BY <2>1, <2>2
    <3>3. <<n, i + 1>> \in EntryUsers(t)
      BY <3>1, EntryUser
    <3> QED BY <3>1, <3>2, <3>3
  <2>3. CASE m # n
    <3>1. g[p] = p /\ p # e
      BY <2>1, <2>3
    <3>2. p \in EntryUsers(t)
      BY <2>1, <2>3, EntryUser
    <3> QED BY <3>1, <3>2
  <2> QED BY <2>2, <2>3
<1>5. ASSUME NEW p \in T, NEW q \in T, p # q PROVE g[p] # g[q]
  <2>1. PICK m, i : m \in Obj /\ i \in DOMAIN Entries(m)' /\ p = <<m, i>>
    BY <1>3
  <2>2. PICK l, j : l \in Obj /\ j \in DOMAIN Entries(l)' /\ q = <<l, j>>
    BY <1>3
  <2>3. CASE m = n /\ l = n
    <3>1. i \in 1..(Len(s) - 1) /\ j \in 1..(Len(s) - 1) /\ i # j
      BY <1>1, <1>5, <2>1, <2>2, <2>3
    <3>2. g[p] = <<n, i + 1>> /\ g[q] = <<n, j + 1>>
      BY <2>1, <2>2, <2>3
    <3>3. i + 1 # j + 1
      BY <1>1, <3>1
    <3> QED BY <3>2, <3>3
  <2>4. CASE m = n /\ l # n
    BY <2>1, <2>2, <2>4
  <2>5. CASE m # n /\ l = n
    BY <2>1, <2>2, <2>5
  <2>6. CASE m # n /\ l # n
    BY <1>5, <2>1, <2>2, <2>6
  <2> QED BY <2>3, <2>4, <2>5, <2>6
<1>6. ASSUME NEW q \in S PROVE \E p \in T : g[p] = q
  <2>1. PICK m, i : m \in Obj /\ i \in DOMAIN Entries(m) /\ Entries(m)[i].tl = t /\ q = <<m, i>>
    BY EntryUser
  <2>2. CASE m = n
    <3>1. i \in 1..Len(s) /\ i # 1
      BY <1>1, <2>1, <2>2
    <3>2. i - 1 \in 1..(Len(s) - 1) /\ (i - 1) + 1 = i
      BY <1>1, <3>1
    <3>3. i - 1 \in DOMAIN Entries(n)' /\ Entries(n)'[i - 1].tl = t
      BY <1>1, <2>1, <2>2, <3>2
    <3>4. <<n, i - 1>> \in T
      BY <3>3, EntryUserNext
    <3>5. g[<<n, i - 1>>] = <<n, i>>
      BY <3>2, <3>4
    <3> QED BY <2>1, <2>2, <3>4, <3>5
  <2>3. CASE m # n
    <3>1. q \in T
      BY <2>1, <2>3, EntryUserNext
    <3>2. g[q] = q
      BY <2>1, <2>3, <3>1
    <3> QED BY <3>1, <3>2
  <2> QED BY <2>2, <2>3
<1>7. g \in Bijection(T, S)
  <2>1. g \in [T -> S]
    BY <1>4
  <2> HIDE DEF g, T, S
  <2>2. \A p, q \in T : g[p] = g[q] => p = q
    BY <1>5
  <2>3. \A q \in S : \E p \in T : g[p] = q
    BY <1>6
  <2> QED BY <2>1, <2>2, <2>3 DEF Bijection, Injection, Surjection, IsInjective
<1>8. IsFiniteSet(S) /\ Cardinality(EntryUsers(t)) \in Nat
      /\ Cardinality(S) = Cardinality(EntryUsers(t)) - Bit(e \in EntryUsers(t))
  <2>1. IsFiniteSet(S) /\ Cardinality(S) = IF e \in EntryUsers(t)
          THEN Cardinality(EntryUsers(t)) - 1 ELSE Cardinality(EntryUsers(t))
    BY FS_RemoveElement
  <2>2. Cardinality(EntryUsers(t)) \in Nat
    BY FS_CardinalityType
  <2> QED BY <2>1, <2>2 DEF Bit
<1> HIDE DEF S, T, e
<1>9. ExistsBijection(S, T)
  BY <1>7, Fun_ExistsBijSymmetric DEF ExistsBijection
<1>10. IsFiniteSet(T) /\ Cardinality(T) = Cardinality(S)
  BY <1>8, <1>9, FS_Bijection
<1> QED BY <1>2, <1>8, <1>10 DEF T, Bit

-----------------------------------------------------------------------------
(* Steps and the reference counts of timelines.                            *)

\* A thread has, for its call, a reference to t; t is in the idr.
Holds(r, t) == r.tl = t /\ r.pc # "commit" /\ r.why # "retire"
Known(t) == idr[t] \in {"reserved", "live"}
Owns(f, t) == Live(f) /\ fence[f].tl = t

UsersAt(t) ==
  /\ IsFiniteSet(EntryUsers(t))
  /\ tline[t].ref = Bit(Known(t)) + Cardinality(CallUsers(t))
                    + Cardinality(FenceUsers(t)) + Cardinality(EntryUsers(t))

RefsIInv == IdsInv /\ UsersInv

LEMMA UsersAre ==
  ASSUME NEW t
  PROVE  /\ CallUsers(t) = {x \in Thread : Holds(th[x], t)}
         /\ CallUsers(t)' = {x \in Thread : Holds(th'[x], t)}
         /\ FenceUsers(t) = {f \in Fence : Owns(f, t)}
         /\ FenceUsers(t)' = {f \in Fence : Owns(f, t)'}
         /\ IsFiniteSet(CallUsers(t)) /\ Cardinality(CallUsers(t)) \in Nat
         /\ IsFiniteSet(FenceUsers(t)) /\ Cardinality(FenceUsers(t)) \in Nat
<1>1. /\ CallUsers(t) = {x \in Thread : Holds(th[x], t)}
      /\ CallUsers(t)' = {x \in Thread : Holds(th'[x], t)}
  BY DEF CallUsers, Holds
<1>2. /\ FenceUsers(t) = {f \in Fence : Owns(f, t)}
      /\ FenceUsers(t)' = {f \in Fence : Owns(f, t)'}
  BY DEF FenceUsers, Owns
<1>3. CallUsers(t) \in SUBSET Thread /\ FenceUsers(t) \in SUBSET Fence
  BY <1>1, <1>2
<1>4. IsFiniteSet(CallUsers(t)) /\ IsFiniteSet(FenceUsers(t))
  BY <1>3, TimelineAssumption, FS_Subset
<1> QED BY <1>1, <1>2, <1>4, FS_CardinalityType

\* One thread moves, one fence changes, the entries change by d: the count
\* follows.
LEMMA Counted ==
  ASSUME NEW t, UsersAt(t), NEW x, Others(x),
         NEW f, \A g \in Fence \ {f} : Owns(g, t)' <=> Owns(g, t),
         NEW d \in Int, IsFiniteSet(EntryUsers(t)'),
         Cardinality(EntryUsers(t)') = Cardinality(EntryUsers(t)) + d,
         tline'[t].ref = tline[t].ref + (Bit(Known(t)') - Bit(Known(t)))
           + (Bit(x \in CallUsers(t)') - Bit(x \in CallUsers(t)))
           + (Bit(f \in FenceUsers(t)') - Bit(f \in FenceUsers(t))) + d
  PROVE  UsersAt(t)'
<1>1. \A y : y # x => (y \in CallUsers(t)' <=> y \in CallUsers(t))
  BY UsersAre DEF Others
<1>2. Cardinality(CallUsers(t)') = Cardinality(CallUsers(t))
        + Bit(x \in CallUsers(t)') - Bit(x \in CallUsers(t))
  BY <1>1, UsersAre, OneMember
<1>3. \A g : g # f => (g \in FenceUsers(t)' <=> g \in FenceUsers(t))
  BY UsersAre
<1>4. Cardinality(FenceUsers(t)') = Cardinality(FenceUsers(t))
        + Bit(f \in FenceUsers(t)') - Bit(f \in FenceUsers(t))
  BY <1>3, UsersAre, OneMember
<1>5. Cardinality(EntryUsers(t)) \in Nat
  BY FS_CardinalityType DEF UsersAt
<1>6. \A b : Bit(b) \in Int
  BY DEF Bit
<1>7. Cardinality(CallUsers(t)) \in Nat /\ Cardinality(FenceUsers(t)) \in Nat
  BY UsersAre
<1>8. tline'[t].ref = Bit(Known(t)') + Cardinality(CallUsers(t)')
                      + Cardinality(FenceUsers(t)') + Cardinality(EntryUsers(t)')
  <2> DEFINE k == Bit(Known(t))  k1 == Bit(Known(t)')
             c == Bit(x \in CallUsers(t))  c1 == Bit(x \in CallUsers(t)')
             h == Bit(f \in FenceUsers(t))  h1 == Bit(f \in FenceUsers(t)')
  <2>1. k \in Int /\ k1 \in Int /\ c \in Int /\ c1 \in Int /\ h \in Int /\ h1 \in Int
    BY <1>6
  <2>2. tline[t].ref = k + Cardinality(CallUsers(t))
                       + Cardinality(FenceUsers(t)) + Cardinality(EntryUsers(t))
    BY DEF UsersAt
  <2> HIDE DEF k, k1, c, c1, h, h1
  <2>3. tline'[t].ref = tline[t].ref + (k1 - k) + (c1 - c) + (h1 - h) + d
    BY DEF k, k1, c, c1, h, h1
  <2>4. Cardinality(CallUsers(t)') = Cardinality(CallUsers(t)) + c1 - c
        /\ Cardinality(FenceUsers(t)') = Cardinality(FenceUsers(t)) + h1 - h
    BY <1>2, <1>4 DEF c, c1, h, h1
  <2>5. tline'[t].ref = k1 + Cardinality(CallUsers(t)')
                      + Cardinality(FenceUsers(t)') + Cardinality(EntryUsers(t)')
    BY <1>5, <1>7, <2>1, <2>2, <2>3, <2>4
  <2> QED BY <2>5 DEF k1
<1> QED BY <1>8 DEF UsersAt

LEMMA AllUsers ==
  /\ UsersInv <=> \A t \in Timeline : UsersAt(t)
  /\ UsersInv' <=> \A t \in Timeline : UsersAt(t)'
BY DEF UsersInv, UsersAt, Known

RefsSame == \A t \in Timeline : tline'[t].ref = tline[t].ref
SameOwners == \A f \in Fence : \A t \in Timeline : Owns(f, t)' <=> Owns(f, t)

LEMMA NatRef ==
  ASSUME UsersInv, NEW t \in Timeline
  PROVE  UsersAt(t) /\ tline[t].ref \in Nat /\ IsFiniteSet(EntryUsers(t))
         /\ Cardinality(EntryUsers(t)) \in Nat
<1>1. UsersAt(t)
  BY AllUsers
<1>2. Cardinality(EntryUsers(t)) \in Nat
  BY <1>1, FS_CardinalityType DEF UsersAt
<1> QED BY <1>1, <1>2, UsersAre DEF UsersAt, Bit

\* Nothing that counts changes.
LEMMA UsersFrame ==
  ASSUME UsersInv, NEW x, Others(x), SameEntries, RefsSame, SameOwners,
         \A t \in Timeline : (x \in CallUsers(t)' <=> x \in CallUsers(t)) /\ (Known(t)' <=> Known(t))
  PROVE  UsersInv'
<1> SUFFICES ASSUME NEW t \in Timeline PROVE UsersAt(t)'
  BY AllUsers
<1>1. UsersAt(t) /\ tline[t].ref \in Nat /\ IsFiniteSet(EntryUsers(t))
      /\ Cardinality(EntryUsers(t)) \in Nat
  BY NatRef
<1>2. EntryUsers(t)' = EntryUsers(t)
  BY EntriesFixed
<1>3. Null \notin Fence
  BY TimelineAssumption
<1>4. Null \notin FenceUsers(t) /\ Null \notin FenceUsers(t)'
  BY <1>3, UsersAre
<1>5. tline'[t].ref = tline[t].ref + (Bit(Known(t)') - Bit(Known(t)))
           + (Bit(x \in CallUsers(t)') - Bit(x \in CallUsers(t)))
           + (Bit(Null \in FenceUsers(t)') - Bit(Null \in FenceUsers(t))) + 0
  BY <1>1, <1>4 DEF Bit, RefsSame
<1>6. Cardinality(EntryUsers(t)') = Cardinality(EntryUsers(t)) + 0
  BY <1>1, <1>2
<1>7. IsFiniteSet(EntryUsers(t)')
  BY <1>1, <1>2
<1>8. \A g \in Fence \ {Null} : Owns(g, t)' <=> Owns(g, t)
  BY DEF SameOwners
<1> QED BY <1>1, <1>5, <1>6, <1>7, <1>8, Counted

\* Timeline u gains or loses c references: those of the thread that moves, of
\* a fence f, of the entries.
LEMMA UsersMove ==
  ASSUME UsersInv, UNCHANGED idr, NEW x, Others(x), NEW u \in Timeline, NEW f,
         \A t \in Timeline : \A g \in Fence \ {f} : Owns(g, t)' <=> Owns(g, t),
         NEW c \in Int, NEW h \in Int, NEW d \in Int,
         tline'[u].ref = tline[u].ref + c + h + d,
         \A t \in Timeline \ {u} : tline'[t].ref = tline[t].ref,
         Bit(x \in CallUsers(u)') - Bit(x \in CallUsers(u)) = c,
         Bit(f \in FenceUsers(u)') - Bit(f \in FenceUsers(u)) = h,
         \A t \in Timeline \ {u} : (x \in CallUsers(t)' <=> x \in CallUsers(t))
                                   /\ (f \in FenceUsers(t)' <=> f \in FenceUsers(t)),
         \A t \in Timeline : IsFiniteSet(EntryUsers(t)'),
         Cardinality(EntryUsers(u)') = Cardinality(EntryUsers(u)) + d,
         \A t \in Timeline \ {u} : Cardinality(EntryUsers(t)') = Cardinality(EntryUsers(t))
  PROVE  UsersInv'
<1> SUFFICES ASSUME NEW t \in Timeline PROVE UsersAt(t)'
  BY AllUsers
<1>1. UsersAt(t) /\ tline[t].ref \in Nat /\ Cardinality(EntryUsers(t)) \in Nat
  BY NatRef
<1>2. Bit(Known(t)') - Bit(Known(t)) = 0
  BY DEF Known, Bit
<1>3. CASE t = u
  <2>1. tline'[t].ref = tline[t].ref + (Bit(Known(t)') - Bit(Known(t)))
           + (Bit(x \in CallUsers(t)') - Bit(x \in CallUsers(t)))
           + (Bit(f \in FenceUsers(t)') - Bit(f \in FenceUsers(t))) + d
    BY <1>1, <1>2, <1>3
  <2> QED BY <1>1, <1>3, <2>1, Counted
<1>4. CASE t # u
  <2>1. /\ Bit(x \in CallUsers(t)') - Bit(x \in CallUsers(t)) = 0
        /\ Bit(f \in FenceUsers(t)') - Bit(f \in FenceUsers(t)) = 0
    BY <1>4 DEF Bit
  <2>2. tline'[t].ref = tline[t].ref + (Bit(Known(t)') - Bit(Known(t)))
           + (Bit(x \in CallUsers(t)') - Bit(x \in CallUsers(t)))
           + (Bit(f \in FenceUsers(t)') - Bit(f \in FenceUsers(t))) + 0
    BY <1>1, <1>2, <1>4, <2>1
  <2>3. Cardinality(EntryUsers(t)') = Cardinality(EntryUsers(t)) + 0
    BY <1>1, <1>4
  <2> QED BY <1>1, <2>2, <2>3, Counted
<1> QED BY <1>3, <1>4

\* A thread other than a creating one moves.
LEMMA IdsFrame ==
  ASSUME IdsInv, UNCHANGED idr, NEW x, Others(x),
         x \in Thread => /\ th'[x].pc # "commit"
                         /\ th'[x].tl # Null => idr[th'[x].tl] # "none"
  PROVE  IdsInv'
BY DEF IdsInv, Others

\* A call goes on, or another begins, with the same timeline reference.
LEMMA RefsGo ==
  ASSUME FenceIInv, ObjIInv, ObjIInv', RefsIInv, NEW x \in Thread,
         NEW pc, NEW why, NEW todo, NEW tl, NEW n, Goes(x, pc, why, todo, tl, n),
         UNCHANGED idr, \A m \in Obj : obj'[m].vals = obj[m].vals, RefsSame, SameOwners,
         pc # "commit", th[x].pc # "commit", tl = th[x].tl,
         \/ th[x].why # "retire" /\ why # "retire"
         \/ why = th[x].why /\ n = th[x].o /\ todo = th[x].todo
  PROVE  RefsIInv'
<1>1. Others(x)
  BY DEF Goes, Others
<1>2. IdsInv'
  <2>1. th'[x].tl # Null => idr[th'[x].tl] # "none"
    BY DEF Goes, RefsIInv, IdsInv
  <2> QED BY <1>1, <2>1, IdsFrame DEF Goes, RefsIInv
<1>3. SameEntries
  BY <1>1, EntriesStay DEF Goes
<1>4. \A t \in Timeline : (x \in CallUsers(t)' <=> x \in CallUsers(t)) /\ (Known(t)' <=> Known(t))
  BY UsersAre DEF Goes, Holds, Known
<1>5. UsersInv'
  BY <1>1, <1>3, <1>4, UsersFrame DEF RefsIInv
<1> QED BY <1>2, <1>5 DEF RefsIInv

LEMMA OwnersKept ==
  ASSUME UNCHANGED fence PROVE SameOwners
BY DEF SameOwners, Owns, Live

LEMMA RefsKept ==
  /\ UNCHANGED tline => RefsSame
  /\ \A t \in Timeline : \A v, E : TlineGoes(t, tline[t].ref, v, E) => RefsSame
BY DEF RefsSame, TlineGoes

LEMMA OwnersPut ==
  ASSUME FenceIInv, NEW x, NEW r, NEW f \in Fence, fence[f].ref > 0,
         NEW s, s \in {"ok", "error", fence[f].status}, FencePut(x, r, f, s)
  PROVE  SameOwners
<1>1. FenceShape /\ Live(f)
  BY DEF FenceIInv, StateShape, RefInv
<1>2. \A g \in Fence : fence'[g].tl = fence[g].tl /\ (g # f => fence'[g].status = fence[g].status)
  BY <1>1 DEF FencePut, FenceShape, IsFence, FenceFields
<1>3. fence'[f].status = s
  BY <1>1 DEF FencePut, FenceShape, IsFence, FenceFields
<1> QED BY <1>1, <1>2, <1>3 DEF SameOwners, Owns, Live

LEMMA OwnersGet ==
  ASSUME FenceIInv, NEW F, fence' = FencesGet(F)
  PROVE  SameOwners
<1>1. FenceShape
  BY DEF FenceIInv, StateShape
<1>2. \A g \in Fence : fence'[g].tl = fence[g].tl /\ fence'[g].status = fence[g].status
  BY <1>1 DEF FencesGet, FenceShape, IsFence, FenceFields
<1> QED BY <1>2 DEF SameOwners, Owns, Live

\* A fence a thread has made or taken, or that has a file, has a reference.
LEMMA Referenced ==
  ASSUME FenceIInv, NEW f \in Fence, Made(f) \/ Taken(f) \/ f \in files
  PROVE  fence[f].ref > 0
BY DEF FenceIInv, RefInv, Bit

-----------------------------------------------------------------------------
(* The reference counts through every action.                              *)

LEMMA RefsTimelineAlloc ==
  ASSUME FenceIInv, ObjIInv, ObjIInv', RefsIInv, NEW x \in Thread, NEW u \in Timeline,
         TimelineAlloc(x, u)
  PROVE  RefsIInv'
<1> USE DEF TimelineAlloc, At
<1> DEFINE s == [Idle EXCEPT !.pc = "commit", !.tl = u]
<1>1. IsThread(s) /\ s.pc = "commit" /\ s.why = "none" /\ s.todo = <<>> /\ s.tl = u /\ s.o = Null
  BY IdleIsThread, IdleFields DEF IsThread, ThreadFields
<1>2. th' = [th EXCEPT ![x] = s]
  OBVIOUS
<1> HIDE DEF s
<1>3. Goes(x, "commit", "none", <<>>, u, Null)
  <2>1. Goes(x, s.pc, s.why, s.todo, s.tl, s.o)
    BY <1>1, <1>2, GoesTo
  <2> QED BY <2>1, <1>1, <1>2 DEF Goes
<1>4. PICK v \in Seqno : tline' = [tline EXCEPT ![u].ref = 1, ![u].value = v]
  OBVIOUS
<1>5. TlineGoes(u, 1, v, tline[u].events)
  BY <1>4, TlineFresh
<1>6. Others(x) /\ th[x].why # "retire" /\ th[x].tl = Null
  BY <1>3, NotRetiring DEF Goes, Others, ValueSteps, DestroySteps
<1>7. SameEntries
  BY <1>3, <1>6, EntriesStay DEF Goes
<1>8. IdsInv'
  <2>1. idr' \in [Timeline -> {"none", "reserved", "live", "removed"}]
        /\ idr'[u] = "reserved" /\ \A t \in Timeline \ {u} : idr'[t] = idr[t]
    BY DEF RefsIInv, IdsInv
  <2>2. \A y \in Thread \ {x} : th'[y] = th[y] /\ th[y].tl # u
    BY <1>6, TimelineAssumption DEF Others, RefsIInv, IdsInv
  <2>3. \A y \in Thread : th[y].tl # Null => th[y].tl \in Timeline
    BY ThreadIs DEF ThreadOK
  <2>4. \A y \in Thread : th[y].pc = "commit" => th[y].tl # Null
    BY NotRetiring
  <2> QED BY <1>3, <2>1, <2>2, <2>3, <2>4 DEF Goes, RefsIInv, IdsInv
<1>9. UsersInv'
  <2> SUFFICES ASSUME NEW t \in Timeline PROVE UsersAt(t)'
    BY AllUsers
  <2>1. UsersAt(t) /\ tline[t].ref \in Nat /\ IsFiniteSet(EntryUsers(t))
        /\ Cardinality(EntryUsers(t)) \in Nat
    BY NatRef DEF RefsIInv
  <2>2. EntryUsers(t)' = EntryUsers(t)
    BY <1>7, EntriesFixed
  <2>3. x \notin CallUsers(t) /\ x \notin CallUsers(t)'
    BY <1>3, <1>6, UsersAre, TimelineAssumption DEF Goes, Holds
  <2>4. Null \notin FenceUsers(t) /\ Null \notin FenceUsers(t)'
    BY UsersAre, TimelineAssumption
  <2>5. \A g \in Fence \ {Null} : Owns(g, t)' <=> Owns(g, t)
    BY OwnersKept DEF SameOwners
  <2>6. tline'[t].ref = tline[t].ref + (Bit(Known(t)') - Bit(Known(t)))
    <3>1. CASE t = u
      <4>1. ~Known(t) /\ Known(t)' /\ tline'[t].ref = 1
        BY <1>5, <3>1 DEF TlineGoes, Known, RefsIInv, IdsInv
      <4>2. CallUsers(t) = {}
        BY <3>1, UsersAre, TimelineAssumption DEF Holds, RefsIInv, IdsInv
      <4>3. FenceUsers(t) = {}
        BY <3>1, UsersAre DEF Owns, FenceIInv, IdInv
      <4>4. EntryUsers(t) = {}
        <5>1. ASSUME NEW n \in Obj, NEW i \in DOMAIN Entries(n) PROVE Entries(n)[i].tl # t
          <6>1. Entries(n)[i] \in ToSet(obj[n].vals)
            BY EntriesAre DEF ToSet
          <6> QED BY <3>1, <6>1 DEF ObjIInv, ArrayInv
        <5> QED BY <5>1, EntryUser
      <4>5. tline[t].ref = 0
        BY <2>1, <4>1, <4>2, <4>3, <4>4, FS_EmptySet DEF UsersAt, Bit
      <4> QED BY <4>1, <4>5 DEF Bit
    <3>2. CASE t # u
      <4>1. Known(t)' <=> Known(t)
        BY <3>2 DEF Known, RefsIInv, IdsInv
      <4>2. tline'[t].ref = tline[t].ref
        BY <1>5, <3>2 DEF TlineGoes
      <4> QED BY <2>1, <4>1, <4>2 DEF Bit
    <3> QED BY <3>1, <3>2
  <2>7. tline'[t].ref = tline[t].ref + (Bit(Known(t)') - Bit(Known(t)))
           + (Bit(x \in CallUsers(t)') - Bit(x \in CallUsers(t)))
           + (Bit(Null \in FenceUsers(t)') - Bit(Null \in FenceUsers(t))) + 0
    BY <2>1, <2>3, <2>4, <2>6 DEF Bit
  <2>8. Cardinality(EntryUsers(t)') = Cardinality(EntryUsers(t)) + 0
        /\ IsFiniteSet(EntryUsers(t)')
    BY <2>1, <2>2
  <2> HIDE DEF TimelineAlloc, At
  <2> QED BY <1>6, <2>1, <2>5, <2>7, <2>8, Counted
<1> QED BY <1>8, <1>9 DEF RefsIInv

LEMMA RefsTimelineCreate ==
  ASSUME FenceIInv, ObjIInv, ObjIInv', RefsIInv, NEW x \in Thread, TimelineCreate(x)
  PROVE  RefsIInv'
<1> USE DEF TimelineCreate, At
<1>1. Goes(x, "idle", "none", <<>>, Null, Null)
  BY IdleGoes
<1>2. Others(x) /\ th[x].why # "retire" /\ th[x].tl # Null
  BY <1>1, NotRetiring DEF Goes, Others, ValueSteps, DestroySteps
<1>3. PICK u \in Timeline : u = th[x].tl /\ idr[u] = "reserved"
  BY <1>2, ThreadIs DEF ThreadOK, RefsIInv, IdsInv
<1>4. /\ idr' \in [Timeline -> {"none", "reserved", "live", "removed"}]
      /\ idr'[u] = "live" /\ \A t \in Timeline \ {u} : idr'[t] = idr[t]
  BY <1>3 DEF RefsIInv, IdsInv
<1>5. IdsInv'
  <2>1. ASSUME NEW y \in Thread, th'[y].pc = "commit"
        PROVE  y # x /\ th'[y] = th[y] /\ th[y].tl \in Timeline \ {u}
    BY <1>1, <1>3, <2>1, ThreadIs DEF Goes, ThreadOK, RefsIInv, IdsInv
  <2>2. ASSUME NEW y \in Thread, th'[y].tl # Null
        PROVE  y # x /\ th'[y] = th[y] /\ th[y].tl \in Timeline
    BY <1>1, <2>2, ThreadIs DEF Goes, ThreadOK
  <2> QED BY <1>4, <2>1, <2>2 DEF RefsIInv, IdsInv
<1>6. SameEntries
  BY <1>1, <1>2, EntriesStay DEF Goes
<1>7. \A t \in Timeline : (x \in CallUsers(t)' <=> x \in CallUsers(t)) /\ (Known(t)' <=> Known(t))
  BY <1>1, <1>3, <1>4, UsersAre, TimelineAssumption DEF Goes, Holds, Known
<1>8. UsersInv'
  BY <1>2, <1>6, <1>7, UsersFrame, OwnersKept, RefsKept DEF RefsIInv
<1> QED BY <1>5, <1>8 DEF RefsIInv

LEMMA RefsDestroyId ==
  ASSUME FenceIInv, ObjIInv, ObjIInv', RefsIInv, NEW x \in Thread, NEW u \in Timeline,
         DestroyId(x, u)
  PROVE  RefsIInv'
<1> USE DEF DestroyId, At
<1> DEFINE v == <<[tl |-> u, seq |-> 0]>>
           s == [Idle EXCEPT !.pc = "steal", !.why = "destroy", !.tl = u, !.todo = v]
<1>1. th' = [th EXCEPT ![x] = s]
  OBVIOUS
<1> HIDE DEF v
<1>2. IsThread(s) /\ s.pc = "steal" /\ s.why = "destroy" /\ s.todo = v /\ s.tl = u /\ s.o = Null
  BY IdleIsThread, IdleFields DEF IsThread, ThreadFields
<1> HIDE DEF s
<1>3. Goes(x, "steal", "destroy", v, u, Null)
  <2>1. Goes(x, s.pc, s.why, s.todo, s.tl, s.o)
    BY <1>1, <1>2, GoesTo
  <2> QED BY <2>1, <1>1, <1>2 DEF Goes
<1>4. Others(x) /\ th[x].why # "retire" /\ th[x].tl = Null
  BY <1>3, NotRetiring DEF Goes, Others, ValueSteps, DestroySteps
<1>5. /\ idr' \in [Timeline -> {"none", "reserved", "live", "removed"}]
      /\ idr'[u] = "removed" /\ \A t \in Timeline \ {u} : idr'[t] = idr[t]
  BY DEF RefsIInv, IdsInv
<1>6. IdsInv'
  <2>1. ASSUME NEW y \in Thread, th'[y].pc = "commit"
        PROVE  y # x /\ th'[y] = th[y] /\ th[y].tl \in Timeline \ {u}
    <3>1. y # x /\ th'[y] = th[y] /\ th[y].pc = "commit"
      BY <1>3, <2>1 DEF Goes
    <3>2. th[y].tl \in Timeline /\ idr[th[y].tl] = "reserved"
      BY <3>1, ThreadIs DEF ThreadOK, RefsIInv, IdsInv
    <3> QED BY <3>1, <3>2
  <2>2. ASSUME NEW y \in Thread, th'[y].tl # Null
        PROVE  idr'[th'[y].tl] # "none"
    <3>1. CASE y = x
      BY <1>3, <1>5, <3>1 DEF Goes
    <3>2. CASE y # x
      <4>1. th'[y] = th[y] /\ th[y].tl \in Timeline
        BY <1>3, <2>2, <3>2, ThreadIs DEF Goes, ThreadOK
      <4> QED BY <1>5, <2>2, <4>1 DEF RefsIInv, IdsInv
    <3> QED BY <3>1, <3>2
  <2> QED BY <1>5, <2>1, <2>2 DEF RefsIInv, IdsInv
<1>7. SameEntries
  BY <1>3, <1>4, EntriesStay DEF Goes
<1>8. UsersInv'
  <2> SUFFICES ASSUME NEW t \in Timeline PROVE UsersAt(t)'
    BY AllUsers
  <2>1. UsersAt(t) /\ tline[t].ref \in Nat /\ IsFiniteSet(EntryUsers(t))
        /\ Cardinality(EntryUsers(t)) \in Nat
    BY NatRef DEF RefsIInv
  <2>2. EntryUsers(t)' = EntryUsers(t)
    BY <1>7, EntriesFixed
  <2>3. x \notin CallUsers(t) /\ (x \in CallUsers(t)' <=> t = u)
    BY <1>3, <1>4, UsersAre, TimelineAssumption DEF Goes, Holds
  <2>4. Null \notin FenceUsers(t) /\ Null \notin FenceUsers(t)'
    BY UsersAre, TimelineAssumption
  <2>5. \A g \in Fence \ {Null} : Owns(g, t)' <=> Owns(g, t)
    BY OwnersKept DEF SameOwners
  <2>6. (t = u => Known(t) /\ ~Known(t)') /\ (t # u => (Known(t)' <=> Known(t)))
    BY <1>5 DEF Known
  <2>7. tline'[t].ref = tline[t].ref + (Bit(Known(t)') - Bit(Known(t)))
           + (Bit(x \in CallUsers(t)') - Bit(x \in CallUsers(t)))
           + (Bit(Null \in FenceUsers(t)') - Bit(Null \in FenceUsers(t))) + 0
    BY <2>1, <2>3, <2>4, <2>6 DEF Bit
  <2>8. Cardinality(EntryUsers(t)') = Cardinality(EntryUsers(t)) + 0
        /\ IsFiniteSet(EntryUsers(t)')
    BY <2>1, <2>2
  <2> HIDE DEF DestroyId, At
  <2> QED BY <1>4, <2>1, <2>5, <2>7, <2>8, Counted
<1> QED BY <1>6, <1>8 DEF RefsIInv

\* The thread that moves takes or puts the reference of its call.
LEMMA CallMoves ==
  ASSUME UsersInv, UNCHANGED idr, SameOwners, NEW x, Others(x), SameEntries,
         NEW u \in Timeline, NEW c \in Int, NEW v, NEW E, TlineGoes(u, tline[u].ref + c, v, E),
         Bit(x \in CallUsers(u)') - Bit(x \in CallUsers(u)) = c,
         \A t \in Timeline \ {u} : x \in CallUsers(t)' <=> x \in CallUsers(t)
  PROVE  UsersInv'
<1>1. \A t \in Timeline : EntryUsers(t)' = EntryUsers(t) /\ IsFiniteSet(EntryUsers(t))
                          /\ Cardinality(EntryUsers(t)) \in Nat /\ tline[t].ref \in Nat
  BY EntriesFixed, NatRef
<1>2. \A t \in Timeline : Null \notin FenceUsers(t) /\ Null \notin FenceUsers(t)'
  BY UsersAre, TimelineAssumption
<1>3. Bit(Null \in FenceUsers(u)') - Bit(Null \in FenceUsers(u)) = 0
  BY <1>2 DEF Bit
<1>4. tline'[u].ref = tline[u].ref + c + 0 + 0
      /\ \A t \in Timeline \ {u} : tline'[t].ref = tline[t].ref
  BY <1>1 DEF TlineGoes
<1>5. \A t \in Timeline : IsFiniteSet(EntryUsers(t)') /\ Cardinality(EntryUsers(t)') = Cardinality(EntryUsers(t))
  BY <1>1
<1>6. Cardinality(EntryUsers(u)') = Cardinality(EntryUsers(u)) + 0
  BY <1>1
<1>7. \A t \in Timeline : \A g \in Fence \ {Null} : Owns(g, t)' <=> Owns(g, t)
  BY DEF SameOwners
<1> QED BY <1>2, <1>3, <1>4, <1>5, <1>6, <1>7, UsersMove

LEMMA RefsCall ==
  ASSUME FenceIInv, ObjIInv, ObjIInv', RefsIInv, NEW x \in Thread, NEW why,
         NEW vals \in Arrays, Call(x, why, vals)
  PROVE  RefsIInv'
<1>1. /\ th[x].pc = "idle" /\ UNCHANGED <<idr, tline, fence, files, obj>>
      /\ why \in {"fence_get", "wait", "signal"}
  BY DEF Call, At
<1>2. PICK any \in BOOLEAN :
        th' = [th EXCEPT ![x] = [Idle EXCEPT !.pc = "lookup", !.why = why,
                                             !.todo = vals, !.any = any]]
  BY DEF Call
<1> DEFINE s == [Idle EXCEPT !.pc = "lookup", !.why = why, !.todo = vals, !.any = any]
<1>3. IsThread(s) /\ s.pc = "lookup" /\ s.why = why /\ s.todo = vals /\ s.tl = Null /\ s.o = Null
  BY IdleIsThread, IdleFields DEF IsThread, ThreadFields
<1>4. th' = [th EXCEPT ![x] = s]
  BY <1>2
<1> HIDE DEF s
<1>5. Goes(x, "lookup", why, vals, Null, Null)
  <2>1. Goes(x, s.pc, s.why, s.todo, s.tl, s.o)
    BY <1>3, <1>4, GoesTo
  <2> QED BY <2>1, <1>3 DEF Goes
<1>6. th[x].why # "retire" /\ th[x].tl = Null
  BY <1>1, NotRetiring DEF ValueSteps, DestroySteps
<1> QED BY <1>1, <1>5, <1>6, RefsGo, OwnersKept, RefsKept

LEMMA RefsLookup ==
  ASSUME FenceIInv, ObjIInv, ObjIInv', RefsIInv, NEW x \in Thread, Lookup(x)
  PROVE  RefsIInv'
<1>1. /\ Head(th[x].todo).tl \in Timeline /\ th[x].pc = "lookup"
      /\ th[x].why \in {"fence_get", "wait", "signal"} /\ UNCHANGED <<idr, fence, files, obj>>
  BY ThreadIs, FirstValue DEF ThreadOK, ValueSteps, Agree, Lookup, At
<1>2. PICK u \in Timeline : u = Head(th[x].todo).tl
  BY <1>1
<1>3. th[x].tl = Null
  BY <1>1, NotRetiring DEF ValueSteps, DestroySteps
<1>4. CASE /\ TimelineById(u) /\ tline' = TimelineGet(u)
           /\ th' = [th EXCEPT ![x].pc = th[x].why, ![x].tl = u]
  <2>1. Goes(x, th[x].why, th[x].why, th[x].todo, u, th[x].o)
    BY <1>4, GoesPcTl
  <2>2. Others(x) /\ th'[x].pc # "commit" /\ idr[u] # "none" /\ th'[x].tl = u
    BY <1>1, <1>4, <2>1 DEF Goes, Others, TimelineById
  <2>3. IdsInv'
    BY <1>1, <2>2, IdsFrame DEF RefsIInv
  <2>4. SameEntries
    BY <1>1, <2>1, <2>2, EntriesStay DEF Goes
  <2>5. \A t \in Timeline : x \notin CallUsers(t) /\ (x \in CallUsers(t)' <=> t = u)
    BY <1>1, <1>3, <2>1, UsersAre, TimelineAssumption DEF Goes, Holds
  <2>6. Bit(x \in CallUsers(u)') - Bit(x \in CallUsers(u)) = 1
    BY <2>5 DEF Bit
  <2>7. TlineGoes(u, tline[u].ref + 1, tline[u].value, tline[u].events)
    BY <1>4, TlineGets
  <2>8. UsersInv'
    BY <1>1, <2>2, <2>4, <2>5, <2>6, <2>7, CallMoves, OwnersKept DEF RefsIInv
  <2> QED BY <2>3, <2>8 DEF RefsIInv
<1>5. CASE th' = [th EXCEPT ![x].pc = "unwind"] /\ UNCHANGED tline
  <2>1. Goes(x, "unwind", th[x].why, th[x].todo, th[x].tl, th[x].o)
    BY <1>5, GoesPc
  <2> QED BY <1>1, <1>5, <2>1, RefsGo, OwnersKept, RefsKept
<1> QED BY <1>2, <1>4, <1>5 DEF Lookup

LEMMA RefsFenceAlloc ==
  ASSUME FenceIInv, ObjIInv, ObjIInv', RefsIInv, NEW x \in Thread, FenceAlloc(x)
  PROVE  RefsIInv'
<1>1. /\ th[x].tl \in Timeline /\ th[x].pc \in {"fence_get", "wait"}
      /\ th[x].why \in {"fence_get", "wait"} /\ UNCHANGED <<idr, files, obj>>
  BY ThreadIs DEF ThreadOK, ValueSteps, Agree, FenceAlloc, At
<1>2. PICK u \in Timeline : u = th[x].tl
  BY <1>1
<1>3. ASSUME NEW f \in Fence, fence[f].status = "none",
             NEW q, NEW s, s \in {"ok", "pending"},
             fence' = [fence EXCEPT ![f] = [tl |-> u, seq |-> q, ref |-> 1, status |-> s]],
             NEW F, tline' = [tline EXCEPT ![u].ref = tline[u].ref + 1, ![u].fences = F],
             th' = [th EXCEPT ![x].pc = "got", ![x].mine = @ \cup {f}]
      PROVE  RefsIInv'
  <2>1. Goes(x, "got", th[x].why, th[x].todo, u, th[x].o)
    BY <1>2, <1>3, GoesPcMine
  <2>2. Others(x) /\ th'[x].pc # "commit" /\ th'[x].tl = u /\ idr[u] # "none"
    BY <1>2, <2>1, TimelineAssumption DEF Goes, Others, RefsIInv, IdsInv
  <2>3. IdsInv'
    BY <1>1, <2>2, IdsFrame DEF RefsIInv
  <2>4. SameEntries
    BY <1>1, <2>1, <2>2, EntriesStay DEF Goes
  <2>5. \A t \in Timeline : x \in CallUsers(t)' <=> x \in CallUsers(t)
    BY <1>1, <1>2, <2>1, UsersAre DEF Goes, Holds
  <2>6. TlineGoes(u, tline[u].ref + 1, tline[u].value, tline[u].events)
    BY <1>3, TlineRefFences
  <2>7. FenceShape
    BY DEF FenceIInv, StateShape
  <2>8. /\ \A g \in Fence \ {f} : fence'[g] = fence[g]
        /\ fence'[f].tl = u /\ fence'[f].status = s
    BY <1>3, <2>7 DEF FenceShape
  <2>9. \A t \in Timeline : \A g \in Fence \ {f} : Owns(g, t)' <=> Owns(g, t)
    BY <2>8 DEF Owns, Live
  <2>10. \A t \in Timeline : f \notin FenceUsers(t) /\ (f \in FenceUsers(t)' <=> t = u)
    BY <1>3, <2>8, UsersAre DEF Owns, Live
  <2>11. Bit(f \in FenceUsers(u)') - Bit(f \in FenceUsers(u)) = 1
    BY <2>10 DEF Bit
  <2>12. Bit(x \in CallUsers(u)') - Bit(x \in CallUsers(u)) = 0
    BY <2>5 DEF Bit
  <2>13. \A t \in Timeline : EntryUsers(t)' = EntryUsers(t) /\ IsFiniteSet(EntryUsers(t))
                          /\ Cardinality(EntryUsers(t)) \in Nat /\ tline[t].ref \in Nat
    BY <2>4, EntriesFixed, NatRef DEF RefsIInv
  <2>14. tline'[u].ref = tline[u].ref + 0 + 1 + 0
         /\ \A t \in Timeline \ {u} : tline'[t].ref = tline[t].ref
    BY <2>6, <2>13 DEF TlineGoes
  <2>15. \A t \in Timeline : IsFiniteSet(EntryUsers(t)')
                             /\ Cardinality(EntryUsers(t)') = Cardinality(EntryUsers(t))
    BY <2>13
  <2>16. Cardinality(EntryUsers(u)') = Cardinality(EntryUsers(u)) + 0
    BY <2>13
  <2>17. UsersInv'
    BY <1>1, <2>2, <2>5, <2>9, <2>10, <2>11, <2>12, <2>14, <2>15, <2>16, UsersMove DEF RefsIInv
  <2> QED BY <2>3, <2>17 DEF RefsIInv
<1>4. CASE th' = [th EXCEPT ![x].pc = "got", ![x].why = "failed"] /\ UNCHANGED <<tline, fence>>
  <2>1. Goes(x, "got", "failed", th[x].todo, th[x].tl, th[x].o)
    BY <1>4, GoesPcWhy
  <2> QED BY <1>1, <1>4, <2>1, RefsGo, OwnersKept, RefsKept
<1>5. CASE \E f \in Fence :
             LET q == Head(th[x].todo).seq
             IN /\ fence[f].status = "none"
                /\ fence' = [fence EXCEPT ![f] = [tl |-> u, seq |-> q, ref |-> 1,
                                status |-> IF Reached(u, q) THEN "ok" ELSE "pending"]]
                /\ tline' = [tline EXCEPT ![u].ref = @ + 1,
                               ![u].fences = IF Reached(u, q) THEN @ ELSE @ \cup {f}]
                /\ th' = [th EXCEPT ![x].pc = "got", ![x].mine = @ \cup {f}]
  <2>1. PICK q : q = Head(th[x].todo).seq
    OBVIOUS
  <2>2. PICK f \in Fence :
             /\ fence[f].status = "none"
             /\ fence' = [fence EXCEPT ![f] = [tl |-> u, seq |-> q, ref |-> 1,
                             status |-> IF Reached(u, q) THEN "ok" ELSE "pending"]]
             /\ tline' = [tline EXCEPT ![u].ref = @ + 1,
                            ![u].fences = IF Reached(u, q) THEN @ ELSE @ \cup {f}]
             /\ th' = [th EXCEPT ![x].pc = "got", ![x].mine = @ \cup {f}]
    BY <1>5, <2>1
  <2>3. PICK s \in {"ok", "pending"} : s = IF Reached(u, q) THEN "ok" ELSE "pending"
    OBVIOUS
  <2>4. PICK F : F = IF Reached(u, q) THEN tline[u].fences ELSE tline[u].fences \cup {f}
    OBVIOUS
  <2>5. tline' = [tline EXCEPT ![u].ref = tline[u].ref + 1, ![u].fences = F]
    BY <2>2, <2>4, TlineIs DEF TlineShape, IsTline, TlineFields
  <2>6. fence' = [fence EXCEPT ![f] = [tl |-> u, seq |-> q, ref |-> 1, status |-> s]]
    BY <2>2, <2>3
  <2> QED BY <1>3, <2>2, <2>5, <2>6
<1> QED BY <1>2, <1>4, <1>5 DEF FenceAlloc

LEMMA RefsFenceGet ==
  ASSUME FenceIInv, ObjIInv, ObjIInv', RefsIInv, NEW x \in Thread,
         FenceGetFile(x) \/ FenceGetPut(x)
  PROVE  RefsIInv'
<1>1. th[x].pc = "got" /\ UNCHANGED <<idr, tline, obj>>
      /\ th[x].why \in {"fence_get", "filed", "unfiled"}
  BY DEF FenceGetFile, FenceGetPut, At
<1>2. CASE FenceGetFile(x)
  <2>1. PICK why \in {"filed", "unfiled"} : th' = [th EXCEPT ![x].why = why]
    BY <1>2 DEF FenceGetFile
  <2>2. Goes(x, "got", why, th[x].todo, th[x].tl, th[x].o)
    BY <1>1, <2>1, GoesWhy
  <2>3. SameOwners
    BY <1>2, OwnersGet, OwnersKept DEF FenceGetFile
  <2> QED BY <1>1, <2>2, <2>3, RefsGo, RefsKept
<1>3. CASE FenceGetPut(x)
  <2> DEFINE r == [th[x] EXCEPT !.mine = {}]
  <2>1. IsThread(r) /\ r.pc = th[x].pc /\ r.why = th[x].why /\ r.todo = th[x].todo
        /\ r.tl = th[x].tl /\ r.o = th[x].o
    BY ThreadIs DEF IsThread, ThreadFields
  <2>2. PICK f \in th[x].mine : FencePut(x, r, f, fence[f].status)
    BY <1>3 DEF FenceGetPut
  <2> HIDE DEF r
  <2>3. Goes(x, th[x].pc, th[x].why, th[x].todo, th[x].tl, th[x].o)
    BY <2>1, <2>2, GoesPut
  <2>4. f \in Fence /\ Made(f)
    BY ThreadIs DEF ThreadOK, Made
  <2>5. SameOwners
    BY <2>2, <2>4, Referenced, OwnersPut
  <2> QED BY <1>1, <2>3, <2>5, RefsGo, RefsKept
<1> QED BY <1>2, <1>3

LEMMA RefsWaitEnds ==
  ASSUME FenceIInv, ObjIInv, ObjIInv', RefsIInv, NEW x \in Thread,
         WaitReturns(x) \/ WaitTimesOut(x)
  PROVE  RefsIInv'
<1>1. /\ th[x].pc = "waiting" /\ UNCHANGED <<idr, tline, fence, files, obj>>
      /\ th' = [th EXCEPT ![x].pc = "unwind"]
  BY DEF WaitReturns, WaitTimesOut, At
<1>2. Goes(x, "unwind", th[x].why, th[x].todo, th[x].tl, th[x].o)
  BY <1>1, GoesPc
<1> QED BY <1>1, <1>2, RefsGo, OwnersKept, RefsKept

LEMMA RefsUnwind ==
  ASSUME FenceIInv, ObjIInv, ObjIInv', RefsIInv, NEW x \in Thread, Unwind(x)
  PROVE  RefsIInv'
<1>1. th[x].pc = "unwind" /\ UNCHANGED <<idr, tline, files, obj>>
  BY DEF Unwind, At
<1>2. th[x].why # "retire" /\ th[x].tl = Null
  BY <1>1, NotRetiring DEF ValueSteps, DestroySteps
<1>3. CASE th[x].mine # {}
  <2>1. PICK f \in th[x].mine :
          FencePut(x, [th[x] EXCEPT !.mine = @ \ {f}], f, fence[f].status)
    BY <1>3 DEF Unwind
  <2> DEFINE r == [th[x] EXCEPT !.mine = @ \ {f}]
  <2>2. IsThread(r) /\ r.pc = th[x].pc /\ r.why = th[x].why /\ r.todo = th[x].todo
        /\ r.tl = th[x].tl /\ r.o = th[x].o
    BY ThreadIs DEF IsThread, ThreadFields
  <2>3. FencePut(x, r, f, fence[f].status)
    BY <2>1
  <2> HIDE DEF r
  <2>4. Goes(x, th[x].pc, th[x].why, th[x].todo, th[x].tl, th[x].o)
    BY <2>2, <2>3, GoesPut
  <2>5. f \in Fence /\ Made(f)
    BY ThreadIs DEF ThreadOK, Made
  <2>6. SameOwners
    BY <2>3, <2>5, Referenced, OwnersPut
  <2> QED BY <1>1, <2>4, <2>6, RefsGo, RefsKept
<1>4. CASE th[x].mine = {}
  <2>1. Goes(x, "idle", "none", <<>>, Null, Null) /\ UNCHANGED fence
    BY <1>4, IdleGoes DEF Unwind
  <2> QED BY <1>1, <1>2, <2>1, RefsGo, OwnersKept, RefsKept
<1> QED BY <1>3, <1>4

LEMMA RefsCloseFile ==
  ASSUME FenceIInv, ObjIInv, ObjIInv', RefsIInv, NEW x \in Thread, NEW f \in Fence,
         CloseFile(x, f)
  PROVE  RefsIInv'
<1>1. th[x].pc = "idle" /\ UNCHANGED <<idr, tline, obj>> /\ f \in files
  BY DEF CloseFile, At
<1>2. th[x].why # "retire" /\ th[x].tl = Null
  BY <1>1, NotRetiring DEF ValueSteps, DestroySteps
<1> DEFINE r == [Idle EXCEPT !.pc = "unwind"]
<1>3. IsThread(r) /\ r.pc = "unwind" /\ r.why = "none" /\ r.todo = <<>> /\ r.tl = Null /\ r.o = Null
  BY IdleIsThread, IdleFields DEF IsThread, ThreadFields
<1>4. FencePut(x, r, f, fence[f].status)
  BY DEF CloseFile
<1> HIDE DEF r
<1>5. Goes(x, "unwind", "none", <<>>, Null, Null)
  BY <1>3, <1>4, GoesPut
<1>6. SameOwners
  BY <1>1, <1>4, Referenced, OwnersPut
<1> QED BY <1>1, <1>2, <1>5, <1>6, RefsGo, RefsKept

LEMMA RefsFenceRelease ==
  ASSUME FenceIInv, ObjIInv, ObjIInv', RefsIInv, NEW x \in Thread, FenceRelease(x)
  PROVE  RefsIInv'
<1>1. PICK f \in Fence : f = th[x].dying
  BY ThreadIs DEF FenceRelease, ThreadOK
<1>2. Live(f) /\ fence[f].tl \in Timeline /\ FenceShape
  BY <1>1 DEF FenceIInv, StateShape, RefInv, IdInv
<1>3. PICK u \in Timeline : u = fence[f].tl
  BY <1>2
<1>4. /\ th' = [th EXCEPT ![x].dying = Null] /\ UNCHANGED <<idr, files, obj>>
      /\ tline' = [tline EXCEPT ![u].ref = @ - 1, ![u].fences = @ \ {f}]
      /\ fence' = [fence EXCEPT ![f].status = "freed"]
  BY <1>1, <1>3 DEF FenceRelease
<1>5. TlineGoes(u, tline[u].ref - 1, tline[u].value, tline[u].events)
  <2>1. tline' = [tline EXCEPT ![u].ref = tline[u].ref - 1, ![u].fences = tline[u].fences \ {f}]
    BY <1>4, TlineIs DEF TlineShape
  <2> QED BY <2>1, TlineRefFences
<1>6. Goes(x, th[x].pc, th[x].why, th[x].todo, th[x].tl, th[x].o)
  BY <1>4, GoesDying
<1>7. Others(x)
  BY <1>6 DEF Goes, Others
<1>8. IdsInv'
  <2>1. \A y \in Thread : th'[y].pc = th[y].pc /\ th'[y].tl = th[y].tl
    BY <1>6 DEF Goes
  <2> QED BY <1>4, <2>1 DEF RefsIInv, IdsInv
<1>9. SameEntries
  BY <1>4, <1>6, <1>7, EntriesStay DEF Goes
<1>10. \A t \in Timeline : x \in CallUsers(t)' <=> x \in CallUsers(t)
  BY <1>6, UsersAre DEF Goes, Holds
<1>11. /\ \A g \in Fence \ {f} : fence'[g] = fence[g]
       /\ fence'[f].status = "freed"
  BY <1>2, <1>4 DEF FenceShape, IsFence, FenceFields
<1>12. \A t \in Timeline : \A g \in Fence \ {f} : Owns(g, t)' <=> Owns(g, t)
  BY <1>11 DEF Owns, Live
<1>13. \A t \in Timeline : f \notin FenceUsers(t)' /\ (f \in FenceUsers(t) <=> t = u)
  BY <1>2, <1>3, <1>11, UsersAre DEF Owns, Live
<1>21. PICK h \in Int : h = -1
  OBVIOUS
<1>14. Bit(f \in FenceUsers(u)') - Bit(f \in FenceUsers(u)) = h
  BY <1>13, <1>21 DEF Bit
<1>15. Bit(x \in CallUsers(u)') - Bit(x \in CallUsers(u)) = 0
  BY <1>10 DEF Bit
<1>16. \A t \in Timeline : EntryUsers(t)' = EntryUsers(t) /\ IsFiniteSet(EntryUsers(t))
                          /\ Cardinality(EntryUsers(t)) \in Nat /\ tline[t].ref \in Nat
  BY <1>9, EntriesFixed, NatRef DEF RefsIInv
<1>17. tline'[u].ref = tline[u].ref + 0 + h + 0
       /\ \A t \in Timeline \ {u} : tline'[t].ref = tline[t].ref
  BY <1>5, <1>16, <1>21 DEF TlineGoes
<1>18. \A t \in Timeline : IsFiniteSet(EntryUsers(t)')
                           /\ Cardinality(EntryUsers(t)') = Cardinality(EntryUsers(t))
  BY <1>16
<1>19. Cardinality(EntryUsers(u)') = Cardinality(EntryUsers(u)) + 0
  BY <1>16
<1>22. \A t \in Timeline \ {u} : (x \in CallUsers(t)' <=> x \in CallUsers(t))
                                 /\ (f \in FenceUsers(t)' <=> f \in FenceUsers(t))
  BY <1>10, <1>13
<1>20. UsersInv'
  <2>1. UsersInv /\ UNCHANGED idr
    BY <1>4 DEF RefsIInv
  <2> QED BY <2>1, <1>7, <1>12, <1>14, <1>15, <1>17, <1>18, <1>19, <1>22, UsersMove
<1> QED BY <1>8, <1>20 DEF RefsIInv

\* No thread moves.
LEMMA RefsStay ==
  ASSUME FenceIInv, ObjIInv, ObjIInv', RefsIInv, UNCHANGED <<idr, tline, th>>,
         \A m \in Obj : obj'[m].vals = obj[m].vals, SameOwners
  PROVE  RefsIInv'
<1>1. Others(Null) /\ Null \notin Thread
  BY TimelineAssumption DEF Others
<1>2. IdsInv'
  BY <1>1, IdsFrame DEF RefsIInv
<1>3. SameEntries
  BY <1>1, EntriesStay
<1>4. \A t \in Timeline : (Null \in CallUsers(t)' <=> Null \in CallUsers(t)) /\ (Known(t)' <=> Known(t))
  BY <1>1, UsersAre DEF Known
<1>5. UsersInv'
  BY <1>1, <1>3, <1>4, UsersFrame, RefsKept DEF RefsIInv
<1> QED BY <1>2, <1>5 DEF RefsIInv

LEMMA RefsFencePoll ==
  ASSUME FenceIInv, ObjIInv, ObjIInv', RefsIInv, NEW f \in Fence, FencePoll(f)
  PROVE  RefsIInv'
<1>1. FenceShape
  BY DEF FenceIInv, StateShape
<1>2. SameOwners
  <2>1. /\ \A g \in Fence : fence'[g].tl = fence[g].tl
        /\ \A g \in Fence \ {f} : fence'[g].status = fence[g].status
        /\ fence[f].status = "pending" /\ fence'[f].status = "ok"
    BY <1>1 DEF FencePoll, FenceShape, IsFence, FenceFields
  <2> QED BY <2>1 DEF SameOwners, Owns, Live
<1> QED BY <1>2, RefsStay DEF FencePoll

LEMMA RefsTimestampRetires ==
  ASSUME FenceIInv, ObjIInv, ObjIInv', RefsIInv, NEW n \in Obj, TimestampRetires(n)
  PROVE  RefsIInv'
<1>1. ObjShape
  BY DEF FenceIInv, StateShape
<1>2. \A m \in Obj : obj'[m].vals = obj[m].vals
  BY <1>1 DEF TimestampRetires, ObjShape, IsObj, ObjFields
<1> QED BY <1>2, RefsStay, OwnersKept DEF TimestampRetires

LEMMA RefsStutter ==
  ASSUME FenceIInv, ObjIInv, ObjIInv', RefsIInv, UNCHANGED vars
  PROVE  RefsIInv'
BY RefsStay, OwnersKept DEF vars

LEMMA RefsSignalValue ==
  ASSUME FenceIInv, ObjIInv, ObjIInv', RefsIInv, NEW x \in Thread, SignalValue(x)
  PROVE  RefsIInv'
<1>1. th[x].pc \in {"signal", "retire"} /\ UNCHANGED <<idr, fence, files, obj>>
  BY DEF SignalValue, At
<1>2. PICK u \in Timeline : u = th[x].tl
  BY <1>1, ThreadIs DEF ThreadOK, ValueSteps
<1>3. RefsSame /\ \E pc \in {"got", "collect"} : th' = [th EXCEPT ![x].pc = pc]
  <2>1. PICK q : q = Head(th[x].todo).seq
    OBVIOUS
  <2>2. CASE UNCHANGED tline /\ th' = [th EXCEPT ![x].pc = "got"]
    BY <2>2, RefsKept
  <2>3. CASE /\ tline' = [tline EXCEPT ![u].lock = x, ![u].value = q,
                            ![u].events = SubSeq(@, RetiredPrefix(@, q) + 1, Len(@))]
             /\ th' = [th EXCEPT ![x].pc = "collect"]
    <3>1. PICK F : F = SubSeq(tline[u].events, RetiredPrefix(tline[u].events, q) + 1,
                              Len(tline[u].events))
      OBVIOUS
    <3>2. tline' = [tline EXCEPT ![u].lock = x, ![u].value = q, ![u].events = F]
      BY <2>3, <3>1, TlineIs DEF TlineShape, IsTline, TlineFields
    <3>3. TlineGoes(u, tline[u].ref, q, F)
      BY <3>2, TlineAdvances
    <3> QED BY <2>3, <3>3, RefsKept
  <2> QED BY <1>2, <2>1, <2>2, <2>3 DEF SignalValue
<1>4. PICK pc \in {"got", "collect"} : th' = [th EXCEPT ![x].pc = pc]
  BY <1>3
<1>5. Goes(x, pc, th[x].why, th[x].todo, th[x].tl, th[x].o)
  BY <1>4, GoesPc
<1> QED BY <1>1, <1>3, <1>4, <1>5, RefsGo, OwnersKept

LEMMA RefsWalk ==
  ASSUME FenceIInv, ObjIInv, ObjIInv', RefsIInv, NEW x \in Thread,
         \/ SignalCollect(x) \/ SignalFence(x) \/ SignalUnlock(x)
         \/ DestroySteal(x) \/ DestroyLock(x) \/ DestroyFence(x) \/ DestroyUnlock(x)
  PROVE  RefsIInv'
<1>1. UNCHANGED <<idr, obj>> /\ th[x].pc \in {"collect", "signaling", "steal", "relock", "failing"}
  BY DEF SignalCollect, SignalFence, SignalUnlock, DestroySteal, DestroyLock, DestroyFence,
         DestroyUnlock, At
<1>2. PICK u \in Timeline : u = th[x].tl
  BY <1>1, ThreadIs DEF ThreadOK, ValueSteps, DestroySteps
<1>3. ASSUME SameOwners, RefsSame, NEW pc \in {"signaling", "relock", "failing", "got"},
             Goes(x, pc, th[x].why, th[x].todo, th[x].tl, th[x].o)
      PROVE  RefsIInv'
  BY <1>1, <1>3, RefsGo
<1>4. CASE SignalCollect(x)
  <2>1. PICK G : /\ tline' = [tline EXCEPT ![u].fences = @ \ G]
                 /\ th' = [th EXCEPT ![x].pc = "signaling", ![x].temp = G]
                 /\ fence' = FencesGet(G)
    BY <1>2, <1>4 DEF SignalCollect
  <2>2. tline' = [tline EXCEPT ![u].fences = tline[u].fences \ G]
    BY <2>1, TlineIs DEF TlineShape
  <2>3. RefsSame
    BY <2>2, TlineFences, RefsKept
  <2>4. Goes(x, "signaling", th[x].why, th[x].todo, th[x].tl, th[x].o)
    BY <2>1, GoesPcTemp
  <2> QED BY <1>3, <2>1, <2>3, <2>4, OwnersGet
<1>5. CASE SignalFence(x) \/ DestroyFence(x)
  <2>1. PICK f, s :
          /\ f \in th[x].temp /\ s \in {"ok", "error", fence[f].status}
          /\ FencePut(x, [th[x] EXCEPT !.temp = @ \ {f}], f, s)
    BY <1>5 DEF SignalFence, DestroyFence
  <2> DEFINE r == [th[x] EXCEPT !.temp = @ \ {f}]
  <2>2. IsThread(r) /\ r.pc = th[x].pc /\ r.why = th[x].why /\ r.todo = th[x].todo
        /\ r.tl = th[x].tl /\ r.o = th[x].o
    BY ThreadIs DEF IsThread, ThreadFields
  <2>3. FencePut(x, r, f, s)
    BY <2>1
  <2> HIDE DEF r
  <2>4. Goes(x, th[x].pc, th[x].why, th[x].todo, th[x].tl, th[x].o)
    BY <2>2, <2>3, GoesPut
  <2>5. UNCHANGED tline /\ th[x].pc \in {"signaling", "failing"}
    BY <1>5 DEF SignalFence, DestroyFence, At
  <2>6. f \in Fence /\ Taken(f)
    BY <2>1, ThreadIs DEF ThreadOK, Taken
  <2>7. SameOwners
    BY <2>1, <2>3, <2>6, Referenced, OwnersPut
  <2> QED BY <1>3, <2>4, <2>5, <2>7, RefsKept
<1>6. CASE SignalUnlock(x) \/ DestroyUnlock(x)
  <2>1. /\ tline' = [tline EXCEPT ![u].lock = Null]
        /\ th' = [th EXCEPT ![x].pc = "got"] /\ UNCHANGED fence
    BY <1>2, <1>6 DEF SignalUnlock, DestroyUnlock
  <2>2. RefsSame
    BY <2>1, TlineLock, RefsKept
  <2> QED BY <1>3, <2>1, <2>2, GoesPc, OwnersKept
<1>7. CASE DestroySteal(x)
  <2>1. PICK G : /\ tline' = [tline EXCEPT ![u].fences = {}]
                 /\ th' = [th EXCEPT ![x].pc = "relock", ![x].temp = G]
                 /\ fence' = FencesGet(G)
    BY <1>2, <1>7 DEF DestroySteal
  <2>2. RefsSame
    BY <2>1, TlineFences, RefsKept
  <2>3. Goes(x, "relock", th[x].why, th[x].todo, th[x].tl, th[x].o)
    BY <2>1, GoesPcTemp
  <2> QED BY <1>3, <2>1, <2>2, <2>3, OwnersGet
<1>8. CASE DestroyLock(x)
  <2>1. /\ tline' = [tline EXCEPT ![u].lock = x]
        /\ th' = [th EXCEPT ![x].pc = "failing"] /\ UNCHANGED fence
    BY <1>2, <1>8 DEF DestroyLock
  <2>2. RefsSame
    BY <2>1, TlineLock, RefsKept
  <2> QED BY <1>3, <2>1, <2>2, GoesPc, OwnersKept
<1> QED BY <1>4, <1>5, <1>6, <1>7, <1>8

\* An entry is added or goes; the thread keeps the reference of its call.
LEMMA EntryMoves ==
  ASSUME UsersInv, UNCHANGED idr, SameOwners, NEW x, Others(x),
         NEW u \in Timeline, NEW d \in Int, NEW v, NEW E, TlineGoes(u, tline[u].ref + d, v, E),
         \A t \in Timeline : x \in CallUsers(t)' <=> x \in CallUsers(t),
         \A t \in Timeline : IsFiniteSet(EntryUsers(t)'),
         Cardinality(EntryUsers(u)') = Cardinality(EntryUsers(u)) + d,
         \A t \in Timeline \ {u} : Cardinality(EntryUsers(t)') = Cardinality(EntryUsers(t))
  PROVE  UsersInv'
<1>1. \A t \in Timeline : tline[t].ref \in Nat
  BY NatRef
<1>2. \A t \in Timeline : Null \notin FenceUsers(t) /\ Null \notin FenceUsers(t)'
  BY UsersAre, TimelineAssumption
<1>3. /\ Bit(Null \in FenceUsers(u)') - Bit(Null \in FenceUsers(u)) = 0
      /\ Bit(x \in CallUsers(u)') - Bit(x \in CallUsers(u)) = 0
  BY <1>2 DEF Bit
<1>4. tline'[u].ref = tline[u].ref + 0 + 0 + d
      /\ \A t \in Timeline \ {u} : tline'[t].ref = tline[t].ref
  BY <1>1 DEF TlineGoes
<1>5. \A t \in Timeline : \A g \in Fence \ {Null} : Owns(g, t)' <=> Owns(g, t)
  BY DEF SameOwners
<1> QED BY <1>2, <1>3, <1>4, <1>5, UsersMove

\* The entries of the objects other than the one the thread retires.
LEMMA EntriesElse ==
  ASSUME ObjIInv, ObjIInv', NEW x \in Thread, Others(x), NEW n \in Obj,
         th[x].why = "retire" => th[x].o = n, th'[x].why = "retire" => th'[x].o = n,
         \A m \in Obj \ {n} : obj'[m].vals = obj[m].vals
  PROVE  \A m \in Obj \ {n} : Entries(m)' = Entries(m)
<1> SUFFICES ASSUME NEW m \in Obj \ {n} PROVE Entries(m)' = Entries(m)
  OBVIOUS
<1>1. \A y \in Thread : (Retires(y, m)' <=> Retires(y, m))
                        /\ (Retires(y, m) => th'[y].todo = th[y].todo)
  BY DEF Retires, Others
<1>2. CASE \E y \in Thread : Retires(y, m)
  BY <1>1, <1>2, EntriesNow, EntriesNext
<1>3. CASE \A y \in Thread : ~Retires(y, m)
  BY <1>1, <1>3, EntriesNow, EntriesNext
<1> QED BY <1>2, <1>3

\* The first entry of n goes, with its reference.
LEMMA EntryPut ==
  ASSUME FenceIInv, ObjIInv, ObjIInv', UsersInv, UNCHANGED <<idr, fence>>, NEW x \in Thread, Others(x),
         NEW n \in Obj, Entries(n) # <<>>, Entries(n)' = Tail(Entries(n)),
         \A m \in Obj \ {n} : Entries(m)' = Entries(m),
         tline' = TimelinePut(Head(Entries(n)).tl),
         \A t \in Timeline : x \in CallUsers(t)' <=> x \in CallUsers(t)
  PROVE  UsersInv'
<1>1. Entries(n) \in Seq(Val)
  BY EntriesAre
<1>2. PICK u \in Timeline : u = Head(Entries(n)).tl
  BY <1>1, FirstValue
<1>3. TlineGoes(u, tline[u].ref - 1, tline[u].value, tline[u].events)
  BY <1>2, TlinePuts
<1>4. \A t \in Timeline : tline[t].ref \in Nat /\ IsFiniteSet(EntryUsers(t))
  BY NatRef
<1>5. PICK d \in Int : d = -1
  OBVIOUS
<1>6. TlineGoes(u, tline[u].ref + d, tline[u].value, tline[u].events)
  <2>1. tline[u].ref + d = tline[u].ref - 1
    BY <1>4, <1>5
  <2> QED BY <1>3, <2>1
<1>7. \A t \in Timeline : /\ IsFiniteSet(EntryUsers(t)') /\ Cardinality(EntryUsers(t)) \in Nat
                          /\ Cardinality(EntryUsers(t)') = Cardinality(EntryUsers(t)) - Bit(u = t)
  BY <1>1, <1>2, <1>4, EntryGone
<1>8. Cardinality(EntryUsers(u)') = Cardinality(EntryUsers(u)) + d
  BY <1>5, <1>7 DEF Bit
<1>9. \A t \in Timeline \ {u} : Cardinality(EntryUsers(t)') = Cardinality(EntryUsers(t))
  BY <1>7 DEF Bit
<1>10. SameOwners
  BY OwnersKept
<1>11. \A t \in Timeline : IsFiniteSet(EntryUsers(t)')
  BY <1>7
<1> QED BY <1>6, <1>8, <1>9, <1>10, <1>11, EntryMoves

LEMMA RefsValueDone ==
  ASSUME FenceIInv, ObjIInv, ObjIInv', RefsIInv, NEW x \in Thread, ValueDone(x)
  PROVE  RefsIInv'
<1>1. PICK rest : rest = Tail(th[x].todo)
  OBVIOUS
<1>2. PICK next : next = AfterValue(th[x].why, rest)
  OBVIOUS
<1>3. PICK tl : tl = IF next = "retire" THEN rest[1].tl ELSE Null
  OBVIOUS
<1>4. /\ th[x].pc = "got" /\ tline' = TimelinePut(th[x].tl)
      /\ th' = [th EXCEPT ![x].pc = next, ![x].todo = rest, ![x].tl = tl]
      /\ UNCHANGED <<idr, fence, files, obj>> /\ th[x].why # "fence_get"
  BY <1>1, <1>2, <1>3 DEF ValueDone, At
<1>5. /\ th[x].tl \in Timeline /\ th[x].todo \in Seq(Val) /\ th[x].todo # <<>>
      /\ th[x].why \in {"filed", "unfiled", "wait", "failed", "signal", "retire", "destroy"}
      /\ WorkOK(th[x])
  BY <1>4, ThreadIs DEF ThreadOK, Agree, ValueSteps, ObjIInv
<1>6. PICK u \in Timeline : u = th[x].tl
  BY <1>5
<1>7. Goes(x, next, th[x].why, rest, tl, th[x].o)
  BY <1>4, GoesValue
<1>8. Others(x) /\ th'[x].pc = next /\ th'[x].why = th[x].why /\ th'[x].todo = rest
      /\ th'[x].tl = tl /\ th'[x].o = th[x].o
  BY <1>7 DEF Goes, Others
<1>9. TlineGoes(u, tline[u].ref - 1, tline[u].value, tline[u].events)
  BY <1>4, <1>6, TlinePuts
<1>10. CASE th[x].why # "retire"
  <2>1. next \in {"unwind", "lookup", "waiting"} /\ tl = Null
    BY <1>2, <1>3, <1>5, <1>10 DEF AfterValue
  <2>2. IdsInv'
    BY <1>4, <1>8, <2>1, IdsFrame DEF RefsIInv
  <2>3. SameEntries
    BY <1>4, <1>8, <1>10, EntriesStay
  <2>4. \A t \in Timeline : x \notin CallUsers(t)' /\ (x \in CallUsers(t) <=> t = u)
    <3>1. Null \notin Timeline /\ th[x].pc # "commit"
      BY <1>4, TimelineAssumption
    <3>2. \A t \in Timeline : ~Holds(th'[x], t) /\ (Holds(th[x], t) <=> t = u)
      BY <1>6, <1>8, <1>10, <2>1, <3>1 DEF Holds
    <3> QED BY <3>2, UsersAre
  <2>5. PICK c \in Int : c = -1
    OBVIOUS
  <2>6. Bit(x \in CallUsers(u)') - Bit(x \in CallUsers(u)) = c
    BY <2>4, <2>5 DEF Bit
  <2>7. TlineGoes(u, tline[u].ref + c, tline[u].value, tline[u].events)
    <3>1. tline[u].ref + c = tline[u].ref - 1
      BY <2>5, NatRef DEF RefsIInv
    <3> QED BY <1>9, <3>1
  <2>8. UNCHANGED idr /\ SameOwners /\ UsersInv
    BY <1>4, OwnersKept DEF RefsIInv
  <2>9. \A t \in Timeline \ {u} : x \in CallUsers(t)' <=> x \in CallUsers(t)
    BY <2>4
  <2>10. UsersInv'
    BY <1>8, <2>3, <2>6, <2>7, <2>8, <2>9, CallMoves
  <2> QED BY <2>2, <2>10 DEF RefsIInv
<1>11. CASE th[x].why = "retire"
  <2>1. PICK n \in Obj : n = th[x].o
    BY <1>11, WorksOn
  <2>2. next = IF rest = <<>> THEN "retired" ELSE "retire"
    BY <1>2, <1>11 DEF AfterValue
  <2>3. rest \in Seq(Val) /\ ToSet(rest) \subseteq ToSet(th[x].todo)
    BY <1>1, <1>5, TailIsSeq, ToSetTail
  <2>4. tl # Null => idr[tl] # "none"
    <3> SUFFICES ASSUME tl # Null PROVE idr[tl] # "none"
      OBVIOUS
    <3>1. rest # <<>> /\ tl = rest[1].tl
      BY <1>3, <2>2
    <3>2. 1 \in DOMAIN rest
      BY <2>3, <3>1
    <3>3. rest[1] \in ToSet(rest)
      BY <2>3, <3>2, InToSet
    <3>4. rest[1] \in ToSet(obj[n].vals)
      BY <1>11, <2>1, <2>3, <3>3 DEF ObjIInv, ArrayInv
    <3> QED BY <3>1, <3>4 DEF ObjIInv, ArrayInv
  <2>5. IdsInv'
    <3>1. th'[x].pc # "commit" /\ (th'[x].tl # Null => idr[th'[x].tl] # "none")
      BY <1>8, <2>2, <2>4
    <3>2. IdsInv /\ UNCHANGED idr
      BY <1>4 DEF RefsIInv
    <3> QED BY <1>8, <3>1, <3>2, IdsFrame
  <2>6. Entries(n) = th[x].todo /\ Entries(n)' = rest
    BY <1>8, <1>11, <2>1, EntriesNow, EntriesNext DEF Retires
  <2>7. \A m \in Obj \ {n} : Entries(m)' = Entries(m)
    BY <1>4, <1>8, <2>1, EntriesElse
  <2>8. Head(th[x].todo).tl = u
    BY <1>4, <1>5, <1>6, <1>11 DEF WorkOK
  <2>9. \A t \in Timeline : x \in CallUsers(t)' <=> x \in CallUsers(t)
    BY <1>8, <1>11, UsersAre DEF Holds
  <2>10. /\ UsersInv /\ UNCHANGED <<idr, fence>> /\ tline' = TimelinePut(Head(Entries(n)).tl)
         /\ Entries(n) # <<>> /\ Entries(n)' = Tail(Entries(n))
    BY <1>1, <1>4, <1>5, <1>6, <2>6, <2>8 DEF RefsIInv
  <2>11. UsersInv'
    BY <1>8, <2>7, <2>9, <2>10, EntryPut
  <2> QED BY <2>5, <2>11 DEF RefsIInv
<1> QED BY <1>10, <1>11

LEMMA ValsKept ==
  ASSUME NEW n, NEW st, NEW sig, NEW e, ObjGoes(n, st, sig, obj[n].vals, e)
  PROVE  \A m \in Obj : obj'[m].vals = obj[m].vals
BY DEF ObjGoes

LEMMA RefsObjCreate ==
  ASSUME FenceIInv, ObjIInv, ObjIInv', RefsIInv, NEW x \in Thread, NEW n \in Obj,
         NEW vals \in Arrays, ObjCreate(x, n, vals)
  PROVE  RefsIInv'
<1> DEFINE s == [Idle EXCEPT !.pc = "fill", !.why = "aux", !.todo = vals, !.o = n]
<1>1. IsThread(s) /\ s.pc = "fill" /\ s.why = "aux" /\ s.todo = vals /\ s.tl = Null /\ s.o = n
  BY IdleIsThread, IdleFields DEF IsThread, ThreadFields
<1>2. th' = [th EXCEPT ![x] = s] /\ th[x].pc = "idle" /\ UNCHANGED <<idr, tline, fence, files>>
  BY DEF ObjCreate, At
<1> HIDE DEF s
<1>3. Goes(x, "fill", "aux", vals, Null, n)
  <2>1. Goes(x, s.pc, s.why, s.todo, s.tl, s.o)
    BY <1>1, <1>2, GoesTo
  <2> QED BY <1>1, <2>1 DEF Goes
<1>4. ObjGoes(n, "filling", 1, obj[n].vals, obj[n].event)
  BY ObjIs DEF ObjCreate, ObjGoes, ObjShape, IsObj, ObjFields
<1>5. th[x].why # "retire" /\ th[x].tl = Null
  BY <1>2, NotRetiring DEF ValueSteps, DestroySteps
<1>6. \A m \in Obj : obj'[m].vals = obj[m].vals
  BY <1>4, ValsKept
<1> QED BY <1>2, <1>3, <1>5, <1>6, RefsGo, OwnersKept, RefsKept

LEMMA RefsObjDestroy ==
  ASSUME FenceIInv, ObjIInv, ObjIInv', RefsIInv, NEW x \in Thread, NEW n \in Obj,
         ObjDestroy(x, n)
  PROVE  RefsIInv'
<1> DEFINE s == [Idle EXCEPT !.pc = "announce", !.why = "aux", !.o = n, !.todo = obj[n].vals]
<1>1. IsThread(s) /\ s.pc = "announce" /\ s.why = "aux" /\ s.todo = obj[n].vals /\ s.tl = Null
      /\ s.o = n
  BY IdleIsThread, IdleFields DEF IsThread, ThreadFields
<1>2. th' = [th EXCEPT ![x] = s] /\ th[x].pc = "idle" /\ UNCHANGED <<idr, tline, fence, files>>
  BY DEF ObjDestroy, At
<1> HIDE DEF s
<1>3. Goes(x, "announce", "aux", obj[n].vals, Null, n)
  <2>1. Goes(x, s.pc, s.why, s.todo, s.tl, s.o)
    BY <1>1, <1>2, GoesTo
  <2> QED BY <1>1, <2>1 DEF Goes
<1>4. ObjGoes(n, "done", obj[n].sig, obj[n].vals, obj[n].event)
  BY ObjIs DEF ObjDestroy, ObjGoes, ObjShape, IsObj, ObjFields
<1>5. th[x].why # "retire" /\ th[x].tl = Null
  BY <1>2, NotRetiring DEF ValueSteps, DestroySteps
<1>6. \A m \in Obj : obj'[m].vals = obj[m].vals
  BY <1>4, ValsKept
<1> QED BY <1>2, <1>3, <1>5, <1>6, RefsGo, OwnersKept, RefsKept

LEMMA RefsTimelineSignaled ==
  ASSUME FenceIInv, ObjIInv, ObjIInv', RefsIInv, NEW x \in Thread, NEW n \in Obj,
         TimelineSignaled(x, n)
  PROVE  RefsIInv'
<1> DEFINE s == [Idle EXCEPT !.pc = "announced", !.why = "aux", !.o = n]
<1>1. IsThread(s) /\ s.pc = "announced" /\ s.why = "aux" /\ s.todo = <<>> /\ s.tl = Null
      /\ s.o = n
  BY IdleIsThread, IdleFields DEF IsThread, ThreadFields
<1>2. th' = [th EXCEPT ![x] = s] /\ th[x].pc = "idle" /\ UNCHANGED <<idr, tline, fence, files>>
  BY DEF TimelineSignaled, At
<1> HIDE DEF s
<1>3. Goes(x, "announced", "aux", <<>>, Null, n)
  <2>1. Goes(x, s.pc, s.why, s.todo, s.tl, s.o)
    BY <1>1, <1>2, GoesTo
  <2> QED BY <1>1, <2>1 DEF Goes
<1>4. ObjGoes(n, obj[n].st, obj[n].sig, obj[n].vals, "fired")
  BY ObjIs DEF TimelineSignaled, ObjGoes, ObjShape, IsObj, ObjFields
<1>5. th[x].why # "retire" /\ th[x].tl = Null
  BY <1>2, NotRetiring DEF ValueSteps, DestroySteps
<1>6. \A m \in Obj : obj'[m].vals = obj[m].vals
  BY <1>4, ValsKept
<1> QED BY <1>2, <1>3, <1>5, <1>6, RefsGo, OwnersKept, RefsKept

\* The entries of an object that nobody retires.
LEMMA Unretired ==
  ASSUME ObjIInv, ObjIInv', NEW x \in Thread, Others(x), NEW n \in Obj, obj[n].st # "done",
         th'[x].why # "retire"
  PROVE  Entries(n) = obj[n].vals /\ Entries(n)' = obj'[n].vals
<1>1. \A y \in Thread : ~Retires(y, n)
  BY AtObj, NotDone DEF Retires
<1>2. \A y \in Thread : ~Retires(y, n)'
  BY <1>1 DEF Others, Retires
<1> QED BY <1>1, <1>2, EntriesNow, EntriesNext

LEMMA RefsObjFill ==
  ASSUME FenceIInv, ObjIInv, ObjIInv', RefsIInv, NEW x \in Thread, ObjFill(x)
  PROVE  RefsIInv'
<1>1. th[x].pc = "fill" /\ th[x].todo # <<>> /\ UNCHANGED <<idr, fence, files>>
  BY DEF ObjFill, At
<1>2. PICK n \in Obj : n = th[x].o
  BY <1>1, ThreadIs DEF ThreadOK, ObjSteps
<1>3. PICK v \in Val : v = Head(th[x].todo)
  BY <1>1, ThreadIs, FirstValue DEF ThreadOK
<1>4. PICK u \in Timeline : u = v.tl
  BY DEF Val
<1>5. th[x].why # "retire" /\ th[x].tl = Null /\ obj[n].st = "filling"
  BY <1>1, <1>2, NotRetiring DEF ValueSteps, DestroySteps, ObjIInv, SideInv
<1>6. CASE /\ TimelineById(u) /\ tline' = TimelineGet(u)
           /\ obj' = [obj EXCEPT ![n].vals = Append(@, v)]
           /\ th' = [th EXCEPT ![x].todo = Tail(@)]
  <2>1. th' = [th EXCEPT ![x].todo = Tail(th[x].todo)]
    BY <1>6 DEF FenceIInv, StateShape, ThreadShape
  <2>2. Goes(x, "fill", th[x].why, Tail(th[x].todo), Null, n)
    BY <1>1, <1>2, <1>5, <2>1, GoesTodo
  <2>3. Others(x) /\ th'[x].pc = "fill" /\ th'[x].why # "retire" /\ th'[x].tl = Null
    BY <1>5, <2>2 DEF Goes, Others
  <2>4. ObjGoes(n, obj[n].st, obj[n].sig, Append(obj[n].vals, v), obj[n].event)
    BY <1>6, ObjIs DEF ObjGoes, ObjShape, IsObj, ObjFields
  <2>5. IdsInv'
    BY <1>1, <2>3, IdsFrame DEF RefsIInv
  <2>6. Entries(n) = obj[n].vals /\ Entries(n)' = Append(Entries(n), v)
    BY <1>5, <2>3, <2>4, Unretired DEF ObjGoes
  <2>7. \A m \in Obj \ {n} : Entries(m)' = Entries(m)
    BY <1>5, <2>3, <2>4, EntriesElse DEF ObjGoes
  <2>8. Entries(n) \in Seq(Val)
    BY EntriesAre
  <2>9. \A t \in Timeline : tline[t].ref \in Nat /\ IsFiniteSet(EntryUsers(t))
    BY NatRef DEF RefsIInv
  <2>10. \A t \in Timeline : /\ IsFiniteSet(EntryUsers(t)') /\ Cardinality(EntryUsers(t)) \in Nat
                             /\ Cardinality(EntryUsers(t)') = Cardinality(EntryUsers(t)) + Bit(u = t)
    BY <1>4, <2>6, <2>7, <2>8, <2>9, EntryAdded
  <2>11. /\ Cardinality(EntryUsers(u)') = Cardinality(EntryUsers(u)) + 1
         /\ \A t \in Timeline : IsFiniteSet(EntryUsers(t)')
         /\ \A t \in Timeline \ {u} : Cardinality(EntryUsers(t)') = Cardinality(EntryUsers(t))
    BY <2>10 DEF Bit
  <2>12. TlineGoes(u, tline[u].ref + 1, tline[u].value, tline[u].events)
    BY <1>6, TlineGets
  <2>13. \A t \in Timeline : x \in CallUsers(t)' <=> x \in CallUsers(t)
    <3>1. Null \notin Timeline
      BY TimelineAssumption
    <3>2. \A t \in Timeline : ~Holds(th'[x], t) /\ ~Holds(th[x], t)
      BY <1>5, <2>3, <3>1 DEF Holds
    <3> QED BY <3>2, UsersAre
  <2>14. UNCHANGED idr /\ SameOwners /\ UsersInv
    BY <1>1, OwnersKept DEF RefsIInv
  <2>15. UsersInv'
    BY <2>3, <2>11, <2>12, <2>13, <2>14, EntryMoves
  <2> QED BY <2>5, <2>15 DEF RefsIInv
<1>7. CASE th' = [th EXCEPT ![x].pc = "empty", ![x].todo = <<>>] /\ UNCHANGED <<tline, obj>>
  <2>1. Goes(x, "empty", th[x].why, <<>>, th[x].tl, th[x].o)
    BY <1>7, GoesTodo
  <2> QED BY <1>1, <1>5, <1>7, <2>1, RefsGo, OwnersKept, RefsKept
<1> QED BY <1>2, <1>3, <1>4, <1>6, <1>7 DEF ObjFill

LEMMA RefsObjAddEvent ==
  ASSUME FenceIInv, ObjIInv, ObjIInv', RefsIInv, NEW x \in Thread, ObjAddEvent(x)
  PROVE  RefsIInv'
<1>1. th[x].pc = "fill" /\ UNCHANGED <<idr, tline, fence, files>>
  BY DEF ObjAddEvent, At
<1>2. PICK n \in Obj : n = th[x].o
  BY <1>1, ThreadIs DEF ThreadOK, ObjSteps
<1>3. th[x].why # "retire" /\ th[x].tl = Null
  BY <1>1, NotRetiring DEF ValueSteps, DestroySteps
<1>4. \A m \in Obj : obj'[m].vals = obj[m].vals
  <2>1. CASE obj' = [obj EXCEPT ![n].count = Len(obj[n].vals), ![n].sig = 2,
                                ![n].event = "armed", ![n].st = "queued"]
    BY <2>1, ObjIs DEF ObjShape, IsObj, ObjFields
  <2>2. CASE obj' = [obj EXCEPT ![n].count = Len(obj[n].vals)]
    BY <2>2, ObjIs DEF ObjShape, IsObj, ObjFields
  <2> QED BY <1>2, <2>1, <2>2 DEF ObjAddEvent
<1>5. CASE th' = [th EXCEPT ![x] = Idle]
  BY <1>1, <1>3, <1>4, <1>5, IdleGoes, RefsGo, OwnersKept, RefsKept
<1>6. CASE th' = [th EXCEPT ![x].pc = "empty"]
  <2>1. Goes(x, "empty", th[x].why, th[x].todo, th[x].tl, th[x].o)
    BY <1>6, GoesPc
  <2> QED BY <1>1, <1>3, <1>4, <2>1, RefsGo, OwnersKept, RefsKept
<1> QED BY <1>5, <1>6 DEF ObjAddEvent

LEMMA RefsObjEmpty ==
  ASSUME FenceIInv, ObjIInv, ObjIInv', RefsIInv, NEW x \in Thread, ObjEmpty(x)
  PROVE  RefsIInv'
<1>1. th[x].pc = "empty" /\ UNCHANGED <<idr, fence, files>>
  BY DEF ObjEmpty, At
<1>2. PICK n \in Obj : n = th[x].o
  BY <1>1, ThreadIs DEF ThreadOK, ObjSteps
<1>3. th[x].why # "retire" /\ th[x].tl = Null /\ obj[n].st = "filling"
  BY <1>1, <1>2, NotRetiring DEF ValueSteps, DestroySteps, ObjIInv, SideInv
<1>4. CASE /\ obj[n].vals # <<>> /\ tline' = TimelinePut(Head(obj[n].vals).tl)
           /\ obj' = [obj EXCEPT ![n].vals = Tail(@)] /\ UNCHANGED th
  <2>1. Others(x) /\ th'[x].why # "retire"
    BY <1>3, <1>4 DEF Others
  <2>2. ObjGoes(n, obj[n].st, obj[n].sig, Tail(obj[n].vals), obj[n].event)
    BY <1>4, ObjIs DEF ObjGoes, ObjShape, IsObj, ObjFields
  <2>3. IdsInv'
    BY <1>1, <1>4 DEF RefsIInv, IdsInv
  <2>4. Entries(n) = obj[n].vals /\ Entries(n)' = Tail(Entries(n))
    BY <1>3, <2>1, <2>2, Unretired DEF ObjGoes
  <2>5. \A m \in Obj \ {n} : Entries(m)' = Entries(m)
    BY <1>3, <2>1, <2>2, EntriesElse DEF ObjGoes
  <2>6. \A t \in Timeline : x \in CallUsers(t)' <=> x \in CallUsers(t)
    BY <1>4, UsersAre
  <2>7. /\ UsersInv /\ UNCHANGED <<idr, fence>> /\ tline' = TimelinePut(Head(Entries(n)).tl)
        /\ Entries(n) # <<>>
    BY <1>1, <1>4, <2>4 DEF RefsIInv
  <2>8. UsersInv'
    BY <2>1, <2>4, <2>5, <2>6, <2>7, EntryPut
  <2> QED BY <2>3, <2>8 DEF RefsIInv
<1>5. CASE /\ obj' = [obj EXCEPT ![n].st = "done"]
           /\ th' = [th EXCEPT ![x].pc = "announce"] /\ UNCHANGED tline
  <2>1. Goes(x, "announce", th[x].why, th[x].todo, th[x].tl, th[x].o)
    BY <1>5, GoesPc
  <2>2. \A m \in Obj : obj'[m].vals = obj[m].vals
    BY <1>5, ObjIs DEF ObjShape, IsObj, ObjFields
  <2> QED BY <1>1, <1>3, <1>5, <2>1, <2>2, RefsGo, OwnersKept, RefsKept
<1> QED BY <1>2, <1>4, <1>5 DEF ObjEmpty

LEMMA RefsAddSignal ==
  ASSUME FenceIInv, ObjIInv, ObjIInv', RefsIInv, NEW x \in Thread, AddSignal(x)
  PROVE  RefsIInv'
<1>1. /\ th[x].pc = "announce" /\ th[x].todo # <<>> /\ UNCHANGED <<idr, fence, files, obj>>
      /\ th' = [th EXCEPT ![x].todo = Tail(@)]
  BY DEF AddSignal, At
<1>2. PICK u \in Timeline : u = Head(th[x].todo).tl
  BY <1>1, ThreadIs, FirstValue DEF ThreadOK
<1>3. th[x].why # "retire" /\ th[x].tl = Null
  BY <1>1, NotRetiring DEF ValueSteps, DestroySteps
<1>4. th' = [th EXCEPT ![x].todo = Tail(th[x].todo)]
  BY <1>1 DEF FenceIInv, StateShape, ThreadShape
<1>5. Goes(x, "announce", th[x].why, Tail(th[x].todo), th[x].tl, th[x].o)
  BY <1>1, <1>4, GoesTodo
<1>6. RefsSame
  <2>1. PICK F : tline' = [tline EXCEPT ![u].events = F]
    <3>1. PICK G, b : tline' = [tline EXCEPT ![u].events = IF b THEN @ ELSE G]
      BY <1>2 DEF AddSignal
    <3>2. tline' = [tline EXCEPT ![u].events = IF b THEN tline[u].events ELSE G]
      BY <3>1, TlineIs DEF TlineShape
    <3> QED BY <3>2
  <2> QED BY <2>1, TlineEvents, RefsKept
<1> QED BY <1>1, <1>3, <1>5, <1>6, RefsGo, OwnersKept

LEMMA RefsTimelineobjSignal ==
  ASSUME FenceIInv, ObjIInv, ObjIInv', RefsIInv, NEW x \in Thread, TimelineobjSignal(x)
  PROVE  RefsIInv'
<1>1. /\ th[x].pc \in {"announce", "announced"} /\ UNCHANGED <<idr, tline, fence, files>>
  BY DEF TimelineobjSignal, At
<1>2. PICK n \in Obj : n = th[x].o
  BY <1>1, ThreadIs DEF ThreadOK, ObjSteps
<1>3. th[x].why # "retire" /\ th[x].tl = Null
  BY <1>1, NotRetiring DEF ValueSteps, DestroySteps
<1>4. \A m \in Obj : obj'[m].vals = obj[m].vals
  BY <1>2, ObjIs DEF TimelineobjSignal, ObjShape, IsObj, ObjFields
<1>5. CASE th' = [th EXCEPT ![x] = Idle]
  BY <1>1, <1>3, <1>4, <1>5, IdleGoes, RefsGo, OwnersKept, RefsKept
<1>6. CASE /\ obj[n].vals # <<>>
           /\ th' = [th EXCEPT ![x] = [Idle EXCEPT !.pc = "retire", !.why = "retire", !.o = n,
                                          !.todo = obj[n].vals, !.tl = obj[n].vals[1].tl]]
  <2>1. PICK vals \in Seq(Val) : vals = obj[n].vals /\ vals # <<>>
    BY <1>6, ValsAre
  <2>2. PICK u : u = vals[1].tl
    OBVIOUS
  <2> DEFINE s == [Idle EXCEPT !.pc = "retire", !.why = "retire", !.o = n, !.todo = vals, !.tl = u]
  <2>3. IsThread(s) /\ s.pc = "retire" /\ s.why = "retire" /\ s.todo = vals /\ s.tl = u /\ s.o = n
    BY IdleIsThread, IdleFields DEF IsThread, ThreadFields
  <2>4. th' = [th EXCEPT ![x] = s]
    BY <1>6, <2>1, <2>2
  <2> HIDE DEF s
  <2>5. Goes(x, "retire", "retire", vals, u, n)
    <3>1. Goes(x, s.pc, s.why, s.todo, s.tl, s.o)
      BY <2>3, <2>4, GoesTo
    <3> QED BY <2>3, <3>1 DEF Goes
  <2>6. Others(x) /\ th'[x].pc = "retire" /\ th'[x].why = "retire" /\ th'[x].todo = vals
        /\ th'[x].tl = u /\ th'[x].o = n
    BY <2>5 DEF Goes, Others
  <2>7. idr[u] # "none"
    <3>1. 1 \in DOMAIN vals
      BY <2>1
    <3>2. vals[1] \in ToSet(obj[n].vals)
      BY <2>1, <3>1, InToSet
    <3> QED BY <2>2, <3>2 DEF ObjIInv, ArrayInv
  <2>8. IdsInv'
    BY <1>1, <2>6, <2>7, IdsFrame DEF RefsIInv
  <2>9. \A y \in Thread : ~Retires(y, n)
    <3>1. SideAt(n) /\ (SchedPending(n) \/ EventPending(n))
      BY <1>1, <1>2, AtObj DEF SchedPending, EventPending, SchedSteps
    <3>2. obj[n].sig > 0
      BY <3>1, Bits
    <3>3. obj[n].sig # 0
      BY <3>1, <3>2, Bits
    <3> QED BY <3>1, <3>3 DEF SideAt, Retires
  <2>10. Entries(n) = vals /\ Entries(n)' = vals
    BY <2>1, <2>6, <2>9, EntriesNow, EntriesNext DEF Retires
  <2>11. \A m \in Obj \ {n} : Entries(m)' = Entries(m)
    BY <1>3, <1>4, <2>6, EntriesElse
  <2>12. SameEntries
    BY <2>10, <2>11 DEF SameEntries
  <2>13. \A t \in Timeline : (x \in CallUsers(t)' <=> x \in CallUsers(t)) /\ (Known(t)' <=> Known(t))
    <3>1. Null \notin Timeline
      BY TimelineAssumption
    <3>2. \A t \in Timeline : ~Holds(th'[x], t) /\ ~Holds(th[x], t)
      BY <1>3, <2>6, <3>1 DEF Holds
    <3> QED BY <1>1, <3>2, UsersAre DEF Known
  <2>14. UsersInv /\ RefsSame /\ SameOwners
    BY <1>1, OwnersKept, RefsKept DEF RefsIInv
  <2>15. UsersInv'
    BY <2>6, <2>12, <2>13, <2>14, UsersFrame
  <2> QED BY <2>8, <2>15 DEF RefsIInv
<1> QED BY <1>2, <1>5, <1>6 DEF TimelineobjSignal

LEMMA RefsTimelineobjRetire ==
  ASSUME FenceIInv, ObjIInv, ObjIInv', RefsIInv, NEW x \in Thread, TimelineobjRetire(x)
  PROVE  RefsIInv'
<1>1. /\ th[x].pc = "retired" /\ th' = [th EXCEPT ![x] = Idle]
      /\ UNCHANGED <<idr, tline, fence, files>>
  BY DEF TimelineobjRetire, At
<1>2. PICK n \in Obj : n = th[x].o
  BY <1>1, ThreadIs DEF ThreadOK, ObjSteps
<1>3. th[x].why = "retire" /\ th[x].todo = <<>> /\ th[x].tl = Null
  BY <1>1, ThreadIs, NotRetiring DEF ThreadOK, Agree, ObjIInv, WorkOK, ValueSteps, DestroySteps
<1>4. /\ \A m \in Obj \ {n} : obj'[m].vals = obj[m].vals
      /\ obj'[n].vals = <<>>
  BY <1>2, ObjIs DEF TimelineobjRetire, ObjShape, IsObj, ObjFields
<1>5. Goes(x, "idle", "none", <<>>, Null, Null)
  BY <1>1, IdleGoes
<1>6. Others(x) /\ th'[x].pc = "idle" /\ th'[x].why = "none" /\ th'[x].tl = Null
  BY <1>5 DEF Goes, Others
<1>7. IdsInv'
  BY <1>1, <1>6, IdsFrame DEF RefsIInv
<1>8. \A y \in Thread : ~Retires(y, n)'
  <2>1. \A y \in Thread : Retires(y, n) => y = x
    BY <1>2, <1>3 DEF ObjIInv, OneSide, Retires
  <2> QED BY <1>6, <2>1 DEF Others, Retires
<1>9. Entries(n) = <<>> /\ Entries(n)' = <<>>
  BY <1>2, <1>3, <1>4, <1>8, EntriesNow, EntriesNext DEF Retires
<1>10. \A m \in Obj \ {n} : Entries(m)' = Entries(m)
  BY <1>2, <1>4, <1>6, EntriesElse
<1>11. SameEntries
  BY <1>9, <1>10 DEF SameEntries
<1>12. \A t \in Timeline : (x \in CallUsers(t)' <=> x \in CallUsers(t)) /\ (Known(t)' <=> Known(t))
  <2>1. Null \notin Timeline
    BY TimelineAssumption
  <2>2. \A t \in Timeline : ~Holds(th'[x], t) /\ ~Holds(th[x], t)
    BY <1>3, <1>6, <2>1 DEF Holds
  <2> QED BY <1>1, <2>2, UsersAre DEF Known
<1>13. UsersInv /\ RefsSame /\ SameOwners
  BY <1>1, OwnersKept, RefsKept DEF RefsIInv
<1>14. UsersInv'
  BY <1>6, <1>11, <1>12, <1>13, UsersFrame
<1> QED BY <1>7, <1>14 DEF RefsIInv

-----------------------------------------------------------------------------
(* The references of timelines, in every step and every state.             *)

LEMMA RefsInit ==
  ASSUME Init
  PROVE  RefsIInv
<1>1. /\ \A x \in Thread : th[x] = Idle
      /\ \A t \in Timeline : tline[t].ref = 0 /\ idr[t] = "none"
      /\ \A f \in Fence : fence[f].status = "none"
      /\ \A n \in Obj : obj[n].vals = <<>>
      /\ idr \in [Timeline -> {"none", "reserved", "live", "removed"}]
  BY DEF Init
<1>2. \A x \in Thread : th[x].pc = "idle" /\ th[x].why = "none" /\ th[x].tl = Null
  BY <1>1, IdleFields
<1>3. IdsInv
  BY <1>1, <1>2 DEF IdsInv
<1>4. \A n \in Obj : Entries(n) = <<>>
  <2>1. ObjIInv
    BY ObjInit
  <2> QED BY <1>1, <1>2, <2>1, EntriesNow DEF Retires
<1>5. ASSUME NEW t \in Timeline PROVE UsersAt(t)
  <2>1. CallUsers(t) = {}
    BY <1>2, TimelineAssumption DEF CallUsers
  <2>2. FenceUsers(t) = {}
    BY <1>1 DEF FenceUsers, Live
  <2>3. EntryUsers(t) = {}
    <3>1. \A n \in Obj : DOMAIN Entries(n) = {}
      BY <1>4
    <3> QED BY <3>1, EntryUser
  <2>4. IsFiniteSet(EntryUsers(t)) /\ Cardinality(EntryUsers(t)) = 0
        /\ Cardinality(CallUsers(t)) = 0 /\ Cardinality(FenceUsers(t)) = 0
    BY <2>1, <2>2, <2>3, FS_EmptySet
  <2> QED BY <1>1, <2>4 DEF UsersAt, Known, Bit
<1> QED BY <1>3, <1>5, AllUsers DEF RefsIInv

LEMMA RefsBegin ==
  ASSUME FenceIInv, ObjIInv, ObjIInv', RefsIInv, NEW x \in Thread, Begin(x)
  PROVE  RefsIInv'
<1>1. ASSUME NEW t \in Timeline, TimelineAlloc(x, t) PROVE RefsIInv'
  BY <1>1, RefsTimelineAlloc
<1>2. ASSUME NEW t \in Timeline, DestroyId(x, t) PROVE RefsIInv'
  BY <1>2, RefsDestroyId
<1>3. ASSUME NEW vals \in Arrays, NEW why, Call(x, why, vals) PROVE RefsIInv'
  BY <1>3, RefsCall
<1>4. ASSUME NEW vals \in Arrays, NEW n \in Obj, ObjCreate(x, n, vals) PROVE RefsIInv'
  BY <1>4, RefsObjCreate
<1>5. ASSUME NEW f \in Fence, CloseFile(x, f) PROVE RefsIInv'
  BY <1>5, RefsCloseFile
<1>6. ASSUME NEW n \in Obj, ObjDestroy(x, n) PROVE RefsIInv'
  BY <1>6, RefsObjDestroy
<1>7. ASSUME NEW n \in Obj, TimelineSignaled(x, n) PROVE RefsIInv'
  BY <1>7, RefsTimelineSignaled
<1> QED BY <1>1, <1>2, <1>3, <1>4, <1>5, <1>6, <1>7 DEF Begin

LEMMA RefsResume ==
  ASSUME FenceIInv, ObjIInv, ObjIInv', RefsIInv, NEW x \in Thread, Resume(x)
  PROVE  RefsIInv'
<1>1. CASE FenceRelease(x) \/ TimelineCreate(x) \/ Lookup(x)
  BY <1>1, RefsFenceRelease, RefsTimelineCreate, RefsLookup
<1>2. CASE FenceAlloc(x) \/ FenceGetFile(x) \/ FenceGetPut(x)
  BY <1>2, RefsFenceAlloc, RefsFenceGet
<1>3. CASE ValueDone(x) \/ SignalValue(x)
  BY <1>3, RefsValueDone, RefsSignalValue
<1>4. CASE WaitReturns(x) \/ Unwind(x)
  BY <1>4, RefsWaitEnds, RefsUnwind
<1>5. CASE \/ SignalCollect(x) \/ SignalFence(x) \/ SignalUnlock(x)
           \/ DestroySteal(x) \/ DestroyLock(x) \/ DestroyFence(x) \/ DestroyUnlock(x)
  BY <1>5, RefsWalk
<1>6. CASE ObjFill(x) \/ ObjAddEvent(x) \/ ObjEmpty(x)
  BY <1>6, RefsObjFill, RefsObjAddEvent, RefsObjEmpty
<1>7. CASE AddSignal(x) \/ TimelineobjSignal(x) \/ TimelineobjRetire(x)
  BY <1>7, RefsAddSignal, RefsTimelineobjSignal, RefsTimelineobjRetire
<1> QED BY <1>1, <1>2, <1>3, <1>4, <1>5, <1>6, <1>7 DEF Resume

LEMMA RefsNext ==
  ASSUME FenceIInv, ObjIInv, RefsIInv, [Next]_vars
  PROVE  RefsIInv'
<1>0. ObjIInv'
  BY ObjNext
<1>1. ASSUME NEW x \in Thread, Begin(x) PROVE RefsIInv'
  BY <1>0, <1>1, RefsBegin
<1>2. ASSUME NEW x \in Thread, Resume(x) PROVE RefsIInv'
  BY <1>0, <1>2, RefsResume
<1>3. ASSUME NEW x \in Thread, WaitTimesOut(x) PROVE RefsIInv'
  BY <1>0, <1>3, RefsWaitEnds
<1>4. ASSUME NEW f \in Fence, FencePoll(f) PROVE RefsIInv'
  BY <1>0, <1>4, RefsFencePoll
<1>5. ASSUME NEW n \in Obj, TimestampRetires(n) PROVE RefsIInv'
  BY <1>0, <1>5, RefsTimestampRetires
<1>6. CASE Next
  BY <1>1, <1>2, <1>3, <1>4, <1>5, <1>6 DEF Next
<1>7. CASE UNCHANGED vars
  BY <1>0, <1>7, RefsStutter
<1> QED BY <1>6, <1>7

\* Fences, timeline objects and the references of timelines agree in every
\* reachable state: the whole inductive invariant.
THEOREM TimelineInvariance == Spec => []TimelineIInv
<1>1. Init => RefsIInv
  BY RefsInit
<1>2. FenceIInv /\ ObjIInv /\ RefsIInv /\ [Next]_vars => RefsIInv'
  BY RefsNext
<1>3. FenceIInv /\ ObjIInv /\ RefsIInv => TimelineIInv
  BY DEF RefsIInv, TimelineIInv
<1> QED BY <1>1, <1>2, <1>3, FenceInvariance, ObjInvariance, PTL DEF Spec

LEMMA TypeFollows ==
  ASSUME TimelineIInv
  PROVE  TypeOK
<1> USE DEF TimelineIInv
<1>1. idr \in [Timeline -> {"none", "reserved", "live", "removed"}]
  BY DEF IdsInv
<1>2. ASSUME NEW t \in Timeline
      PROVE  /\ tline[t].ref \in Nat /\ tline[t].value \in Seqno
             /\ tline[t].fences \subseteq Fence
             /\ tline[t].events \in Seq([o : Obj, seq : Seqno])
             /\ \A x \in Thread : tline[t].lock = x <=>
                  th[x].tl = t /\ th[x].pc \in {"collect", "signaling", "failing"}
  <2>1. tline[t].ref \in Nat
    BY NatRef
  <2>2. tline[t].value \in Seqno /\ tline[t].fences \subseteq Fence
    BY TlineIs DEF TlineOK
  <2>3. tline[t].events \in Seq([o : Obj, seq : Seqno])
    BY DEF ObjIInv, EventInv
  <2>4. \A x \in Thread : tline[t].lock = x <=>
                  th[x].tl = t /\ th[x].pc \in {"collect", "signaling", "failing"}
    BY DEF FenceIInv, LockInv, LockSteps
  <2> QED BY <2>1, <2>2, <2>3, <2>4
<1>3. fence \in [Fence -> [tl : Timeline \cup {Null}, seq : Seqno, ref : Nat,
                          status : {"none", "pending", "ok", "error", "freed"}]]
  <2>1. FenceShape /\ \A f \in Fence : FenceOK(f)
    BY DEF FenceIInv, StateShape
  <2>2. \A f \in Fence : fence[f].ref \in Nat
    BY DEF FenceIInv, RefInv, Bit
  <2>3. ASSUME NEW f \in Fence
        PROVE  fence[f] \in [tl : Timeline \cup {Null}, seq : Seqno, ref : Nat,
                             status : {"none", "pending", "ok", "error", "freed"}]
    <3>1. fence[f] = [tl |-> fence[f].tl, seq |-> fence[f].seq, ref |-> fence[f].ref,
                      status |-> fence[f].status]
      BY <2>1 DEF FenceShape, IsFence, FenceFields
    <3> QED BY <2>1, <2>2, <3>1 DEF FenceOK
  <2> QED BY <2>1, <2>3 DEF FenceShape
<1>4. files \subseteq Fence
  BY DEF FenceIInv, StateShape
<1>5. \A n \in Obj : obj[n].sig \in 0..2 /\ obj[n].vals \in Seq(Val)
  BY AtObj, Bits, ValsAre
<1>6. \A x \in Thread : th[x].pc \in PC /\ th[x].todo \in Seq(Val)
  BY ThreadIs DEF ThreadOK
<1> QED BY <1>1, <1>2, <1>3, <1>4, <1>5, <1>6 DEF TypeOK

\* The entry an event belongs to still owns its reference.
LEMMA EventEntry ==
  ASSUME FenceIInv, ObjIInv, NEW t \in Timeline, NEW e \in ToSet(tline[t].events)
  PROVE  EntryUsers(t) # {}
<1>1. PICK n \in Obj : n = e.o
  BY EventIs
<1>2. PICK v : v = [tl |-> t, seq |-> e.seq]
  OBVIOUS
<1>3. v \in ToSet(Entries(n))
  <2>1. CASE \E y \in Thread : Retires(y, n)
    <3>1. PICK y \in Thread : Retires(y, n)
      BY <2>1
    <3>2. v \in ToSet(Left(th[y]))
      BY <1>1, <1>2, <3>1 DEF ObjIInv, EventInv
    <3>3. Entries(n) = th[y].todo
      BY <3>1, EntriesNow
    <3>4. th[y].todo \in Seq(Val) /\ WorkOK(th[y]) /\ th[y].why = "retire"
      BY <3>1, ThreadIs DEF ThreadOK, ObjIInv, Retires
    <3>5. CASE th[y].pc \in {"retire", "retired"}
      BY <3>2, <3>3, <3>5 DEF Left
    <3>6. CASE th[y].pc \in {"collect", "signaling", "got"}
      <4>1. th[y].todo # <<>>
        BY <3>6, ThreadIs DEF ThreadOK, ValueSteps
      <4>2. v \in ToSet(Tail(th[y].todo))
        BY <3>2, <3>6 DEF Left
      <4> QED BY <3>3, <3>4, <4>1, <4>2, ToSetTail
    <3> QED BY <3>4, <3>5, <3>6 DEF WorkOK
  <2>2. CASE \A y \in Thread : ~Retires(y, n)
    <3>1. Entries(n) = obj[n].vals
      BY <2>2, EntriesNow
    <3> QED BY <1>1, <1>2, <3>1 DEF ObjIInv, EventInv
  <2> QED BY <2>1, <2>2
<1>4. PICK i \in DOMAIN Entries(n) : Entries(n)[i] = v
  BY <1>3 DEF ToSet
<1>5. Entries(n)[i].tl = t
  BY <1>2, <1>4
<1>6. <<n, i>> \in EntryUsers(t)
  BY <1>4, <1>5, EntryUser
<1> QED BY <1>6

\* The reference count of a timeline is the number of its users - idr, calls,
\* fences, entries of timeline objects - and one that is freed has empty
\* lists: TimelineInv, in every reachable state, for any number of timelines
\* and any finite number of threads, fences and objects.
THEOREM TimelinesCounted == Spec => []TimelineInv
<1>1. TimelineIInv => TimelineRefs
  BY DEF TimelineIInv, TimelineRefs, UsersInv, CallUsers, FenceUsers, EntryUsers, Bit
<1>2. TimelineIInv => FreedIsEmpty
  <2> SUFFICES ASSUME TimelineIInv, NEW t \in Timeline, tline[t].ref = 0
               PROVE  tline[t].fences = {} /\ tline[t].events = <<>>
    BY DEF FreedIsEmpty
  <2> USE DEF TimelineIInv
  <2>1. /\ UsersAt(t) /\ Cardinality(EntryUsers(t)) \in Nat
        /\ Cardinality(FenceUsers(t)) \in Nat /\ Cardinality(CallUsers(t)) \in Nat
        /\ IsFiniteSet(EntryUsers(t)) /\ IsFiniteSet(FenceUsers(t))
    BY NatRef, UsersAre
  <2>2. Bit(Known(t)) \in Nat
    BY DEF Bit
  <2>3. Cardinality(EntryUsers(t)) = 0 /\ Cardinality(FenceUsers(t)) = 0
    BY <2>1, <2>2 DEF UsersAt
  <2>4. EntryUsers(t) = {} /\ FenceUsers(t) = {}
    BY <2>1, <2>3, FS_EmptySet
  <2>5. tline[t].fences = {}
    <3>1. \A f \in tline[t].fences : f \in FenceUsers(t)
      BY TlineIs DEF TlineOK, FenceIInv, ListInv, FenceUsers
    <3> QED BY <2>4, <3>1
  <2>6. ToSet(tline[t].events) = {}
    BY <2>4, EventEntry
  <2>7. tline[t].events = <<>>
    BY <2>6, NoEvents DEF ObjIInv, EventInv
  <2> QED BY <2>5, <2>7
<1>3. TimelineIInv => TypeOK
  BY TypeFollows
<1> QED BY <1>1, <1>2, <1>3, TimelineInvariance, FencesCounted, PTL DEF TimelineInv
=============================================================================
