-------------------------- MODULE KgslEventsProofs --------------------------
(***************************************************************************)
(* Proofs about the events of a context, for any width of the timestamps   *)
(* and any finite sets of events and threads.                              *)
(***************************************************************************)
EXTENDS KgslEventsInv, FiniteSetTheorems, NaturalsInduction, WellFoundedInduction, TLAPS

(* Numbers.                                                                *)

LEMMA LeastNatural ==
  ASSUME NEW T, T \subseteq Nat, T # {}
  PROVE  \E m \in T : \A k \in T : m <= k
<1>1. PICK R : R = OpToRel(<, Nat) /\ IsWellFoundedOn(R, Nat)
  BY NatLessThanWellFounded
<1>2. PICK m \in T : \A y \in T : ~(<<y, m>> \in R)
  BY <1>1, WFMin, Zenon
<1>3. \A y \in T : y < m => <<y, m>> \in R
  BY <1>1 DEF OpToRel
<1>4. ASSUME NEW k \in T PROVE m <= k
  <2>1. m \in Nat /\ k \in Nat
    OBVIOUS
  <2>2. ~(k < m)
    BY <1>2, <1>3
  <2> QED BY <2>1, <2>2
<1> QED BY <1>4

LEMMA Division ==
  ASSUME NEW n \in Nat, NEW r \in Nat \ {0}
  PROVE  n % r \in 0..(r - 1) /\ n \div r \in Nat /\ n = r * (n \div r) + (n % r)
  OBVIOUS

LEMMA Quotient ==
  ASSUME NEW r \in Nat \ {0}, NEW p \in Nat, NEW q \in Nat, p < q
  PROVE  r * p + r <= r * q
<1>1. PICK k \in Nat : q = p + 1 + k
  <2>1. q - p - 1 \in Nat /\ q = p + 1 + (q - p - 1)
    OBVIOUS
  <2> QED BY <2>1
<1>2. r * q = r * p + r + r * k
  BY <1>1
<1>3. r * k \in Nat
  OBVIOUS
<1>4. r * p \in Nat
  OBVIOUS
<1> QED BY <1>2, <1>3, <1>4

\* There is one remainder.
LEMMA Unique ==
  ASSUME NEW r \in Nat \ {0}, NEW p \in Nat, NEW q \in Nat,
         NEW a \in 0..(r - 1), NEW b \in 0..(r - 1), r * p + a = r * q + b
  PROVE  a = b
<1>1. r * p \in Nat /\ r * q \in Nat
  OBVIOUS
<1>2. CASE p < q
  <2>1. r * p + r <= r * q 
    BY <1>2, Quotient
  <2> QED BY <2>1, <1>1
<1>3. CASE q < p
  <2>1. r * q + r <= r * p 
    BY <1>3, Quotient
  <2> QED BY <2>1, <1>1
<1>4. CASE p = q
  BY <1>1, <1>4
<1> QED BY <1>2, <1>3, <1>4

LEMMA Carry ==
  ASSUME NEW r \in Nat \ {0}, NEW n \in Nat, NEW d \in 0..(r - 1)
  PROVE  (n + d) % r = IF (n % r) + d < r THEN (n % r) + d ELSE (n % r) + d - r
<1>1. PICK p \in Nat, a \in 0..(r - 1) : n = r * p + a /\ n % r = a
  BY Division
<1>2. n + d \in Nat
  OBVIOUS
<1>3. PICK q \in Nat, b \in 0..(r - 1) : n + d = r * q + b /\ (n + d) % r = b
  BY <1>2, Division
<1>4. CASE a + d < r
  <2>1. a + d \in 0..(r - 1) /\ r * p + (a + d) = r * q + b
    BY <1>1, <1>3, <1>4
  <2> QED BY <1>1, <1>3, <1>4, <2>1, Unique
<1>5. CASE ~(a + d < r)
  <2>1. r * (p + 1) = r * p + r
    OBVIOUS
  <2>2. PICK u, v \in Int : u = r * p /\ v = r * q
    OBVIOUS
  <2>3. n = u + a /\ n + d = v + b /\ r * (p + 1) = u + r
    BY <1>1, <1>3, <2>1, <2>2
  <2>4. a \in Int /\ b \in Int /\ d \in Int /\ r \in Int /\ 0 <= a + d - r /\ a + d - r <= r - 1
    BY <1>1, <1>3, <1>5
  <2>5. (u + r) + (a + d - r) = v + b
    BY ONLY <2>3, <2>4, u \in Int, v \in Int, n \in Nat
  <2>6. a + d - r \in 0..(r - 1) /\ p + 1 \in Nat
    BY <2>4
  <2>7. a + d - r \in 0..(r - 1) /\ r * (p + 1) + (a + d - r) = r * q + b /\ p + 1 \in Nat
    BY <2>2, <2>3, <2>5, <2>6
  <2>8. a + d - r = b
    BY <2>7, Unique
  <2> QED BY <1>1, <1>3, <1>5, <2>8
<1> QED BY <1>4, <1>5

(* Timestamps: within half the range the code's comparison is that of time. *)

LEMMA StampFacts ==
  ASSUME NEW n \in Nat
  PROVE  TS(n) \in 0..(Range2 - 1) /\ Range2 \in Nat \ {0} /\ Range2 = Window + Window
         /\ Window \in Nat \ {0}
<1>1. Window \in Nat \ {0} /\ Range2 = Window + Window /\ Range2 \in Nat \ {0}
  BY EventsAssumption DEF Range2
<1> QED BY <1>1, Division DEF TS

\* The timestamp d later.
LEMMA StampLater ==
  ASSUME NEW n \in Nat, NEW d \in 0..(Range2 - 1)
  PROVE  TS(n + d) = IF TS(n) + d < Range2 THEN TS(n) + d ELSE TS(n) + d - Range2
<1>1. Range2 \in Nat \ {0}
  BY StampFacts
<1> QED BY <1>1, Carry DEF TS

\* The shift by half the range.
LEMMA ShiftFacts ==
  ASSUME NEW n \in 0..(Range2 - 1)
  PROVE  (n + Window) % Range2 = IF n < Window THEN n + Window ELSE n - Window
<1>1. Window \in Nat \ {0} /\ Range2 = Window + Window /\ Range2 \in Nat \ {0} /\ n \in Nat
  BY EventsAssumption DEF Range2
<1>2. Window \in 0..(Range2 - 1)
  BY <1>1
<1>3. TS(n) = n
  <2>1. PICK q \in Nat, b \in 0..(Range2 - 1) : n = Range2 * q + b /\ n % Range2 = b
    BY <1>1, Division
  <2>2. Range2 * 0 = 0 /\ 0 \in Nat
    BY <1>1
  <2>3. Range2 * 0 + n = Range2 * q + b
    BY <1>1, <2>1, <2>2
  <2>4. n = b
    BY <1>1, <2>2, <2>3, Unique
  <2> QED BY <2>1, <2>4 DEF TS
<1>4. TS(n + Window) = IF n + Window < Range2 THEN n + Window ELSE n + Window - Range2
  BY <1>1, <1>2, <1>3, StampLater
<1>5. n + Window < Range2 <=> n < Window
  BY <1>1
<1>6. n + Window - Range2 = n - Window
  BY <1>1
<1> QED BY <1>4, <1>5, <1>6 DEF TS

LEMMA CmpLater ==
  ASSUME NEW a \in Nat, NEW b \in Nat, b < a, a < b + Window
  PROVE  TimestampCmp(TS(a), TS(b)) = 1 /\ TimestampCmp(TS(b), TS(a)) = -1 /\ TS(a) # TS(b)
<1>1. Window \in Nat \ {0} /\ Range2 = Window + Window /\ Range2 \in Nat \ {0}
  BY StampFacts
<1>2. PICK d \in Nat : a = b + d /\ 0 < d /\ d < Window /\ d \in 0..(Range2 - 1)
  <2>1. a - b \in Nat /\ a = b + (a - b) /\ 0 < a - b /\ a - b < Window /\ a - b \in 0..(Range2 - 1)
    BY <1>1
  <2> QED BY <2>1
<1>3. PICK r, s \in 0..(Range2 - 1) : r = TS(b) /\ s = TS(a)
  BY StampFacts
<1>4. s = IF r + d < Range2 THEN r + d ELSE r + d - Range2
  BY <1>2, <1>3, StampLater
<1>5. PICK u, v : u = (r + Window) % Range2 /\ v = (s + Window) % Range2
  OBVIOUS
<1>6. /\ u = IF r < Window THEN r + Window ELSE r - Window
      /\ v = IF s < Window THEN s + Window ELSE s - Window
  BY <1>5, ShiftFacts
<1>7. r # s
  BY <1>1, <1>2, <1>4
<1>8. (s > r /\ s - r < Window) \/ (v > u /\ v - u <= Window)
  BY <1>1, <1>2, <1>4, <1>6
<1>9. ~(r > s /\ r - s < Window) /\ ~(u > v /\ u - v <= Window)
  BY <1>1, <1>2, <1>4, <1>6
<1>10. TimestampCmp(s, r) = 1
  BY <1>5, <1>7, <1>8 DEF TimestampCmp
<1>11. TimestampCmp(r, s) = -1
  BY <1>5, <1>7, <1>9 DEF TimestampCmp
<1> QED BY <1>3, <1>7, <1>10, <1>11

\* What the code decides is what happened.
LEMMA CmpIsTime ==
  ASSUME NEW a \in Nat, NEW b \in Nat, InWindow(a, b)
  PROVE  /\ TimestampCmp(TS(a), TS(b)) >= 0 <=> a >= b
         /\ TimestampCmp(TS(a), TS(b)) <= 0 <=> a <= b
         /\ TimestampCmp(TS(a), TS(b)) > 0 <=> a > b
<1>1. a < b + Window /\ b < a + Window
  BY DEF InWindow
<1>2. CASE a = b
  <2>1. TimestampCmp(TS(a), TS(b)) = 0
    BY <1>2 DEF TimestampCmp
  <2> QED BY <1>2, <2>1
<1>3. CASE b < a
  BY <1>1, <1>3, CmpLater
<1>4. CASE a < b
  BY <1>1, <1>4, CmpLater
<1> QED BY <1>2, <1>3, <1>4

\* Two times with the same timestamp are equal or a whole range apart.
LEMMA StampIsTime ==
  ASSUME NEW a \in Nat, NEW b \in Nat, TS(a) = TS(b), a < b + Range2, b < a + Range2
  PROVE  a = b
<1>1. \A m, n \in Nat : m < n /\ n < m + Range2 => TS(m) # TS(n)
  <2> SUFFICES ASSUME NEW m \in Nat, NEW n \in Nat, m < n, n < m + Range2 PROVE TS(m) # TS(n)
    OBVIOUS
  <2>1. Range2 \in Nat \ {0} /\ TS(m) \in 0..(Range2 - 1)
    BY StampFacts
  <2>2. PICK d \in Nat : n = m + d /\ 0 < d /\ d \in 0..(Range2 - 1)
    <3>1. n - m \in Nat /\ n = m + (n - m) /\ 0 < n - m /\ n - m \in 0..(Range2 - 1)
      BY <2>1
    <3> QED BY <3>1
  <2>3. TS(n) = IF TS(m) + d < Range2 THEN TS(m) + d ELSE TS(m) + d - Range2
    BY <2>2, StampLater
  <2>4. PICK r \in 0..(Range2 - 1) : r = TS(m)
    BY <2>1
  <2> QED BY <2>1, <2>2, <2>3, <2>4
<1> QED BY <1>1

-----------------------------------------------------------------------------
(* Walks over a list.                                                      *)

\* The recursion of Found, up to n.
FoundUpTo(g, s, S, n) ==
  g = [m \in 0..n |-> IF m = 0 THEN <<>>
                      ELSE IF s[m] \in S THEN Append(g[m - 1], s[m]) ELSE g[m - 1]]

LEMMA FoundExists ==
  ASSUME NEW s, NEW S, NEW len \in Nat
  PROVE  \E g : FoundUpTo(g, s, S, len)
<1> DEFINE More(q, m) == IF s[m] \in S THEN Append(q, s[m]) ELSE q
           T == {n \in Nat : ~ \E g : FoundUpTo(g, s, S, n)}
<1>1. SUFFICES ASSUME T # {} PROVE FALSE
  BY DEF T
<1>2. T \subseteq Nat
  OBVIOUS
<1>3. PICK m \in T : \A k \in T : m <= k
  BY <1>1, <1>2, LeastNatural
<1>4. m \in Nat /\ ~ \E g : FoundUpTo(g, s, S, m)
  OBVIOUS
<1>5. CASE m = 0
  <2>1. PICK g : g = [k \in 0..m |-> <<>>]
    OBVIOUS
  <2>2. FoundUpTo(g, s, S, m)
    BY <1>5, <2>1 DEF FoundUpTo
  <2> QED BY <1>4, <2>2
<1>6. CASE m # 0
  <2>1. m - 1 \in Nat /\ ~(m <= m - 1)
    BY <1>4, <1>6
  <2>2. m - 1 \notin T
    BY <1>3, <2>1
  <2>3. PICK g : FoundUpTo(g, s, S, m - 1)
    BY <2>1, <2>2
  <2> HIDE DEF T
  <2>4. \A k \in 0..(m - 1) : g[k] = IF k = 0 THEN <<>> ELSE More(g[k - 1], k)
    BY <2>3 DEF FoundUpTo
  <2> HIDE DEF More
  <2>5. PICK h : h = [k \in 0..m |-> IF k = m THEN More(g[m - 1], m) ELSE g[k]]
    OBVIOUS
  <2>6. ASSUME NEW k \in 0..m
        PROVE  h[k] = IF k = 0 THEN <<>> ELSE More(h[k - 1], k)
    <3>1. k \in Nat /\ k <= m
      BY <1>4
    <3>2. CASE k = m
      <4>1. m - 1 \in 0..m /\ m - 1 # m
        BY <1>4, <2>1
      <4>2. h[k] = More(g[m - 1], m) /\ h[m - 1] = g[m - 1]
        BY <2>5, <3>2, <4>1
      <4> QED BY <1>6, <3>2, <4>2
    <3>3. CASE k # m
      <4>1. k \in 0..(m - 1) /\ (k # 0 => k - 1 \in 0..m /\ k - 1 # m)
        BY <1>4, <3>1, <3>3
      <4>2. g[k] = IF k = 0 THEN <<>> ELSE More(g[k - 1], k)
        BY <2>4, <4>1
      <4>3. h[k] = g[k] /\ (k # 0 => h[k - 1] = g[k - 1])
        BY <2>5, <3>3, <4>1
      <4> QED BY <4>2, <4>3
    <3> QED BY <3>2, <3>3
  <2>7. h = [k \in 0..m |-> h[k]]
    BY <2>5
  <2>8. FoundUpTo(h, s, S, m)
    BY <2>6, <2>7 DEF FoundUpTo, More
  <2> QED BY <1>4, <2>8
<1> QED BY <1>5, <1>6

LEMMA FoundIsSteps ==
  ASSUME NEW T, NEW s \in Seq(T), NEW S
  PROVE  \E g : FoundUpTo(g, s, S, Len(s)) /\ Found(s, S) = g[Len(s)]
<1>1. Found(s, S) = (CHOOSE g : FoundUpTo(g, s, S, Len(s)))[Len(s)]
  BY DEF Found, FoundUpTo
<1>2. \E g : FoundUpTo(g, s, S, Len(s))
  <2>1. Len(s) \in Nat
    OBVIOUS
  <2> QED BY <2>1, FoundExists
<1>3. FoundUpTo(CHOOSE g : FoundUpTo(g, s, S, Len(s)), s, S, Len(s))
  BY <1>2
<1> QED BY <1>1, <1>3

\* After the first n elements of s.
AfterWalk(q, s, S, T, n) ==
  /\ q \in Seq(T) /\ IsInjective(q)
  /\ \A j \in DOMAIN q : q[j] \in S /\ \E i \in 1..n : q[j] = s[i]
  /\ \A i \in 1..n : s[i] \in S => \E j \in DOMAIN q : q[j] = s[i]

\* A walk over a list without duplicates finds what it looks for, once each.
LEMMA FoundFacts ==
  ASSUME NEW T, NEW s \in Seq(T), IsInjective(s), NEW S
  PROVE  /\ Found(s, S) \in Seq(T) /\ IsInjective(Found(s, S))
         /\ ToSet(Found(s, S)) = ToSet(s) \cap S
<1>1. PICK g : FoundUpTo(g, s, S, Len(s)) /\ Found(s, S) = g[Len(s)]
  BY FoundIsSteps
<1>2. Len(s) \in Nat /\ DOMAIN s = 1..Len(s)
  OBVIOUS
<1>3. \A m \in 0..Len(s) :
        g[m] = IF m = 0 THEN <<>> ELSE IF s[m] \in S THEN Append(g[m - 1], s[m]) ELSE g[m - 1]
  BY <1>1 DEF FoundUpTo
<1> DEFINE B == {n \in 0..Len(s) : ~AfterWalk(g[n], s, S, T, n)}
<1>4. B = {}
  <2>1. SUFFICES ASSUME B # {} PROVE FALSE
    OBVIOUS
  <2>2. B \subseteq Nat
    BY <1>2
  <2>3. PICK m \in B : \A k \in B : m <= k
    BY <2>1, <2>2, LeastNatural
  <2>4. m \in 0..Len(s) /\ m \in Nat /\ ~AfterWalk(g[m], s, S, T, m)
    BY <1>2
  <2>5. CASE m = 0
    <3>1. g[m] = <<>> /\ 1..m = {}
      BY <1>3, <2>4, <2>5
    <3>2. DOMAIN g[m] = {} /\ g[m] \in Seq(T)
      BY <3>1
    <3> QED BY <2>4, <3>1, <3>2 DEF AfterWalk, IsInjective
  <2>6. CASE m # 0
    <3>1. m - 1 \in 0..Len(s) /\ ~(m <= m - 1) /\ m \in 1..Len(s)
      BY <1>2, <2>4, <2>6
    <3>2. PICK q : q = g[m - 1] /\ AfterWalk(q, s, S, T, m - 1)
      BY <2>3, <3>1
    <3>3. /\ q \in Seq(T) /\ IsInjective(q)
          /\ \A j \in DOMAIN q : q[j] \in S /\ \E i \in 1..(m - 1) : q[j] = s[i]
          /\ \A i \in 1..(m - 1) : s[i] \in S => \E j \in DOMAIN q : q[j] = s[i]
      BY <3>2 DEF AfterWalk
    <3>4. \A i : i \in 1..m <=> i \in 1..(m - 1) \/ i = m
      BY <2>4, <3>1
    <3>5. g[m] = IF s[m] \in S THEN Append(q, s[m]) ELSE q
      BY <1>3, <2>4, <2>6, <3>2
    <3>6. CASE s[m] \notin S
      <4>1. g[m] = q
        BY <3>5, <3>6
      <4>2. AfterWalk(q, s, S, T, m)
        BY <3>3, <3>4, <3>6 DEF AfterWalk
      <4> QED BY <2>4, <4>1, <4>2
    <3>7. CASE s[m] \in S
      <4>1. PICK r : r = Append(q, s[m]) /\ g[m] = r
        BY <3>5, <3>7
      <4>2. s[m] \in T
        BY <1>2, <3>1
      <4>3. /\ r \in Seq(T) /\ Len(q) \in Nat /\ DOMAIN q = 1..Len(q)
            /\ DOMAIN r = 1..(Len(q) + 1) /\ r[Len(q) + 1] = s[m]
            /\ \A j \in DOMAIN q : r[j] = q[j]
        BY <3>3, <4>1, <4>2
      <4>4. \A j : j \in DOMAIN r <=> j \in DOMAIN q \/ j = Len(q) + 1
        BY <4>3
      <4>5. \A j \in DOMAIN q : q[j] # s[m]
        <5>1. \A i \in 1..(m - 1) : i \in DOMAIN s /\ i # m /\ m \in DOMAIN s
          BY <1>2, <3>1
        <5>2. \A i \in 1..(m - 1) : s[i] # s[m]
          BY <5>1 DEF IsInjective
        <5> QED BY <3>3, <5>2
      <4>6. IsInjective(r)
        BY <3>3, <4>3, <4>4, <4>5 DEF IsInjective
      <4>7. \A j \in DOMAIN r : r[j] \in S /\ \E i \in 1..m : r[j] = s[i]
        BY <3>3, <3>4, <3>7, <4>3, <4>4
      <4>8. \A i \in 1..m : s[i] \in S => \E j \in DOMAIN r : r[j] = s[i]
        BY <3>3, <3>4, <4>3, <4>4
      <4>9. AfterWalk(r, s, S, T, m)
        BY <4>3, <4>6, <4>7, <4>8 DEF AfterWalk
      <4> QED BY <2>4, <4>1, <4>9
    <3> QED BY <3>6, <3>7
  <2> QED BY <2>5, <2>6
<1>5. Len(s) \in 0..Len(s)
  BY <1>2
<1>6. AfterWalk(Found(s, S), s, S, T, Len(s))
  BY <1>1, <1>4, <1>5
<1> HIDE DEF B
<1>7. ToSet(Found(s, S)) = ToSet(s) \cap S
  BY <1>2, <1>6 DEF AfterWalk, ToSet
<1> QED BY <1>6, <1>7 DEF AfterWalk

-----------------------------------------------------------------------------
(* Fields of the records.                                                  *)

LEMMA ContextFields ==
  ASSUME NEW c \in ContextType
  PROVE  /\ c.ref \in Int /\ c.detached \in BOOLEAN /\ c.invalid \in BOOLEAN
         /\ c.queued \in Nat /\ c.retired \in Nat /\ c.lost \in BOOLEAN
  BY DEF ContextType

LEMMA GroupFields ==
  ASSUME NEW g \in GroupType
  PROVE  g.listed \in BOOLEAN /\ g.events \in Seq(Event) /\ g.processed \in Nat
  BY DEF GroupType

LEMMA ThreadFields ==
  ASSUME NEW r \in ThreadType
  PROVE  r.pc \in PC /\ r.why \in Why /\ r.at \in Nat /\ r.e \in Event \cup {Null}
  BY DEF ThreadType

LEMMA EventFields ==
  ASSUME NEW r \in EventType
  PROVE  /\ r.st \in {"none", "new", "listed", "queued"} /\ r.at \in Wanted \cup {0} /\ r.at \in Nat
         /\ r.why \in {"none", "wait", "event"} /\ r.result \in {"none", "retired", "cancelled"}
<1>1. /\ r.st \in {"none", "new", "listed", "queued"} /\ r.at \in Wanted \cup {0}
      /\ r.why \in {"none", "wait", "event"} /\ r.result \in {"none", "retired", "cancelled"}
  BY DEF EventType
<1>2. Wanted \subseteq Nat
  BY EventsAssumption
<1>3. \A a \in Wanted \cup {0} : a \in Nat
  BY <1>2
<1> QED BY <1>1, <1>3, Zenon

LEMMA TypesNow ==
  ASSUME StateTypes
  PROVE  /\ ctx.ref \in Int /\ ctx.detached \in BOOLEAN /\ ctx.invalid \in BOOLEAN
         /\ ctx.queued \in Nat /\ ctx.retired \in Nat /\ ctx.lost \in BOOLEAN
         /\ group.listed \in BOOLEAN /\ group.events \in Seq(Event) /\ group.processed \in Nat
         /\ \A x \in Thread : /\ th[x] \in ThreadType /\ th[x].pc \in PC /\ th[x].why \in Why
                              /\ th[x].at \in Nat /\ th[x].e \in Event \cup {Null}
         /\ \A e \in Event : /\ ev[e] \in EventType /\ ev[e].at \in Nat
                             /\ ev[e].st \in {"none", "new", "listed", "queued"}
         /\ Window \in Nat \ {0}
<1>1. ctx \in ContextType /\ group \in GroupType /\ th \in [Thread -> ThreadType]
      /\ ev \in [Event -> EventType]
  BY DEF StateTypes
<1>2. \A x \in Thread : th[x] \in ThreadType
  BY <1>1
<1>3. \A e \in Event : ev[e] \in EventType
  BY <1>1
<1> QED BY <1>1, <1>2, <1>3, ContextFields, GroupFields, ThreadFields, EventFields, EventsAssumption

LEMMA TypesNext ==
  ASSUME StateTypes'
  PROVE  /\ ctx'.ref \in Int /\ ctx'.detached \in BOOLEAN /\ ctx'.invalid \in BOOLEAN
         /\ ctx'.queued \in Nat /\ ctx'.retired \in Nat /\ ctx'.lost \in BOOLEAN
         /\ group'.listed \in BOOLEAN /\ group'.events \in Seq(Event) /\ group'.processed \in Nat
         /\ \A x \in Thread : /\ th'[x] \in ThreadType /\ th'[x].pc \in PC /\ th'[x].why \in Why
                              /\ th'[x].at \in Nat /\ th'[x].e \in Event \cup {Null}
         /\ \A e \in Event : /\ ev'[e] \in EventType /\ ev'[e].at \in Nat
                             /\ ev'[e].st \in {"none", "new", "listed", "queued"}
         /\ Window \in Nat \ {0}
<1>1. ctx' \in ContextType /\ group' \in GroupType /\ th' \in [Thread -> ThreadType]
      /\ ev' \in [Event -> EventType]
  BY DEF StateTypes
<1>2. \A x \in Thread : th'[x] \in ThreadType
  BY <1>1
<1>3. \A e \in Event : ev'[e] \in EventType
  BY <1>1
<1> QED BY <1>1, <1>2, <1>3, ContextFields, GroupFields, ThreadFields, EventFields, EventsAssumption

LEMMA IdleFields ==
  Idle \in ThreadType /\ Idle.pc = "idle" /\ Idle.why = "none" /\ Idle.at = 0 /\ Idle.e = Null
  BY DEF Idle, ThreadType, PC, Why

\* A thread goes to another step.
LEMMA ToFields ==
  ASSUME StateTypes, NEW x \in Thread, NEW p \in PC, To(x, p)
  PROVE  /\ th' \in [Thread -> ThreadType]
         /\ th'[x].pc = p /\ th'[x].why = th[x].why /\ th'[x].at = th[x].at /\ th'[x].e = th[x].e
         /\ \A y \in Thread : y # x => th'[y] = th[y]
<1>1. th \in [Thread -> ThreadType]
  BY DEF StateTypes
<1>2. PICK r \in ThreadType : r = th[x]
  BY <1>1
<1>3. PICK s : s = [r EXCEPT !.pc = p]
  OBVIOUS
<1>4. s \in ThreadType /\ s.pc = p /\ s.why = r.why /\ s.at = r.at /\ s.e = r.e
  BY <1>3 DEF ThreadType
<1>5. th' = [th EXCEPT ![x] = s]
  BY <1>2, <1>3 DEF To
<1> QED BY <1>1, <1>2, <1>4, <1>5

\* A thread's record is replaced.
LEMMA SetFields ==
  ASSUME StateTypes, NEW x \in Thread, NEW s \in ThreadType, th' = [th EXCEPT ![x] = s]
  PROVE  /\ th' \in [Thread -> ThreadType] /\ th'[x] = s
         /\ \A y \in Thread : y # x => th'[y] = th[y]
  BY DEF StateTypes

\* Sleepers are woken.
LEMMA WokenFields ==
  ASSUME StateTypes, NEW w, w = Woken(th)
  PROVE  /\ w \in [Thread -> ThreadType]
         /\ \A y \in Thread : /\ w[y].why = th[y].why /\ w[y].at = th[y].at /\ w[y].e = th[y].e
                              /\ w[y].pc = IF th[y].pc = "asleep" THEN "test" ELSE th[y].pc
                              /\ th[y].pc # "asleep" => w[y] = th[y]
<1>1. ASSUME NEW y \in Thread
      PROVE  /\ w[y] \in ThreadType
             /\ w[y].why = th[y].why /\ w[y].at = th[y].at /\ w[y].e = th[y].e
             /\ w[y].pc = IF th[y].pc = "asleep" THEN "test" ELSE th[y].pc
             /\ th[y].pc # "asleep" => w[y] = th[y]
  <2>1. PICK r \in ThreadType : r = th[y]
    BY DEF StateTypes
  <2>2. PICK s : s = [r EXCEPT !.pc = "test"]
    OBVIOUS
  <2>3. s \in ThreadType /\ s.pc = "test" /\ s.why = r.why /\ s.at = r.at /\ s.e = r.e
    BY <2>2 DEF ThreadType, PC, WaitSteps
  <2>4. w[y] = IF r.pc = "asleep" THEN s ELSE r
    BY <2>1, <2>2 DEF Woken
  <2> QED BY <2>1, <2>3, <2>4
<1>2. w = [y \in Thread |-> w[y]]
  BY DEF Woken
<1> QED BY <1>1, <1>2

\* A reference is got or put.
SameContext ==
  /\ ctx'.detached = ctx.detached /\ ctx'.invalid = ctx.invalid /\ ctx'.queued = ctx.queued
  /\ ctx'.retired = ctx.retired /\ ctx'.lost = ctx.lost

LEMMA RefFields ==
  ASSUME StateTypes, NEW n \in Int, ctx' = [ctx EXCEPT !.ref = n]
  PROVE  ctx' \in ContextType /\ ctx'.ref = n /\ SameContext
<1>1. PICK c \in ContextType : c = ctx
  BY DEF StateTypes
<1>2. PICK d : d = [c EXCEPT !.ref = n]
  OBVIOUS
<1>3. /\ d \in ContextType /\ d.ref = n /\ d.detached = c.detached /\ d.invalid = c.invalid
      /\ d.queued = c.queued /\ d.retired = c.retired /\ d.lost = c.lost
  BY <1>2 DEF ContextType
<1> QED BY <1>1, <1>2, <1>3 DEF SameContext

LEMMA GroupEventsFields ==
  ASSUME StateTypes, NEW s \in Seq(Event), group' = [group EXCEPT !.events = s]
  PROVE  /\ group' \in GroupType /\ group'.events = s
         /\ group'.listed = group.listed /\ group'.processed = group.processed
<1>1. PICK g \in GroupType : g = group
  BY DEF StateTypes
<1>2. PICK d : d = [g EXCEPT !.events = s]
  OBVIOUS
<1>3. d \in GroupType /\ d.events = s /\ d.listed = g.listed /\ d.processed = g.processed
  BY <1>2 DEF GroupType
<1> QED BY <1>1, <1>2, <1>3

-----------------------------------------------------------------------------
(* What a step of one thread leaves alone.                                 *)

\* Thread y goes on as before; if it sleeps it may be woken.
Kept(y) ==
  /\ th'[y].why = th[y].why /\ th'[y].at = th[y].at /\ th'[y].e = th[y].e
  /\ th'[y].pc = th[y].pc \/ (th[y].pc = "asleep" /\ th'[y].pc = "test")

Others(x) == \A y \in Thread : y # x => Kept(y)

LEMMA SameIsKept ==
  ASSUME NEW x, \A y \in Thread : y # x => th'[y] = th[y]
  PROVE  Others(x)
  BY DEF Others, Kept

\* Time does not go back and stays within what is queued.
Clock ==
  /\ ctx.retired <= ctx'.retired /\ ctx'.retired <= ctx.queued /\ ctx'.queued = ctx.queued
  /\ group.processed <= group'.processed /\ group'.processed <= ctx.retired

LEMMA ClockKept ==
  ASSUME StateTypes, StateTypes', ClockInv, Clock
  PROVE  ClockInv'
<1>1. /\ ctx.queued \in Nat /\ ctx.retired \in Nat /\ group.processed \in Nat
      /\ ctx'.queued \in Nat /\ ctx'.retired \in Nat /\ group'.processed \in Nat
      /\ Window \in Nat /\ MaxTime \in Nat
  BY TypesNow, TypesNext, EventsAssumption
<1> QED BY <1>1 DEF ClockInv, Clock

\* The events other threads are to insert are left alone.
NewKept(x) ==
  \A y \in Thread : y # x /\ th[y].pc = "insert" => ev'[th[y].e] = ev[th[y].e]

LEMMA NearKept ==
  ASSUME StateTypes, StateTypes', Clock, NEW t \in Nat, Near(t)
  PROVE  Near(t)'
<1>1. /\ ctx.queued \in Nat /\ ctx.retired \in Nat /\ ctx'.queued \in Nat /\ ctx'.retired \in Nat
      /\ Window \in Nat
  BY TypesNow, TypesNext
<1> QED BY <1>1 DEF Near, Clock

\* A thread's part of CallsInv that goes on as before.
LEMMA CallKept ==
  ASSUME StateTypes, StateTypes', CallsInv, Clock, ctx.invalid => ctx'.invalid,
         NEW y \in Thread, Kept(y), th[y].pc = "insert" => ev'[th[y].e] = ev[th[y].e],
         \A z \in Thread : ~Kept(z) /\ th'[z].pc = "insert" /\ th'[y].pc = "insert"
                            /\ th'[z].e = th'[y].e => y = z
  PROVE  CallOK(y)' /\ CallTime(y)' /\ InsertOK(y)'
<1>1. Kept(y) /\ CallOK(y) /\ CallTime(y) /\ InsertOK(y)
  BY DEF CallsInv
<1>2. th[y].at \in Nat /\ th'[y] \in ThreadType /\ th[y] \in ThreadType
  BY TypesNow, TypesNext
<1>3. Agree(th'[y].pc, th'[y].why)
  <2>1. CASE th'[y].pc = th[y].pc
    BY <1>1, <2>1 DEF CallOK, Kept
  <2>2. CASE th[y].pc = "asleep" /\ th'[y].pc = "test"
    <3>1. th'[y].why = "wait"
      BY <1>1, <2>2 DEF CallOK, Agree, Kept, WaitSteps
    <3> QED BY <2>2, <3>1 DEF Agree, WaitSteps, DetachSteps, InvalidateSteps
  <2> QED BY <1>1, <2>1, <2>2 DEF Kept
<1>7. th'[y].pc = "idle" => th'[y] = Idle
  <2>1. SUFFICES ASSUME th'[y].pc = "idle" PROVE th'[y] = Idle
    OBVIOUS
  <2>2. th[y] = Idle /\ th'[y].pc = th[y].pc
    BY <1>1, <2>1 DEF CallOK, Kept
  <2>3. \A r, s \in ThreadType : r.pc = s.pc /\ r.why = s.why /\ r.at = s.at /\ r.e = s.e => r = s
    BY DEF ThreadType
  <2> QED BY <1>1, <1>2, <2>2, <2>3 DEF Kept
<1>4. CallOK(y)'
  BY <1>1, <1>3, <1>7 DEF CallOK, Kept, InvalidateSteps
<1>5. CallTime(y)'
  <2>1. PICK t \in Nat : t = th[y].at /\ th'[y].at = t
    BY <1>1, <1>2 DEF Kept
  <2>2. th[y].why \in {"wait", "event"} => Near(t)'
    <3>1. th[y].why \in {"wait", "event"} => Near(t)
      BY <1>1, <2>1 DEF CallTime
    <3> QED BY <3>1, NearKept
  <2>3. (th[y].why \in {"wait", "event"} => Near(th[y].at))'
    BY <1>1, <2>1, <2>2 DEF Kept, Near
  <2>4. th[y].pc = "insert" => UserTS \/ t <= ctx.queued
    BY <1>1, <2>1 DEF CallTime
  <2>5. (th[y].pc = "insert" => UserTS \/ th[y].at <= ctx.queued)'
    BY <1>1, <2>1, <2>4 DEF Kept, Clock
  <2> QED BY <2>3, <2>5 DEF CallTime
<1>6. InsertOK(y)'
  <2>1. SUFFICES ASSUME th'[y].pc = "insert" PROVE InsertOK(y)'
    BY DEF InsertOK
  <2>2. th[y].pc = "insert" /\ th'[y].e = th[y].e /\ th'[y].at = th[y].at /\ th'[y].why = th[y].why
    BY <1>1, <2>1 DEF Kept
  <2>3. /\ th[y].e \in Event /\ ev[th[y].e].st = "new" /\ ev[th[y].e].at = th[y].at
        /\ ev[th[y].e].why = th[y].why /\ ev'[th[y].e] = ev[th[y].e]
        /\ \A z \in Thread : th[z].pc = "insert" /\ th[z].e = th[y].e => y = z
    BY <1>1, <2>2 DEF InsertOK
  <2>4. ASSUME NEW z \in Thread, th'[z].pc = "insert", th'[z].e = th'[y].e PROVE y = z
    <3>1. CASE ~Kept(z)
      BY <2>1, <2>4, <3>1
    <3>2. CASE Kept(z)
      BY <2>2, <2>3, <2>4, <3>2 DEF Kept
    <3> QED BY <3>1, <3>2
  <2> QED BY <2>2, <2>3, <2>4 DEF InsertOK
<1> QED BY <1>4, <1>5, <1>6

\* The other threads' part of CallsInv.
LEMMA CallsKept ==
  ASSUME StateTypes, StateTypes', CallsInv, Clock, NEW x \in Thread, Others(x), NewKept(x),
         ctx.invalid => ctx'.invalid,
         CallOK(x)', CallTime(x)', InsertOK(x)'
  PROVE  CallsInv'
<1>1. ASSUME NEW y \in Thread, y # x PROVE CallOK(y)' /\ CallTime(y)' /\ InsertOK(y)'
  <2>1. Kept(y) /\ (th[y].pc = "insert" => ev'[th[y].e] = ev[th[y].e])
    BY <1>1 DEF Others, NewKept
  <2>2. ASSUME NEW z \in Thread, ~Kept(z), th'[z].pc = "insert", th'[y].pc = "insert",
               th'[z].e = th'[y].e
        PROVE  y = z
    <3>1. z = x
      BY <2>2 DEF Others
    <3> QED BY <2>2, <3>1 DEF InsertOK
  <2> QED BY <2>1, <2>2, CallKept
<1> QED BY <1>1 DEF CallsInv

-----------------------------------------------------------------------------
(* Events.                                                                 *)

LEMMA EventsKept ==
  ASSUME StateTypes, StateTypes', EventInv, Clock,
         \A e \in Event : \/ ev'[e] = ev[e] /\ (ev[e].st = "listed" => group'.processed < ev[e].at)
                          \/ EventRight(e)'
  PROVE  EventInv'
<1>1. ASSUME NEW e \in Event, ev'[e] = ev[e], ev[e].st = "listed" => group'.processed < ev[e].at
      PROVE  EventRight(e)'
  <2>1. EventRight(e)
    BY DEF EventInv
  <2>2. ev[e].at \in Nat /\ ctx.retired \in Nat /\ ctx'.retired \in Nat /\ Window \in Nat
    BY TypesNow, TypesNext
  <2>3. ctx.retired <= ctx'.retired
    BY DEF Clock
  <2>4. ev[e].at < ctx.retired + Window => ev[e].at < ctx'.retired + Window
    BY <2>2, <2>3
  <2>5. ev[e].at <= ctx.retired => ev[e].at <= ctx'.retired
    BY <2>2, <2>3
  <2> QED BY <1>1, <2>1, <2>4, <2>5 DEF EventRight
<1> QED BY <1>1 DEF EventInv

\* Nothing happens to the events.
LEMMA EventsSame ==
  ASSUME StateTypes, StateTypes', EventInv, Clock, ev' = ev, group'.processed = group.processed
  PROVE  EventInv'
<1>1. \A e \in Event : ev[e].st = "listed" => group'.processed < ev[e].at
  BY DEF EventInv, EventRight
<1> QED BY <1>1, EventsKept

\* What signal_event does to the events of S.
Signaled(e, result) ==
  /\ ev'[e].st = "queued" /\ ev'[e].result = result
  /\ ev'[e].at = ev[e].at /\ ev'[e].why = ev[e].why

Results == {"retired", "cancelled"}

LEMMA SignalFields ==
  ASSUME StateTypes, ListsInv, NEW S, S \subseteq Listed, NEW result,
         \A e \in S : result[e] \in Results, SignalEvents(S, result)
  PROVE  /\ ev' \in [Event -> EventType]
         /\ \A e \in S : Signaled(e, result[e])
         /\ \A e \in Event : e \notin S => ev'[e] = ev[e]
         /\ work' = work \o Found(group.events, S)
<1>1. /\ ev' = [e \in Event |-> IF e \in S
                  THEN [ev[e] EXCEPT !.st = "queued", !.result = result[e]] ELSE ev[e]]
      /\ work' = work \o Found(group.events, S)
  BY DEF SignalEvents
<1>2. S \subseteq Event
  BY DEF Listed
<1>3. ASSUME NEW e \in S PROVE ev'[e] \in EventType /\ Signaled(e, result[e])
  <2>1. PICK r \in EventType, v \in Results : r = ev[e] /\ v = result[e]
    BY <1>2 DEF StateTypes
  <2>2. PICK s : s = [r EXCEPT !.st = "queued", !.result = v]
    OBVIOUS
  <2>3. s \in EventType /\ s.st = "queued" /\ s.result = v /\ s.at = r.at /\ s.why = r.why
    BY <2>2 DEF EventType, Results
  <2>4. ev'[e] = s
    BY <1>1, <1>2, <2>1, <2>2
  <2> QED BY <2>1, <2>3, <2>4 DEF Signaled
<1>4. \A e \in Event : e \notin S => ev'[e] = ev[e]
  BY <1>1
<1>5. \A e \in Event : ev'[e] \in EventType
  BY <1>3, <1>4, TypesNow
<1>6. ev' = [e \in Event |-> ev'[e]]
  BY <1>1
<1> QED BY <1>1, <1>3, <1>4, <1>5, <1>6

\* The events of S are found on the list; without them it is in order.
LEMMA ListParts ==
  ASSUME StateTypes, ListsInv, NEW S, S \subseteq Listed
  PROVE  /\ Found(group.events, S) \in Seq(Event) /\ IsInjective(Found(group.events, S))
         /\ ToSet(Found(group.events, S)) = S
         /\ Unlisted(S) \in Seq(Event) /\ IsInjective(Unlisted(S))
         /\ ToSet(Unlisted(S)) = Listed \ S
<1>1. PICK s \in Seq(Event) : s = group.events /\ IsInjective(s) /\ ToSet(s) = Listed
  BY TypesNow DEF ListsInv
<1>2. /\ Found(s, S) \in Seq(Event) /\ IsInjective(Found(s, S)) /\ ToSet(Found(s, S)) = ToSet(s) \cap S
  BY <1>1, FoundFacts
<1>3. PICK R : R = Event \ S
  OBVIOUS
<1>4. /\ Found(s, R) \in Seq(Event) /\ IsInjective(Found(s, R)) /\ ToSet(Found(s, R)) = ToSet(s) \cap R
  BY <1>1, FoundFacts
<1>5. Listed \cap S = S /\ Listed \cap R = Listed \ S
  BY <1>3 DEF Listed
<1> QED BY <1>1, <1>2, <1>3, <1>4, <1>5 DEF Unlisted

\* One list after another.
LEMMA JoinLists ==
  ASSUME NEW T, NEW s \in Seq(T), NEW t \in Seq(T), IsInjective(s), IsInjective(t),
         ToSet(s) \cap ToSet(t) = {}
  PROVE  s \o t \in Seq(T) /\ IsInjective(s \o t) /\ ToSet(s \o t) = ToSet(s) \cup ToSet(t)
<1>1. PICK r : r = s \o t
  OBVIOUS
<1>2. PICK m, n \in Nat : m = Len(s) /\ n = Len(t) /\ DOMAIN s = 1..m /\ DOMAIN t = 1..n
  OBVIOUS
<1>3. /\ r \in Seq(T) /\ DOMAIN r = 1..(m + n)
      /\ \A i \in 1..(m + n) : r[i] = IF i <= m THEN s[i] ELSE t[i - m]
  BY <1>1, <1>2
<1>4. \A i : i \in 1..(m + n) <=> i \in 1..m \/ (i \in (m + 1)..(m + n))
  BY <1>2
<1>5. \A i \in (m + 1)..(m + n) : i - m \in 1..n /\ ~(i <= m) /\ i \in Int
  BY <1>2
<1>6. \A i \in 1..m : i <= m
  BY <1>2
<1>7. \A i \in 1..n : i + m \in (m + 1)..(m + n) /\ (i + m) - m = i
  BY <1>2
<1>8. \A i \in 1..m : r[i] = s[i]
  BY <1>3, <1>4, <1>6
<1>9. \A i \in (m + 1)..(m + n) : r[i] = t[i - m]
  BY <1>3, <1>4, <1>5
<1>10. \A i \in 1..m, j \in 1..n : s[i] # t[j]
  BY <1>2 DEF ToSet
<1>11. IsInjective(r)
  <2>1. SUFFICES ASSUME NEW i \in DOMAIN r, NEW j \in DOMAIN r, r[i] = r[j] PROVE i = j
    BY DEF IsInjective
  <2>2. CASE i \in 1..m /\ j \in 1..m
    BY <1>2, <1>8, <2>1, <2>2 DEF IsInjective
  <2>3. CASE i \in 1..m /\ j \in (m + 1)..(m + n)
    BY <1>5, <1>8, <1>9, <1>10, <2>1, <2>3
  <2>4. CASE i \in (m + 1)..(m + n) /\ j \in 1..m
    BY <1>5, <1>8, <1>9, <1>10, <2>1, <2>4
  <2>5. CASE i \in (m + 1)..(m + n) /\ j \in (m + 1)..(m + n)
    <3>1. t[i - m] = t[j - m] /\ i - m \in DOMAIN t /\ j - m \in DOMAIN t /\ i \in Int /\ j \in Int
      BY <1>2, <1>5, <1>9, <2>1, <2>5
    <3>2. i - m = j - m
      BY <3>1 DEF IsInjective
    <3> QED BY <1>2, <3>1, <3>2
  <2> QED BY <1>3, <1>4, <2>1, <2>2, <2>3, <2>4, <2>5
<1>12. ToSet(r) \subseteq ToSet(s) \cup ToSet(t)
  <2>1. ASSUME NEW i \in 1..m PROVE r[i] \in ToSet(s)
    BY <1>2, <1>8 DEF ToSet
  <2>2. ASSUME NEW i \in (m + 1)..(m + n) PROVE r[i] \in ToSet(t)
    BY <1>2, <1>5, <1>9 DEF ToSet
  <2>3. \A i \in DOMAIN r : r[i] \in ToSet(s) \cup ToSet(t)
    BY <1>3, <1>4, <2>1, <2>2
  <2> QED BY <2>3 DEF ToSet
<1>13. ToSet(s) \subseteq ToSet(r)
  BY <1>2, <1>3, <1>4, <1>8 DEF ToSet
<1>14. ToSet(t) \subseteq ToSet(r)
  <2>1. \A j \in 1..n : t[j] = r[j + m] /\ j + m \in DOMAIN r
    BY <1>3, <1>4, <1>7, <1>9
  <2> QED BY <1>2, <2>1 DEF ToSet
<1> QED BY <1>1, <1>3, <1>11, <1>12, <1>13, <1>14

\* The lists after the events of S have been signaled, with s for those left.
LEMMA SignalLists ==
  ASSUME StateTypes, ListsInv, NEW S, S \subseteq Listed, NEW result,
         \A e \in S : result[e] \in Results, SignalEvents(S, result),
         IsInjective(group'.events), ToSet(group'.events) = Listed \ S
  PROVE  work' \in Seq(Event) /\ ListsInv'
<1>1. /\ \A e \in S : Signaled(e, result[e])
      /\ \A e \in Event : e \notin S => ev'[e] = ev[e]
      /\ work' = work \o Found(group.events, S)
  BY SignalFields
<1>2. PICK s, t : s = work /\ t = Found(group.events, S)
  OBVIOUS
<1>3. PICK Q : Q = {e \in Event : ev[e].st = "queued"}
  OBVIOUS
<1>4. s \in Seq(Event) /\ t \in Seq(Event) /\ IsInjective(s) /\ IsInjective(t)
      /\ ToSet(s) = Q /\ ToSet(t) = S
  BY <1>2, <1>3, ListParts DEF ListsInv, StateTypes
<1>5. Q \cap S = {} /\ S \subseteq Event
  BY <1>3 DEF Listed
<1>6. work' \in Seq(Event) /\ IsInjective(work') /\ ToSet(work') = Q \cup S
  BY <1>1, <1>2, <1>4, <1>5, JoinLists
<1>7. Q \cup S = {e \in Event : ev'[e].st = "queued"}
  BY <1>1, <1>3, <1>5 DEF Signaled
<1>8. Listed' = Listed \ S
  BY <1>1, <1>5 DEF Signaled, Listed
<1> QED BY <1>6, <1>7, <1>8 DEF ListsInv

\* Signaling leaves the events that are to be inserted alone.
LEMMA SignalNew ==
  ASSUME CallsInv, NEW S, S \subseteq Listed, NEW x \in Thread,
         \A e \in Event : e \notin S => ev'[e] = ev[e]
  PROVE  NewKept(x)
<1>1. \A y \in Thread : th[y].pc = "insert" => th[y].e \in Event /\ ev[th[y].e].st = "new"
  BY DEF CallsInv, InsertOK
<1> QED BY <1>1 DEF NewKept, Listed

LEMMA SameNew ==
  ASSUME NEW x, ev' = ev
  PROVE  NewKept(x)
  BY DEF NewKept

LEMMA SameLists ==
  ASSUME ListsInv, ev' = ev, work' = work, group'.events = group.events
  PROVE  ListsInv'
  BY DEF ListsInv, Listed

-----------------------------------------------------------------------------
(* The detach.                                                             *)

LEMMA DetachStepsAre ==
  /\ DetachSteps = {"drain", "cancel_all", "delete", "deleted"}
  /\ "asleep" \notin DetachSteps /\ "test" \notin DetachSteps
  BY DEF DetachSteps

\* A thread that is not in the midst of a detach, before and after its step.
LEMMA ReachSame ==
  ASSUME NEW x \in Thread, Others(x), th[x].pc \notin DetachSteps, th'[x].pc \notin DetachSteps,
         NEW S, S \subseteq DetachSteps
  PROVE  Reach(S)' <=> Reach(S)
<1>1. ASSUME NEW y \in Thread PROVE th'[y].pc \in S <=> th[y].pc \in S
  <2>1. CASE y = x
    BY <2>1
  <2>2. CASE y # x
    BY <2>2, DetachStepsAre DEF Others, Kept
  <2> QED BY <2>1, <2>2
<1> QED BY <1>1 DEF Reach

\* The thread that detaches is the only one.
LEMMA ReachOnly ==
  ASSUME NEW x \in Thread, Others(x), DetachInv, th[x].pc \in DetachSteps,
         NEW S, S \subseteq DetachSteps
  PROVE  (Reach(S)' <=> th'[x].pc \in S) /\ (Reach(S) <=> th[x].pc \in S)
<1>1. ASSUME NEW y \in Thread, y # x PROVE th'[y].pc \notin S /\ th[y].pc \notin S
  <2>1. th[y].pc \notin DetachSteps
    BY <1>1 DEF DetachInv
  <2> QED BY <1>1, <2>1, DetachStepsAre DEF Others, Kept
<1> QED BY <1>1 DEF Reach

LEMMA WalkingKept ==
  ASSUME NEW x \in Thread, Others(x), Walking',
         th'[x].why = "walk" => th[x].why = "walk" \/ group.listed
  PROVE  Walking \/ group.listed
  BY DEF Walking, Others, Kept, Thread

\* Nobody detaches the context in this step.
LEMMA DetachKept ==
  ASSUME DetachInv, NEW x \in Thread, Others(x),
         th[x].pc \notin DetachSteps, th'[x].pc \notin DetachSteps,
         th'[x].why = "walk" => th[x].why = "walk" \/ group.listed,
         ctx'.detached = ctx.detached, group'.listed = group.listed
  PROVE  /\ DetachInv'
         /\ Reach(DetachSteps)' <=> Reach(DetachSteps)
         /\ Reach({"drain"})' <=> Reach({"drain"})
         /\ Reach({"drain", "cancel_all"})' <=> Reach({"drain", "cancel_all"})
<1>1. /\ Reach(DetachSteps)' <=> Reach(DetachSteps)
      /\ Reach({"drain"})' <=> Reach({"drain"})
      /\ Reach({"drain", "cancel_all"})' <=> Reach({"drain", "cancel_all"})
      /\ Reach({"drain", "cancel_all", "delete"})' <=> Reach({"drain", "cancel_all", "delete"})
  <2>1. /\ {"drain"} \subseteq DetachSteps /\ {"drain", "cancel_all"} \subseteq DetachSteps
        /\ {"drain", "cancel_all", "delete"} \subseteq DetachSteps /\ DetachSteps \subseteq DetachSteps
    BY DetachStepsAre
  <2> QED BY <2>1, ReachSame
<1>2. \A y \in Thread : th'[y].pc \in DetachSteps => th[y].pc \in DetachSteps
  BY DetachStepsAre DEF Others, Kept
<1>3. \A y, z \in Thread : th'[y].pc \in DetachSteps /\ th'[z].pc \in DetachSteps => y = z
  BY <1>2 DEF DetachInv
<1>4. Walking' => group'.listed
  BY WalkingKept DEF DetachInv
<1> QED BY <1>1, <1>3, <1>4 DEF DetachInv

LEMMA DrainKept ==
  ASSUME DrainInv,
         Reach({"drain"}) => Reach({"drain"})',
         Reach({"drain", "cancel_all"}) => Reach({"drain", "cancel_all"})',
         ctx'.detached = ctx.detached, ctx'.lost = ctx.lost,
         ctx.retired = ctx.queued => ctx'.retired = ctx'.queued,
         group.events = <<>> => group'.events = <<>>
  PROVE  DrainInv'
  BY DEF DrainInv

-----------------------------------------------------------------------------
(* Sleepers.                                                               *)

LEMMA SleepersFinite ==
  ASSUME NEW t
  PROVE  /\ IsFiniteSet(Waiters(t)) /\ IsFiniteSet(WaitEvents(t))
         /\ IsFiniteSet(Waiters(t)') /\ IsFiniteSet(WaitEvents(t)')
<1>1. /\ Waiters(t) \subseteq User /\ WaitEvents(t) \subseteq Event
      /\ Waiters(t)' \subseteq User /\ WaitEvents(t)' \subseteq Event
  BY DEF Waiters, WaitEvents
<1>2. PICK A, B, C, D : A = Waiters(t) /\ B = WaitEvents(t) /\ C = Waiters(t)' /\ D = WaitEvents(t)'
  OBVIOUS
<1>3. A \in SUBSET User /\ B \in SUBSET Event /\ C \in SUBSET User /\ D \in SUBSET Event
  BY <1>1, <1>2
<1>4. IsFiniteSet(A) /\ IsFiniteSet(B) /\ IsFiniteSet(C) /\ IsFiniteSet(D)
  BY <1>3, FS_Subset, EventsAssumption
<1> QED BY <1>2, <1>4

\* For a timestamp still to come nobody begins to wait and no event goes.
LEMMA SleepKept ==
  ASSUME StateTypes, StateTypes', SleepInv, Clock,
         ctx.detached => ctx'.detached, ctx.invalid => ctx'.invalid,
         \A t \in Wanted : t > ctx'.retired /\ ~ctx'.detached /\ ~ctx'.invalid =>
           Waiters(t)' \subseteq Waiters(t) /\ WaitEvents(t) \subseteq WaitEvents(t)'
  PROVE  SleepInv'
<1>1. SUFFICES ASSUME ~ctx'.detached, ~ctx'.invalid, NEW t \in Wanted, t > ctx'.retired
               PROVE  (Cardinality(Waiters(t)) <= Cardinality(WaitEvents(t)))'
  BY DEF SleepInv
<1>2. ctx.retired \in Nat /\ ctx'.retired \in Nat /\ ctx.retired <= ctx'.retired /\ t \in Nat
  BY TypesNow, TypesNext, EventsAssumption DEF Clock
<1>3. ~ctx.detached /\ ~ctx.invalid /\ t > ctx.retired
  BY <1>1, <1>2
<1>4. PICK A, B, C, D : A = Waiters(t) /\ B = WaitEvents(t) /\ C = Waiters(t)' /\ D = WaitEvents(t)'
  OBVIOUS
<1>5. Cardinality(A) <= Cardinality(B)
  BY <1>3, <1>4 DEF SleepInv
<1>6. IsFiniteSet(A) /\ IsFiniteSet(B) /\ IsFiniteSet(C) /\ IsFiniteSet(D)
  BY <1>4, SleepersFinite
<1>7. C \in SUBSET A /\ B \in SUBSET D
  BY <1>1, <1>4
<1>8. Cardinality(C) <= Cardinality(A) /\ Cardinality(B) <= Cardinality(D)
  BY <1>6, <1>7, FS_Subset
<1>9. Cardinality(A) \in Nat /\ Cardinality(B) \in Nat /\ Cardinality(C) \in Nat /\ Cardinality(D) \in Nat
  BY <1>6, FS_CardinalityType
<1>10. Cardinality(C) <= Cardinality(D)
  BY <1>5, <1>8, <1>9
<1> QED BY <1>4, <1>10

\* A thread that is not waiting after its step adds nobody to the waiters.
LEMMA WaitersKept ==
  ASSUME NEW x \in Thread, Others(x), NEW t,
         th'[x].pc \in WaitSteps => th[x].pc \in WaitSteps /\ th'[x].at = th[x].at
  PROVE  Waiters(t)' \subseteq Waiters(t)
<1>1. ASSUME NEW y \in User, th'[y].pc \in WaitSteps, th'[y].at = t
      PROVE  th[y].pc \in WaitSteps /\ th[y].at = t
  <2>1. y \in Thread
    BY DEF Thread
  <2>2. CASE y = x
    BY <1>1, <2>2
  <2>3. CASE y # x
    <3>1. Kept(y)
      BY <2>1, <2>3 DEF Others
    <3> QED BY <1>1, <3>1 DEF Kept, WaitSteps
  <2> QED BY <2>2, <2>3
<1> QED BY <1>1 DEF Waiters

LEMMA WaitEventsKept ==
  ASSUME NEW t, \A e \in Event : ev[e].st = "listed" /\ ev[e].at = t => ev'[e] = ev[e]
  PROVE  WaitEvents(t) \subseteq WaitEvents(t)'
  BY DEF WaitEvents

-----------------------------------------------------------------------------
(* References.                                                             *)

LEMMA UsersFinite ==
  /\ IsFiniteSet(Busy) /\ IsFiniteSet(Used) /\ IsFiniteSet(Busy') /\ IsFiniteSet(Used')
  /\ Cardinality(Busy) \in Nat /\ Cardinality(Used) \in Nat
  /\ Cardinality(Busy') \in Nat /\ Cardinality(Used') \in Nat
<1>1. IsFiniteSet(Thread)
  <2>1. IsFiniteSet(User) /\ IsFiniteSet(Dispatcher)
    BY EventsAssumption
  <2> QED BY <2>1, FS_Union DEF Thread
<1>2. PICK A, B, C, D : A = Busy /\ B = Used /\ C = Busy' /\ D = Used'
  OBVIOUS
<1>3. A \in SUBSET Thread /\ B \in SUBSET Event /\ C \in SUBSET Thread /\ D \in SUBSET Event
  BY <1>2 DEF Busy, Used
<1>4. IsFiniteSet(A) /\ IsFiniteSet(B) /\ IsFiniteSet(C) /\ IsFiniteSet(D)
  BY <1>1, <1>3, FS_Subset, EventsAssumption
<1>5. Cardinality(A) \in Nat /\ Cardinality(B) \in Nat /\ Cardinality(C) \in Nat /\ Cardinality(D) \in Nat
  BY <1>4, FS_CardinalityType
<1> QED BY <1>2, <1>4, <1>5

Away == {"idle", "next"}

\* How a step of x changes the number of users.
LEMMA BusyStep ==
  ASSUME NEW x \in Thread, Others(x)
  PROVE  Cardinality(Busy') =
           IF th[x].pc \in Away /\ th'[x].pc \notin Away THEN Cardinality(Busy) + 1
           ELSE IF th[x].pc \notin Away /\ th'[x].pc \in Away THEN Cardinality(Busy) - 1
           ELSE Cardinality(Busy)
<1>1. \A y \in Thread : y # x => (th'[y].pc \notin Away <=> th[y].pc \notin Away)
  BY DEF Others, Kept, Away
<1>2. PICK A, B : A = Busy /\ B = Busy' /\ IsFiniteSet(A)
  BY UsersFinite
<1>3. A = {y \in Thread : th[y].pc \notin Away} /\ B = {y \in Thread : th'[y].pc \notin Away}
  BY <1>2 DEF Busy, Away
<1>4. CASE th[x].pc \in Away /\ th'[x].pc \notin Away
  <2>1. B = A \cup {x} /\ x \notin A
    BY <1>1, <1>3, <1>4
  <2> QED BY <1>2, <1>4, <2>1, FS_AddElement
<1>5. CASE th[x].pc \notin Away /\ th'[x].pc \in Away
  <2>1. B = A \ {x} /\ x \in A
    BY <1>1, <1>3, <1>5
  <2> QED BY <1>2, <1>5, <2>1, FS_RemoveElement
<1>6. CASE th[x].pc \in Away <=> th'[x].pc \in Away
  <2>1. B = A
    BY <1>1, <1>3, <1>6
  <2> QED BY <1>2, <1>6, <2>1
<1> QED BY <1>4, <1>5, <1>6

\* A step that gives nobody a new event and frees none.
LEMMA UsedSame ==
  ASSUME \A e \in Event : ev'[e].st = "none" <=> ev[e].st = "none"
  PROVE  Used' = Used
  BY DEF Used

-----------------------------------------------------------------------------
(* A step of a call that touches neither the events nor the detach.        *)

\* The references follow the users.
RefStep(x) ==
  ctx'.ref = IF th[x].pc \in Away /\ th'[x].pc \notin Away THEN ctx.ref + 1
             ELSE IF th[x].pc \notin Away /\ th'[x].pc \in Away THEN ctx.ref - 1
             ELSE ctx.ref

LEMMA RefsKept ==
  ASSUME StateTypes, RefsInv, NEW x \in Thread, Others(x), RefStep(x), Own' = Own, Used' = Used
  PROVE  RefsInv'
<1>1. PICK a, b, c, d \in Int : /\ a = ctx.ref /\ b = Own /\ c = Cardinality(Busy)
                                /\ d = Cardinality(Used)
  BY UsersFinite, TypesNow DEF Own
<1>2. a = b + c + d
  BY <1>1 DEF RefsInv
<1>3. PICK n : n = Cardinality(Busy')
  OBVIOUS
<1>4. n = IF th[x].pc \in Away /\ th'[x].pc \notin Away THEN c + 1
          ELSE IF th[x].pc \notin Away /\ th'[x].pc \in Away THEN c - 1
          ELSE c
  BY <1>1, <1>3, BusyStep
<1>5. ctx'.ref = b + n + d
  BY <1>1, <1>2, <1>4 DEF RefStep
<1> QED BY <1>1, <1>3, <1>5 DEF RefsInv

LEMMA SameClock ==
  ASSUME StateTypes, ClockInv, ctx'.queued = ctx.queued, ctx'.retired = ctx.retired,
         group'.processed = group.processed
  PROVE  Clock
<1>1. ctx.queued \in Nat /\ ctx.retired \in Nat /\ group.processed \in Nat
  BY TypesNow
<1> QED BY <1>1 DEF Clock, ClockInv

\* What x does in its call, and nothing else.
CallStep(x) ==
  /\ th' \in [Thread -> ThreadType] /\ Others(x)
  /\ th[x].pc \notin DetachSteps /\ th'[x].pc \notin DetachSteps
  /\ th'[x].why = "walk" => th[x].why = "walk" \/ group.listed
  /\ th'[x].pc \in WaitSteps => th[x].pc \in WaitSteps /\ th'[x].at = th[x].at
  /\ th'[x].pc # "insert"

LEMMA CallStepKeeps ==
  ASSUME EventsIInv, NEW x \in Thread, CallStep(x), CallOK(x)', CallTime(x)',
         ctx' \in ContextType, SameContext, RefStep(x), UNCHANGED <<group, ev, work>>
  PROVE  EventsIInv'
<1>1. /\ StateTypes /\ CallsInv /\ ClockInv /\ EventInv /\ ListsInv /\ DetachInv /\ DrainInv
      /\ SleepInv /\ RefsInv
  BY DEF EventsIInv
<1>2. StateTypes'
  BY <1>1 DEF StateTypes, CallStep
<1>3. Clock
  BY <1>1, SameClock DEF SameContext
<1>4. InsertOK(x)'
  BY DEF InsertOK, CallStep
<1>5. CallsInv'
  BY <1>1, <1>2, <1>3, <1>4, CallsKept, SameNew DEF CallStep, SameContext
<1>6. ClockInv' /\ EventInv' /\ ListsInv'
  BY <1>1, <1>2, <1>3, ClockKept, EventsSame, SameLists
<1>7. /\ DetachInv'
      /\ Reach(DetachSteps)' <=> Reach(DetachSteps)
      /\ Reach({"drain"})' <=> Reach({"drain"})
      /\ Reach({"drain", "cancel_all"})' <=> Reach({"drain", "cancel_all"})
  BY <1>1, DetachKept DEF CallStep, SameContext
<1>8. DrainInv'
  BY <1>1, <1>7, DrainKept DEF SameContext
<1>9. \A t \in Wanted : Waiters(t)' \subseteq Waiters(t) /\ WaitEvents(t) \subseteq WaitEvents(t)'
  BY WaitersKept, WaitEventsKept DEF CallStep
<1>10. SleepInv'
  BY <1>1, <1>2, <1>3, <1>9, SleepKept DEF SameContext
<1>11. Own' = Own /\ Used' = Used
  BY <1>7 DEF Own, Used, SameContext
<1>12. RefsInv'
  BY <1>1, <1>11, RefsKept DEF CallStep
<1> QED BY <1>2, <1>5, <1>6, <1>7, <1>8, <1>10, <1>12 DEF EventsIInv

\* The steps by name.
LEMMA StepNames ==
  /\ WaitSteps = {"test", "asleep", "cancel"} /\ Away = {"idle", "next"}
  /\ DetachSteps = {"drain", "cancel_all", "delete", "deleted"}
  /\ InvalidateSteps = {"cancel_queued", "flush", "wake"}
  /\ PC = {"idle", "add", "insert", "put", "detach", "process", "invalidate", "next",
           "test", "asleep", "cancel", "drain", "cancel_all", "delete", "deleted",
           "cancel_queued", "flush", "wake"}
  BY DEF WaitSteps, Away, DetachSteps, InvalidateSteps, PC

\* A thread that stays in its call, at another step.
LEMMA SameCall ==
  ASSUME EventsIInv, NEW x \in Thread, StateTypes', SameContext,
         th'[x].why = th[x].why, th'[x].at = th[x].at, th'[x].pc # "insert", th'[x].pc # "idle",
         Agree(th'[x].pc, th[x].why), th'[x].pc \in InvalidateSteps => ctx.invalid
  PROVE  CallOK(x)' /\ CallTime(x)'
<1>1. CallOK(x) /\ CallTime(x)
  BY DEF EventsIInv, CallsInv
<1>2. ctx.invalid => ctx'.invalid
  BY DEF SameContext
<1>3. CallOK(x)'
  BY <1>1, <1>2 DEF CallOK
<1>4. th[x].why \in {"wait", "event"} => ctx.queued < th[x].at + Window /\ th[x].at < ctx.retired + Window
  BY <1>1 DEF CallTime, Near
<1>5. CallTime(x)'
  BY <1>4 DEF CallTime, Near, SameContext
<1> QED BY <1>3, <1>5

\* The last step of a call.
LEMMA IdleCall ==
  ASSUME NEW x \in Thread, th'[x] = Idle
  PROVE  CallOK(x)' /\ CallTime(x)'
<1>1. Agree(th'[x].pc, th'[x].why)
  BY IdleFields, StepNames DEF Agree
<1>2. CallOK(x)'
  BY <1>1, IdleFields, StepNames DEF CallOK
<1>3. CallTime(x)'
  BY IdleFields DEF CallTime
<1> QED BY <1>2, <1>3

LEMMA SameContextWhole ==
  ASSUME StateTypes, ctx' = ctx
  PROVE  ctx' \in ContextType /\ SameContext
  BY DEF StateTypes, SameContext

\* A step within a call that only says how far the call is.
LEMMA StepTo ==
  ASSUME EventsIInv, NEW x \in Thread, NEW p \in PC, To(x, p), UNCHANGED <<ctx, group, ev, work>>,
         p \notin DetachSteps \cup Away \cup {"insert"}, th[x].pc \notin DetachSteps \cup Away,
         p \in WaitSteps => th[x].pc \in WaitSteps, p \in InvalidateSteps => ctx.invalid,
         Agree(p, th[x].why)
  PROVE  EventsIInv'
<1>1. StateTypes
  BY DEF EventsIInv
<1>2. /\ th' \in [Thread -> ThreadType]
      /\ th'[x].pc = p /\ th'[x].why = th[x].why /\ th'[x].at = th[x].at /\ th'[x].e = th[x].e
      /\ \A y \in Thread : y # x => th'[y] = th[y]
  BY <1>1, ToFields
<1>3. CallStep(x)
  BY <1>2, SameIsKept DEF CallStep
<1>4. RefStep(x)
  BY <1>2 DEF RefStep
<1>5. StateTypes'
  BY <1>1, <1>2 DEF StateTypes
<1>6. ctx' \in ContextType /\ SameContext
  BY <1>1, SameContextWhole
<1>7. p # "idle"
  BY DEF Away
<1>8. CallOK(x)' /\ CallTime(x)'
  BY <1>2, <1>5, <1>6, <1>7, SameCall
<1> QED BY <1>3, <1>4, <1>6, <1>8, CallStepKeeps

LEMMA WaitTestKeeps ==
  ASSUME EventsIInv, NEW x \in Thread, WaitTest(x)
  PROVE  EventsIInv'
<1>1. UNCHANGED <<ctx, group, ev, work>> /\ th[x].pc = "test"
  BY DEF WaitTest
<1>2. PICK p : p \in {"put", "asleep"} /\ To(x, p)
  BY DEF WaitTest
<1>3. th[x].why = "wait"
  BY <1>1, StepNames DEF EventsIInv, CallsInv, CallOK, Agree
<1>4. Agree(p, th[x].why)
  BY <1>2, <1>3, StepNames DEF Agree
<1> QED BY <1>1, <1>2, <1>4, StepTo, StepNames

LEMMA WaitTimesOutKeeps ==
  ASSUME EventsIInv, NEW x \in Thread, WaitTimesOut(x)
  PROVE  EventsIInv'
<1>1. UNCHANGED <<ctx, group, ev, work>> /\ th[x].pc = "asleep" /\ To(x, "cancel")
  BY DEF WaitTimesOut
<1>2. th[x].why = "wait"
  BY <1>1, StepNames DEF EventsIInv, CallsInv, CallOK, Agree
<1>3. Agree("cancel", th[x].why)
  BY <1>2, StepNames DEF Agree
<1> QED BY <1>1, <1>3, StepTo, StepNames

\* A call begins.
LEMMA BeginKeeps ==
  ASSUME EventsIInv, NEW x \in Thread, th[x] = Idle, NEW s \in ThreadType,
         th' = [th EXCEPT ![x] = s], s.pc \in {"add", "detach", "process", "invalidate"},
         Agree(s.pc, s.why),
         s.why \in {"wait", "event"} => x \in User /\ s.at \in Wanted /\ Near(s.at),
         s.why = "walk" => x \in Dispatcher /\ group.listed,
         ctx' = [ctx EXCEPT !.ref = @ + 1], UNCHANGED <<group, ev, work>>
  PROVE  EventsIInv'
<1>1. StateTypes
  BY DEF EventsIInv
<1>2. th' \in [Thread -> ThreadType] /\ th'[x] = s /\ \A y \in Thread : y # x => th'[y] = th[y]
  BY <1>1, SetFields
<1>3. PICK n \in Int : n = ctx.ref + 1
  BY <1>1, TypesNow
<1>4. ctx' \in ContextType /\ ctx'.ref = ctx.ref + 1 /\ SameContext
  BY <1>1, <1>3, RefFields
<1>5. CallStep(x)
  <2>1. Others(x) /\ th[x].pc = "idle"
    BY <1>2, SameIsKept, IdleFields
  <2>2. /\ th[x].pc \notin DetachSteps /\ s.pc \notin DetachSteps /\ s.pc \notin WaitSteps
        /\ s.pc # "insert"
    BY <2>1, StepNames
  <2> QED BY <1>2, <2>1, <2>2 DEF CallStep
<1>6. RefStep(x)
  BY <1>2, <1>4, IdleFields, StepNames DEF RefStep
<1>7. CallOK(x)'
  BY <1>2, StepNames DEF CallOK
<1>8. s.why \in {"wait", "event"} => ctx.queued < s.at + Window /\ s.at < ctx.retired + Window
  BY DEF Near
<1>9. CallTime(x)'
  <2>1. th'[x].pc # "insert"
    BY <1>2
  <2>2. (th[x].why \in {"wait", "event"} => Near(th[x].at))'
    BY <1>2, <1>4, <1>8 DEF Near, SameContext
  <2> QED BY <2>1, <2>2 DEF CallTime
<1> QED BY <1>4, <1>5, <1>6, <1>7, <1>9, CallStepKeeps

LEMMA ContextGetKeeps ==
  ASSUME EventsIInv, NEW x \in User, NEW why, NEW t \in Wanted, ContextGet(x, why, t)
  PROVE  EventsIInv'
<1>1. x \in Thread /\ t \in Nat
  BY EventsAssumption DEF Thread
<1>2. why \in {"wait", "event", "detach"} /\ th[x] = Idle /\ UNCHANGED <<group, ev, work>>
      /\ ctx' = [ctx EXCEPT !.ref = @ + 1] /\ InWindow(t, ctx.retired) /\ InWindow(t, ctx.queued)
  BY DEF ContextGet
<1>3. PICK s : s = [Idle EXCEPT !.why = why, !.at = IF why = "detach" THEN 0 ELSE t,
                                !.pc = IF why = "detach" THEN "detach" ELSE "add"]
  OBVIOUS
<1>4. /\ s.why = why /\ s.at = IF why = "detach" THEN 0 ELSE t
      /\ s.pc = IF why = "detach" THEN "detach" ELSE "add"
  BY <1>3 DEF Idle
<1>5. s \in ThreadType
  BY <1>1, <1>2, <1>3 DEF Idle, ThreadType, PC, Why
<1>6. Agree(s.pc, s.why)
  BY <1>2, <1>4, StepNames DEF Agree
<1>7. Near(t)
  BY <1>2 DEF InWindow, Near
<1>8. th' = [th EXCEPT ![x] = s]
  BY <1>3 DEF ContextGet
<1>9. s.pc \in {"add", "detach", "process", "invalidate"}
  BY <1>4
<1>10. s.why \in {"wait", "event"} => x \in User /\ s.at \in Wanted /\ Near(s.at)
  BY <1>4, <1>7
<1>11. s.why # "walk"
  BY <1>2, <1>4
<1> QED BY <1>1, <1>2, <1>5, <1>6, <1>8, <1>9, <1>10, <1>11, BeginKeeps

LEMMA WalkBeginKeeps ==
  ASSUME EventsIInv, NEW x \in Dispatcher, WalkBegin(x)
  PROVE  EventsIInv'
<1>1. /\ x \in Thread /\ th[x] = Idle /\ UNCHANGED <<group, ev, work>> /\ group.listed
      /\ ctx' = [ctx EXCEPT !.ref = @ + 1]
  BY DEF WalkBegin, Thread
<1>2. PICK s : s = [Idle EXCEPT !.pc = "process", !.why = "walk"]
  OBVIOUS
<1>3. s \in ThreadType /\ s.pc = "process" /\ s.why = "walk"
  BY <1>2 DEF Idle, ThreadType, PC, Why
<1>4. Agree(s.pc, s.why) /\ th' = [th EXCEPT ![x] = s]
  BY <1>2, <1>3, StepNames DEF Agree, WalkBegin
<1> QED BY <1>1, <1>3, <1>4, BeginKeeps

LEMMA DispatcherGetKeeps ==
  ASSUME EventsIInv, NEW x \in Dispatcher, NEW why, DispatcherGet(x, why)
  PROVE  EventsIInv'
<1>1. /\ x \in Thread /\ th[x] = Idle /\ UNCHANGED <<group, ev, work>>
      /\ why \in {"process", "invalidate"} /\ ctx' = [ctx EXCEPT !.ref = @ + 1]
  BY DEF DispatcherGet, Thread
<1>2. PICK s : s = [Idle EXCEPT !.pc = why, !.why = why]
  OBVIOUS
<1>3. s \in ThreadType /\ s.pc = why /\ s.why = why
  BY <1>1, <1>2 DEF Idle, ThreadType, PC, Why
<1>4. Agree(s.pc, s.why) /\ th' = [th EXCEPT ![x] = s]
  BY <1>1, <1>2, <1>3, StepNames DEF Agree, DispatcherGet
<1> QED BY <1>1, <1>3, <1>4, BeginKeeps

LEMMA WalkEndKeeps ==
  ASSUME EventsIInv, NEW x \in Thread, WalkEnd(x)
  PROVE  EventsIInv'
<1>1. StateTypes /\ UNCHANGED <<ctx, group, ev, work>> /\ th[x].pc = "next" /\ th' = [th EXCEPT ![x] = Idle]
  BY DEF EventsIInv, WalkEnd
<1>2. th' \in [Thread -> ThreadType] /\ th'[x] = Idle /\ \A y \in Thread : y # x => th'[y] = th[y]
  BY <1>1, SetFields, IdleFields
<1>3. CallStep(x)
  BY <1>1, <1>2, IdleFields, SameIsKept, StepNames DEF CallStep
<1>4. RefStep(x)
  BY <1>1, <1>2, IdleFields, StepNames DEF RefStep
<1> QED BY <1>1, <1>2, <1>3, <1>4, IdleCall, SameContextWhole, CallStepKeeps

LEMMA ContextPutKeeps ==
  ASSUME EventsIInv, NEW x \in Thread, ContextPut(x)
  PROVE  EventsIInv'
<1>1. /\ StateTypes /\ UNCHANGED <<group, ev, work>> /\ th[x].pc = "put"
      /\ ctx' = [ctx EXCEPT !.ref = @ - 1]
  BY DEF EventsIInv, ContextPut
<1>2. PICK n \in Int : n = ctx.ref - 1
  BY <1>1, TypesNow
<1>3. ctx' \in ContextType /\ ctx'.ref = ctx.ref - 1 /\ SameContext
  BY <1>1, <1>2, RefFields
<1>4. CASE th[x].why = "walk"
  <2>1. To(x, "next")
    BY <1>4 DEF ContextPut, To
  <2>2. /\ th' \in [Thread -> ThreadType]
        /\ th'[x].pc = "next" /\ th'[x].why = th[x].why /\ th'[x].at = th[x].at
        /\ \A y \in Thread : y # x => th'[y] = th[y]
    BY <1>1, <2>1, ToFields, StepNames
  <2>3. CallStep(x)
    BY <1>1, <1>4, <2>2, SameIsKept, StepNames DEF CallStep
  <2>4. RefStep(x)
    BY <1>1, <1>3, <2>2, StepNames DEF RefStep
  <2>5. StateTypes'
    BY <1>1, <1>3, <2>2 DEF StateTypes
  <2>6. Agree(th'[x].pc, th[x].why)
    BY <1>4, <2>2, StepNames DEF Agree
  <2>7. CallOK(x)' /\ CallTime(x)'
    BY <1>3, <2>2, <2>5, <2>6, SameCall, StepNames
  <2> QED BY <1>1, <1>3, <2>3, <2>4, <2>7, CallStepKeeps
<1>5. CASE th[x].why # "walk"
  <2>1. th' = [th EXCEPT ![x] = Idle]
    BY <1>5 DEF ContextPut
  <2>2. th' \in [Thread -> ThreadType] /\ th'[x] = Idle /\ \A y \in Thread : y # x => th'[y] = th[y]
    BY <1>1, <2>1, SetFields, IdleFields
  <2>3. CallStep(x)
    BY <1>1, <2>2, IdleFields, SameIsKept, StepNames DEF CallStep
  <2>4. RefStep(x)
    BY <1>1, <1>3, <2>2, IdleFields, StepNames DEF RefStep
  <2> QED BY <1>1, <1>3, <2>2, <2>3, <2>4, IdleCall, CallStepKeeps
<1> QED BY <1>4, <1>5

LEMMA InvalidateWakeKeeps ==
  ASSUME EventsIInv, NEW x \in Thread, InvalidateWake(x)
  PROVE  EventsIInv'
<1>1. StateTypes /\ UNCHANGED <<ctx, group, ev, work>> /\ th[x].pc = "wake"
  BY DEF EventsIInv, InvalidateWake
<1>2. PICK w : w = Woken(th)
  OBVIOUS
<1>3. /\ w \in [Thread -> ThreadType]
      /\ \A y \in Thread : /\ w[y].why = th[y].why /\ w[y].at = th[y].at /\ w[y].e = th[y].e
                           /\ w[y].pc = IF th[y].pc = "asleep" THEN "test" ELSE th[y].pc
  BY <1>1, <1>2, WokenFields
<1>4. PICK r \in ThreadType : r = w[x]
  BY <1>3
<1>5. PICK s : s = [r EXCEPT !.pc = "put"]
  OBVIOUS
<1>6. s \in ThreadType /\ s.pc = "put" /\ s.why = r.why /\ s.at = r.at
  BY <1>5 DEF ThreadType, PC
<1>7. th' = [w EXCEPT ![x] = s]
  BY <1>2, <1>4, <1>5 DEF InvalidateWake
<1>8. /\ th' \in [Thread -> ThreadType] /\ th'[x].pc = "put" /\ th'[x].why = th[x].why
      /\ th'[x].at = th[x].at
  BY <1>3, <1>4, <1>6, <1>7
<1>9. Others(x)
  BY <1>3, <1>7 DEF Others, Kept
<1>10. CallStep(x)
  BY <1>1, <1>8, <1>9, StepNames DEF CallStep
<1>11. RefStep(x)
  BY <1>1, <1>8, StepNames DEF RefStep
<1>12. StateTypes'
  BY <1>1, <1>8 DEF StateTypes
<1>13. Agree(th'[x].pc, th[x].why)
  BY <1>8, StepNames DEF Agree
<1>14. ctx' \in ContextType /\ SameContext
  BY <1>1, SameContextWhole
<1>15. CallOK(x)' /\ CallTime(x)'
  BY <1>8, <1>12, <1>13, <1>14, SameCall, StepNames
<1> QED BY <1>1, <1>10, <1>11, <1>14, <1>15, CallStepKeeps
-----------------------------------------------------------------------------
(* A step that signals the events of S.                                    *)

LEMMA EmptyList ==
  ASSUME NEW T, NEW s \in Seq(T)
  PROVE  s = <<>> <=> ToSet(s) = {}
<1>1. Len(s) \in Nat /\ DOMAIN s = 1..Len(s) /\ (s = <<>> <=> Len(s) = 0)
  OBVIOUS
<1>2. CASE s = <<>>
  BY <1>1, <1>2 DEF ToSet
<1>3. CASE s # <<>>
  <2>1. 1 \in DOMAIN s
    BY <1>1, <1>3
  <2> QED BY <1>3, <2>1 DEF ToSet
<1> QED BY <1>2, <1>3

\* What happens to the events and the group.
SignalStep(S, result) ==
  /\ S \subseteq Listed /\ SignalEvents(S, result) /\ ctx' = ctx
  /\ \A e \in S : result[e] \in Results /\ (result[e] = "retired" => ev[e].at <= ctx.retired)
  /\ group' \in GroupType /\ group'.listed = group.listed
  /\ IsInjective(group'.events) /\ ToSet(group'.events) = Listed \ S
  /\ group.processed <= group'.processed /\ group'.processed <= ctx.retired
  /\ \A e \in Listed : e \notin S => group'.processed < ev[e].at

\* What happens to the thread.
StayStep(x) ==
  /\ th' \in [Thread -> ThreadType] /\ Others(x)
  /\ th[x].pc \notin Away /\ th'[x].pc \notin Away /\ th'[x].pc # "insert"

LEMMA SignalStepKeeps ==
  ASSUME EventsIInv, NEW x \in Thread, StayStep(x), NEW S, NEW result, SignalStep(S, result),
         CallOK(x)', CallTime(x)'
  PROVE  /\ StateTypes' /\ CallsInv' /\ ClockInv' /\ EventInv' /\ ListsInv' /\ Clock /\ SameContext
         /\ Own' = Own => RefsInv'
         /\ group.events = <<>> => group'.events = <<>>
         /\ \A e \in Event : e \notin S => ev'[e] = ev[e]
<1>1. /\ StateTypes /\ CallsInv /\ ClockInv /\ EventInv /\ ListsInv /\ RefsInv
  BY DEF EventsIInv
<1>2. /\ S \subseteq Listed /\ \A e \in S : result[e] \in Results
      /\ SignalEvents(S, result) /\ ctx' = ctx
      /\ IsInjective(group'.events) /\ ToSet(group'.events) = Listed \ S
  BY DEF SignalStep
<1>3. /\ ev' \in [Event -> EventType]
      /\ \A e \in S : Signaled(e, result[e])
      /\ \A e \in Event : e \notin S => ev'[e] = ev[e]
  BY <1>1, <1>2, SignalFields
<1>4. work' \in Seq(Event) /\ ListsInv'
  BY <1>1, <1>2, SignalLists
<1>5. StateTypes'
  BY <1>1, <1>2, <1>3, <1>4 DEF StateTypes, StayStep, SignalStep
<1>6. SameContext
  BY <1>2 DEF SameContext
<1>7. Clock
  <2>1. ctx.queued \in Nat /\ ctx.retired \in Nat
    BY <1>1, TypesNow
  <2> QED BY <1>1, <1>2, <2>1 DEF Clock, ClockInv, SignalStep
<1>8. CallsInv'
  <2>1. NewKept(x) /\ InsertOK(x)'
    BY <1>1, <1>2, <1>3, SignalNew DEF InsertOK, StayStep
  <2> QED BY <1>1, <1>2, <1>5, <1>7, <2>1, CallsKept DEF StayStep
<1>9. EventInv'
  <2>1. ASSUME NEW e \in Event
        PROVE  \/ ev'[e] = ev[e] /\ (ev[e].st = "listed" => group'.processed < ev[e].at)
               \/ EventRight(e)'
    <3>1. CASE e \in S
      <4>1. /\ ev'[e].st = "queued" /\ ev'[e].at = ev[e].at /\ ev'[e].result = result[e]
            /\ result[e] = "retired" => ev[e].at <= ctx'.retired
        BY <1>2, <1>3, <3>1 DEF Signaled, SignalStep
      <4> QED BY <4>1 DEF EventRight
    <3>2. CASE e \notin S
      BY <1>3, <3>2 DEF SignalStep, Listed
    <3> QED BY <3>1, <3>2
  <2> QED BY <1>1, <1>5, <1>7, <2>1, EventsKept
<1>10. ClockInv'
  BY <1>1, <1>5, <1>7, ClockKept
<1>11. Own' = Own => RefsInv'
  <2>1. \A e \in Event : ev'[e].st = "none" <=> ev[e].st = "none"
    BY <1>2, <1>3 DEF Listed, Signaled
  <2>2. Used' = Used /\ RefStep(x)
    BY <1>2, <2>1, UsedSame DEF RefStep, StayStep
  <2> QED BY <1>1, <2>2, RefsKept DEF StayStep
<1>12. group.events = <<>> => group'.events = <<>>
  <2>1. PICK r, s \in Seq(Event) : r = group.events /\ s = group'.events
    BY <1>1, <1>5, TypesNow, TypesNext
  <2>2. ToSet(r) = Listed /\ ToSet(s) = Listed \ S
    BY <1>1, <1>2, <2>1 DEF ListsInv
  <2> QED BY <2>1, <2>2, EmptyList
<1> QED BY <1>3, <1>4, <1>5, <1>6, <1>7, <1>8, <1>9, <1>10, <1>11, <1>12

\* The same by a thread that does not detach the context.
LEMMA SignalCallKeeps ==
  ASSUME EventsIInv, NEW x \in Thread, StayStep(x), NEW S, NEW result, SignalStep(S, result),
         CallOK(x)', CallTime(x)', CallStep(x), SleepInv'
  PROVE  EventsIInv'
<1>1. /\ StateTypes' /\ CallsInv' /\ ClockInv' /\ EventInv' /\ ListsInv' /\ SameContext
      /\ Own' = Own => RefsInv'
      /\ group.events = <<>> => group'.events = <<>>
  BY SignalStepKeeps
<1>2. DetachInv /\ DrainInv
  BY DEF EventsIInv
<1>3. /\ DetachInv'
      /\ Reach(DetachSteps)' <=> Reach(DetachSteps)
      /\ Reach({"drain"})' <=> Reach({"drain"})
      /\ Reach({"drain", "cancel_all"})' <=> Reach({"drain", "cancel_all"})
  BY <1>1, <1>2, DetachKept DEF CallStep, SameContext, SignalStep
<1>4. DrainInv'
  BY <1>1, <1>2, <1>3, DrainKept DEF SameContext
<1>5. Own' = Own
  BY <1>1, <1>3 DEF Own, SameContext
<1> QED BY <1>1, <1>3, <1>4, <1>5 DEF EventsIInv

\* The events of S are taken off the list of the group, which stays as it is.
LEMMA UnlistFields ==
  ASSUME EventsIInv, NEW S, S \subseteq Listed, group' = [group EXCEPT !.events = Unlisted(S)]
  PROVE  /\ group' \in GroupType /\ group'.listed = group.listed
         /\ group'.processed = group.processed
         /\ IsInjective(group'.events) /\ ToSet(group'.events) = Listed \ S
         /\ group.processed <= group'.processed /\ group'.processed <= ctx.retired
         /\ \A e \in Listed : e \notin S => group'.processed < ev[e].at
<1>1. StateTypes /\ ListsInv /\ ClockInv /\ EventInv
  BY DEF EventsIInv
<1>2. PICK s : s = Unlisted(S)
  OBVIOUS
<1>3. s \in Seq(Event) /\ IsInjective(s) /\ ToSet(s) = Listed \ S
  BY <1>1, <1>2, ListParts
<1>4. /\ group' \in GroupType /\ group'.listed = group.listed
      /\ group'.processed = group.processed /\ group'.events = s
  BY <1>1, <1>2, <1>3, GroupEventsFields
<1>5. group.processed <= group.processed /\ group.processed <= ctx.retired
  BY <1>1, TypesNow DEF ClockInv
<1>6. \A e \in Listed : group.processed < ev[e].at
  BY <1>1 DEF Listed, EventInv, EventRight
<1> QED BY <1>3, <1>4, <1>5, <1>6
\* A thread goes to another step of its call.
LEMMA StayTo ==
  ASSUME EventsIInv, NEW x \in Thread, NEW p \in PC, To(x, p), ctx' = ctx,
         p \notin Away \cup {"insert"}, th[x].pc \notin Away,
         Agree(p, th[x].why), p \in InvalidateSteps => ctx.invalid
  PROVE  StayStep(x) /\ CallOK(x)' /\ CallTime(x)'
<1>1. StateTypes /\ SameContext
  BY DEF EventsIInv, SameContext
<1>2. /\ th' \in [Thread -> ThreadType]
      /\ th'[x].pc = p /\ th'[x].why = th[x].why /\ th'[x].at = th[x].at /\ th'[x].e = th[x].e
      /\ \A y \in Thread : y # x => th'[y] = th[y]
  BY <1>1, ToFields
<1>3. StayStep(x)
  BY <1>2, SameIsKept DEF StayStep
<1>4. CallOK(x) /\ CallTime(x)
  BY DEF EventsIInv, CallsInv
<1>5. p # "idle"
  BY DEF Away
<1>6. CallOK(x)'
  BY <1>2, <1>4, <1>5 DEF CallOK
<1>7. th[x].why \in {"wait", "event"} => ctx.queued < th[x].at + Window /\ th[x].at < ctx.retired + Window
  BY <1>4 DEF CallTime, Near
<1>8. CallTime(x)'
  BY <1>2, <1>7 DEF CallTime, Near
<1> QED BY <1>3, <1>6, <1>8

\* The same, by a thread that does not detach the context and does not wait afterwards.
LEMMA CallTo ==
  ASSUME EventsIInv, NEW x \in Thread, NEW p \in PC, To(x, p),
         p \notin DetachSteps \cup WaitSteps \cup {"insert"}, th[x].pc \notin DetachSteps
  PROVE  CallStep(x)
<1>1. StateTypes
  BY DEF EventsIInv
<1>2. /\ th' \in [Thread -> ThreadType] /\ th'[x].pc = p /\ th'[x].why = th[x].why
      /\ \A y \in Thread : y # x => th'[y] = th[y]
  BY <1>1, ToFields
<1> QED BY <1>2, SameIsKept DEF CallStep

\* A wait that has timed out gives up: there is one waiter less, and one event
\* less at most.
LEMMA CancelSleep ==
  ASSUME EventsIInv, NEW x \in Thread, th[x].pc = "cancel", Others(x), th'[x].pc = "put",
         SameContext, NEW S, \A e \in Event : e \notin S => ev'[e] = ev[e],
         S = {} \/ \E h \in Event : S = {h} /\ h \in Listed /\ TS(ev[h].at) = TS(th[x].at)
  PROVE  SleepInv'
<1>1. StateTypes /\ CallOK(x) /\ CallTime(x) /\ EventInv /\ SleepInv /\ ClockInv
  BY DEF EventsIInv, CallsInv
<1>2. th[x].why = "wait"
  BY <1>1, StepNames DEF CallOK, Agree
<1>3. x \in User /\ th[x].at \in Wanted /\ Near(th[x].at)
  BY <1>1, <1>2 DEF CallOK, CallTime
<1>4. SUFFICES ASSUME ~ctx'.detached, ~ctx'.invalid, NEW t \in Wanted, t > ctx'.retired
               PROVE  (Cardinality(Waiters(t)) <= Cardinality(WaitEvents(t)))'
  BY DEF SleepInv
<1>5. PICK A, B, C, D : A = Waiters(t) /\ B = WaitEvents(t) /\ C = Waiters(t)' /\ D = WaitEvents(t)'
  OBVIOUS
<1>6. IsFiniteSet(A) /\ IsFiniteSet(B) /\ IsFiniteSet(C) /\ IsFiniteSet(D)
  BY <1>5, SleepersFinite
<1>7. Cardinality(A) \in Nat /\ Cardinality(B) \in Nat /\ Cardinality(C) \in Nat /\ Cardinality(D) \in Nat
  BY <1>6, FS_CardinalityType
<1>8. Cardinality(A) <= Cardinality(B)
  BY <1>1, <1>4, <1>5 DEF SleepInv, SameContext
<1>9. th'[x].pc \notin WaitSteps
  BY StepNames
<1>10. C \subseteq A \ {x}
  <2>1. Waiters(t)' \subseteq Waiters(t)
    BY <1>9, WaitersKept
  <2>2. x \notin Waiters(t)'
    BY <1>9 DEF Waiters
  <2> QED BY <1>5, <2>1, <2>2
<1>11. B \ S \subseteq D
  <2>1. \A e \in Event : ev[e].st = "listed" /\ ev[e].why = "wait" /\ ev[e].at = t /\ e \notin S =>
                           ev'[e] = ev[e]
    OBVIOUS
  <2> QED BY <1>5, <2>1 DEF WaitEvents
<1>12. CASE B \cap S = {}
  <2>1. C \in SUBSET A /\ B \in SUBSET D
    BY <1>10, <1>11, <1>12
  <2>2. Cardinality(C) <= Cardinality(A) /\ Cardinality(B) <= Cardinality(D)
    BY <1>6, <2>1, FS_Subset
  <2>3. Cardinality(C) <= Cardinality(D)
    BY <1>7, <1>8, <2>2
  <2> QED BY <1>5, <2>3
<1>13. CASE B \cap S # {}
  <2>1. PICK h \in Event : S = {h} /\ h \in Listed /\ TS(ev[h].at) = TS(th[x].at) /\ h \in B
    BY <1>13
  <2>2. ev[h].at = t
    BY <1>5, <2>1 DEF WaitEvents
  <2>3. t = th[x].at
    <3>1. PICK a, p, q, r \in Nat : /\ a = th[x].at /\ p = group.processed /\ q = ctx.queued
                                    /\ r = ctx.retired
      BY <1>1, TypesNow
    <3>2. Window \in Nat \ {0} /\ t \in Nat
      BY EventsAssumption
    <3>3. p < t /\ t < r + Window /\ q < a + Window /\ a < r + Window
      BY <1>1, <1>3, <2>1, <2>2, <3>1 DEF EventInv, EventRight, Near, Listed
    <3>4. p <= r /\ r <= q /\ q < p + Window
      BY <1>1, <3>1 DEF ClockInv
    <3>5. t < a + Range2 /\ a < t + Range2
      BY <3>1, <3>2, <3>3, <3>4 DEF Range2
    <3>6. TS(t) = TS(a)
      BY <2>1, <2>2, <3>1
    <3> QED BY <3>1, <3>2, <3>5, <3>6, StampIsTime
  <2>4. x \in A
    BY <1>3, <1>5, <2>3, StepNames DEF Waiters
  <2>5. PICK E, F : E = A \ {x} /\ F = B \ {h}
    OBVIOUS
  <2>6. /\ IsFiniteSet(E) /\ Cardinality(E) = Cardinality(A) - 1
        /\ IsFiniteSet(F) /\ Cardinality(F) = Cardinality(B) - 1
    BY <1>6, <2>1, <2>4, <2>5, FS_RemoveElement
  <2>7. C \in SUBSET E /\ F \in SUBSET D
    BY <1>10, <1>11, <2>1, <2>5
  <2>8. Cardinality(C) <= Cardinality(E) /\ Cardinality(F) <= Cardinality(D)
    BY <1>6, <2>6, <2>7, FS_Subset
  <2>9. Cardinality(C) <= Cardinality(D)
    BY <1>7, <1>8, <2>6, <2>8
  <2> QED BY <1>5, <2>9
<1> QED BY <1>12, <1>13

LEMMA CancelEventKeeps ==
  ASSUME EventsIInv, NEW x \in Thread, CancelEvent(x)
  PROVE  EventsIInv'
<1>1. StateTypes /\ ListsInv /\ CallOK(x)
  BY DEF EventsIInv, CallsInv
<1>2. PICK S : S = IF Matching(x) = <<>> THEN {} ELSE {Head(Matching(x))}
  OBVIOUS
<1>3. PICK result : result = [e \in S |-> "cancelled"]
  OBVIOUS
<1>4. /\ th[x].pc = "cancel" /\ SignalEvents(S, result) /\ To(x, "put") /\ ctx' = ctx
      /\ group' = [group EXCEPT !.events = Unlisted(S)]
  BY <1>2, <1>3 DEF CancelEvent
<1>5. S = {} \/ \E h \in Event : S = {h} /\ h \in Listed /\ TS(ev[h].at) = TS(th[x].at)
  <2>1. PICK M : M = {e \in Event : ev[e].why = "wait" /\ TS(ev[e].at) = TS(th[x].at)}
    OBVIOUS
  <2>2. PICK s \in Seq(Event) : s = group.events /\ IsInjective(s) /\ ToSet(s) = Listed
    BY <1>1, TypesNow DEF ListsInv
  <2>3. PICK q : q = Matching(x)
    OBVIOUS
  <2>4. q \in Seq(Event) /\ ToSet(q) = Listed \cap M
    BY <2>1, <2>2, <2>3, FoundFacts DEF Matching
  <2>5. CASE q # <<>>
    <3>1. 1 \in DOMAIN q /\ Head(q) = q[1]
      BY <2>4, <2>5
    <3>2. Head(q) \in Listed \cap M
      BY <2>4, <3>1 DEF ToSet
    <3> QED BY <1>2, <2>1, <2>3, <2>5, <3>2
  <2> QED BY <1>2, <2>3, <2>5
<1>6. S \subseteq Listed
  BY <1>5
<1>7. \A e \in S : result[e] = "cancelled"
  BY <1>3
<1>8. SignalStep(S, result)
  BY <1>4, <1>6, <1>7, UnlistFields DEF SignalStep, Results
<1>9. Agree("put", th[x].why)
  BY StepNames DEF Agree
<1>10. StayStep(x) /\ CallOK(x)' /\ CallTime(x)' /\ CallStep(x)
  BY <1>4, <1>9, StayTo, CallTo, StepNames
<1>11. th'[x].pc = "put"
  BY <1>1, <1>4, ToFields, StepNames
<1>12. SameContext /\ \A e \in Event : e \notin S => ev'[e] = ev[e]
  BY <1>8, <1>10, SignalStepKeeps
<1>13. SleepInv'
  BY <1>4, <1>5, <1>10, <1>11, <1>12, CancelSleep DEF StayStep
<1> QED BY <1>8, <1>10, <1>13, SignalCallKeeps
-----------------------------------------------------------------------------
(* The steps of the detach.                                                *)

\* What the step of the thread that detaches says about how far the detach is.
LEMMA DetachMove ==
  ASSUME DetachInv, NEW x \in Thread, Others(x), th[x].pc \in DetachSteps, th'[x].why = th[x].why
  PROVE  /\ ctx.detached
         /\ group.listed <=> th[x].pc \in {"drain", "cancel_all", "delete"}
         /\ \A y, z \in Thread : th'[y].pc \in DetachSteps /\ th'[z].pc \in DetachSteps => y = z
         /\ Walking' => Walking
         /\ Reach(DetachSteps) /\ (Reach(DetachSteps)' <=> th'[x].pc \in DetachSteps)
         /\ Reach({"drain"}) <=> th[x].pc = "drain"
         /\ Reach({"drain"})' <=> th'[x].pc = "drain"
         /\ Reach({"drain", "cancel_all"}) <=> th[x].pc \in {"drain", "cancel_all"}
         /\ Reach({"drain", "cancel_all"})' <=> th'[x].pc \in {"drain", "cancel_all"}
         /\ Reach({"drain", "cancel_all", "delete"})' <=> th'[x].pc \in {"drain", "cancel_all", "delete"}
<1>1. /\ {"drain"} \subseteq DetachSteps /\ {"drain", "cancel_all"} \subseteq DetachSteps
      /\ {"drain", "cancel_all", "delete"} \subseteq DetachSteps /\ DetachSteps \subseteq DetachSteps
  BY DetachStepsAre
<1>2. /\ Reach({"drain"}) <=> th[x].pc \in {"drain"}
      /\ Reach({"drain"})' <=> th'[x].pc \in {"drain"}
  BY <1>1, ReachOnly
<1>3. /\ Reach({"drain", "cancel_all"}) <=> th[x].pc \in {"drain", "cancel_all"}
      /\ Reach({"drain", "cancel_all"})' <=> th'[x].pc \in {"drain", "cancel_all"}
  BY <1>1, ReachOnly
<1>4. /\ Reach({"drain", "cancel_all", "delete"}) <=> th[x].pc \in {"drain", "cancel_all", "delete"}
      /\ Reach({"drain", "cancel_all", "delete"})' <=> th'[x].pc \in {"drain", "cancel_all", "delete"}
  BY <1>1, ReachOnly
<1>5. Reach(DetachSteps) /\ (Reach(DetachSteps)' <=> th'[x].pc \in DetachSteps)
  BY <1>1, ReachOnly
<1>6. ctx.detached
  BY <1>5 DEF DetachInv
<1>7. group.listed <=> th[x].pc \in {"drain", "cancel_all", "delete"}
  BY <1>4, <1>6 DEF DetachInv
<1>8. ASSUME NEW y \in Thread, th'[y].pc \in DetachSteps PROVE y = x
  <2>1. ASSUME y # x PROVE FALSE
    <3>1. th[y].pc \notin DetachSteps
      BY <2>1 DEF DetachInv
    <3> QED BY <1>8, <2>1, <3>1, DetachStepsAre DEF Others, Kept
  <2> QED BY <2>1
<1>9. Walking' => Walking
  BY DEF Walking, Others, Kept, Thread
<1> QED BY <1>2, <1>3, <1>4, <1>5, <1>6, <1>7, <1>8, <1>9

LEMMA CancelEventsKeeps ==
  ASSUME EventsIInv, NEW x \in Thread, CancelEvents(x)
  PROVE  EventsIInv'
<1>1. StateTypes /\ ListsInv /\ ClockInv /\ DetachInv /\ DrainInv /\ CallOK(x)
  BY DEF EventsIInv, CallsInv
<1>2. PICK result : result = [e \in Listed |-> "cancelled"]
  OBVIOUS
<1>3. /\ th[x].pc = "cancel_all" /\ SignalEvents(Listed, result) /\ To(x, "delete") /\ ctx' = ctx
      /\ group' = [group EXCEPT !.events = <<>>]
  BY <1>2 DEF CancelEvents
<1>4. /\ group' \in GroupType /\ group'.events = <<>>
      /\ group'.listed = group.listed /\ group'.processed = group.processed
  <2>1. <<>> \in Seq(Event)
    OBVIOUS
  <2>2. PICK s \in Seq(Event) : s = <<>>
    BY <2>1, Zenon
  <2> QED BY <1>1, <1>3, <2>2, GroupEventsFields
<1>5. SignalStep(Listed, result)
  <2>1. IsInjective(group'.events) /\ ToSet(group'.events) = {}
    BY <1>4 DEF IsInjective, ToSet
  <2>2. group.processed <= group.processed /\ group.processed <= ctx.retired
    BY <1>1, TypesNow DEF ClockInv
  <2>3. \A e \in Listed : result[e] = "cancelled"
    BY <1>2
  <2> QED BY <1>3, <1>4, <2>1, <2>2, <2>3 DEF SignalStep, Results
<1>6. th[x].why = "detach"
  BY <1>1, <1>3, StepNames DEF CallOK, Agree
<1>7. Agree("delete", th[x].why)
  BY <1>6, StepNames DEF Agree
<1>8. StayStep(x) /\ CallOK(x)' /\ CallTime(x)'
  BY <1>3, <1>7, StayTo, StepNames
<1>9. /\ StateTypes' /\ CallsInv' /\ ClockInv' /\ EventInv' /\ ListsInv'
      /\ Own' = Own => RefsInv'
  BY <1>5, <1>8, SignalStepKeeps
<1>10. th'[x].pc = "delete" /\ th'[x].why = th[x].why
  BY <1>1, <1>3, ToFields, StepNames
<1>11. /\ ctx.detached
       /\ group.listed <=> th[x].pc \in {"drain", "cancel_all", "delete"}
       /\ \A y, z \in Thread : th'[y].pc \in DetachSteps /\ th'[z].pc \in DetachSteps => y = z
       /\ Walking' => Walking
       /\ Reach(DetachSteps) /\ (Reach(DetachSteps)' <=> th'[x].pc \in DetachSteps)
       /\ Reach({"drain"}) <=> th[x].pc = "drain"
       /\ Reach({"drain", "cancel_all", "delete"})' <=> th'[x].pc \in {"drain", "cancel_all", "delete"}
  BY <1>1, <1>3, <1>8, <1>10, DetachMove, StepNames DEF StayStep
<1>12. DetachInv'
  BY <1>1, <1>3, <1>4, <1>10, <1>11 DEF DetachInv
<1>13. DrainInv'
  BY <1>1, <1>3, <1>4, <1>11 DEF DrainInv
<1>14. SleepInv'
  BY <1>3, <1>11 DEF SleepInv
<1>15. Own' = Own
  BY <1>3, <1>10, <1>11, StepNames DEF Own
<1> QED BY <1>9, <1>12, <1>13, <1>14, <1>15 DEF EventsIInv

\* The thread that detaches the context goes on, and leaves the events alone.
LEMMA DetachStepKeeps ==
  ASSUME EventsIInv, NEW x \in Thread, th[x].pc \in DetachSteps, th' \in [Thread -> ThreadType],
         Others(x), th'[x].pc \in DetachSteps \cup {"put"}, th'[x].why = "detach",
         ctx' \in ContextType, ctx'.detached = ctx.detached, ctx'.invalid = ctx.invalid, Clock,
         group' \in GroupType, group'.events = group.events, group'.processed = group.processed,
         UNCHANGED <<ev, work>>
  PROVE  /\ StateTypes' /\ CallsInv' /\ ClockInv' /\ EventInv' /\ ListsInv' /\ SleepInv'
         /\ ctx'.ref = ctx.ref + Own' - Own => RefsInv'
<1>1. /\ StateTypes /\ CallsInv /\ ClockInv /\ EventInv /\ ListsInv /\ DetachInv /\ RefsInv
  BY DEF EventsIInv
<1>2. StateTypes'
  BY <1>1 DEF StateTypes
<1>3. Agree(th'[x].pc, th'[x].why) /\ th'[x].pc \notin Away \cup InvalidateSteps \cup {"insert"}
  BY StepNames DEF Agree
<1>4. CallOK(x)' /\ CallTime(x)' /\ InsertOK(x)'
  BY <1>3, StepNames DEF CallOK, CallTime, InsertOK
<1>5. CallsInv'
  BY <1>1, <1>2, <1>4, CallsKept, SameNew
<1>6. ClockInv' /\ EventInv' /\ ListsInv'
  BY <1>1, <1>2, ClockKept, EventsSame, SameLists
<1>7. ctx.detached
  BY <1>1 DEF DetachInv, Reach
<1>8. SleepInv'
  BY <1>7 DEF SleepInv
<1>9. ASSUME ctx'.ref = ctx.ref + Own' - Own PROVE RefsInv'
  <2>1. PICK a, b, c, d, f \in Int : /\ a = ctx.ref /\ b = Own /\ c = Cardinality(Busy)
                                     /\ d = Cardinality(Used) /\ f = Own'
    BY <1>1, UsersFinite, TypesNow DEF Own
  <2>2. a = b + c + d
    BY <1>1, <2>1 DEF RefsInv
  <2>3. Cardinality(Busy') = c
    BY <1>3, <2>1, BusyStep, StepNames
  <2>4. Used' = Used
    BY DEF Used
  <2>5. ctx'.ref = f + c + d
    BY <1>9, <2>1, <2>2
  <2> QED BY <2>1, <2>3, <2>4, <2>5 DEF RefsInv
<1> QED BY <1>2, <1>5, <1>6, <1>8, <1>9

LEMMA DelEventGroupKeeps ==
  ASSUME EventsIInv, NEW x \in Thread, DelEventGroup(x)
  PROVE  EventsIInv'
<1>1. StateTypes /\ ListsInv /\ ClockInv /\ DetachInv /\ DrainInv /\ CallOK(x)
  BY DEF EventsIInv, CallsInv
<1>2. /\ th[x].pc = "delete" /\ ~Walking /\ To(x, "deleted") /\ UNCHANGED <<ctx, ev, work>>
      /\ group' = [group EXCEPT !.listed = FALSE]
  BY DEF DelEventGroup
<1>3. /\ group' \in GroupType /\ group'.events = group.events
      /\ group'.listed = FALSE /\ group'.processed = group.processed
  <2>1. PICK g \in GroupType : g = group
    BY <1>1 DEF StateTypes
  <2>2. PICK d : d = [g EXCEPT !.listed = FALSE]
    OBVIOUS
  <2>3. d \in GroupType /\ d.events = g.events /\ d.listed = FALSE /\ d.processed = g.processed
    BY <2>2 DEF GroupType
  <2> QED BY <1>2, <2>1, <2>2, <2>3
<1>4. th[x].why = "detach"
  BY <1>1, <1>2, StepNames DEF CallOK, Agree
<1>5. /\ th' \in [Thread -> ThreadType] /\ Others(x)
      /\ th'[x].pc = "deleted" /\ th'[x].why = th[x].why
  BY <1>1, <1>2, ToFields, SameIsKept, StepNames
<1>6. Clock
  BY <1>1, <1>2, <1>3, SameClock
<1>7. /\ ctx.detached
      /\ \A y, z \in Thread : th'[y].pc \in DetachSteps /\ th'[z].pc \in DetachSteps => y = z
      /\ Walking' => Walking
      /\ Reach(DetachSteps) /\ (Reach(DetachSteps)' <=> th'[x].pc \in DetachSteps)
      /\ Reach({"drain"}) <=> th[x].pc = "drain"
      /\ Reach({"drain"})' <=> th'[x].pc = "drain"
      /\ Reach({"drain", "cancel_all"}) <=> th[x].pc \in {"drain", "cancel_all"}
      /\ Reach({"drain", "cancel_all"})' <=> th'[x].pc \in {"drain", "cancel_all"}
      /\ Reach({"drain", "cancel_all", "delete"})' <=> th'[x].pc \in {"drain", "cancel_all", "delete"}
  BY <1>1, <1>2, <1>5, DetachMove, StepNames
<1>8. DetachInv'
  BY <1>2, <1>3, <1>5, <1>7 DEF DetachInv
<1>9. DrainInv'
  BY <1>1, <1>2, <1>3, <1>5, <1>7 DEF DrainInv
<1>10. Own' = 1 /\ Own = 1
  BY <1>2, <1>5, <1>7, StepNames DEF Own
<1>11. ctx'.ref = ctx.ref + Own' - Own
  BY <1>1, <1>2, <1>10, TypesNow
<1>12. ctx' \in ContextType
  BY <1>1, <1>2 DEF StateTypes
<1>13. StateTypes' /\ CallsInv' /\ ClockInv' /\ EventInv' /\ ListsInv' /\ SleepInv' /\ RefsInv'
  BY <1>2, <1>3, <1>4, <1>5, <1>6, <1>11, <1>12, DetachStepKeeps, StepNames
<1> QED BY <1>8, <1>9, <1>13 DEF EventsIInv

LEMMA DetachPutKeeps ==
  ASSUME EventsIInv, NEW x \in Thread, DetachPut(x)
  PROVE  EventsIInv'
<1>1. StateTypes /\ ListsInv /\ ClockInv /\ DetachInv /\ DrainInv /\ CallOK(x)
  BY DEF EventsIInv, CallsInv
<1>2. /\ th[x].pc = "deleted" /\ To(x, "put") /\ UNCHANGED <<group, ev, work>>
      /\ ctx' = [ctx EXCEPT !.ref = @ - 1]
  BY DEF DetachPut
<1>3. PICK n \in Int : n = ctx.ref - 1
  BY <1>1, TypesNow
<1>4. ctx' \in ContextType /\ ctx'.ref = n /\ SameContext
  BY <1>1, <1>2, <1>3, RefFields
<1>5. group' \in GroupType
  BY <1>1, <1>2 DEF StateTypes
<1>6. th[x].why = "detach"
  BY <1>1, <1>2, StepNames DEF CallOK, Agree
<1>7. /\ th' \in [Thread -> ThreadType] /\ Others(x)
      /\ th'[x].pc = "put" /\ th'[x].why = th[x].why
  BY <1>1, <1>2, ToFields, SameIsKept, StepNames
<1>8. Clock
  BY <1>1, <1>2, <1>4, SameClock DEF SameContext
<1>9. /\ ctx.detached
      /\ group.listed <=> th[x].pc \in {"drain", "cancel_all", "delete"}
      /\ \A y, z \in Thread : th'[y].pc \in DetachSteps /\ th'[z].pc \in DetachSteps => y = z
      /\ Walking' => Walking
      /\ Reach(DetachSteps) /\ (Reach(DetachSteps)' <=> th'[x].pc \in DetachSteps)
      /\ Reach({"drain"}) <=> th[x].pc = "drain"
      /\ Reach({"drain", "cancel_all"}) <=> th[x].pc \in {"drain", "cancel_all"}
      /\ Reach({"drain", "cancel_all", "delete"})' <=> th'[x].pc \in {"drain", "cancel_all", "delete"}
  BY <1>1, <1>2, <1>7, DetachMove, StepNames
<1>10. th'[x].pc \notin DetachSteps
  BY <1>7, StepNames
<1>11. DetachInv'
  BY <1>1, <1>2, <1>4, <1>7, <1>9, <1>10 DEF DetachInv, SameContext
<1>12. DrainInv'
  BY <1>1, <1>2, <1>4, <1>9 DEF DrainInv, SameContext
<1>13. Own' = 0 /\ Own = 1
  BY <1>4, <1>9, <1>10 DEF Own, SameContext
<1>14. ctx'.ref = ctx.ref + Own' - Own
  BY <1>1, <1>3, <1>4, <1>13, TypesNow
<1>15. StateTypes' /\ CallsInv' /\ ClockInv' /\ EventInv' /\ ListsInv' /\ SleepInv' /\ RefsInv'
  BY <1>2, <1>4, <1>5, <1>6, <1>7, <1>8, <1>14, DetachStepKeeps, StepNames DEF SameContext
<1> QED BY <1>11, <1>12, <1>15 DEF EventsIInv
\* The context changes and the thread goes on; events and group are left alone.
LEMMA ContextStepKeeps ==
  ASSUME EventsIInv, NEW x \in Thread, th' \in [Thread -> ThreadType], Others(x),
         th[x].pc \notin Away, th'[x].pc \notin Away \cup {"insert"},
         CallOK(x)', CallTime(x)', ctx' \in ContextType, ctx'.ref = ctx.ref,
         ctx.invalid => ctx'.invalid, Clock, UNCHANGED <<group, ev, work>>
  PROVE  /\ StateTypes' /\ CallsInv' /\ ClockInv' /\ EventInv' /\ ListsInv'
         /\ Own' = Own => RefsInv'
<1>1. StateTypes /\ CallsInv /\ ClockInv /\ EventInv /\ ListsInv /\ RefsInv
  BY DEF EventsIInv
<1>2. StateTypes'
  BY <1>1 DEF StateTypes
<1>3. InsertOK(x)'
  BY DEF InsertOK
<1>4. CallsInv'
  BY <1>1, <1>2, <1>3, CallsKept, SameNew
<1>5. ClockInv' /\ EventInv' /\ ListsInv'
  BY <1>1, <1>2, ClockKept, EventsSame, SameLists
<1>6. RefStep(x) /\ Used' = Used
  BY DEF RefStep, Used
<1>7. Own' = Own => RefsInv'
  BY <1>1, <1>6, RefsKept
<1> QED BY <1>2, <1>4, <1>5, <1>7

LEMMA DetachMarkKeeps ==
  ASSUME EventsIInv, NEW x \in Thread, DetachMark(x)
  PROVE  EventsIInv'
<1>1. StateTypes /\ ClockInv /\ DetachInv /\ DrainInv /\ CallOK(x)
  BY DEF EventsIInv, CallsInv
<1>2. /\ th[x].pc = "detach" /\ UNCHANGED <<group, ev, work>>
      /\ ctx' = [ctx EXCEPT !.detached = TRUE]
  BY DEF DetachMark
<1>3. th[x].why = "detach"
  BY <1>1, <1>2, StepNames DEF CallOK, Agree
<1>4. PICK c \in ContextType : c = ctx
  BY <1>1 DEF StateTypes
<1>5. PICK d : d = [c EXCEPT !.detached = TRUE]
  OBVIOUS
<1>6. /\ d \in ContextType /\ d.ref = c.ref /\ d.detached = TRUE /\ d.invalid = c.invalid
      /\ d.queued = c.queued /\ d.retired = c.retired /\ d.lost = c.lost
  BY <1>5 DEF ContextType
<1>7. /\ ctx' \in ContextType /\ ctx'.ref = ctx.ref /\ ctx'.detached = TRUE
      /\ ctx'.invalid = ctx.invalid /\ ctx'.queued = ctx.queued /\ ctx'.retired = ctx.retired
      /\ ctx'.lost = ctx.lost
  BY <1>2, <1>4, <1>5, <1>6
<1>8. CASE ctx.detached
  <2>1. To(x, "put")
    BY <1>8 DEF DetachMark
  <2>2. ctx' = ctx
    <3>1. d = c
      BY <1>4, <1>5, <1>8 DEF ContextType
    <3> QED BY <1>2, <1>4, <1>5, <3>1
  <2>3. Agree("put", th[x].why)
    BY StepNames DEF Agree
  <2> QED BY <1>2, <2>1, <2>2, <2>3, StepTo, StepNames
<1>9. CASE ~ctx.detached
  <2>1. To(x, "drain")
    BY <1>9 DEF DetachMark
  <2>2. /\ th' \in [Thread -> ThreadType] /\ Others(x)
        /\ th'[x].pc = "drain" /\ th'[x].why = "detach"
        /\ \A y \in Thread : y # x => th'[y] = th[y]
    BY <1>1, <1>3, <2>1, ToFields, SameIsKept, StepNames
  <2>3. \A y \in Thread : th[y].pc \notin DetachSteps
    BY <1>1, <1>9 DEF DetachInv, Reach
  <2>4. \A y \in Thread : y # x => th'[y].pc \notin DetachSteps
    BY <2>2, <2>3
  <2>5. "drain" \in DetachSteps
    BY StepNames
  <2>6. /\ Reach(DetachSteps)' /\ Reach({"drain"})' /\ Reach({"drain", "cancel_all"})'
        /\ Reach({"drain", "cancel_all", "delete"})'
    BY <2>2, <2>5 DEF Reach
  <2>7. Walking' => Walking
    BY <1>3, <2>2 DEF Walking, Thread
  <2>8. group.listed
    BY <1>1, <1>9 DEF DetachInv
  <2>9. DetachInv'
    BY <1>2, <1>7, <2>4, <2>6, <2>8 DEF DetachInv
  <2>10. DrainInv' /\ SleepInv'
    BY <1>7, <2>6 DEF DrainInv, SleepInv
  <2>11. Own' = Own
    BY <1>7, <1>9, <2>6 DEF Own
  <2>12. Clock
    BY <1>1, <1>2, <1>7, SameClock
  <2>13. Agree(th'[x].pc, th'[x].why)
    BY <2>2, StepNames DEF Agree
  <2>14. CallOK(x)' /\ CallTime(x)'
    BY <2>2, <2>13, StepNames DEF CallOK, CallTime
  <2>15. StateTypes' /\ CallsInv' /\ ClockInv' /\ EventInv' /\ ListsInv' /\ RefsInv'
    BY <1>2, <1>7, <2>2, <2>11, <2>12, <2>14, ContextStepKeeps, StepNames
  <2> QED BY <2>9, <2>10, <2>15 DEF EventsIInv
<1> QED BY <1>8, <1>9

LEMMA DetachDrainKeeps ==
  ASSUME EventsIInv, NEW x \in Thread, DetachDrain(x)
  PROVE  EventsIInv'
<1>1. StateTypes /\ ClockInv /\ DetachInv /\ CallOK(x)
  BY DEF EventsIInv, CallsInv
<1>2. /\ th[x].pc = "drain" /\ UNCHANGED <<group, ev, work>>
      /\ th' = [Woken(th) EXCEPT ![x].pc = "cancel_all"]
  BY DEF DetachDrain
<1>3. th[x].why = "detach"
  BY <1>1, <1>2, StepNames DEF CallOK, Agree
<1>4. PICK c \in ContextType : c = ctx
  BY <1>1 DEF StateTypes
<1>5. /\ ctx' \in ContextType /\ ctx'.ref = ctx.ref /\ ctx'.detached = ctx.detached
      /\ ctx'.invalid = ctx.invalid /\ ctx'.queued = ctx.queued
      /\ \/ ctx'.retired = ctx.queued
         \/ ctx'.retired = ctx.retired /\ ctx'.lost
  <2>1. CASE ctx' = [ctx EXCEPT !.retired = ctx.queued]
    <3>1. PICK n \in Nat : n = c.queued
      BY ContextFields
    <3>2. PICK d : d = [c EXCEPT !.retired = n]
      OBVIOUS
    <3>3. /\ d \in ContextType /\ d.ref = c.ref /\ d.detached = c.detached
          /\ d.invalid = c.invalid /\ d.queued = c.queued /\ d.retired = n
      BY <3>2 DEF ContextType
    <3> QED BY <1>4, <2>1, <3>1, <3>2, <3>3
  <2>2. CASE ctx' = [ctx EXCEPT !.lost = TRUE]
    <3>1. PICK d : d = [c EXCEPT !.lost = TRUE]
      OBVIOUS
    <3>2. /\ d \in ContextType /\ d.ref = c.ref /\ d.detached = c.detached
          /\ d.invalid = c.invalid /\ d.queued = c.queued /\ d.retired = c.retired /\ d.lost = TRUE
      BY <3>1 DEF ContextType
    <3> QED BY <1>4, <2>2, <3>1, <3>2
  <2> QED BY <2>1, <2>2 DEF DetachDrain
<1>6. Clock
  <2>1. ctx.queued \in Nat /\ ctx.retired \in Nat /\ group.processed \in Nat
    BY <1>1, TypesNow
  <2> QED BY <1>1, <1>2, <1>5, <2>1 DEF Clock, ClockInv
<1>7. PICK w : w = Woken(th)
  OBVIOUS
<1>8. /\ w \in [Thread -> ThreadType]
      /\ \A y \in Thread : /\ w[y].why = th[y].why /\ w[y].at = th[y].at /\ w[y].e = th[y].e
                           /\ w[y].pc = IF th[y].pc = "asleep" THEN "test" ELSE th[y].pc
  BY <1>1, <1>7, WokenFields
<1>9. PICK r \in ThreadType : r = w[x]
  BY <1>8
<1>10. PICK s : s = [r EXCEPT !.pc = "cancel_all"]
  OBVIOUS
<1>11. s \in ThreadType /\ s.pc = "cancel_all" /\ s.why = r.why
  BY <1>10, StepNames DEF ThreadType
<1>12. th' = [w EXCEPT ![x] = s]
  BY <1>2, <1>7, <1>9, <1>10
<1>13. th' \in [Thread -> ThreadType] /\ th'[x].pc = "cancel_all" /\ th'[x].why = th[x].why
  BY <1>8, <1>9, <1>11, <1>12
<1>14. Others(x)
  BY <1>8, <1>12 DEF Others, Kept
<1>15. /\ ctx.detached
       /\ group.listed <=> th[x].pc \in {"drain", "cancel_all", "delete"}
       /\ \A y, z \in Thread : th'[y].pc \in DetachSteps /\ th'[z].pc \in DetachSteps => y = z
       /\ Walking' => Walking
       /\ Reach(DetachSteps) /\ (Reach(DetachSteps)' <=> th'[x].pc \in DetachSteps)
       /\ Reach({"drain", "cancel_all"})' <=> th'[x].pc \in {"drain", "cancel_all"}
       /\ Reach({"drain", "cancel_all", "delete"})' <=> th'[x].pc \in {"drain", "cancel_all", "delete"}
  BY <1>1, <1>2, <1>13, <1>14, DetachMove, StepNames
<1>16. DetachInv'
  BY <1>2, <1>5, <1>13, <1>15 DEF DetachInv
<1>17. DrainInv'
  BY <1>5, <1>13, <1>15 DEF DrainInv
<1>18. Own' = 1 /\ Own = 1
  BY <1>13, <1>15, StepNames DEF Own
<1>19. ctx'.ref = ctx.ref + Own' - Own
  BY <1>1, <1>5, <1>18, TypesNow
<1>20. group' \in GroupType
  BY <1>1, <1>2 DEF StateTypes
<1>21. StateTypes' /\ CallsInv' /\ ClockInv' /\ EventInv' /\ ListsInv' /\ SleepInv' /\ RefsInv'
  BY <1>2, <1>3, <1>5, <1>6, <1>13, <1>14, <1>19, <1>20, DetachStepKeeps, StepNames
<1> QED BY <1>16, <1>17, <1>21 DEF EventsIInv

LEMMA InvalidateMarkKeeps ==
  ASSUME EventsIInv, NEW x \in Thread, InvalidateMark(x)
  PROVE  EventsIInv'
<1>1. StateTypes /\ ClockInv /\ DetachInv /\ DrainInv /\ CallOK(x)
  BY DEF EventsIInv, CallsInv
<1>2. /\ th[x].pc = "invalidate" /\ UNCHANGED <<group, ev, work>>
      /\ ctx' = [ctx EXCEPT !.invalid = TRUE, !.retired = ctx.queued]
  BY DEF InvalidateMark
<1>3. th[x].why = "invalidate"
  BY <1>1, <1>2, StepNames DEF CallOK, Agree
<1>4. PICK c \in ContextType : c = ctx
  BY <1>1 DEF StateTypes
<1>5. PICK n \in Nat : n = c.queued
  BY ContextFields
<1>6. PICK d : d = [c EXCEPT !.invalid = TRUE, !.retired = n]
  OBVIOUS
<1>7. /\ d \in ContextType /\ d.ref = c.ref /\ d.detached = c.detached /\ d.invalid = TRUE
      /\ d.queued = c.queued /\ d.retired = n /\ d.lost = c.lost
  BY <1>6 DEF ContextType
<1>8. /\ ctx' \in ContextType /\ ctx'.ref = ctx.ref /\ ctx'.detached = ctx.detached
      /\ ctx'.invalid = TRUE /\ ctx'.queued = ctx.queued /\ ctx'.retired = ctx.queued
      /\ ctx'.lost = ctx.lost
  BY <1>2, <1>4, <1>5, <1>6, <1>7
<1>9. PICK t \in Nat : th' = [th EXCEPT ![x].pc = "cancel_queued", ![x].at = t]
  <2>1. PICK t \in ctx.retired..ctx.queued : th' = [th EXCEPT ![x].pc = "cancel_queued", ![x].at = t]
    BY DEF InvalidateMark
  <2>2. PICK a, b \in Nat : a = ctx.retired /\ b = ctx.queued
    BY <1>1, TypesNow
  <2>3. t \in Nat
    BY <2>2
  <2> QED BY <2>1, <2>3, Zenon
<1>10. PICK r \in ThreadType : r = th[x]
  BY <1>1, TypesNow
<1>11. PICK s : s = [r EXCEPT !.pc = "cancel_queued", !.at = t]
  OBVIOUS
<1>12. s \in ThreadType /\ s.pc = "cancel_queued" /\ s.why = r.why
  BY <1>11, StepNames DEF ThreadType
<1>13. th' = [th EXCEPT ![x] = s]
  <2>1. th \in [Thread -> ThreadType]
    BY <1>1 DEF StateTypes
  <2> QED BY <1>9, <1>10, <1>11, <2>1
<1>14. /\ th' \in [Thread -> ThreadType] /\ Others(x)
       /\ th'[x].pc = "cancel_queued" /\ th'[x].why = "invalidate"
  BY <1>1, <1>3, <1>10, <1>12, <1>13, SetFields, SameIsKept
<1>15. Clock
  <2>1. ctx.queued \in Nat /\ ctx.retired \in Nat /\ group.processed \in Nat
    BY <1>1, TypesNow
  <2> QED BY <1>1, <1>2, <1>8, <2>1 DEF Clock, ClockInv
<1>16. Agree(th'[x].pc, th'[x].why)
  BY <1>14, StepNames DEF Agree
<1>17. CallOK(x)' /\ CallTime(x)'
  BY <1>8, <1>14, <1>16, StepNames DEF CallOK, CallTime
<1>18. /\ DetachInv'
       /\ Reach(DetachSteps)' <=> Reach(DetachSteps)
       /\ Reach({"drain"})' <=> Reach({"drain"})
       /\ Reach({"drain", "cancel_all"})' <=> Reach({"drain", "cancel_all"})
  BY <1>1, <1>2, <1>8, <1>14, DetachKept, StepNames
<1>19. DrainInv'
  BY <1>1, <1>2, <1>8, <1>18, DrainKept
<1>20. SleepInv' /\ Own' = Own
  BY <1>8, <1>18 DEF SleepInv, Own
<1>21. StateTypes' /\ CallsInv' /\ ClockInv' /\ EventInv' /\ ListsInv' /\ RefsInv'
  BY <1>2, <1>8, <1>14, <1>15, <1>17, <1>20, ContextStepKeeps, StepNames
<1> QED BY <1>18, <1>19, <1>20, <1>21 DEF EventsIInv
-----------------------------------------------------------------------------
(* The dispatcher signals events.                                          *)

LEMMA CancelEventsTimestampKeeps ==
  ASSUME EventsIInv, NEW x \in Thread, CancelEventsTimestamp(x)
  PROVE  EventsIInv'
<1>1. StateTypes /\ CallOK(x)
  BY DEF EventsIInv, CallsInv
<1>2. PICK S : S = {e \in Listed : TimestampCmp(TS(th[x].at + 1), TS(ev[e].at)) = 0}
  OBVIOUS
<1>3. PICK result : result = [e \in S |-> "cancelled"]
  OBVIOUS
<1>4. th[x].pc = "cancel_queued" /\ ctx' = ctx
  BY DEF CancelEventsTimestamp
<1>5. th[x].why = "invalidate" /\ ctx.invalid
  BY <1>1, <1>4, StepNames DEF CallOK, Agree
<1>6. CASE /\ SignalEvents(S, result) /\ group' = [group EXCEPT !.events = Unlisted(S)]
           /\ th' = [th EXCEPT ![x].at = @ + 1]
  <2>1. S \subseteq Listed
    BY <1>2
  <2>2. \A e \in S : result[e] = "cancelled"
    BY <1>3
  <2>3. SignalStep(S, result)
    BY <1>4, <1>6, <2>1, <2>2, UnlistFields DEF SignalStep, Results
  <2>4. PICK r \in ThreadType : r = th[x]
    BY <1>1, TypesNow
  <2>5. PICK n \in Nat : n = r.at + 1
    BY ThreadFields
  <2>6. PICK s : s = [r EXCEPT !.at = n]
    OBVIOUS
  <2>7. s \in ThreadType /\ s.pc = r.pc /\ s.why = r.why
    BY <2>6 DEF ThreadType
  <2>8. th' = [th EXCEPT ![x] = s]
    BY <1>6, <2>4, <2>5, <2>6
  <2>9. /\ th' \in [Thread -> ThreadType] /\ Others(x)
        /\ th'[x].pc = "cancel_queued" /\ th'[x].why = "invalidate"
    BY <1>1, <1>4, <1>5, <2>4, <2>7, <2>8, SetFields, SameIsKept
  <2>10. StayStep(x) /\ CallStep(x)
    BY <1>4, <2>9, StepNames DEF StayStep, CallStep
  <2>11. Agree(th'[x].pc, th'[x].why)
    BY <2>9, StepNames DEF Agree
  <2>12. CallOK(x)' /\ CallTime(x)'
    BY <1>4, <1>5, <2>9, <2>11, StepNames DEF CallOK, CallTime
  <2>13. SleepInv'
    BY <1>4, <1>5 DEF SleepInv
  <2> QED BY <2>3, <2>10, <2>12, <2>13, SignalCallKeeps
<1>7. CASE To(x, "flush") /\ UNCHANGED <<group, ev, work>>
  <2>1. Agree("flush", th[x].why)
    BY <1>5, StepNames DEF Agree
  <2> QED BY <1>4, <1>5, <1>7, <2>1, StepTo, StepNames
<1> QED BY <1>2, <1>3, <1>6, <1>7 DEF CancelEventsTimestamp

\* An event on the list is compared with the retired timestamp as time is.
LEMMA ListedIsNear ==
  ASSUME EventsIInv, NEW e \in Listed
  PROVE  TimestampCmp(TS(ev[e].at), TS(ctx.retired)) <= 0 <=> ev[e].at <= ctx.retired
<1>1. StateTypes /\ ClockInv /\ EventRight(e) /\ e \in Event /\ ev[e].st = "listed"
  BY DEF EventsIInv, EventInv, Listed
<1>2. PICK a, p, q, r, w \in Nat : /\ a = ev[e].at /\ p = group.processed /\ q = ctx.queued
                                   /\ r = ctx.retired /\ w = Window
  BY <1>1, TypesNow
<1>3. p < a /\ a < r + w
  BY <1>1, <1>2 DEF EventRight
<1>4. r <= q /\ q < p + w
  BY <1>1, <1>2 DEF ClockInv
<1>5. InWindow(a, r)
  BY <1>2, <1>3, <1>4 DEF InWindow
<1> QED BY <1>2, <1>5, CmpIsTime

LEMMA ProcessEventGroupKeeps ==
  ASSUME EventsIInv, NEW x \in Thread, ProcessEventGroup(x)
  PROVE  EventsIInv'
<1>1. StateTypes /\ CallOK(x) /\ ClockInv /\ ListsInv /\ SleepInv
  BY DEF EventsIInv, CallsInv
<1> DEFINE flush == th[x].pc = "flush"
           done(e) == TimestampCmp(TS(ev[e].at), TS(ctx.retired)) <= 0
<1>2. PICK S : S = {e \in Listed : flush \/ done(e)}
  OBVIOUS
<1>3. PICK result : result = [e \in S |-> IF done(e) THEN "retired" ELSE "cancelled"]
  OBVIOUS
<1>4. PICK p : p = (IF flush THEN "wake" ELSE "put") /\ To(x, p) /\ p \in PC
  BY StepNames DEF ProcessEventGroup
<1>5. th[x].pc \in {"process", "flush"} /\ ctx' = ctx
  BY DEF ProcessEventGroup
<1>6. flush => th[x].why = "invalidate" /\ ctx.invalid
  BY <1>1, StepNames DEF CallOK, Agree
<1>7. Agree(p, th[x].why) /\ p \in {"wake", "put"} /\ (p \in InvalidateSteps => ctx.invalid)
  BY <1>4, <1>6, StepNames DEF Agree
<1>8. \A e \in Listed : done(e) <=> ev[e].at <= ctx.retired
  BY ListedIsNear
<1>9. CASE /\ SignalEvents(S, result)
           /\ group' = [group EXCEPT !.events = Unlisted(S), !.processed = ctx.retired]
  <2>1. S \subseteq Listed
    BY <1>2
  <2>2. \A e \in S : result[e] \in Results /\ (result[e] = "retired" => ev[e].at <= ctx.retired)
    <3>1. \A e \in S : result[e] = IF done(e) THEN "retired" ELSE "cancelled"
      BY <1>3
    <3> HIDE DEF done
    <3> QED BY <1>8, <2>1, <3>1 DEF Results
  <2>3. /\ group' \in GroupType /\ group'.listed = group.listed
        /\ group'.events = Unlisted(S) /\ group'.processed = ctx.retired
    <3>1. PICK g \in GroupType, s \in Seq(Event), n \in Nat :
            g = group /\ s = Unlisted(S) /\ n = ctx.retired
      BY <1>1, <2>1, ListParts, TypesNow DEF StateTypes
    <3>2. PICK d : d = [g EXCEPT !.events = s, !.processed = n]
      OBVIOUS
    <3>3. d \in GroupType /\ d.listed = g.listed /\ d.events = s /\ d.processed = n
      BY <3>2 DEF GroupType
    <3> QED BY <1>9, <3>1, <3>2, <3>3
  <2>4. IsInjective(group'.events) /\ ToSet(group'.events) = Listed \ S
    BY <1>1, <2>1, <2>3, ListParts
  <2>5. group.processed <= group'.processed /\ group'.processed <= ctx.retired
    BY <1>1, <2>3, TypesNow DEF ClockInv
  <2>6. \A e \in Listed : e \notin S => group'.processed < ev[e].at
    <3>1. \A e \in Listed : ev[e].at \in Nat /\ ctx.retired \in Nat
      BY <1>1, TypesNow DEF Listed
    <3>2. \A e \in Listed : e \notin S => ~(ev[e].at <= ctx.retired)
      BY <1>2, <1>8
    <3> QED BY <2>3, <3>1, <3>2
  <2>7. SignalStep(S, result)
    BY <1>5, <1>9, <2>1, <2>2, <2>3, <2>4, <2>5, <2>6 DEF SignalStep
  <2>8. StayStep(x) /\ CallOK(x)' /\ CallTime(x)' /\ CallStep(x)
    BY <1>4, <1>5, <1>7, StayTo, CallTo, StepNames
  <2>9. /\ StateTypes' /\ Clock /\ SameContext
        /\ \A e \in Event : e \notin S => ev'[e] = ev[e]
    BY <2>7, <2>8, SignalStepKeeps
  <2>10. SleepInv'
    <3>1. CASE flush
      BY <1>5, <1>6, <3>1 DEF SleepInv
    <3>2. CASE ~flush
      <4>1. ASSUME NEW t \in Wanted, t > ctx'.retired
            PROVE  Waiters(t)' \subseteq Waiters(t) /\ WaitEvents(t) \subseteq WaitEvents(t)'
        <5>1. t \in Nat /\ ctx.retired \in Nat /\ t > ctx.retired
          BY <1>1, <1>5, <4>1, TypesNow, EventsAssumption
        <5>2. \A e \in Event : ev[e].st = "listed" /\ ev[e].at = t => e \notin S
          BY <1>2, <1>8, <3>2, <5>1 DEF Listed
        <5>3. WaitEvents(t) \subseteq WaitEvents(t)'
          BY <2>9, <5>2, WaitEventsKept
        <5> QED BY <2>8, <5>3, WaitersKept DEF CallStep
      <4> QED BY <1>1, <2>9, <4>1, SleepKept DEF SameContext
    <3> QED BY <3>1, <3>2
  <2> QED BY <2>7, <2>8, <2>10, SignalCallKeeps
<1>10. CASE ~flush /\ UNCHANGED <<ev, work, group>>
  BY <1>4, <1>5, <1>7, <1>10, StepTo, StepNames
<1> QED BY <1>2, <1>3, <1>9, <1>10 DEF ProcessEventGroup
-----------------------------------------------------------------------------
(* An event is added.                                                      *)

\* A call's timestamp is compared with those of the context as time is.
LEMMA CallIsNear ==
  ASSUME EventsIInv, NEW x \in Thread, th[x].why \in {"wait", "event"}
  PROVE  /\ x \in User /\ th[x].at \in Wanted /\ Near(th[x].at)
         /\ TimestampCmp(TS(th[x].at), TS(ctx.queued)) <= 0 <=> th[x].at <= ctx.queued
         /\ Retired(th[x].at) <=> ctx.retired >= th[x].at
<1>1. StateTypes /\ ClockInv /\ CallOK(x) /\ CallTime(x)
  BY DEF EventsIInv, CallsInv
<1>2. x \in User /\ th[x].at \in Wanted /\ Near(th[x].at)
  BY <1>1 DEF CallOK, CallTime
<1>3. PICK a, q, r, w \in Nat : a = th[x].at /\ q = ctx.queued /\ r = ctx.retired /\ w = Window
  BY <1>1, TypesNow
<1>4. q < a + w /\ a < r + w
  BY <1>2, <1>3 DEF Near
<1>5. r <= q
  BY <1>1, <1>3 DEF ClockInv
<1>6. InWindow(a, q) /\ InWindow(r, a)
  BY <1>3, <1>4, <1>5 DEF InWindow
<1>7. TimestampCmp(TS(a), TS(q)) <= 0 <=> a <= q
  BY <1>6, CmpIsTime
<1>8. TimestampCmp(TS(r), TS(a)) >= 0 <=> r >= a
  BY <1>6, CmpIsTime
<1> QED BY <1>2, <1>3, <1>7, <1>8 DEF Retired

LEMMA AddEventKeeps ==
  ASSUME EventsIInv, NEW x \in Thread, AddEvent(x)
  PROVE  EventsIInv'
<1>1. /\ StateTypes /\ CallsInv /\ ClockInv /\ EventInv /\ ListsInv /\ DetachInv /\ DrainInv
      /\ SleepInv /\ RefsInv /\ CallOK(x)
  BY DEF EventsIInv, CallsInv
<1>2. th[x].pc = "add" /\ UNCHANGED <<group, work>>
  BY DEF AddEvent
<1>3. th[x].why \in {"wait", "event"}
  BY <1>1, <1>2 DEF CallOK, Agree
<1>4. CASE To(x, "put") /\ UNCHANGED <<ctx, ev>>
  <2>1. Agree("put", th[x].why)
    BY StepNames DEF Agree
  <2> QED BY <1>2, <1>4, <2>1, StepTo, StepNames
<1>5. ASSUME UserTS \/ TimestampCmp(TS(th[x].at), TS(ctx.queued)) <= 0,
             NEW e \in Event, ev[e].st = "none",
             ev' = [ev EXCEPT ![e] = [NoEvent EXCEPT !.st = "new", !.at = th[x].at, !.why = th[x].why]],
             th' = [th EXCEPT ![x].pc = "insert", ![x].e = e],
             ctx' = [ctx EXCEPT !.ref = @ + 1]
      PROVE  EventsIInv'
  <2>1. PICK n : n = [NoEvent EXCEPT !.st = "new", !.at = th[x].at, !.why = th[x].why]
    OBVIOUS
  <2>2. n \in EventType /\ n.st = "new" /\ n.at = th[x].at /\ n.why = th[x].why /\ n.result = "none"
    <3>1. PICK a \in Wanted, y \in {"wait", "event"} : a = th[x].at /\ y = th[x].why
      BY <1>3, CallIsNear
    <3> QED BY <2>1, <3>1 DEF NoEvent, EventType
  <2>3. /\ ev' \in [Event -> EventType] /\ ev'[e] = n
        /\ \A f \in Event : f # e => ev'[f] = ev[f]
    BY <1>1, <1>5, <2>1, <2>2 DEF StateTypes
  <2>4. PICK r \in ThreadType : r = th[x]
    BY <1>1, TypesNow
  <2>5. PICK s : s = [r EXCEPT !.pc = "insert", !.e = e]
    OBVIOUS
  <2>6. s \in ThreadType /\ s.pc = "insert" /\ s.why = r.why /\ s.at = r.at /\ s.e = e
    BY <2>5, StepNames DEF ThreadType
  <2>7. th' = [th EXCEPT ![x] = s]
    <3>1. th \in [Thread -> ThreadType]
      BY <1>1 DEF StateTypes
    <3> QED BY <1>5, <2>4, <2>5, <3>1
  <2>8. /\ th' \in [Thread -> ThreadType] /\ Others(x) /\ th'[x].pc = "insert" /\ th'[x].e = e
        /\ th'[x].why = th[x].why /\ th'[x].at = th[x].at
        /\ \A y \in Thread : y # x => th'[y] = th[y]
    BY <1>1, <2>4, <2>6, <2>7, SetFields, SameIsKept
  <2>9. PICK k \in Int : k = ctx.ref + 1
    BY <1>1, TypesNow
  <2>10. ctx' \in ContextType /\ ctx'.ref = ctx.ref + 1 /\ SameContext
    BY <1>1, <1>5, <2>9, RefFields
  <2>11. StateTypes'
    BY <1>1, <1>2, <2>3, <2>8, <2>10 DEF StateTypes
  <2>12. Clock
    BY <1>1, <1>2, <2>10, SameClock DEF SameContext
  <2>13. \A y \in Thread : th[y].pc = "insert" => th[y].e \in Event /\ th[y].e # e
    BY <1>1, <1>5 DEF CallsInv, InsertOK
  <2>14. NewKept(x)
    BY <2>3, <2>13 DEF NewKept
  <2>15. InsertOK(x)'
    <3>1. \A y \in Thread : th'[y].pc = "insert" /\ th'[y].e = e => x = y
      BY <2>8, <2>13
    <3> QED BY <2>2, <2>3, <2>8, <3>1 DEF InsertOK
  <2>16. Agree(th'[x].pc, th'[x].why)
    BY <1>3, <2>8, StepNames DEF Agree
  <2>17. CallOK(x)'
    BY <1>1, <2>8, <2>16, StepNames DEF CallOK
  <2>18. CallTime(x)'
    <3>1. UserTS \/ th[x].at <= ctx.queued
      BY <1>3, <1>5, CallIsNear
    <3>2. ctx.queued < th[x].at + Window /\ th[x].at < ctx.retired + Window
      BY <1>3, CallIsNear DEF Near
    <3> QED BY <2>8, <2>10, <3>1, <3>2 DEF CallTime, Near, SameContext
  <2>19. CallsInv'
    BY <1>1, <2>8, <2>10, <2>11, <2>12, <2>14, <2>15, <2>17, <2>18, CallsKept DEF SameContext
  <2>20. EventInv'
    <3>1. EventRight(e)'
      BY <2>2, <2>3 DEF EventRight
    <3>2. \A f \in Event : ev[f].st = "listed" => group'.processed < ev[f].at
      BY <1>1, <1>2 DEF EventInv, EventRight
    <3> QED BY <1>1, <2>3, <2>11, <2>12, <3>1, <3>2, EventsKept
  <2>21. ListsInv'
    <3>1. Listed' = Listed /\ {f \in Event : ev'[f].st = "queued"} = {f \in Event : ev[f].st = "queued"}
      BY <1>5, <2>2, <2>3 DEF Listed
    <3> QED BY <1>1, <1>2, <3>1 DEF ListsInv
  <2>22. /\ DetachInv'
         /\ Reach(DetachSteps)' <=> Reach(DetachSteps)
         /\ Reach({"drain"})' <=> Reach({"drain"})
         /\ Reach({"drain", "cancel_all"})' <=> Reach({"drain", "cancel_all"})
    BY <1>1, <1>2, <2>8, <2>10, DetachKept, StepNames DEF SameContext
  <2>23. DrainInv'
    BY <1>1, <1>2, <2>10, <2>22, DrainKept DEF SameContext
  <2>24. SleepInv'
    <3>1. \A t \in Wanted : Waiters(t)' \subseteq Waiters(t)
      BY <2>8, WaitersKept, StepNames
    <3>2. \A t \in Wanted : WaitEvents(t) \subseteq WaitEvents(t)'
      BY <1>5, <2>3, WaitEventsKept
    <3> QED BY <1>1, <2>10, <2>11, <2>12, <3>1, <3>2, SleepKept DEF SameContext
  <2>25. RefsInv'
    <3>1. PICK a, b, c, d \in Int : /\ a = ctx.ref /\ b = Own /\ c = Cardinality(Busy)
                                    /\ d = Cardinality(Used)
      BY <1>1, UsersFinite, TypesNow DEF Own
    <3>2. a = b + c + d
      BY <1>1, <3>1 DEF RefsInv
    <3>3. Cardinality(Busy') = c
      BY <1>2, <2>8, <3>1, BusyStep, StepNames
    <3>4. Cardinality(Used') = d + 1
      <4>1. PICK A, B : A = Used /\ B = Used' /\ IsFiniteSet(A)
        BY UsersFinite
      <4>2. B = A \cup {e} /\ e \notin A
        BY <1>5, <2>2, <2>3, <4>1 DEF Used
      <4>3. Cardinality(B) = Cardinality(A) + 1
        BY <4>1, <4>2, FS_AddElement
      <4> QED BY <3>1, <4>1, <4>3
    <3>5. Own' = b
      BY <2>10, <2>22, <3>1 DEF Own, SameContext
    <3>6. ctx'.ref = b + c + (d + 1)
      BY <2>10, <3>1, <3>2
    <3> QED BY <3>3, <3>4, <3>5, <3>6 DEF RefsInv
  <2>26. ClockInv'
    BY <1>1, <2>11, <2>12, ClockKept
  <2> QED BY <2>11, <2>19, <2>20, <2>21, <2>22, <2>23, <2>24, <2>25, <2>26 DEF EventsIInv
<1> QED BY <1>4, <1>5 DEF AddEvent
\* What the insertion of an event leaves to show, whichever list it joins.
Inserted(x, e) ==
  /\ ev' \in [Event -> EventType] /\ \A f \in Event : f # e => ev'[f] = ev[f]
  /\ ev'[e].st \in {"listed", "queued"} /\ ev'[e].at = ev[e].at /\ ev'[e].why = ev[e].why
  /\ th' \in [Thread -> ThreadType] /\ \A y \in Thread : y # x => th'[y] = th[y]
  /\ th'[x].pc = (IF th[x].why = "wait" THEN "test" ELSE "put")
  /\ th'[x].why = th[x].why /\ th'[x].at = th[x].at /\ ctx' = ctx
  /\ group' \in GroupType /\ group'.listed = group.listed /\ group'.processed = group.processed
  /\ work' \in Seq(Event)

\* Whoever inserts an event.
Inserting(x, e) ==
  /\ th[x].pc = "insert" /\ e = th[x].e /\ e \in Event
  /\ ev[e].st = "new" /\ ev[e].at = th[x].at /\ ev[e].why = th[x].why
  /\ th[x].why \in {"wait", "event"}

LEMMA InsertStepKeeps ==
  ASSUME EventsIInv, NEW x \in Thread, NEW e, Inserting(x, e), Inserted(x, e)
  PROVE  /\ StateTypes' /\ CallsInv' /\ ClockInv' /\ DetachInv' /\ RefsInv' /\ Clock /\ Others(x)
         /\ Reach({"drain"})' <=> Reach({"drain"})
         /\ Reach({"drain", "cancel_all"})' <=> Reach({"drain", "cancel_all"})
         /\ EventRight(e)' => EventInv'
<1>1. /\ StateTypes /\ CallsInv /\ ClockInv /\ EventInv /\ DetachInv /\ RefsInv
      /\ CallOK(x) /\ CallTime(x) /\ InsertOK(x)
  BY DEF EventsIInv, CallsInv
<1>2. StateTypes'
  BY <1>1 DEF StateTypes, Inserted
<1>3. SameContext /\ ctx' = ctx
  BY DEF SameContext, Inserted
<1>4. Clock
  BY <1>1, <1>3, SameClock DEF SameContext, Inserted
<1>5. Others(x)
  BY SameIsKept DEF Inserted
<1>6. /\ th'[x].why \in {"wait", "event"} /\ th'[x].pc \in {"test", "put"}
      /\ th'[x].pc = "test" => th'[x].why = "wait"
  BY DEF Inserted, Inserting
<1>7. NewKept(x)
  <2>1. ASSUME NEW y \in Thread, y # x, th[y].pc = "insert" PROVE th[y].e \in Event /\ th[y].e # e
    <3>1. InsertOK(y)
      BY <1>1 DEF CallsInv
    <3> QED BY <2>1, <3>1 DEF InsertOK, Inserting
  <2> QED BY <2>1 DEF NewKept, Inserted
<1>8. Agree(th'[x].pc, th'[x].why)
  BY <1>6, StepNames DEF Agree
<1>9. CallOK(x)' /\ InsertOK(x)'
  <2>1. th[x].why \in {"wait", "event"} => x \in User /\ th[x].at \in Wanted
    BY <1>1 DEF CallOK
  <2>2. th'[x].why = th[x].why /\ th'[x].at = th[x].at
    BY DEF Inserted
  <2> QED BY <1>6, <1>8, <2>1, <2>2, StepNames DEF CallOK, InsertOK
<1>10. CallTime(x)'
  <2>1. th[x].why \in {"wait", "event"} => ctx.queued < th[x].at + Window /\ th[x].at < ctx.retired + Window
    BY <1>1 DEF CallTime, Near
  <2>2. th'[x].why = th[x].why /\ th'[x].at = th[x].at
    BY DEF Inserted
  <2> QED BY <1>3, <1>6, <2>1, <2>2 DEF CallTime, Near
<1>11. CallsInv'
  BY <1>1, <1>2, <1>3, <1>4, <1>5, <1>7, <1>9, <1>10, CallsKept
<1>12. ClockInv'
  BY <1>1, <1>2, <1>4, ClockKept
<1>13. /\ DetachInv'
       /\ Reach(DetachSteps)' <=> Reach(DetachSteps)
       /\ Reach({"drain"})' <=> Reach({"drain"})
       /\ Reach({"drain", "cancel_all"})' <=> Reach({"drain", "cancel_all"})
  BY <1>1, <1>3, <1>5, <1>6, DetachKept, StepNames DEF Inserting, Inserted
<1>14. RefsInv'
  <2>1. \A f \in Event : ev'[f].st = "none" <=> ev[f].st = "none"
    BY DEF Inserting, Inserted
  <2>2. Used' = Used
    BY <2>1, UsedSame
  <2>3. RefStep(x) /\ Own' = Own
    BY <1>3, <1>6, <1>13, StepNames DEF RefStep, Own, Inserting
  <2> QED BY <1>1, <1>5, <2>2, <2>3, RefsKept
<1>15. EventRight(e)' => EventInv'
  <2>1. \A f \in Event : ev[f].st = "listed" => group'.processed < ev[f].at
    BY <1>1 DEF EventInv, EventRight, Inserted
  <2>2. \A f \in Event : f # e => ev'[f] = ev[f]
    BY DEF Inserted
  <2> QED BY <1>1, <1>2, <1>4, <2>1, <2>2, EventsKept
<1> QED BY <1>2, <1>4, <1>5, <1>11, <1>12, <1>13, <1>14, <1>15

\* An event that has retired goes to the worker.
LEMMA InsertRetired ==
  ASSUME EventsIInv, NEW x \in Thread, NEW e, Inserting(x, e), Inserted(x, e),
         th[x].at <= ctx.retired, ev'[e].st = "queued", work' = Append(work, e), group' = group
  PROVE  EventsIInv'
<1>1. StateTypes /\ ListsInv /\ DrainInv /\ SleepInv /\ e \in Event /\ ctx' = ctx
  BY DEF EventsIInv, Inserting, Inserted
<1>2. /\ StateTypes' /\ CallsInv' /\ ClockInv' /\ DetachInv' /\ RefsInv' /\ Clock /\ Others(x)
      /\ Reach({"drain"})' <=> Reach({"drain"})
      /\ Reach({"drain", "cancel_all"})' <=> Reach({"drain", "cancel_all"})
      /\ EventRight(e)' => EventInv'
  BY InsertStepKeeps
<1>3. EventInv'
  <2>1. EventRight(e)'
    BY <1>1 DEF EventRight, Inserting, Inserted
  <2> QED BY <1>2, <2>1
<1>4. ListsInv'
  <2>1. PICK s, t : s = work /\ t = <<e>>
    OBVIOUS
  <2>2. PICK Q : Q = {f \in Event : ev[f].st = "queued"}
    OBVIOUS
  <2>3. s \in Seq(Event) /\ IsInjective(s) /\ ToSet(s) = Q
    BY <1>1, <2>1, <2>2 DEF ListsInv, StateTypes
  <2>4. t \in Seq(Event) /\ IsInjective(t) /\ ToSet(t) = {e}
    BY <1>1, <2>1 DEF IsInjective, ToSet
  <2>5. e \notin Q
    BY <2>2 DEF Inserting
  <2>6. IsInjective(s \o t) /\ ToSet(s \o t) = Q \cup {e}
    BY <2>3, <2>4, <2>5, JoinLists
  <2>7. work' = s \o t
    BY <1>1, <2>1, <2>3
  <2>8. Q \cup {e} = {f \in Event : ev'[f].st = "queued"}
    BY <1>1, <2>2 DEF Inserted
  <2>9. Listed' = Listed
    BY DEF Listed, Inserting, Inserted
  <2> QED BY <1>1, <2>6, <2>7, <2>8, <2>9 DEF ListsInv
<1>5. DrainInv'
  BY <1>1, <1>2, DrainKept
<1>6. SleepInv'
  <2>1. ASSUME NEW t \in Wanted, t > ctx'.retired
        PROVE  Waiters(t)' \subseteq Waiters(t) /\ WaitEvents(t) \subseteq WaitEvents(t)'
    <3>1. t # th[x].at
      <4>1. t \in Nat /\ th[x].at \in Nat /\ ctx.retired \in Nat
        BY <1>1, TypesNow, EventsAssumption
      <4> QED BY <1>1, <2>1, <4>1
    <3>2. ASSUME NEW y \in User, th'[y].pc \in WaitSteps, th'[y].at = t
          PROVE  th[y].pc \in WaitSteps /\ th[y].at = t
      <4>1. y \in Thread /\ y # x
        BY <3>1, <3>2 DEF Thread, Inserted
      <4> QED BY <3>2, <4>1 DEF Inserted
    <3>3. Waiters(t)' \subseteq Waiters(t)
      BY <3>2 DEF Waiters
    <3>4. WaitEvents(t) \subseteq WaitEvents(t)'
      BY WaitEventsKept DEF Inserting, Inserted
    <3> QED BY <3>3, <3>4
  <2> QED BY <1>1, <1>2, <2>1, SleepKept
<1> QED BY <1>2, <1>3, <1>4, <1>5, <1>6 DEF EventsIInv

\* Any other joins the list, and its waiter the others.
LEMMA InsertListed ==
  ASSUME EventsIInv, NEW x \in Thread, NEW e, Inserting(x, e), Inserted(x, e),
         th[x].at > ctx.retired, ev'[e].st = "listed", ev'[e].result = ev[e].result,
         group'.events = Append(group.events, e), work' = work
  PROVE  EventsIInv'
<1>1. /\ StateTypes /\ ListsInv /\ DrainInv /\ SleepInv /\ ClockInv /\ EventRight(e) /\ e \in Event
      /\ ctx' = ctx /\ CallTime(x)
  BY DEF EventsIInv, Inserting, Inserted, CallsInv, EventInv
<1>2. /\ StateTypes' /\ CallsInv' /\ ClockInv' /\ DetachInv' /\ RefsInv' /\ Clock /\ Others(x)
      /\ Reach({"drain"})' <=> Reach({"drain"})
      /\ Reach({"drain", "cancel_all"})' <=> Reach({"drain", "cancel_all"})
      /\ EventRight(e)' => EventInv'
  BY InsertStepKeeps
<1>3. EventInv'
  <2>1. group.processed < th[x].at /\ th[x].at < ctx.retired + Window
    <3>1. PICK a, p, r, w \in Nat : a = th[x].at /\ p = group.processed /\ r = ctx.retired /\ w = Window
      BY <1>1, TypesNow
    <3>2. p <= r /\ a > r
      BY <1>1, <3>1 DEF ClockInv
    <3>3. a < r + w
      BY <1>1, <3>1 DEF CallTime, Near, Inserting
    <3> QED BY <3>1, <3>2, <3>3
  <2>2. EventRight(e)'
    BY <1>1, <2>1 DEF EventRight, Inserting, Inserted
  <2> QED BY <1>2, <2>2
<1>4. ListsInv'
  <2>1. PICK s, t : s = group.events /\ t = <<e>>
    OBVIOUS
  <2>2. s \in Seq(Event) /\ IsInjective(s) /\ ToSet(s) = Listed
    BY <1>1, <2>1, TypesNow DEF ListsInv
  <2>3. t \in Seq(Event) /\ IsInjective(t) /\ ToSet(t) = {e}
    BY <1>1, <2>1 DEF IsInjective, ToSet
  <2>4. e \notin Listed
    BY DEF Inserting, Listed
  <2>5. IsInjective(s \o t) /\ ToSet(s \o t) = Listed \cup {e}
    BY <2>2, <2>3, <2>4, JoinLists
  <2>6. group'.events = s \o t
    <3>1. Append(s, e) = s \o <<e>>
      BY <1>1, <2>2
    <3> QED BY <2>1, <3>1
  <2>7. Listed \cup {e} = Listed'
    BY <1>1 DEF Inserted, Listed
  <2>8. {f \in Event : ev[f].st = "queued"} = {f \in Event : ev'[f].st = "queued"}
    BY DEF Inserting, Inserted
  <2> QED BY <1>1, <2>5, <2>6, <2>7, <2>8 DEF ListsInv
<1>5. DrainInv'
  <2>1. SUFFICES ASSUME ctx.detached, ~ctx.lost
                 PROVE  /\ Reach({"drain"})' \/ ctx'.retired = ctx'.queued
                        /\ UserTS \/ Reach({"drain", "cancel_all"})'
    BY <1>1 DEF DrainInv
  <2>2. Reach({"drain"}) \/ ctx.retired = ctx.queued
    BY <1>1, <2>1 DEF DrainInv
  <2>3. CASE Reach({"drain"})
    <3>1. Reach({"drain", "cancel_all"})
      BY <2>3 DEF Reach
    <3> QED BY <1>2, <2>3, <3>1
  <2>4. CASE ctx.retired = ctx.queued
    <3>1. UserTS
      <4>1. th[x].at \in Nat /\ ctx.retired \in Nat
        BY <1>1, TypesNow
      <4>2. ~(th[x].at <= ctx.queued)
        BY <2>4, <4>1
      <4> QED BY <1>1, <4>2 DEF CallTime, Inserting
    <3> QED BY <1>1, <2>4, <3>1
  <2> QED BY <2>2, <2>3, <2>4
<1>6. SleepInv'
  <2>1. SUFFICES ASSUME ~ctx'.detached, ~ctx'.invalid, NEW t \in Wanted, t > ctx'.retired
                 PROVE  (Cardinality(Waiters(t)) <= Cardinality(WaitEvents(t)))'
    BY DEF SleepInv
  <2>2. PICK A, B, C, D : A = Waiters(t) /\ B = WaitEvents(t) /\ C = Waiters(t)' /\ D = WaitEvents(t)'
    OBVIOUS
  <2>3. IsFiniteSet(A) /\ IsFiniteSet(B) /\ IsFiniteSet(C) /\ IsFiniteSet(D)
    BY <2>2, SleepersFinite
  <2>4. Cardinality(A) \in Nat /\ Cardinality(B) \in Nat /\ Cardinality(C) \in Nat /\ Cardinality(D) \in Nat
    BY <2>3, FS_CardinalityType
  <2>5. Cardinality(A) <= Cardinality(B)
    BY <1>1, <2>1, <2>2 DEF SleepInv
  <2>6. B \subseteq D
    <3>1. \A f \in Event : ev[f].st = "listed" /\ ev[f].at = t => ev'[f] = ev[f]
      BY DEF Inserting, Inserted
    <3> QED BY <2>2, <3>1, WaitEventsKept
  <2>7. ASSUME NEW y \in User, y # x, th'[y].pc \in WaitSteps, th'[y].at = t
        PROVE  th[y].pc \in WaitSteps /\ th[y].at = t
    BY <2>7 DEF Thread, Inserted
  <2>8. C \subseteq A \cup {x}
    BY <2>2, <2>7 DEF Waiters
  <2>9. CASE x \notin C
    <3>1. C \in SUBSET A /\ B \in SUBSET D
      BY <2>6, <2>8, <2>9
    <3>2. Cardinality(C) <= Cardinality(A) /\ Cardinality(B) <= Cardinality(D)
      BY <2>3, <3>1, FS_Subset
    <3>3. Cardinality(C) <= Cardinality(D)
      BY <2>4, <2>5, <3>2
    <3> QED BY <2>2, <3>3
  <2>10. CASE x \in C
    <3>1. th'[x].pc \in WaitSteps /\ th'[x].at = t
      BY <2>2, <2>10 DEF Waiters
    <3>2. th[x].why = "wait" /\ th[x].at = t
      BY <3>1, StepNames DEF Inserted
    <3>3. e \in D /\ e \notin B
      BY <1>1, <2>2, <3>2 DEF WaitEvents, Inserting, Inserted
    <3>4. x \notin A
      BY <2>2, StepNames DEF Waiters, Inserting
    <3>5. PICK E, F : E = A \cup {x} /\ F = B \cup {e}
      OBVIOUS
    <3>6. /\ IsFiniteSet(E) /\ Cardinality(E) = Cardinality(A) + 1
          /\ IsFiniteSet(F) /\ Cardinality(F) = Cardinality(B) + 1
      BY <2>3, <3>3, <3>4, <3>5, FS_AddElement
    <3>7. C \in SUBSET E /\ F \in SUBSET D
      BY <2>6, <2>8, <3>3, <3>5
    <3>8. Cardinality(C) <= Cardinality(E) /\ Cardinality(F) <= Cardinality(D)
      BY <2>3, <3>6, <3>7, FS_Subset
    <3>9. Cardinality(C) <= Cardinality(D)
      BY <2>4, <2>5, <3>6, <3>8
    <3> QED BY <2>2, <3>9
  <2> QED BY <2>9, <2>10
<1> QED BY <1>2, <1>3, <1>4, <1>5, <1>6 DEF EventsIInv

LEMMA InsertEventKeeps ==
  ASSUME EventsIInv, NEW x \in Thread, InsertEvent(x)
  PROVE  EventsIInv'
<1>1. StateTypes /\ CallOK(x) /\ InsertOK(x) /\ th[x].pc = "insert" /\ ctx' = ctx
  BY DEF EventsIInv, CallsInv, InsertEvent
<1>2. PICK e \in Event : e = th[x].e
  BY <1>1 DEF InsertOK
<1>3. Inserting(x, e)
  BY <1>1, <1>2 DEF Inserting, InsertOK, CallOK, Agree
<1>4. PICK v \in EventType : v = ev[e]
  BY <1>1, TypesNow
<1>5. PICK r \in ThreadType : r = th[x]
  BY <1>1, TypesNow
<1>6. PICK p \in {"test", "put"} : p = IF th[x].why = "wait" THEN "test" ELSE "put"
  OBVIOUS
<1>7. PICK s : s = [r EXCEPT !.pc = p, !.e = Null]
  OBVIOUS
<1>8. s \in ThreadType /\ s.pc = p /\ s.why = r.why /\ s.at = r.at
  BY <1>7, StepNames DEF ThreadType
<1>9. th' = [th EXCEPT ![x] = s]
  <2>1. th \in [Thread -> ThreadType]
    BY <1>1 DEF StateTypes
  <2> QED BY <1>5, <1>6, <1>7, <2>1 DEF InsertEvent
<1>10. /\ th' \in [Thread -> ThreadType] /\ \A y \in Thread : y # x => th'[y] = th[y]
       /\ th'[x].pc = (IF th[x].why = "wait" THEN "test" ELSE "put")
       /\ th'[x].why = th[x].why /\ th'[x].at = th[x].at
  BY <1>1, <1>5, <1>6, <1>8, <1>9, SetFields
<1>11. Retired(ev[e].at) <=> ctx.retired >= th[x].at
  BY <1>3, CallIsNear DEF Inserting
<1>12. th[x].at \in Nat /\ ctx.retired \in Nat
  BY <1>1, TypesNow
<1>13. CASE /\ Retired(ev[e].at) /\ work' = Append(work, e) /\ UNCHANGED group
            /\ ev' = [ev EXCEPT ![e].st = "queued", ![e].result = "retired"]
  <2>1. PICK n : n = [v EXCEPT !.st = "queued", !.result = "retired"]
    OBVIOUS
  <2>2. n \in EventType /\ n.st = "queued" /\ n.at = v.at /\ n.why = v.why
    BY <2>1 DEF EventType
  <2>3. ev' = [ev EXCEPT ![e] = n]
    BY <1>1, <1>4, <1>13, <2>1 DEF StateTypes
  <2>4. /\ ev' \in [Event -> EventType] /\ ev'[e] = n /\ \A f \in Event : f # e => ev'[f] = ev[f]
    BY <1>1, <2>2, <2>3 DEF StateTypes
  <2>5. work' \in Seq(Event) /\ group' \in GroupType
    BY <1>1, <1>13 DEF StateTypes
  <2>6. Inserted(x, e) /\ ev'[e].st = "queued"
    BY <1>1, <1>4, <1>10, <1>13, <2>2, <2>4, <2>5 DEF Inserted
  <2>7. th[x].at <= ctx.retired
    BY <1>11, <1>12, <1>13
  <2> QED BY <1>3, <1>13, <2>6, <2>7, InsertRetired
<1>14. CASE /\ ~Retired(ev[e].at) /\ group' = [group EXCEPT !.events = Append(@, e)]
            /\ UNCHANGED work /\ ev' = [ev EXCEPT ![e].st = "listed"]
  <2>1. PICK n : n = [v EXCEPT !.st = "listed"]
    OBVIOUS
  <2>2. n \in EventType /\ n.st = "listed" /\ n.at = v.at /\ n.why = v.why /\ n.result = v.result
    BY <2>1 DEF EventType
  <2>3. ev' = [ev EXCEPT ![e] = n]
    BY <1>1, <1>4, <1>14, <2>1 DEF StateTypes
  <2>4. /\ ev' \in [Event -> EventType] /\ ev'[e] = n /\ \A f \in Event : f # e => ev'[f] = ev[f]
    BY <1>1, <2>2, <2>3 DEF StateTypes
  <2>5. PICK q \in Seq(Event) : q = Append(group.events, e)
    <3>1. PICK g \in Seq(Event) : g = group.events
      BY <1>1, TypesNow
    <3>2. Append(g, e) \in Seq(Event)
      OBVIOUS
    <3> QED BY <3>1, <3>2, Zenon
  <2>6. /\ group' \in GroupType /\ group'.events = Append(group.events, e)
        /\ group'.listed = group.listed /\ group'.processed = group.processed
    BY <1>1, <1>14, <2>5, GroupEventsFields
  <2>7. work' \in Seq(Event)
    BY <1>1, <1>14 DEF StateTypes
  <2>8. Inserted(x, e) /\ ev'[e].st = "listed" /\ ev'[e].result = ev[e].result
    BY <1>1, <1>4, <1>10, <2>2, <2>4, <2>6, <2>7 DEF Inserted
  <2>9. th[x].at > ctx.retired
    BY <1>11, <1>12, <1>14
  <2> QED BY <1>3, <1>14, <2>6, <2>8, <2>9, InsertListed
<1> QED BY <1>2, <1>13, <1>14 DEF InsertEvent
-----------------------------------------------------------------------------
(* Steps of nobody's call.                                                 *)

AllKept == \A y \in Thread : Kept(y)

LEMMA NobodyMoves ==
  ASSUME AllKept
  PROVE  /\ Reach(DetachSteps)' <=> Reach(DetachSteps)
         /\ Reach({"drain"})' <=> Reach({"drain"})
         /\ Reach({"drain", "cancel_all"})' <=> Reach({"drain", "cancel_all"})
         /\ Reach({"drain", "cancel_all", "delete"})' <=> Reach({"drain", "cancel_all", "delete"})
         /\ Walking' => Walking
         /\ Busy' = Busy
         /\ \A t : Waiters(t)' \subseteq Waiters(t)
         /\ \A y, z \in Thread : th'[y].pc \in DetachSteps /\ th'[z].pc \in DetachSteps =>
                                   th[y].pc \in DetachSteps /\ th[z].pc \in DetachSteps
<1>1. ASSUME NEW y \in Thread
      PROVE  /\ th'[y].pc \in DetachSteps <=> th[y].pc \in DetachSteps
             /\ th'[y].pc = "drain" <=> th[y].pc = "drain"
             /\ th'[y].pc \in {"drain", "cancel_all"} <=> th[y].pc \in {"drain", "cancel_all"}
             /\ th'[y].pc \in {"drain", "cancel_all", "delete"} <=> th[y].pc \in {"drain", "cancel_all", "delete"}
             /\ th'[y].pc \in WaitSteps <=> th[y].pc \in WaitSteps
             /\ th'[y].pc \in Away <=> th[y].pc \in Away
             /\ th'[y].why = th[y].why /\ th'[y].at = th[y].at
  BY StepNames DEF AllKept, Kept
<1>2. Walking' => Walking
  BY <1>1 DEF Walking, Thread
<1>3. Busy' = Busy
  BY <1>1, StepNames DEF Busy
<1>4. ASSUME NEW t PROVE Waiters(t)' \subseteq Waiters(t)
  BY <1>1 DEF Waiters, Thread
<1>5. /\ Reach(DetachSteps)' <=> Reach(DetachSteps)
      /\ Reach({"drain"})' <=> Reach({"drain"})
      /\ Reach({"drain", "cancel_all"})' <=> Reach({"drain", "cancel_all"})
      /\ Reach({"drain", "cancel_all", "delete"})' <=> Reach({"drain", "cancel_all", "delete"})
  BY <1>1 DEF Reach
<1> QED BY <1>1, <1>2, <1>3, <1>4, <1>5

\* What such a step shows of the detach and of the calls.
LEMMA NobodyKeeps ==
  ASSUME EventsIInv, StateTypes', AllKept, Clock, ctx'.detached = ctx.detached,
         ctx'.invalid = ctx.invalid, ctx'.lost = ctx.lost, UNCHANGED group,
         ctx.retired = ctx.queued => ctx'.retired = ctx'.queued,
         \A e \in Event : ev[e].st \in {"new", "listed"} => ev'[e] = ev[e]
  PROVE  CallsInv' /\ ClockInv' /\ DetachInv' /\ DrainInv' /\ SleepInv' /\ Own' = Own
<1>1. /\ StateTypes /\ CallsInv /\ ClockInv /\ DetachInv /\ DrainInv /\ SleepInv
  BY DEF EventsIInv
<1>2. CallsInv'
  <2>1. ASSUME NEW y \in Thread PROVE CallOK(y)' /\ CallTime(y)' /\ InsertOK(y)'
    <3>1. Kept(y) /\ \A z \in Thread : Kept(z)
      BY DEF AllKept
    <3>2. th[y].pc = "insert" => ev'[th[y].e] = ev[th[y].e]
      BY <1>1 DEF CallsInv, InsertOK
    <3> QED BY <1>1, <3>1, <3>2, CallKept
  <2> QED BY <2>1 DEF CallsInv
<1>3. ClockInv'
  BY <1>1, ClockKept
<1>4. /\ Reach(DetachSteps)' <=> Reach(DetachSteps)
      /\ Reach({"drain"})' <=> Reach({"drain"})
      /\ Reach({"drain", "cancel_all"})' <=> Reach({"drain", "cancel_all"})
      /\ Reach({"drain", "cancel_all", "delete"})' <=> Reach({"drain", "cancel_all", "delete"})
      /\ Walking' => Walking
      /\ \A t : Waiters(t)' \subseteq Waiters(t)
      /\ \A y, z \in Thread : th'[y].pc \in DetachSteps /\ th'[z].pc \in DetachSteps =>
                                th[y].pc \in DetachSteps /\ th[z].pc \in DetachSteps
  BY NobodyMoves
<1>5. DetachInv'
  BY <1>1, <1>4 DEF DetachInv
<1>6. DrainInv'
  BY <1>1, <1>4, DrainKept
<1>7. SleepInv'
  <2>1. \A t \in Wanted : WaitEvents(t) \subseteq WaitEvents(t)'
    BY WaitEventsKept
  <2> QED BY <1>1, <1>4, <2>1, SleepKept
<1>8. Own' = Own
  BY <1>4 DEF Own
<1> QED BY <1>2, <1>3, <1>5, <1>6, <1>7, <1>8

LEMMA RetireKeeps ==
  ASSUME EventsIInv, Retire
  PROVE  EventsIInv'
<1>1. StateTypes /\ ClockInv /\ EventInv /\ ListsInv /\ RefsInv
  BY DEF EventsIInv
<1>2. /\ ctx.retired < ctx.queued /\ UNCHANGED <<group, ev, work, th>>
      /\ ctx' = [ctx EXCEPT !.retired = @ + 1]
  BY DEF Retire
<1>3. PICK c \in ContextType : c = ctx
  BY <1>1 DEF StateTypes
<1>4. PICK n \in Nat : n = c.retired + 1
  BY ContextFields
<1>5. PICK d : d = [c EXCEPT !.retired = n]
  OBVIOUS
<1>6. /\ d \in ContextType /\ d.ref = c.ref /\ d.detached = c.detached /\ d.invalid = c.invalid
      /\ d.queued = c.queued /\ d.retired = n /\ d.lost = c.lost
  BY <1>5 DEF ContextType
<1>7. /\ ctx' \in ContextType /\ ctx'.ref = ctx.ref /\ ctx'.detached = ctx.detached
      /\ ctx'.invalid = ctx.invalid /\ ctx'.queued = ctx.queued /\ ctx'.retired = ctx.retired + 1
      /\ ctx'.lost = ctx.lost
  BY <1>2, <1>3, <1>4, <1>5, <1>6
<1>8. StateTypes'
  BY <1>1, <1>2, <1>7 DEF StateTypes
<1>9. Clock /\ ctx.retired # ctx.queued
  <2>1. ctx.queued \in Nat /\ ctx.retired \in Nat /\ group.processed \in Nat
    BY <1>1, TypesNow
  <2> QED BY <1>1, <1>2, <1>7, <2>1 DEF Clock, ClockInv
<1>10. AllKept
  BY <1>2 DEF AllKept, Kept
<1>11. CallsInv' /\ ClockInv' /\ DetachInv' /\ DrainInv' /\ SleepInv' /\ Own' = Own
  BY <1>2, <1>7, <1>8, <1>9, <1>10, NobodyKeeps
<1>12. EventInv' /\ ListsInv'
  BY <1>1, <1>2, <1>8, <1>9, EventsSame, SameLists
<1>13. RefsInv'
  BY <1>1, <1>2, <1>7, <1>11 DEF RefsInv, Busy, Used
<1> QED BY <1>8, <1>11, <1>12, <1>13 DEF EventsIInv

LEMMA SubmitKeeps ==
  ASSUME EventsIInv, Submit
  PROVE  EventsIInv'
<1>1. /\ StateTypes /\ CallsInv /\ ClockInv /\ EventInv /\ ListsInv /\ DetachInv /\ DrainInv
      /\ SleepInv /\ RefsInv
  BY DEF EventsIInv
<1>2. /\ ~ctx.detached /\ ~ctx.invalid /\ UNCHANGED <<group, ev, work, th>>
      /\ ctx.queued < MaxTime /\ InWindow(ctx.queued + 1, group.processed)
      /\ \A x \in User : th[x].why \in {"wait", "event"} => InWindow(ctx.queued + 1, th[x].at)
      /\ ctx' = [ctx EXCEPT !.queued = @ + 1]
  BY DEF Submit
<1>3. PICK c \in ContextType : c = ctx
  BY <1>1 DEF StateTypes
<1>4. PICK n \in Nat : n = c.queued + 1
  BY ContextFields
<1>5. PICK d : d = [c EXCEPT !.queued = n]
  OBVIOUS
<1>6. /\ d \in ContextType /\ d.ref = c.ref /\ d.detached = c.detached /\ d.invalid = c.invalid
      /\ d.queued = n /\ d.retired = c.retired /\ d.lost = c.lost
  BY <1>5 DEF ContextType
<1>7. /\ ctx' \in ContextType /\ ctx'.ref = ctx.ref /\ ctx'.detached = ctx.detached
      /\ ctx'.invalid = ctx.invalid /\ ctx'.queued = ctx.queued + 1 /\ ctx'.retired = ctx.retired
      /\ ctx'.lost = ctx.lost
  BY <1>2, <1>3, <1>4, <1>5, <1>6
<1>8. StateTypes'
  BY <1>1, <1>2, <1>7 DEF StateTypes
<1>9. /\ ctx.queued \in Nat /\ ctx.retired \in Nat /\ group.processed \in Nat /\ Window \in Nat
      /\ MaxTime \in Nat
  BY <1>1, TypesNow, EventsAssumption
<1>10. ClockInv'
  BY <1>1, <1>2, <1>7, <1>9 DEF ClockInv, InWindow
<1>11. CallsInv'
  <2>1. ASSUME NEW x \in Thread PROVE CallOK(x)' /\ CallTime(x)' /\ InsertOK(x)'
    <3>1. CallOK(x) /\ CallTime(x) /\ InsertOK(x)
      BY <1>1 DEF CallsInv
    <3>2. CallOK(x)'
      BY <1>2, <1>7, <3>1 DEF CallOK
    <3>3. InsertOK(x)'
      BY <1>2, <3>1 DEF InsertOK
    <3>4. PICK t \in Nat : t = th[x].at
      BY <1>1, TypesNow
    <3>5. th[x].why \in {"wait", "event"} => ctx.queued + 1 < t + Window /\ t < ctx.retired + Window
      BY <1>2, <3>1, <3>4 DEF CallOK, CallTime, Near, InWindow
    <3>6. th[x].pc = "insert" => UserTS \/ t <= ctx.queued
      BY <3>1, <3>4 DEF CallTime
    <3>7. t <= ctx.queued => t <= ctx.queued + 1
      BY <1>9
    <3>8. CallTime(x)'
      BY <1>2, <1>7, <3>4, <3>5, <3>6, <3>7 DEF CallTime, Near
    <3> QED BY <3>2, <3>3, <3>8
  <2> QED BY <2>1 DEF CallsInv
<1>12. EventInv' /\ ListsInv'
  BY <1>1, <1>2, <1>7 DEF EventInv, EventRight, ListsInv, Listed
<1>13. DetachInv' /\ DrainInv'
  BY <1>1, <1>2, <1>7 DEF DetachInv, DrainInv, Reach, Walking
<1>14. SleepInv'
  BY <1>1, <1>2, <1>7 DEF SleepInv, Waiters, WaitEvents
<1>15. RefsInv'
  BY <1>1, <1>2, <1>7 DEF RefsInv, Own, Busy, Used, Reach
<1> QED BY <1>8, <1>10, <1>11, <1>12, <1>13, <1>14, <1>15 DEF EventsIInv

\* The rest of a queue.
LEMMA TailList ==
  ASSUME NEW T, NEW s \in Seq(T), IsInjective(s), s # <<>>
  PROVE  /\ Head(s) \in T /\ Head(s) \in ToSet(s) /\ Tail(s) \in Seq(T) /\ IsInjective(Tail(s))
         /\ ToSet(Tail(s)) = ToSet(s) \ {Head(s)}
<1>1. PICK n \in Nat : n = Len(s) /\ DOMAIN s = 1..n /\ n >= 1
  OBVIOUS
<1>2. PICK r : r = Tail(s)
  OBVIOUS
<1>3. r \in Seq(T) /\ DOMAIN r = 1..(n - 1) /\ \A i \in 1..(n - 1) : r[i] = s[i + 1]
  BY <1>1, <1>2
<1>4. Head(s) = s[1] /\ 1 \in DOMAIN s
  BY <1>1
<1>5. \A i \in 1..(n - 1) : i + 1 \in 1..n /\ i + 1 # 1 /\ i \in Int
  BY <1>1
<1>6. \A i \in 1..n : i = 1 \/ (i - 1 \in 1..(n - 1) /\ (i - 1) + 1 = i)
  BY <1>1
<1>7. IsInjective(r)
  <2>1. SUFFICES ASSUME NEW i \in DOMAIN r, NEW j \in DOMAIN r, r[i] = r[j] PROVE i = j
    BY DEF IsInjective
  <2>2. s[i + 1] = s[j + 1] /\ i + 1 \in DOMAIN s /\ j + 1 \in DOMAIN s /\ i \in Int /\ j \in Int
    BY <1>1, <1>3, <1>5, <2>1
  <2>3. i + 1 = j + 1
    BY <2>2 DEF IsInjective
  <2> QED BY <2>2, <2>3
<1>8. \A i \in 1..(n - 1) : r[i] \in ToSet(s) /\ r[i] # s[1]
  <2>1. ASSUME NEW i \in 1..(n - 1) PROVE r[i] \in ToSet(s) /\ r[i] # s[1]
    <3>1. PICK k \in 1..n : k = i + 1 /\ k # 1 /\ r[i] = s[k]
      BY <1>3, <1>5
    <3> QED BY <1>1, <1>4, <3>1 DEF ToSet, IsInjective
  <2> QED BY <2>1
<1>9. \A i \in 1..n : s[i] = s[1] \/ s[i] \in ToSet(r)
  <2>1. ASSUME NEW i \in 1..n, i # 1 PROVE s[i] \in ToSet(r)
    <3>1. PICK k \in 1..(n - 1) : k + 1 = i
      BY <1>6, <2>1
    <3>2. s[i] = r[k] /\ k \in DOMAIN r
      BY <1>3, <3>1
    <3> QED BY <3>2 DEF ToSet
  <2> QED BY <2>1
<1>10. ToSet(r) = ToSet(s) \ {s[1]}
  <2>1. ToSet(r) \subseteq ToSet(s) \ {s[1]}
    <3>1. \A a \in ToSet(r) : \E i \in 1..(n - 1) : a = r[i]
      BY <1>3 DEF ToSet
    <3> QED BY <1>8, <3>1
  <2>2. ToSet(s) \subseteq {s[1]} \cup ToSet(r)
    <3>1. \A a \in ToSet(s) : \E i \in 1..n : a = s[i]
      BY <1>1 DEF ToSet
    <3> QED BY <1>9, <3>1
  <2> QED BY <2>1, <2>2
<1>11. s[1] \in T
  BY <1>4
<1>12. s[1] \in ToSet(s)
  BY <1>4 DEF ToSet
<1> QED BY <1>2, <1>3, <1>4, <1>7, <1>10, <1>11, <1>12, Zenon

LEMMA EventWorkerKeeps ==
  ASSUME EventsIInv, EventWorker
  PROVE  EventsIInv'
<1>1. StateTypes /\ ClockInv /\ EventInv /\ ListsInv /\ RefsInv
  BY DEF EventsIInv
<1>2. PICK e : e = Head(work)
  OBVIOUS
<1>3. /\ work # <<>> /\ work' = Tail(work) /\ ev' = [ev EXCEPT ![e] = NoEvent]
      /\ ctx' = [ctx EXCEPT !.ref = @ - 1] /\ UNCHANGED group
      /\ th' = IF ev[e].why = "wait" THEN Woken(th) ELSE th
  BY <1>2 DEF EventWorker
<1>4. PICK s \in Seq(Event) : s = work /\ IsInjective(s)
  BY <1>1 DEF StateTypes, ListsInv
<1>5. PICK Q : Q = {f \in Event : ev[f].st = "queued"} /\ ToSet(s) = Q
  BY <1>1, <1>4 DEF ListsInv
<1>6. /\ e \in Event /\ e \in Q /\ Tail(s) \in Seq(Event) /\ IsInjective(Tail(s))
      /\ ToSet(Tail(s)) = Q \ {e}
  BY <1>2, <1>3, <1>4, <1>5, TailList
<1>7. ev[e].st = "queued"
  BY <1>5, <1>6
<1>8. NoEvent \in EventType /\ NoEvent.st = "none" /\ NoEvent.result = "none"
  BY DEF NoEvent, EventType
<1>9. /\ ev' \in [Event -> EventType] /\ ev'[e] = NoEvent /\ \A f \in Event : f # e => ev'[f] = ev[f]
  BY <1>1, <1>3, <1>6, <1>8 DEF StateTypes
<1>10. PICK n \in Int : n = ctx.ref - 1
  BY <1>1, TypesNow
<1>11. ctx' \in ContextType /\ ctx'.ref = n /\ SameContext
  BY <1>1, <1>3, <1>10, RefFields
<1>12. th' \in [Thread -> ThreadType] /\ AllKept
  <2>1. CASE ev[e].why = "wait"
    <3>1. PICK w : w = Woken(th)
      OBVIOUS
    <3>2. th' = w
      BY <1>3, <2>1, <3>1
    <3>3. /\ w \in [Thread -> ThreadType]
          /\ \A y \in Thread : /\ w[y].why = th[y].why /\ w[y].at = th[y].at /\ w[y].e = th[y].e
                               /\ w[y].pc = IF th[y].pc = "asleep" THEN "test" ELSE th[y].pc
      BY <1>1, <3>1, WokenFields
    <3> QED BY <3>2, <3>3 DEF AllKept, Kept
  <2>2. CASE ev[e].why # "wait"
    <3>1. th' = th
      BY <1>3, <2>2
    <3> QED BY <1>1, <3>1 DEF AllKept, Kept, StateTypes
  <2> QED BY <2>1, <2>2
<1>13. StateTypes'
  BY <1>1, <1>3, <1>4, <1>6, <1>9, <1>11, <1>12 DEF StateTypes
<1>14. Clock
  BY <1>1, <1>3, <1>11, SameClock DEF SameContext
<1>15. \A f \in Event : ev[f].st \in {"new", "listed"} => ev'[f] = ev[f]
  BY <1>7, <1>9
<1>16. CallsInv' /\ ClockInv' /\ DetachInv' /\ DrainInv' /\ SleepInv' /\ Own' = Own
  BY <1>3, <1>11, <1>12, <1>13, <1>14, <1>15, NobodyKeeps DEF SameContext
<1>17. EventInv'
  <2>1. EventRight(e)'
    BY <1>8, <1>9 DEF EventRight
  <2>2. \A f \in Event : ev[f].st = "listed" => group'.processed < ev[f].at
    BY <1>1, <1>3 DEF EventInv, EventRight
  <2> QED BY <1>1, <1>9, <1>13, <1>14, <2>1, <2>2, EventsKept
<1>18. ListsInv'
  <2>1. Listed' = Listed
    BY <1>7, <1>8, <1>9 DEF Listed
  <2>2. {f \in Event : ev'[f].st = "queued"} = Q \ {e}
    BY <1>5, <1>8, <1>9
  <2> QED BY <1>1, <1>3, <1>4, <1>6, <2>1, <2>2 DEF ListsInv
<1>19. RefsInv'
  <2>1. PICK a, b, c, d \in Int : /\ a = ctx.ref /\ b = Own /\ c = Cardinality(Busy)
                                  /\ d = Cardinality(Used)
    BY <1>1, UsersFinite, TypesNow DEF Own
  <2>2. a = b + c + d
    BY <1>1, <2>1 DEF RefsInv
  <2>3. Busy' = Busy
    BY <1>12, NobodyMoves
  <2>4. Cardinality(Used') = d - 1
    <3>1. PICK A, B : A = Used /\ B = Used' /\ IsFiniteSet(A)
      BY UsersFinite
    <3>2. B = A \ {e} /\ e \in A
      BY <1>6, <1>7, <1>8, <1>9, <3>1 DEF Used
    <3>3. Cardinality(B) = Cardinality(A) - 1
      BY <3>1, <3>2, FS_RemoveElement
    <3> QED BY <2>1, <3>1, <3>3
  <2>5. ctx'.ref = b + c + (d - 1)
    BY <1>10, <1>11, <2>1, <2>2
  <2> QED BY <1>16, <2>1, <2>3, <2>4, <2>5 DEF RefsInv
<1> QED BY <1>13, <1>16, <1>17, <1>18, <1>19 DEF EventsIInv
-----------------------------------------------------------------------------
(* The invariant holds.                                                    *)

LEMMA InitEvents ==
  ASSUME Init
  PROVE  EventsIInv
<1>1. /\ ctx = [ref |-> 1, detached |-> FALSE, invalid |-> FALSE,
                queued |-> Start, retired |-> Start, lost |-> FALSE]
      /\ group = [listed |-> TRUE, events |-> <<>>, processed |-> Start]
      /\ ev = [e \in Event |-> NoEvent] /\ work = <<>> /\ th = [x \in Thread |-> Idle]
  BY DEF Init
<1>2. Start \in Nat /\ Start <= MaxTime /\ Window \in Nat \ {0}
  BY EventsAssumption
<1>3. ctx \in ContextType /\ group \in GroupType
  BY <1>1, <1>2 DEF ContextType, GroupType
<1>4. NoEvent \in EventType /\ NoEvent.st = "none" /\ NoEvent.result = "none"
  BY DEF NoEvent, EventType
<1>5. \A x \in Thread : th[x] = Idle /\ th[x].pc = "idle" /\ th[x].why = "none"
  BY <1>1, IdleFields
<1>6. \A e \in Event : ev[e].st = "none" /\ ev[e].result = "none"
  BY <1>1, <1>4
<1>7. StateTypes
  BY <1>1, <1>3, <1>4, IdleFields DEF StateTypes
<1>8. CallsInv
  <2>1. ASSUME NEW x \in Thread PROVE CallOK(x) /\ CallTime(x) /\ InsertOK(x)
    <3>1. Agree("idle", "none")
      BY StepNames DEF Agree
    <3> QED BY <1>5, <3>1, StepNames DEF CallOK, CallTime, InsertOK
  <2> QED BY <2>1 DEF CallsInv
<1>9. ClockInv
  BY <1>1, <1>2 DEF ClockInv
<1>10. EventInv
  BY <1>6 DEF EventInv, EventRight
<1>11. ListsInv
  <2>1. IsInjective(<<>>) /\ ToSet(<<>>) = {}
    BY DEF IsInjective, ToSet
  <2>2. Listed = {} /\ {e \in Event : ev[e].st = "queued"} = {}
    BY <1>6 DEF Listed
  <2> QED BY <1>1, <2>1, <2>2 DEF ListsInv
<1>12. ~Reach(DetachSteps)
  BY <1>5, StepNames DEF Reach
<1>13. DetachInv
  <2>1. ~Walking
    BY <1>5 DEF Walking, Thread
  <2>2. \A x \in Thread : th[x].pc \notin DetachSteps
    BY <1>12 DEF Reach
  <2>3. group.listed /\ ~ctx.detached
    BY <1>1
  <2> QED BY <1>12, <2>1, <2>2, <2>3 DEF DetachInv
<1>14. DrainInv
  BY <1>1 DEF DrainInv
<1>15. SleepInv
  <2>1. ASSUME NEW t \in Wanted PROVE Cardinality(Waiters(t)) <= Cardinality(WaitEvents(t))
    <3>1. Waiters(t) = {} /\ WaitEvents(t) = {}
      BY <1>5, <1>6, StepNames DEF Waiters, WaitEvents, Thread
    <3>2. Cardinality({}) = 0
      BY FS_EmptySet
    <3> QED BY <3>1, <3>2
  <2> QED BY <2>1 DEF SleepInv
<1>16. RefsInv
  <2>1. Busy = {} /\ Used = {}
    BY <1>5, <1>6 DEF Busy, Used
  <2>2. Cardinality({}) = 0
    BY FS_EmptySet
  <2>3. Own = 1 /\ ctx.ref = 1
    BY <1>1 DEF Own
  <2> QED BY <2>1, <2>2, <2>3 DEF RefsInv
<1> QED BY <1>7, <1>8, <1>9, <1>10, <1>11, <1>13, <1>14, <1>15, <1>16 DEF EventsIInv

\* Every step of the specification keeps it.
LEMMA NextEvents ==
  ASSUME EventsIInv, [Next]_vars
  PROVE  EventsIInv'
<1>1. CASE UNCHANGED vars
  <2>1. /\ StateTypes' /\ CallsInv' /\ ClockInv' /\ EventInv' /\ ListsInv'
    BY <1>1 DEF EventsIInv, vars, StateTypes, CallsInv, CallOK, CallTime, Near, InsertOK, ClockInv,
                EventInv, EventRight, ListsInv, Listed
  <2>2. DetachInv' /\ DrainInv'
    BY <1>1 DEF EventsIInv, vars, DetachInv, DrainInv, Reach, Walking
  <2>3. SleepInv' /\ RefsInv'
    BY <1>1 DEF EventsIInv, vars, SleepInv, Waiters, WaitEvents, RefsInv, Own, Busy, Used, Reach
  <2> QED BY <2>1, <2>2, <2>3 DEF EventsIInv
<1>2. CASE Submit \/ Retire \/ EventWorker
  BY <1>2, SubmitKeeps, RetireKeeps, EventWorkerKeeps
<1>3. ASSUME NEW x \in User,
             \/ \E why \in Calls[x], t \in Wanted : ContextGet(x, why, t)
             \/ WaitTimesOut(x)
      PROVE  EventsIInv'
  <2>1. x \in Thread
    BY DEF Thread
  <2> QED BY <1>3, <2>1, ContextGetKeeps, WaitTimesOutKeeps
<1>4. ASSUME NEW x \in Dispatcher, WalkBegin(x) \/ \E why \in Calls[x] : DispatcherGet(x, why)
      PROVE  EventsIInv'
  BY <1>4, WalkBeginKeeps, DispatcherGetKeeps
<1>5. ASSUME NEW x \in Thread, Resume(x)
      PROVE  EventsIInv'
  <2>1. CASE AddEvent(x) \/ InsertEvent(x) \/ WaitTest(x) \/ CancelEvent(x) \/ ContextPut(x)
    BY <2>1, AddEventKeeps, InsertEventKeeps, WaitTestKeeps, CancelEventKeeps, ContextPutKeeps
  <2>2. CASE DetachMark(x) \/ DetachDrain(x) \/ CancelEvents(x) \/ DelEventGroup(x) \/ DetachPut(x)
    BY <2>2, DetachMarkKeeps, DetachDrainKeeps, CancelEventsKeeps, DelEventGroupKeeps, DetachPutKeeps
  <2>3. CASE \/ InvalidateMark(x) \/ CancelEventsTimestamp(x) \/ ProcessEventGroup(x)
             \/ InvalidateWake(x) \/ WalkEnd(x)
    BY <2>3, InvalidateMarkKeeps, CancelEventsTimestampKeeps, ProcessEventGroupKeeps,
       InvalidateWakeKeeps, WalkEndKeeps
  <2> QED BY <1>5, <2>1, <2>2, <2>3 DEF Resume
<1> QED BY <1>1, <1>2, <1>3, <1>4, <1>5 DEF Next

\* The clock, the calls, the lists, the detach, the sleepers and the references
\* agree in every state: the inductive invariant of the events of a context.
THEOREM EventsInvariance == Spec => []EventsIInv
<1>1. Init => EventsIInv
  BY InitEvents
<1>2. EventsIInv /\ [Next]_vars => EventsIInv'
  BY NextEvents
<1> QED BY <1>1, <1>2, PTL DEF Spec
-----------------------------------------------------------------------------
(* What it shows.                                                          *)

\* A list is as long as the number of its members, at least.
LEMMA ListLength ==
  ASSUME NEW T, NEW s \in Seq(T)
  PROVE  Len(s) \in Nat /\ Cardinality(ToSet(s)) <= Len(s)
<1>1. PICK n \in Nat : n = Len(s) /\ DOMAIN s = 1..n /\ s \in [1..n -> T]
  OBVIOUS
<1>2. PICK S : S = ToSet(s)
  OBVIOUS
<1>3. \A i \in 1..n : s[i] \in S
  BY <1>1, <1>2 DEF ToSet
<1>4. s \in [1..n -> S]
  BY <1>1, <1>3
<1>5. \A t \in S : \E i \in 1..n : s[i] = t
  BY <1>1, <1>2 DEF ToSet
<1>6. ExistsSurjection(1..n, S)
  BY <1>4, <1>5 DEF ExistsSurjection, Surjection
<1>7. Cardinality(S) <= n
  BY <1>6, FS_SurjCardinalityBound
<1> QED BY <1>1, <1>2, <1>7

LEMMA RefsPositive ==
  ASSUME EventsIInv
  PROVE  ctx.ref \in Nat /\ (Walking => ctx.ref > 0)
<1>1. PICK b, c, d : b = Own /\ c = Cardinality(Busy) /\ d = Cardinality(Used)
  OBVIOUS
<1>2. b \in {0, 1} /\ c \in Nat /\ d \in Nat /\ ctx.ref = b + c + d
  BY <1>1, UsersFinite DEF EventsIInv, RefsInv, Own
<1>3. Walking => b = 1
  <2>1. Walking => ~ctx.detached \/ Reach({"drain", "cancel_all", "delete"})
    BY DEF EventsIInv, DetachInv
  <2>2. Reach({"drain", "cancel_all", "delete"}) => Reach(DetachSteps)
    BY StepNames DEF Reach
  <2> QED BY <1>1, <2>1, <2>2 DEF Own
<1>4. ctx.ref \in Nat /\ (b = 1 => ctx.ref > 0)
  BY <1>2
<1> QED BY <1>3, <1>4

LEMMA TypesOfEvents ==
  ASSUME EventsIInv
  PROVE  EventsTypeOK
<1>1. StateTypes /\ ClockInv /\ ListsInv /\ ctx.ref \in Nat /\ MaxTime \in Nat
  BY RefsPositive, EventsAssumption DEF EventsIInv
<1>2. PICK c \in ContextType : c = ctx
  BY <1>1 DEF StateTypes
<1>3. /\ ctx.queued \in Nat /\ ctx.retired \in Nat /\ group.processed \in Nat
      /\ group.listed \in BOOLEAN
  BY <1>1, TypesNow
<1>4. ctx.queued \in 0..MaxTime /\ ctx.retired \in 0..MaxTime /\ group.processed \in 0..MaxTime
  BY <1>1, <1>3 DEF ClockInv
<1>5. c.ref \in Nat /\ c.queued \in 0..MaxTime /\ c.retired \in 0..MaxTime
  BY <1>1, <1>2, <1>4
<1>6. c \in [ref : Nat, detached : BOOLEAN, invalid : BOOLEAN,
             queued : 0..MaxTime, retired : 0..MaxTime, lost : BOOLEAN]
  BY <1>5 DEF ContextType
<1>7. ev \in [Event -> [st : {"none", "new", "listed", "queued"}, at : Wanted \cup {0},
                        why : {"none", "wait", "event"},
                        result : {"none", "retired", "cancelled"}]]
  BY <1>1 DEF StateTypes, EventType
<1> QED BY <1>1, <1>2, <1>3, <1>4, <1>6, <1>7 DEF EventsTypeOK, ListsInv

LEMMA RefsOfContext ==
  ASSUME EventsIInv
  PROVE  ContextRefs /\ WalkedIsAlive
<1>1. RefsInv
  BY DEF EventsIInv
<1>2. ContextRefs
  BY <1>1 DEF ContextRefs, RefsInv, Own, Busy, Used, Reach, DetachSteps
<1> QED BY <1>2, RefsPositive DEF WalkedIsAlive

LEMMA EmptyWhenDeleted ==
  ASSUME EventsIInv
  PROVE  DeletedIsEmpty
<1>1. DetachInv /\ DrainInv
  BY DEF EventsIInv
<1>2. SUFFICES ASSUME ~UserTS, ~group.listed, ~ctx.lost PROVE group.events = <<>>
  BY DEF DeletedIsEmpty
<1>3. ctx.detached /\ ~Reach({"drain", "cancel_all", "delete"})
  BY <1>1, <1>2 DEF DetachInv
<1>4. ~Reach({"drain", "cancel_all"})
  BY <1>3 DEF Reach
<1> QED BY <1>1, <1>2, <1>3, <1>4 DEF DrainInv

\* The lifetimes of the context, its group and its events: the reference count
\* is the number of the users, a walk is on a group that is alive, every list
\* agrees with the events on it, and a deleted group is empty.
THEOREM EventsAreAccountedFor == Spec => []EventsInv
<1>1. EventsIInv => EventsInv
  BY TypesOfEvents, RefsOfContext, EmptyWhenDeleted DEF EventsInv
<1> QED BY <1>1, EventsInvariance, PTL

\* Two that wait for timestamps the code cannot tell apart wait for the same.
LEMMA SameStamp ==
  ASSUME EventsIInv, NEW x \in Thread, NEW y \in Thread, th[x].why = "wait", th[y].why = "wait",
         TS(th[y].at) = TS(th[x].at)
  PROVE  th[y].at = th[x].at
<1>1. StateTypes /\ ClockInv /\ Near(th[x].at) /\ Near(th[y].at)
  BY CallIsNear DEF EventsIInv
<1>2. PICK a, b, q, r, w \in Nat : /\ a = th[x].at /\ b = th[y].at /\ q = ctx.queued
                                   /\ r = ctx.retired /\ w = Window
  BY <1>1, TypesNow
<1>3. q < a + w /\ a < r + w /\ q < b + w /\ b < r + w /\ r <= q
  BY <1>1, <1>2 DEF Near, ClockInv
<1>4. a < b + Range2 /\ b < a + Range2
  BY <1>2, <1>3 DEF Range2
<1> QED BY <1>2, <1>4, StampIsTime

LEMMA SleepersHaveEvents ==
  ASSUME EventsIInv
  PROVE  SleeperHasEvent
<1>1. StateTypes /\ CallsInv /\ ListsInv /\ SleepInv
  BY DEF EventsIInv
<1>2. SUFFICES ASSUME NEW x \in User, th[x].pc = "asleep", ~WaitIsOver(x)
               PROVE  Cardinality({y \in User : /\ th[y].pc \in {"test", "asleep", "cancel"}
                                                /\ TS(th[y].at) = TS(th[x].at)})
                        <= Len(Matching(x))
  BY DEF SleeperHasEvent
<1>3. \A y \in User : th[y].pc \in WaitSteps => y \in Thread /\ th[y].why = "wait"
  BY <1>1 DEF CallsInv, CallOK, Agree, Thread
<1>4. x \in Thread /\ th[x].why = "wait" /\ th[x].pc \in WaitSteps
  BY <1>2, <1>3, StepNames
<1>5. PICK t \in Wanted : t = th[x].at
  BY <1>4, CallIsNear
<1>6. ~ctx.detached /\ ~ctx.invalid /\ t > ctx.retired
  <2>1. t \in Nat /\ ctx.retired \in Nat
    BY <1>1, TypesNow, EventsAssumption
  <2>2. ~(ctx.retired >= t)
    BY <1>2, <1>4, <1>5, CallIsNear DEF WaitIsOver
  <2> QED BY <1>2, <2>1, <2>2 DEF WaitIsOver
<1>7. PICK A, B, q : A = Waiters(t) /\ B = WaitEvents(t) /\ q = Matching(x)
  OBVIOUS
<1>8. Cardinality(A) <= Cardinality(B)
  BY <1>1, <1>6, <1>7 DEF SleepInv
<1>9. A = {y \in User : /\ th[y].pc \in {"test", "asleep", "cancel"}
                        /\ TS(th[y].at) = TS(th[x].at)}
  <2>1. ASSUME NEW y \in User, th[y].pc \in WaitSteps, TS(th[y].at) = TS(th[x].at)
        PROVE  th[y].at = t
    BY <1>3, <1>4, <1>5, <2>1, SameStamp
  <2> QED BY <1>5, <1>7, <2>1, StepNames DEF Waiters
<1>10. PICK M : M = {e \in Event : ev[e].why = "wait" /\ TS(ev[e].at) = TS(th[x].at)}
  OBVIOUS
<1>11. q \in Seq(Event) /\ ToSet(q) = Listed \cap M
  <2>1. PICK s \in Seq(Event) : s = group.events /\ IsInjective(s) /\ ToSet(s) = Listed
    BY <1>1, TypesNow DEF ListsInv
  <2> QED BY <1>7, <1>10, <2>1, FoundFacts DEF Matching
<1>12. PICK C : C = ToSet(q)
  OBVIOUS
<1>13. B \in SUBSET C
  BY <1>5, <1>7, <1>10, <1>11, <1>12 DEF WaitEvents, Listed
<1>14. IsFiniteSet(A) /\ IsFiniteSet(B) /\ IsFiniteSet(C)
  <2>1. IsFiniteSet(A) /\ IsFiniteSet(B)
    BY <1>7, SleepersFinite
  <2>2. C \in SUBSET Event
    BY <1>11, <1>12 DEF Listed
  <2> QED BY <2>1, <2>2, FS_Subset, EventsAssumption
<1>15. Cardinality(B) <= Cardinality(C)
  BY <1>13, <1>14, FS_Subset
<1>16. Cardinality(A) \in Nat /\ Cardinality(B) \in Nat /\ Cardinality(C) \in Nat
  BY <1>14, FS_CardinalityType
<1>17. Len(q) \in Nat /\ Cardinality(C) <= Len(q)
  BY <1>11, <1>12, ListLength
<1>18. Cardinality(A) <= Len(q)
  BY <1>8, <1>15, <1>16, <1>17
<1> QED BY <1>7, <1>9, <1>18

\* An event does not report its timestamp early, is not passed over by the
\* processing of the group and not taken away from whoever sleeps for it, for
\* any half range of timestamps that wrap.
THEOREM EventsFireOnTime == Spec => []EventsOnTime
<1>1. EventsIInv => FiresOnTime /\ NotPassedOver
  <2>1. SUFFICES ASSUME EventsIInv PROVE FiresOnTime /\ NotPassedOver
    OBVIOUS
  <2>2. EventInv /\ StateTypes
    BY <2>1 DEF EventsIInv
  <2>3. FiresOnTime
    BY <2>2 DEF FiresOnTime, EventInv, EventRight
  <2>4. \A e \in Listed : group.processed < ev[e].at /\ group.processed \in Nat /\ ev[e].at \in Nat
    BY <2>2, TypesNow DEF Listed, EventInv, EventRight
  <2>5. NotPassedOver
    BY <2>4 DEF NotPassedOver
  <2> QED BY <2>3, <2>5
<1>2. EventsIInv => EventsOnTime
  BY <1>1, SleepersHaveEvents DEF EventsOnTime
<1> QED BY <1>2, EventsInvariance, PTL
=============================================================================
