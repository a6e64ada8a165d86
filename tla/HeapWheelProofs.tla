----------------------------- MODULE HeapWheelProofs -----------------------------
(***************************************************************************)
(* time_heap and time_wheel, for any timers, delays, capacities and slots: *)
(* the array stays a heap, the slots hold every timer once, and both       *)
(* implement the set of timers that TimerSet describes.                    *)
(***************************************************************************)
EXTENDS TimeHeap, TimeWheel, FiniteSetTheorems, SequenceTheorems, WellFoundedInduction, TLAPS

(* A set of naturals that is not empty has a least member.                 *)
LEMMA Least == ASSUME NEW S \in SUBSET Nat, S # {} PROVE \E m \in S : \A k \in S : m =< k
<1> DEFINE Less == {ss \in Nat \X Nat : ss[1] < ss[2]}
<1>1. IsWellFoundedOn(Less, Nat)
  BY NatLessThanWellFounded, Zenon DEF OpToRel
<1> HIDE DEF Less
<1>2. PICK m \in S : \A y \in S : ~ (<<y, m>> \in Less)
  BY <1>1, WFMin
<1>3. ASSUME NEW k \in S PROVE m =< k
  <2>1. k \in Nat /\ m \in Nat
    OBVIOUS
  <2>2. k < m => <<k, m>> \in Less
    BY <2>1 DEF Less
  <2> QED
    BY <1>2, <2>1, <2>2
<1> QED
  BY <1>3

-------------------------------------------------------------------------------
(* The array as a tree.  Its first size places are in use, each by another *)
(* timer; below from, a timer is not due before the one above it.          *)
Parent(i) == (i - 1) \div 2
Slot(n) == [0 .. n - 1 -> HeapTimers \cup {NoHeapTimer}]

Filled(a, n, size) ==
  /\ n \in Nat \ {0} /\ size \in 0 .. n
  /\ a \in Slot(n)
  /\ \A i \in 0 .. size - 1 : a[i] \in HeapTimers
  /\ \A i, j \in 0 .. size - 1 : a[i] = a[j] => i = j

Ordered(a, size, k, from) ==
  \A i \in 1 .. size - 1 : Parent(i) >= from => k[a[Parent(i)]] <= k[a[i]]

Held(a, size) == {a[i] : i \in 0 .. size - 1}

LEMMA Parents ==
  \A i \in Nat : i > 0 => /\ Parent(i) \in Nat /\ Parent(i) < i
                          /\ i = 2 * Parent(i) + 1 \/ i = 2 * Parent(i) + 2
  BY DEF Parent

(* The top is due first.                                                   *)
LEMMA TopIsFirst ==
  ASSUME NEW a, NEW n, NEW size, Filled(a, n, size), NEW k \in [HeapTimers -> Nat],
         Ordered(a, size, k, 0), NEW i \in 0 .. size - 1
  PROVE  k[a[0]] <= k[a[i]]
<1> DEFINE S == {j \in 0 .. size - 1 : k[a[j]] < k[a[0]]}
<1>1. /\ size \in Nat /\ 0 \in 0 .. size - 1
      /\ \A j \in 0 .. size - 1 : a[j] \in HeapTimers /\ k[a[j]] \in Nat
  BY DEF Filled
<1>2. S = {}
  <2>1. SUFFICES ASSUME S # {} PROVE FALSE
    OBVIOUS
  <2>0. S \subseteq Nat
    BY <1>1
  <2>2. PICK m \in S : \A j \in S : m <= j
    BY <2>0, <2>1, Least
  <2>3. m \in 1 .. size - 1
    BY <1>1
  <2>4. Parent(m) \in Nat /\ Parent(m) < m
    BY <1>1, <2>3, Parents
  <2>5. Parent(m) \in 0 .. size - 1 /\ k[a[Parent(m)]] <= k[a[m]]
    BY <1>1, <2>3, <2>4 DEF Ordered
  <2>6. Parent(m) \in S
    BY <1>1, <2>5
  <2> QED
    BY <1>1, <2>2, <2>4, <2>6
<1> QED
  BY <1>1, <1>2

-------------------------------------------------------------------------------
(* The loop of add_timer: it ends at the top, so its recursion defines a   *)
(* function.                                                               *)
Above(a, e, h) == h > 0 /\ expire[a[Parent(h)]] > e

RiseIs(f, a, timer, e) ==
  f = [h \in DOMAIN a |-> IF Above(a, e, h)
                          THEN [f[Parent(h)] EXCEPT ![h] = a[Parent(h)]]
                          ELSE [a EXCEPT ![h] = timer]]

LEMMA RiseExists ==
  ASSUME NEW n \in Nat, NEW a, DOMAIN a = 0 .. n - 1, NEW timer, NEW e
  PROVE  \E f : RiseIs(f, a, timer, e)
<1> DEFINE Turn(f, h) == IF Above(a, e, h) THEN [f[Parent(h)] EXCEPT ![h] = a[Parent(h)]]
                         ELSE [a EXCEPT ![h] = timer]
           Upto(f, m) == \A h \in 0 .. n - 1 : h < m => f[h] = Turn(f, h)
           Fails == {m \in Nat : ~ \E f : Upto(f, m)}
<1>1. \A h \in 0 .. n - 1 : Above(a, e, h) => Parent(h) \in 0 .. n - 1 /\ Parent(h) < h
  BY Parents DEF Above
<1>2. Fails = {}
  <2>1. SUFFICES ASSUME Fails # {} PROVE FALSE
    OBVIOUS
  <2>2. PICK m \in Fails : \A k \in Fails : m <= k
    BY <2>1, Least
  <2>3. m # 0
    <3>1. Upto(<< >>, 0)
      OBVIOUS
    <3> QED
      BY <3>1
  <2>4. m - 1 \in Nat /\ m - 1 \notin Fails /\ m \in Nat
    <3>1. m \in Nat
      OBVIOUS
    <3> HIDE DEF Fails
    <3> QED
      BY <2>2, <2>3, <3>1
  <2>5. PICK f : Upto(f, m - 1)
    BY <2>4
  <2> DEFINE g == [h \in 0 .. n - 1 |-> IF h < m - 1 THEN f[h] ELSE Turn(f, h)]
  <2>6. ASSUME NEW h \in 0 .. n - 1, h < m PROVE g[h] = Turn(g, h)
    <3>1. g[h] = Turn(f, h)
      BY <2>5
    <3>2. Above(a, e, h) => g[Parent(h)] = f[Parent(h)]
      <4>1. Above(a, e, h) => Parent(h) \in 0 .. n - 1 /\ Parent(h) < m - 1
        BY <1>1, <2>4, <2>6
      <4> QED
        BY <4>1
    <3> HIDE DEF g
    <3> QED
      BY <3>1, <3>2
  <2> HIDE DEF g
  <2>7. Upto(g, m)
    BY <2>6
  <2> QED
    BY <2>2, <2>7
<1>3. PICK f : Upto(f, n)
  BY <1>2
<1> DEFINE g == [h \in 0 .. n - 1 |-> f[h]]
<1>4. ASSUME NEW h \in 0 .. n - 1 PROVE g[h] = Turn(g, h)
  <2>0. h < n
    OBVIOUS
  <2>1. f[h] = Turn(f, h)
    BY <1>3, <2>0
  <2>2. g[h] = f[h] /\ (Above(a, e, h) => g[Parent(h)] = f[Parent(h)])
    BY <1>1
  <2> HIDE DEF g
  <2> QED
    BY <2>1, <2>2
<1>5. g = [h \in 0 .. n - 1 |-> Turn(g, h)]
  <2>1. \A h \in 0 .. n - 1 : g[h] = Turn(g, h)
    BY <1>4
  <2>2. g = [h \in 0 .. n - 1 |-> g[h]]
    OBVIOUS
  <2> HIDE DEF g
  <2> QED
    BY <2>1, <2>2
<1> HIDE DEF g
<1>6. RiseIs(g, a, timer, e)
  BY <1>5 DEF RiseIs
<1> QED
  BY <1>6

(* What it returns: the heap with the timer in it, which is the top only   *)
(* if it is due before the one that was.                                   *)
LEMMA Rises ==
  ASSUME NEW a, NEW n, NEW size, Filled(a, n, size), size < n, expire \in [HeapTimers -> Nat],
         Ordered(a, size, expire, 0), NEW t \in HeapTimers \ Held(a, size), NEW e \in Nat,
         NEW k \in [HeapTimers -> Nat], k[t] = e, \A u \in HeapTimers \ {t} : k[u] = expire[u]
  PROVE  LET b == PercolateUp(a, size, t, e)
         IN  /\ Filled(b, n, size + 1)
             /\ Ordered(b, size + 1, k, 0)
             /\ Held(b, size + 1) = Held(a, size) \cup {t}
             /\ size > 0 /\ expire[a[0]] <= e => b[0] = a[0]
<1> DEFINE f == CHOOSE rise : RiseIs(rise, a, t, e)
<1>1. RiseIs(f, a, t, e)
  BY RiseExists DEF Filled, Slot
<1>2. PercolateUp(a, size, t, e) = f[size]
  BY DEF PercolateUp, RiseIs, Above, Parent
<1> HIDE DEF f
<1>3. /\ n \in Nat /\ size \in Nat /\ size < n /\ a \in Slot(n) /\ t \in HeapTimers
      /\ \A i \in 0 .. size - 1 : a[i] \in HeapTimers /\ a[i] # t
      /\ \A i, j \in 0 .. size - 1 : a[i] = a[j] => i = j
  BY DEF Filled, Held
<1>4. /\ k[t] = e /\ \A i \in 0 .. size - 1 : k[a[i]] = expire[a[i]] /\ k[a[i]] \in Nat
  BY <1>3
<1>5. \A h \in 0 .. size : f[h] = IF Above(a, e, h) THEN [f[Parent(h)] EXCEPT ![h] = a[Parent(h)]]
                                  ELSE [a EXCEPT ![h] = t]
  <2>1. \A h \in DOMAIN a : f[h] = IF Above(a, e, h) THEN [f[Parent(h)] EXCEPT ![h] = a[Parent(h)]]
                                    ELSE [a EXCEPT ![h] = t]
    BY <1>1 DEF RiseIs
  <2>2. \A h \in 0 .. size : h \in DOMAIN a
    BY <1>3 DEF Slot
  <2> QED
    BY <2>1, <2>2
<1>6. \A i \in 1 .. size : Parent(i) \in 0 .. size - 1 /\ Parent(i) < i
  BY <1>3, Parents
<1>7. \A i \in 1 .. size - 1 : k[a[Parent(i)]] <= k[a[i]]
  BY <1>3, <1>4, <1>6 DEF Ordered
<1> DEFINE Keys(h) == \A i \in 0 .. h - 1 : k[f[h][i]] <= k[a[i]]
           Order(h) == \A i \in 1 .. h : k[f[h][Parent(i)]] <= k[f[h][i]]
           Good(h) == /\ f[h] \in Slot(n)
                      /\ \A i \in 0 .. n - 1 : i > h => f[h][i] = a[i]
                      /\ \A i \in 0 .. h : f[h][i] \in HeapTimers
                      /\ f[h][h] = t \/ (h > 0 /\ f[h][h] = a[Parent(h)])
                      /\ Keys(h) /\ Order(h)
                      /\ {f[h][i] : i \in 0 .. h} = {a[i] : i \in 0 .. h - 1} \cup {t}
                      /\ \A i, j \in 0 .. h : f[h][i] = f[h][j] => i = j
                      /\ h > 0 /\ expire[a[0]] <= e => f[h][0] = a[0]
<1>8. ASSUME NEW h \in 0 .. size, ~Above(a, e, h) PROVE Good(h)
  <2> DEFINE b == f[h]
  <2>1. /\ b \in Slot(n) /\ b[h] = t
        /\ \A i \in 0 .. n - 1 : i # h => b[i] = a[i]
    <3>1. b = [a EXCEPT ![h] = t] /\ h \in 0 .. n - 1
      <4>1. h \in 0 .. n - 1
        BY <1>3
      <4> QED
        BY <1>5, <1>8, <4>1
    <3> HIDE DEF b
    <3> QED
      BY <1>3, <3>1 DEF Slot
  <2> HIDE DEF b
  <2>2. \A i \in 0 .. h - 1 : i \in 0 .. n - 1 /\ i \in 0 .. size - 1 /\ b[i] = a[i] /\ i # h
    BY <1>3, <2>1
  <2>3. \A i \in 0 .. h - 1 : k[b[i]] <= k[a[i]]
    BY <1>4, <2>2
  <2>4. \A i \in 1 .. h : k[b[Parent(i)]] <= k[b[i]]
    <3> SUFFICES ASSUME NEW i \in 1 .. h PROVE k[b[Parent(i)]] <= k[b[i]]
      OBVIOUS
    <3>1. Parent(i) \in 0 .. h - 1 /\ b[Parent(i)] = a[Parent(i)]
      BY <1>3, <1>6, <2>2
    <3>2. CASE i = h
      <4>1. ~(expire[a[Parent(i)]] > e) /\ k[a[Parent(i)]] = expire[a[Parent(i)]]
            /\ expire[a[Parent(i)]] \in Nat
        BY <1>4, <1>8, <2>2, <3>1, <3>2 DEF Above
      <4> QED
        BY <1>4, <2>1, <3>1, <3>2, <4>1
    <3>3. CASE i # h
      BY <1>7, <2>2, <3>1, <3>3
    <3> QED
      BY <3>2, <3>3
  <2>5. {b[i] : i \in 0 .. h} = {a[i] : i \in 0 .. h - 1} \cup {t}
    <3>1. \A i \in 0 .. h : i = h \/ i \in 0 .. h - 1
      OBVIOUS
    <3>2. h \in 0 .. h /\ \A i \in 0 .. h - 1 : i \in 0 .. h
      OBVIOUS
    <3> QED
      BY <2>1, <2>2, <3>1, <3>2
  <2>6. \A i, j \in 0 .. h : b[i] = b[j] => i = j
    <3>1. \A i \in 0 .. h : i = h \/ i \in 0 .. h - 1
      OBVIOUS
    <3> QED
      BY <1>3, <2>1, <2>2, <3>1
  <2>7. \A i \in 0 .. h : b[i] \in HeapTimers
    <3>1. \A i \in 0 .. h : i = h \/ i \in 0 .. h - 1
      OBVIOUS
    <3> QED
      BY <1>3, <2>1, <2>2, <3>1
  <2>8. \A i \in 0 .. n - 1 : i > h => b[i] = a[i]
    BY <2>1
  <2>9. h > 0 => b[0] = a[0]
    BY <2>2
  <2> QED
    BY <2>1, <2>3, <2>4, <2>5, <2>6, <2>7, <2>8, <2>9 DEF b
<1>9. ASSUME NEW h \in 1 .. size, Above(a, e, h), Good(Parent(h)) PROVE Good(h)
  <2> DEFINE p == Parent(h)
             r == f[p]
             b == f[h]
  <2>1. p \in 0 .. h - 1 /\ p \in 0 .. size - 1 /\ p < h /\ h \in 0 .. n - 1 /\ p \in 0 .. n - 1
    BY <1>3, <1>6
  <2>2. /\ r \in Slot(n)
        /\ \A i \in 0 .. n - 1 : i > p => r[i] = a[i]
        /\ \A i \in 0 .. p : r[i] \in HeapTimers
        /\ r[p] = t \/ (p > 0 /\ r[p] = a[Parent(p)])
        /\ \A i \in 0 .. p - 1 : k[r[i]] <= k[a[i]]
        /\ \A i \in 1 .. p : k[r[Parent(i)]] <= k[r[i]]
        /\ {r[i] : i \in 0 .. p} = {a[i] : i \in 0 .. p - 1} \cup {t}
        /\ \A i, j \in 0 .. p : r[i] = r[j] => i = j
        /\ p > 0 /\ expire[a[0]] <= e => r[0] = a[0]
    BY <1>9
  <2>3. /\ b \in Slot(n) /\ b[h] = a[p]
        /\ \A i \in 0 .. n - 1 : i # h => b[i] = r[i]
    <3>1. b = [r EXCEPT ![h] = a[p]]
      <4>1. h \in 0 .. size
        BY <1>3
      <4> QED
        BY <1>5, <1>9, <4>1
    <3> HIDE DEF b, r
    <3> QED
      BY <1>3, <2>1, <2>2, <3>1 DEF Slot
  <2>e. k[a[p]] = expire[a[p]] /\ k[a[p]] \in Nat /\ expire[a[p]] > e
    BY <1>4, <1>9, <2>1 DEF Above
  <2> HIDE DEF b, r, p
  <2>4. /\ \A i \in 0 .. p : i \in 0 .. n - 1 /\ i # h /\ b[i] = r[i] /\ b[i] \in HeapTimers
        /\ \A i \in p + 1 .. h - 1 : i \in 0 .. n - 1 /\ i # h /\ b[i] = a[i] /\ i \in 0 .. size - 1
    BY <1>3, <2>1, <2>2, <2>3
  <2>5. \A i \in 0 .. h : i \in 0 .. p \/ i \in p + 1 .. h - 1 \/ i = h
    BY <2>1
  <2>6. k[r[p]] <= k[a[p]]
    <3>1. CASE r[p] = t
      BY <1>4, <2>e, <3>1
    <3>2. CASE p > 0 /\ r[p] = a[Parent(p)]
      BY <1>7, <2>1, <3>2
    <3> QED
      BY <2>2, <3>1, <3>2
  <2>7. \A i \in 0 .. h - 1 : k[b[i]] <= k[a[i]]
    <3> SUFFICES ASSUME NEW i \in 0 .. h - 1 PROVE k[b[i]] <= k[a[i]]
      OBVIOUS
    <3>1. CASE i \in 0 .. p - 1
      BY <2>1, <2>2, <2>4, <3>1
    <3>2. CASE i = p
      BY <2>1, <2>4, <2>6, <3>2
    <3>3. CASE i \in p + 1 .. h - 1
      BY <1>4, <2>4, <3>3
    <3> QED
      BY <2>1, <3>1, <3>2, <3>3
  <2>8. \A i \in 1 .. h : k[b[Parent(i)]] <= k[b[i]]
    <3> SUFFICES ASSUME NEW i \in 1 .. h PROVE k[b[Parent(i)]] <= k[b[i]]
      OBVIOUS
    <3>1. Parent(i) \in 0 .. size - 1 /\ Parent(i) < i /\ Parent(i) \in 0 .. h - 1
      BY <1>3, <1>6
    <3>2. CASE i = h
      BY <2>1, <2>3, <2>4, <2>6, <3>2 DEF p
    <3>3. CASE i \in 1 .. p
      <4>1. Parent(i) \in 0 .. p /\ i \in 0 .. p
        BY <2>1, <3>1, <3>3
      <4> QED
        BY <2>2, <2>4, <3>3, <4>1
    <3>4. CASE i \in p + 1 .. h - 1
      <4>1. k[b[Parent(i)]] <= k[a[Parent(i)]] /\ k[a[Parent(i)]] <= k[a[i]] /\ b[i] = a[i]
        BY <1>3, <1>7, <2>4, <2>7, <3>1, <3>4
      <4>2. b[Parent(i)] \in HeapTimers /\ i \in 0 .. size - 1
        <5>1. Parent(i) \in 0 .. p \/ Parent(i) \in p + 1 .. h - 1
          BY <2>1, <3>1
        <5> QED
          BY <1>3, <2>4, <3>4, <5>1
      <4>3. k[b[Parent(i)]] \in Nat /\ k[a[Parent(i)]] \in Nat /\ k[a[i]] \in Nat
        BY <1>4, <3>1, <4>2
      <4> QED
        BY <4>1, <4>3
    <3> QED
      BY <2>1, <3>2, <3>3, <3>4
  <2>9. {b[i] : i \in 0 .. h} = {a[i] : i \in 0 .. h - 1} \cup {t}
    <3>1. \A i \in 0 .. h : b[i] \in {a[j] : j \in 0 .. h - 1} \cup {t}
      <4> SUFFICES ASSUME NEW i \in 0 .. h PROVE b[i] \in {a[j] : j \in 0 .. h - 1} \cup {t}
        OBVIOUS
      <4>1. CASE i \in 0 .. p
        <5>1. b[i] \in {a[j] : j \in 0 .. p - 1} \cup {t}
          BY <2>2, <2>4, <4>1
        <5>2. \A j \in 0 .. p - 1 : j \in 0 .. h - 1
          BY <2>1
        <5> QED
          BY <5>1, <5>2
      <4>2. CASE i \in p + 1 .. h - 1
        BY <2>1, <2>4, <4>2
      <4>3. CASE i = h
        BY <2>1, <2>3, <4>3
      <4> QED
        BY <2>5, <4>1, <4>2, <4>3
    <3>2. \A x \in {a[j] : j \in 0 .. h - 1} \cup {t} : \E i \in 0 .. h : b[i] = x
      <4>1. \A x \in {a[j] : j \in 0 .. p - 1} \cup {t} : \E i \in 0 .. h : b[i] = x
        <5>1. \A x \in {a[j] : j \in 0 .. p - 1} \cup {t} : \E i \in 0 .. p : r[i] = x
          BY <2>2
        <5>2. \A i \in 0 .. p : i \in 0 .. h
          BY <2>1
        <5> QED
          BY <2>4, <5>1, <5>2
      <4>2. \A j \in 0 .. h - 1 : j \in 0 .. p - 1 \/ j = p \/ j \in p + 1 .. h - 1
        BY <2>1
      <4>3. \E i \in 0 .. h : b[i] = a[p]
        BY <2>1, <2>3
      <4>4. \A j \in p + 1 .. h - 1 : j \in 0 .. h /\ b[j] = a[j]
        BY <2>1, <2>4
      <4> SUFFICES ASSUME NEW x \in {a[j] : j \in 0 .. h - 1} \cup {t}
                   PROVE  \E i \in 0 .. h : b[i] = x
        OBVIOUS
      <4>5. CASE x = t
        BY <4>1, <4>5
      <4>6. CASE x \in {a[j] : j \in 0 .. h - 1}
        <5>1. PICK j \in 0 .. h - 1 : x = a[j]
          BY <4>6
        <5> QED
          BY <4>1, <4>2, <4>3, <4>4, <5>1
      <4> QED
        BY <4>5, <4>6
    <3> QED
      BY <3>1, <3>2
  <2>10. \A i, j \in 0 .. h : b[i] = b[j] => i = j
    <3>1. \A i \in 0 .. p : b[i] # a[p] /\ \A j \in p + 1 .. h - 1 : b[i] # a[j]
      <4>1. \A i \in 0 .. p : b[i] = t \/ \E j \in 0 .. p - 1 : b[i] = a[j]
        BY <2>2, <2>4
      <4>2. \A j \in 0 .. p - 1 : j \in 0 .. size - 1 /\ j # p
        BY <1>3, <2>1
      <4> QED
        BY <1>3, <2>1, <2>4, <4>1, <4>2
    <3>2. \A j \in p + 1 .. h - 1 : b[j] # a[p]
      BY <1>3, <2>1, <2>4
    <3> SUFFICES ASSUME NEW i \in 0 .. h, NEW j \in 0 .. h, b[i] = b[j] PROVE i = j
      OBVIOUS
    <3>3. CASE i \in 0 .. p /\ j \in 0 .. p
      BY <2>2, <2>4, <3>3
    <3>4. CASE i \in p + 1 .. h - 1 /\ j \in p + 1 .. h - 1
      BY <1>3, <2>4, <3>4
    <3> QED
      BY <2>3, <2>4, <2>5, <3>1, <3>2, <3>3, <3>4
  <2>11. \A i \in 0 .. h : b[i] \in HeapTimers
    BY <1>3, <2>1, <2>3, <2>4, <2>5
  <2>12. \A i \in 0 .. n - 1 : i > h => b[i] = a[i]
    BY <2>1, <2>2, <2>3
  <2>13. expire[a[0]] <= e => b[0] = a[0]
    <3>1. SUFFICES ASSUME expire[a[0]] <= e PROVE b[0] = a[0]
      OBVIOUS
    <3>2. p # 0
      BY <1>4, <2>1, <2>e, <3>1
    <3> QED
      BY <2>1, <2>2, <2>4, <3>1, <3>2
  <2>14. h > 0 /\ b[h] = a[Parent(h)]
    BY <2>1, <2>3 DEF p
  <2> QED
    BY <2>3, <2>7, <2>8, <2>9, <2>10, <2>11, <2>12, <2>13, <2>14 DEF b
<1> DEFINE S == {h \in 0 .. size : ~Good(h)}
<1>10. S = {}
  <2>1. SUFFICES ASSUME S # {} PROVE FALSE
    OBVIOUS
  <2> HIDE DEF Good
  <2>0. S \subseteq Nat
    BY <1>3
  <2>2. PICK h \in S : \A j \in S : h <= j
    BY <2>0, <2>1, Least
  <2>3. Above(a, e, h)
    BY <1>8
  <2>4. h \in 1 .. size /\ Parent(h) \in 0 .. size /\ Parent(h) < h
    BY <1>3, <1>6, <2>3 DEF Above
  <2>5. Parent(h) \notin S
    BY <1>3, <2>2, <2>4
  <2> QED
    BY <1>9, <2>3, <2>4, <2>5
<1>11. Good(size)
  <2> HIDE DEF Good
  <2> QED
    BY <1>3, <1>10
<1> DEFINE b == f[size]
<1>12. /\ b \in Slot(n) /\ \A i \in 0 .. size : b[i] \in HeapTimers
       /\ \A i \in 1 .. size : k[b[Parent(i)]] <= k[b[i]]
       /\ {b[i] : i \in 0 .. size} = {a[i] : i \in 0 .. size - 1} \cup {t}
       /\ \A i, j \in 0 .. size : b[i] = b[j] => i = j
       /\ size > 0 /\ expire[a[0]] <= e => b[0] = a[0]
  BY <1>11
<1> HIDE DEF b
<1>13. size + 1 - 1 = size /\ size + 1 \in 0 .. n
  BY <1>3
<1>14. Filled(b, n, size + 1)
  BY <1>12, <1>13 DEF Filled
<1>15. Ordered(b, size + 1, k, 0)
  <2>1. 1 .. (size + 1) - 1 = 1 .. size
    BY <1>3
  <2> QED
    BY <1>12, <2>1 DEF Ordered
<1>16. Held(b, size + 1) = Held(a, size) \cup {t}
  <2>1. 0 .. (size + 1) - 1 = 0 .. size
    BY <1>3
  <2> QED
    BY <1>12, <2>1 DEF Held
<1> QED
  BY <1>2, <1>12, <1>14, <1>15, <1>16 DEF b

-------------------------------------------------------------------------------
(* percolate_down: it ends at a leaf.                                      *)
Below(a, size, h) == SmallerChild(a, size, h)
Sinks(a, size, moved, h) == 2 * h + 1 <= size - 1 /\ expire[a[Below(a, size, h)]] < expire[moved]

SinkIs(f, a, size, moved) ==
  f = [h \in DOMAIN a |-> IF Sinks(a, size, moved, h)
                          THEN [f[Below(a, size, h)] EXCEPT ![h] = a[Below(a, size, h)]]
                          ELSE [a EXCEPT ![h] = moved]]

(* The child that is due first.                                            *)
LEMMA BelowIs ==
  ASSUME NEW a, NEW n \in Nat, NEW size \in 0 .. n, \A i \in 1 .. size - 1 : a[i] \in HeapTimers,
         expire \in [HeapTimers -> Nat], NEW h \in 0 .. n - 1, 2 * h + 1 <= size - 1
  PROVE  /\ Below(a, size, h) \in h + 1 .. size - 1 /\ Parent(Below(a, size, h)) = h
         /\ \A i \in 1 .. size - 1 : Parent(i) = h => expire[a[Below(a, size, h)]] <= expire[a[i]]
<1> DEFINE l == 2 * h + 1
           c == Below(a, size, h)
<1>1. h \in Nat /\ size \in Nat /\ l \in 1 .. size - 1 /\ l \in Nat
  OBVIOUS
<1>2. c = IF l < size - 1 /\ expire[a[l + 1]] < expire[a[l]] THEN l + 1 ELSE l
  BY DEF Below, SmallerChild
<1>3. Parent(l) = h /\ Parent(l + 1) = h
  BY <1>1 DEF Parent
<1>4. \A i \in 1 .. size - 1 : Parent(i) = h => i = l \/ i = l + 1
  BY Parents
<1>5. \A i \in 1 .. size - 1 : expire[a[i]] \in Nat
  OBVIOUS
<1> HIDE DEF c
<1>6. c \in h + 1 .. size - 1 /\ Parent(c) = h
  BY <1>1, <1>2, <1>3
<1> HIDE DEF l
<1>7. ASSUME NEW i \in 1 .. size - 1, Parent(i) = h PROVE expire[a[c]] <= expire[a[i]]
  <2>1. i = l \/ i = l + 1
    BY <1>4, <1>7
  <2>2. expire[a[i]] \in Nat /\ expire[a[l]] \in Nat
    BY <1>1, <1>5
  <2>3. CASE i = l
    BY <1>2, <2>2, <2>3
  <2>4. CASE i = l + 1
    BY <1>1, <1>2, <2>2, <2>4
  <2> QED
    BY <2>1, <2>3, <2>4
<1> QED
  BY <1>6, <1>7 DEF c

LEMMA SinkExists ==
  ASSUME NEW a, NEW n \in Nat, DOMAIN a = 0 .. n - 1, NEW size \in 0 .. n, NEW moved,
         \A i \in 1 .. size - 1 : a[i] \in HeapTimers, expire \in [HeapTimers -> Nat]
  PROVE  \E f : SinkIs(f, a, size, moved)
<1> DEFINE Turn(f, h) == IF Sinks(a, size, moved, h)
                         THEN [f[Below(a, size, h)] EXCEPT ![h] = a[Below(a, size, h)]]
                         ELSE [a EXCEPT ![h] = moved]
           Upto(f, m) == \A h \in 0 .. n - 1 : n - h <= m => f[h] = Turn(f, h)
           Fails == {m \in Nat : ~ \E f : Upto(f, m)}
<1>1. \A h \in 0 .. n - 1 :
        Sinks(a, size, moved, h) => Below(a, size, h) \in 0 .. n - 1 /\ Below(a, size, h) > h
  <2> SUFFICES ASSUME NEW h \in 0 .. n - 1, Sinks(a, size, moved, h)
               PROVE  Below(a, size, h) \in 0 .. n - 1 /\ Below(a, size, h) > h
    OBVIOUS
  <2>1. Below(a, size, h) \in h + 1 .. size - 1
    BY BelowIs DEF Sinks
  <2> QED
    BY <2>1
<1>2. Fails = {}
  <2>1. SUFFICES ASSUME Fails # {} PROVE FALSE
    OBVIOUS
  <2>2. PICK m \in Fails : \A k \in Fails : m <= k
    BY <2>1, Least
  <2>3. m # 0
    <3>1. Upto(<< >>, 0)
      OBVIOUS
    <3> QED
      BY <3>1
  <2>4. m - 1 \in Nat /\ m - 1 \notin Fails /\ m \in Nat
    <3>1. m \in Nat
      OBVIOUS
    <3> HIDE DEF Fails
    <3> QED
      BY <2>2, <2>3, <3>1
  <2>5. PICK f : Upto(f, m - 1)
    BY <2>4
  <2> DEFINE g == [h \in 0 .. n - 1 |-> IF n - h <= m - 1 THEN f[h] ELSE Turn(f, h)]
  <2>6. ASSUME NEW h \in 0 .. n - 1, n - h <= m PROVE g[h] = Turn(g, h)
    <3>1. g[h] = Turn(f, h)
      BY <2>5
    <3>2. Sinks(a, size, moved, h) => g[Below(a, size, h)] = f[Below(a, size, h)]
      <4>1. Sinks(a, size, moved, h) => /\ Below(a, size, h) \in 0 .. n - 1
                                      /\ n - Below(a, size, h) <= m - 1
        <5> SUFFICES ASSUME Sinks(a, size, moved, h)
                     PROVE  Below(a, size, h) \in 0 .. n - 1 /\ n - Below(a, size, h) <= m - 1
          OBVIOUS
        <5>1. Below(a, size, h) \in 0 .. n - 1 /\ Below(a, size, h) > h
          BY <1>1
        <5> HIDE DEF g, Upto, Fails, Turn
        <5> QED
          BY <2>4, <2>6, <5>1
      <4> QED
        BY <4>1
    <3> HIDE DEF g
    <3> QED
      BY <3>1, <3>2
  <2> HIDE DEF g
  <2>7. Upto(g, m)
    BY <2>6
  <2> QED
    BY <2>2, <2>7
<1>3. PICK f : Upto(f, n)
  BY <1>2
<1> DEFINE g == [h \in 0 .. n - 1 |-> f[h]]
<1>4. ASSUME NEW h \in 0 .. n - 1 PROVE g[h] = Turn(g, h)
  <2>0. n - h <= n
    OBVIOUS
  <2>1. f[h] = Turn(f, h)
    BY <1>3, <2>0
  <2>2. g[h] = f[h] /\ (Sinks(a, size, moved, h) => g[Below(a, size, h)] = f[Below(a, size, h)])
    BY <1>1
  <2> HIDE DEF g
  <2> QED
    BY <2>1, <2>2
<1>5. g = [h \in 0 .. n - 1 |-> Turn(g, h)]
  <2>1. \A h \in 0 .. n - 1 : g[h] = Turn(g, h)
    BY <1>4
  <2>2. g = [h \in 0 .. n - 1 |-> g[h]]
    OBVIOUS
  <2> HIDE DEF g
  <2> QED
    BY <2>1, <2>2
<1> HIDE DEF g
<1>6. SinkIs(g, a, size, moved)
  BY <1>5 DEF SinkIs
<1> QED
  BY <1>6

(* What it returns: the same timers, and in order from the hole on where   *)
(* all behind the hole were.                                               *)
LEMMA SinksDown ==
  ASSUME NEW a, NEW n, NEW size, Filled(a, n, size), expire \in [HeapTimers -> Nat],
         NEW hole \in 0 .. n - 1, Ordered(a, size, expire, hole + 1)
  PROVE  LET b == PercolateDown(a, size, hole)
         IN  Filled(b, n, size) /\ Ordered(b, size, expire, hole) /\ Held(b, size) = Held(a, size)
<1> DEFINE moved == a[hole]
           f == CHOOSE sink : SinkIs(sink, a, size, moved)
           b == f[hole]
<1>1. /\ n \in Nat /\ size \in Nat /\ size \in 0 .. n /\ a \in Slot(n) /\ DOMAIN a = 0 .. n - 1
      /\ \A i \in 0 .. size - 1 : a[i] \in HeapTimers /\ expire[a[i]] \in Nat
      /\ \A i, j \in 0 .. size - 1 : a[i] = a[j] => i = j
  BY DEF Filled, Slot
<1>2. SinkIs(f, a, size, moved)
  <2>1. \A i \in 1 .. size - 1 : a[i] \in HeapTimers
    BY <1>1
  <2> QED
    BY <1>1, <2>1, SinkExists
<1>3. PercolateDown(a, size, hole) = b
  BY DEF PercolateDown, SinkIs, Sinks, Below
<1> HIDE DEF f
<1>4. \A h \in 0 .. n - 1 : f[h] = IF Sinks(a, size, moved, h)
                                   THEN [f[Below(a, size, h)] EXCEPT ![h] = a[Below(a, size, h)]]
                                   ELSE [a EXCEPT ![h] = moved]
  BY <1>1, <1>2 DEF SinkIs
<1>5. CASE hole >= size
  <2>1. ~Sinks(a, size, moved, hole)
    BY <1>1, <1>5 DEF Sinks
  <2>2. b = [a EXCEPT ![hole] = moved]
    BY <1>4, <2>1
  <2>3. b = a
    BY <1>1, <2>2 DEF Slot
  <2>4. Ordered(a, size, expire, hole)
    <3>1. \A i \in 1 .. size - 1 : Parent(i) \in Nat /\ Parent(i) < i /\ ~(Parent(i) >= hole)
      BY <1>1, <1>5, Parents
    <3> QED
      BY <3>1 DEF Ordered
  <2> QED
    BY <1>3, <2>3, <2>4
<1>6. CASE hole < size
  <2> HIDE DEF b
  <2> DEFINE Good(h) ==
        /\ f[h] \in Slot(n)
        /\ \A i \in 0 .. n - 1 : i < h \/ i >= size => f[h][i] = a[i]
        /\ \A i \in h .. size - 1 : f[h][i] \in HeapTimers
        /\ f[h][h] = moved \/ \E c \in h + 1 .. size - 1 : Parent(c) = h /\ f[h][h] = a[c]
        /\ \A i \in h + 1 .. size - 1 : expire[a[i]] <= expire[f[h][i]]
        /\ \A i \in 1 .. size - 1 : Parent(i) >= h => expire[f[h][Parent(i)]] <= expire[f[h][i]]
        /\ \A i \in h .. size - 1 : f[h][i] = moved \/ \E j \in h + 1 .. size - 1 : f[h][i] = a[j]
        /\ \A j \in h + 1 .. size - 1 : \E i \in h .. size - 1 : f[h][i] = a[j]
        /\ \E i \in h .. size - 1 : f[h][i] = moved
        /\ \A i, j \in h .. size - 1 : f[h][i] = f[h][j] => i = j
  <2>1. /\ moved \in HeapTimers /\ expire[moved] \in Nat
        /\ \A i \in hole + 1 .. size - 1 : a[i] # moved
        /\ \A i \in 1 .. size - 1 : Parent(i) \in 0 .. size - 1 /\ Parent(i) < i
        /\ \A i \in 1 .. size - 1 : Parent(i) > hole => expire[a[Parent(i)]] <= expire[a[i]]
    <3>1. hole \in 0 .. size - 1
      BY <1>1, <1>6
    <3>2. \A i \in 1 .. size - 1 : Parent(i) \in 0 .. size - 1 /\ Parent(i) < i
      BY <1>1, Parents
    <3>3. \A i \in 1 .. size - 1 : Parent(i) > hole => Parent(i) >= hole + 1
      BY <3>2
    <3>4. \A i \in hole + 1 .. size - 1 : a[i] # moved
      BY <1>1, <3>1
    <3> QED
      BY <1>1, <3>1, <3>2, <3>3, <3>4 DEF Ordered
  <2> HIDE DEF moved
  <2>2. ASSUME NEW h \in hole .. size - 1, ~Sinks(a, size, moved, h) PROVE Good(h)
    <3> DEFINE r == f[h]
    <3>0. h \in 0 .. n - 1 /\ h \in 0 .. size - 1 /\ h \in Nat
      BY <1>1
    <3>1. r = [a EXCEPT ![h] = moved]
      BY <1>4, <2>2, <3>0
    <3> HIDE DEF r
    <3>2. /\ r \in Slot(n) /\ r[h] = moved /\ \A i \in 0 .. n - 1 : i # h => r[i] = a[i]
      BY <1>1, <2>1, <3>0, <3>1 DEF Slot
    <3>3. \A i \in h + 1 .. size - 1 : i \in 0 .. n - 1 /\ i # h /\ r[i] = a[i] /\ i \in 0 .. size - 1
                                       /\ i \in hole + 1 .. size - 1
      BY <1>1, <3>0, <3>2
    <3>4. \A i \in h .. size - 1 : i = h \/ i \in h + 1 .. size - 1
      BY <3>0
    <3>5. \A i \in 1 .. size - 1 : Parent(i) >= h => expire[r[Parent(i)]] <= expire[r[i]]
      <4> SUFFICES ASSUME NEW i \in 1 .. size - 1, Parent(i) >= h
                   PROVE  expire[r[Parent(i)]] <= expire[r[i]]
        OBVIOUS
      <4>1. i \in h + 1 .. size - 1 /\ r[i] = a[i] /\ Parent(i) \in 0 .. size - 1
        BY <2>1, <3>0, <3>3
      <4>2. CASE Parent(i) = h
        <5>1. 2 * h + 1 <= size - 1
          BY <1>1, <4>1, <4>2, Parents
        <5>2. \A j \in 1 .. size - 1 : a[j] \in HeapTimers
          BY <1>1
        <5>3. /\ Below(a, size, h) \in h + 1 .. size - 1
              /\ expire[a[Below(a, size, h)]] <= expire[a[i]]
          BY <1>1, <3>0, <4>2, <5>1, <5>2, BelowIs
        <5>4. ~(expire[a[Below(a, size, h)]] < expire[moved])
          BY <2>2, <5>1 DEF Sinks
        <5>5. expire[a[Below(a, size, h)]] \in Nat /\ expire[a[i]] \in Nat
          BY <1>1, <3>3, <4>1, <5>3
        <5> QED
          BY <2>1, <3>2, <4>1, <4>2, <5>3, <5>4, <5>5
      <4>3. CASE Parent(i) > h
        <5>1. Parent(i) \in h + 1 .. size - 1 /\ Parent(i) > hole
          BY <3>0, <4>1, <4>3
        <5> QED
          BY <2>1, <3>3, <4>1, <5>1
      <4> QED
        BY <3>0, <4>1, <4>2, <4>3
    <3>6. \A i \in h + 1 .. size - 1 : expire[a[i]] <= expire[r[i]]
      BY <1>1, <3>3
    <3>7. \A i \in h .. size - 1 : r[i] \in HeapTimers
      BY <1>1, <2>1, <3>2, <3>3, <3>4
    <3>8. /\ \A i \in h .. size - 1 : r[i] = moved \/ \E j \in h + 1 .. size - 1 : r[i] = a[j]
          /\ \A j \in h + 1 .. size - 1 : \E i \in h .. size - 1 : r[i] = a[j]
          /\ \E i \in h .. size - 1 : r[i] = moved
      <4>1. \A i \in h + 1 .. size - 1 : i \in h .. size - 1
        BY <3>0
      <4>2. h \in h .. size - 1
        BY <3>0
      <4> QED
        BY <3>2, <3>3, <3>4, <4>1, <4>2
    <3>9. \A i, j \in h .. size - 1 : r[i] = r[j] => i = j
      BY <1>1, <2>1, <3>2, <3>3, <3>4
    <3>10. \A i \in 0 .. n - 1 : i < h \/ i >= size => r[i] = a[i]
      BY <1>1, <3>0, <3>2
    <3> QED
      BY <3>2, <3>5, <3>6, <3>7, <3>8, <3>9, <3>10 DEF r
  <2>3. ASSUME NEW h \in hole .. size - 1, Sinks(a, size, moved, h), Good(Below(a, size, h))
        PROVE  Good(h)
    <3> DEFINE c == Below(a, size, h)
               q == f[c]
               r == f[h]
    <3>0. h \in 0 .. n - 1 /\ h \in 0 .. size - 1 /\ h \in Nat /\ 2 * h + 1 <= size - 1
      BY <1>1, <2>3 DEF Sinks
    <3>1. /\ c \in h + 1 .. size - 1 /\ Parent(c) = h
          /\ \A i \in 1 .. size - 1 : Parent(i) = h => expire[a[c]] <= expire[a[i]]
      <4>1. \A j \in 1 .. size - 1 : a[j] \in HeapTimers
        BY <1>1
      <4> QED
        BY <1>1, <3>0, <4>1, BelowIs
    <3>2. /\ q \in Slot(n)
          /\ \A i \in 0 .. n - 1 : i < c \/ i >= size => q[i] = a[i]
          /\ \A i \in c .. size - 1 : q[i] \in HeapTimers
          /\ q[c] = moved \/ \E d \in c + 1 .. size - 1 : Parent(d) = c /\ q[c] = a[d]
          /\ \A i \in c + 1 .. size - 1 : expire[a[i]] <= expire[q[i]]
          /\ \A i \in 1 .. size - 1 : Parent(i) >= c => expire[q[Parent(i)]] <= expire[q[i]]
          /\ \A i \in c .. size - 1 : q[i] = moved \/ \E j \in c + 1 .. size - 1 : q[i] = a[j]
          /\ \A j \in c + 1 .. size - 1 : \E i \in c .. size - 1 : q[i] = a[j]
          /\ \E i \in c .. size - 1 : q[i] = moved
          /\ \A i, j \in c .. size - 1 : q[i] = q[j] => i = j
      BY <2>3
    <3>3. r = [q EXCEPT ![h] = a[c]]
      BY <1>4, <2>3, <3>0
    <3>4. expire[a[c]] < expire[moved]
      BY <2>3 DEF Sinks
    <3> HIDE DEF c, q, r
    <3>5. c \in 0 .. size - 1 /\ c \in Nat /\ c \in hole + 1 .. size - 1 /\ a[c] \in HeapTimers
      BY <1>1, <3>0, <3>1
    <3>6. /\ r \in Slot(n) /\ r[h] = a[c] /\ \A i \in 0 .. n - 1 : i # h => r[i] = q[i]
      BY <1>1, <3>0, <3>2, <3>3, <3>5 DEF Slot
    <3>7. /\ \A i \in h + 1 .. c - 1 : r[i] = a[i] /\ i \in 0 .. size - 1 /\ i \in hole + 1 .. size - 1
          /\ \A i \in c .. size - 1 : r[i] = q[i] /\ i \in 0 .. size - 1 /\ i \in hole + 1 .. size - 1
      BY <1>1, <3>0, <3>1, <3>2, <3>5, <3>6
    <3>8. \A i \in h .. size - 1 : i = h \/ i \in h + 1 .. c - 1 \/ i \in c .. size - 1
      BY <3>0, <3>5
    <3>9. expire[a[c]] <= expire[q[c]]
      <4>1. CASE q[c] = moved
        BY <1>1, <2>1, <3>4, <3>5, <4>1
      <4>2. CASE \E d \in c + 1 .. size - 1 : Parent(d) = c /\ q[c] = a[d]
        <5>1. PICK d \in c + 1 .. size - 1 : Parent(d) = c /\ q[c] = a[d]
          BY <4>2
        <5>2. d \in 1 .. size - 1 /\ Parent(d) > hole
          BY <1>1, <3>5, <5>1
        <5> QED
          BY <2>1, <5>1, <5>2
      <4> QED
        BY <3>2, <4>1, <4>2
    <3>10. \A i \in h + 1 .. size - 1 : expire[a[i]] <= expire[r[i]]
      <4> SUFFICES ASSUME NEW i \in h + 1 .. size - 1 PROVE expire[a[i]] <= expire[r[i]]
        OBVIOUS
      <4>1. CASE i \in h + 1 .. c - 1
        BY <1>1, <3>7, <4>1
      <4>2. CASE i = c
        BY <3>5, <3>7, <3>9, <4>2
      <4>3. CASE i \in c + 1 .. size - 1
        BY <3>2, <3>5, <3>7, <4>3
      <4> QED
        BY <3>0, <3>5, <4>1, <4>2, <4>3
    <3>11. \A i \in h .. size - 1 : r[i] \in HeapTimers
      BY <1>1, <3>2, <3>5, <3>6, <3>7, <3>8
    <3>12. \A i \in 1 .. size - 1 : Parent(i) >= h => expire[r[Parent(i)]] <= expire[r[i]]
      <4> SUFFICES ASSUME NEW i \in 1 .. size - 1, Parent(i) >= h
                   PROVE  expire[r[Parent(i)]] <= expire[r[i]]
        OBVIOUS
      <4>0. /\ Parent(i) \in 0 .. size - 1 /\ Parent(i) < i /\ i \in h + 1 .. size - 1
            /\ expire[r[i]] \in Nat /\ expire[r[Parent(i)]] \in Nat /\ expire[a[i]] \in Nat
            /\ expire[a[i]] <= expire[r[i]]
        <5>1. Parent(i) \in 0 .. size - 1 /\ Parent(i) < i
          BY <2>1
        <5>2. i \in h + 1 .. size - 1 /\ Parent(i) \in h .. size - 1 /\ i \in h .. size - 1
              /\ i \in 0 .. size - 1
          BY <1>1, <3>0, <5>1
        <5> QED
          BY <1>1, <3>10, <3>11, <5>1, <5>2
      <4>1. CASE Parent(i) = h
        <5>1. expire[a[c]] <= expire[a[i]] /\ r[h] = a[c] /\ expire[a[c]] \in Nat
          BY <1>1, <3>1, <3>5, <3>6, <4>1
        <5> QED
          BY <4>0, <4>1, <5>1
      <4>2. CASE Parent(i) \in h + 1 .. c - 1
        <5>1. r[Parent(i)] = a[Parent(i)] /\ Parent(i) > hole
          BY <3>0, <3>7, <4>2
        <5>2. expire[a[Parent(i)]] <= expire[a[i]]
          BY <2>1, <5>1
        <5> QED
          BY <4>0, <5>1, <5>2
      <4>3. CASE Parent(i) \in c .. size - 1
        <5>1. r[Parent(i)] = q[Parent(i)] /\ i \in c .. size - 1
          BY <3>5, <3>7, <4>0, <4>3
        <5>2. r[i] = q[i]
          BY <3>7, <5>1
        <5>3. Parent(i) >= c
          BY <3>5, <4>3
        <5> QED
          BY <3>2, <5>1, <5>2, <5>3
      <4> QED
        BY <3>0, <3>5, <4>0, <4>1, <4>2, <4>3
    <3>13. /\ \A i \in c .. size - 1 : i \in h .. size - 1
           /\ \A i \in c + 1 .. size - 1 : i \in h + 1 .. size - 1
           /\ \A i \in h + 1 .. c - 1 : i \in h + 1 .. size - 1 /\ i \in h .. size - 1
           /\ c \in h + 1 .. size - 1 /\ h \in h .. size - 1
      BY <1>1, <3>0, <3>1, <3>5
    <3>14. \A i \in h .. size - 1 : r[i] = moved \/ \E j \in h + 1 .. size - 1 : r[i] = a[j]
      BY <3>2, <3>6, <3>7, <3>8, <3>13
    <3>15. \A j \in h + 1 .. size - 1 : \E i \in h .. size - 1 : r[i] = a[j]
      <4> SUFFICES ASSUME NEW j \in h + 1 .. size - 1 PROVE \E i \in h .. size - 1 : r[i] = a[j]
        OBVIOUS
      <4>1. CASE j \in h + 1 .. c - 1
        BY <3>7, <3>13, <4>1
      <4>2. CASE j = c
        BY <3>6, <3>13, <4>2
      <4>3. CASE j \in c + 1 .. size - 1
        BY <3>2, <3>7, <3>13, <4>3
      <4> QED
        BY <3>0, <3>5, <4>1, <4>2, <4>3
    <3>16. \E i \in h .. size - 1 : r[i] = moved
      BY <3>2, <3>7, <3>13
    <3>17. \A i, j \in h .. size - 1 : r[i] = r[j] => i = j
      <4>1. \A j \in c .. size - 1 : r[j] # a[c] /\ \A i \in h + 1 .. c - 1 : r[j] # a[i]
        <5>1. \A j \in c .. size - 1 : r[j] = moved \/ \E d \in c + 1 .. size - 1 : r[j] = a[d]
          BY <3>2, <3>7
        <5>2. \A d \in c + 1 .. size - 1 : d \in 0 .. size - 1 /\ d # c
          BY <3>5
        <5>3. \A i \in h + 1 .. c - 1 : i \in 0 .. size - 1 /\ ~(i \in c + 1 .. size - 1)
                                         /\ a[i] # moved
          BY <2>1, <3>5, <3>7
        <5>4. \A d \in c + 1 .. size - 1 : a[d] # a[c] /\ \A i \in h + 1 .. c - 1 : a[d] # a[i]
          BY <1>1, <3>5, <5>2, <5>3
        <5>5. a[c] # moved
          BY <2>1, <3>5
        <5> QED
          BY <5>1, <5>3, <5>4, <5>5
      <4>2. \A i \in h + 1 .. c - 1 : r[i] # a[c]
        BY <1>1, <3>5, <3>7
      <4> SUFFICES ASSUME NEW i \in h .. size - 1, NEW j \in h .. size - 1, r[i] = r[j] PROVE i = j
        OBVIOUS
      <4>3. CASE i \in c .. size - 1 /\ j \in c .. size - 1
        BY <3>2, <3>7, <4>3
      <4>4. CASE i \in h + 1 .. c - 1 /\ j \in h + 1 .. c - 1
        BY <1>1, <3>7, <4>4
      <4> QED
        BY <3>6, <3>7, <3>8, <4>1, <4>2, <4>3, <4>4
    <3>18. \A i \in 0 .. n - 1 : i < h \/ i >= size => r[i] = a[i]
      BY <1>1, <3>0, <3>1, <3>2, <3>5, <3>6
    <3>19. \E d \in h + 1 .. size - 1 : Parent(d) = h /\ r[h] = a[d]
      BY <3>1, <3>6
    <3> QED
      BY <3>6, <3>10, <3>11, <3>12, <3>14, <3>15, <3>16, <3>17, <3>18, <3>19 DEF r
  <2> DEFINE S == {m \in 0 .. size - 1 - hole : ~Good(size - 1 - m)}
  <2>4. S = {}
    <3>1. SUFFICES ASSUME S # {} PROVE FALSE
      OBVIOUS
    <3> HIDE DEF Good
    <3>2. S \subseteq Nat
      OBVIOUS
    <3>3. PICK m \in S : \A j \in S : m <= j
      BY <3>1, <3>2, Least
    <3> DEFINE h == size - 1 - m
    <3>4. h \in hole .. size - 1 /\ ~Good(h) /\ h \in 0 .. n - 1
      BY <1>1, <1>6
    <3>5. Sinks(a, size, moved, h)
      BY <2>2, <3>4
    <3>6. Below(a, size, h) \in h + 1 .. size - 1
      <4>1. \A j \in 1 .. size - 1 : a[j] \in HeapTimers
        BY <1>1
      <4> QED
        BY <1>1, <3>4, <3>5, <4>1, BelowIs DEF Sinks
    <3>7. ~Good(Below(a, size, h))
      BY <2>3, <3>4, <3>5
    <3>8. size - 1 - Below(a, size, h) \in S /\ size - 1 - Below(a, size, h) < m
      <4>1. Below(a, size, h) = size - 1 - (size - 1 - Below(a, size, h))
        BY <1>1, <3>6
      <4> QED
        BY <1>1, <3>4, <3>6, <3>7, <4>1
    <3> QED
      BY <3>2, <3>3, <3>8
  <2>5. Good(hole)
    <3> HIDE DEF Good
    <3>1. size - 1 - hole \in 0 .. size - 1 - hole /\ size - 1 - (size - 1 - hole) = hole
      BY <1>1, <1>6
    <3> QED
      BY <2>4, <3>1
  <2>6. /\ b \in Slot(n)
        /\ \A i \in 0 .. n - 1 : i < hole \/ i >= size => b[i] = a[i]
        /\ \A i \in hole .. size - 1 : b[i] \in HeapTimers
        /\ \A i \in 1 .. size - 1 : Parent(i) >= hole => expire[b[Parent(i)]] <= expire[b[i]]
        /\ \A i \in hole .. size - 1 : b[i] = moved \/ \E j \in hole + 1 .. size - 1 : b[i] = a[j]
        /\ \A j \in hole + 1 .. size - 1 : \E i \in hole .. size - 1 : b[i] = a[j]
        /\ \E i \in hole .. size - 1 : b[i] = moved
        /\ \A i, j \in hole .. size - 1 : b[i] = b[j] => i = j
    BY <2>5 DEF b
  <2> HIDE DEF Good
  <2>7. /\ \A i \in 0 .. size - 1 : i \in 0 .. hole - 1 \/ i = hole \/ i \in hole + 1 .. size - 1
        /\ \A i \in 0 .. size - 1 : i \in 0 .. hole - 1 \/ i \in hole .. size - 1
        /\ \A i \in hole + 1 .. size - 1 : i \in 0 .. size - 1 /\ i # hole
        /\ \A i \in hole .. size - 1 : i \in 0 .. size - 1
        /\ \A i \in 0 .. hole - 1 : i \in 0 .. size - 1 /\ b[i] = a[i] /\ i # hole
                                    /\ ~(i \in hole + 1 .. size - 1)
        /\ hole \in 0 .. size - 1 /\ moved = a[hole]
    BY <1>1, <1>6, <2>6 DEF moved
  <2>8. Held(b, size) = Held(a, size)
    <3>1. \A i \in 0 .. size - 1 : \E j \in 0 .. size - 1 : b[i] = a[j]
      BY <2>6, <2>7
    <3>2. \A j \in 0 .. size - 1 : \E i \in 0 .. size - 1 : b[i] = a[j]
      BY <2>6, <2>7
    <3>3. Held(b, size) \subseteq Held(a, size)
      BY <3>1 DEF Held
    <3>4. Held(a, size) \subseteq Held(b, size)
      BY <3>2 DEF Held
    <3> QED
      BY <3>3, <3>4
  <2>9. Filled(b, n, size)
    <3>1. \A i \in 0 .. hole - 1, j \in hole .. size - 1 : b[i] # b[j]
      BY <1>1, <2>6, <2>7
    <3>2. \A i, j \in 0 .. size - 1 : b[i] = b[j] => i = j
      BY <1>1, <2>6, <2>7, <3>1
    <3>3. \A i \in 0 .. size - 1 : b[i] \in HeapTimers
      BY <1>1, <2>6, <2>7
    <3> QED
      BY <2>6, <3>2, <3>3 DEF Filled
  <2> QED
    BY <1>3, <2>6, <2>8, <2>9 DEF Ordered
<1> QED
  BY <1>1, <1>5, <1>6

-------------------------------------------------------------------------------
(* The constructor: from the last place that may have children to the top. *)
FromIs(f, a, size) ==
  f = [i \in -1 .. size |-> IF i > (size - 1) \div 2 THEN a
                            ELSE PercolateDown(f[i + 1], size, i)]

LEMMA FromExists == ASSUME NEW a, NEW size \in Nat \ {0} PROVE \E f : FromIs(f, a, size)
<1> DEFINE last == (size - 1) \div 2
           Turn(f, i) == IF i > last THEN a ELSE PercolateDown(f[i + 1], size, i)
           Upto(f, m) == \A i \in -1 .. size : size - i < m => f[i] = Turn(f, i)
           Fails == {m \in Nat : ~ \E f : Upto(f, m)}
<1>1. last \in Nat /\ last < size
  OBVIOUS
<1> HIDE DEF last
<1>2. \A i \in -1 .. size : i > last \/ (i + 1 \in -1 .. size /\ size - (i + 1) < size - i)
  BY <1>1
<1>3. Fails = {}
  <2>1. SUFFICES ASSUME Fails # {} PROVE FALSE
    OBVIOUS
  <2>2. PICK m \in Fails : \A k \in Fails : m <= k
    BY <2>1, Least
  <2>3. m # 0
    <3>1. Upto(<< >>, 0)
      OBVIOUS
    <3> QED
      BY <3>1
  <2>4. m - 1 \in Nat /\ m - 1 \notin Fails /\ m \in Nat
    <3>1. m \in Nat
      OBVIOUS
    <3> HIDE DEF Fails
    <3> QED
      BY <2>2, <2>3, <3>1
  <2>5. PICK f : Upto(f, m - 1)
    BY <2>4
  <2> DEFINE g == [i \in -1 .. size |-> IF size - i < m - 1 THEN f[i] ELSE Turn(f, i)]
  <2>6. ASSUME NEW i \in -1 .. size, size - i < m PROVE g[i] = Turn(g, i)
    <3>1. g[i] = Turn(f, i)
      BY <2>5
    <3>2. i > last \/ g[i + 1] = f[i + 1]
      <4>1. i > last \/ (i + 1 \in -1 .. size /\ size - (i + 1) < m - 1)
        <5> HIDE DEF g, Upto, Fails, Turn
        <5> QED
          BY <1>1, <2>4, <2>6
      <4> QED
        BY <4>1
    <3> HIDE DEF g
    <3> QED
      BY <1>1, <3>1, <3>2
  <2> HIDE DEF g
  <2>7. Upto(g, m)
    BY <2>6
  <2> QED
    BY <2>2, <2>7
<1>4. PICK f : Upto(f, size + 2)
  <2>1. size + 2 \in Nat
    OBVIOUS
  <2> HIDE DEF Upto
  <2> QED
    BY <1>3, <2>1
<1> DEFINE g == [i \in -1 .. size |-> f[i]]
<1>5. ASSUME NEW i \in -1 .. size PROVE g[i] = Turn(g, i)
  <2>0. size - i < size + 2
    OBVIOUS
  <2>1. f[i] = Turn(f, i)
    BY <1>4, <2>0
  <2>2. g[i] = f[i] /\ (i > last \/ g[i + 1] = f[i + 1])
    BY <1>2
  <2> HIDE DEF g
  <2> QED
    BY <1>1, <2>1, <2>2
<1>6. g = [i \in -1 .. size |-> Turn(g, i)]
  <2>1. \A i \in -1 .. size : g[i] = Turn(g, i)
    BY <1>5
  <2>2. g = [i \in -1 .. size |-> g[i]]
    OBVIOUS
  <2> HIDE DEF g, Turn
  <2> QED
    BY <2>1, <2>2
<1> HIDE DEF g
<1>7. FromIs(g, a, size)
  BY <1>6 DEF FromIs, last
<1> QED
  BY <1>7

(* It makes a heap of the array it is given.                               *)
LEMMA Heapifies ==
  ASSUME NEW a, NEW n, NEW size, Filled(a, n, size), expire \in [HeapTimers -> Nat]
  PROVE  LET b == Heapified(a, size)
         IN  Filled(b, n, size) /\ Ordered(b, size, expire, 0) /\ Held(b, size) = Held(a, size)
<1>0. n \in Nat /\ size \in Nat /\ size <= n
  BY DEF Filled
<1>1. CASE size = 0
  <2>1. Ordered(a, size, expire, 0)
    BY <1>1 DEF Ordered
  <2> QED
    BY <1>1, <2>1 DEF Heapified
<1>2. CASE size # 0
  <2> DEFINE f == CHOOSE from : FromIs(from, a, size)
             last == (size - 1) \div 2
  <2>1. FromIs(f, a, size)
    BY <1>0, <1>2, FromExists
  <2>2. Heapified(a, size) = f[0]
    BY <1>2 DEF Heapified, FromIs
  <2> HIDE DEF f
  <2>3. \A i \in 0 .. size : f[i] = IF i > last THEN a ELSE PercolateDown(f[i + 1], size, i)
    <3>1. \A i \in 0 .. size : i \in -1 .. size
      BY <1>0
    <3> QED
      BY <2>1, <3>1 DEF FromIs
  <2>4. last \in Nat /\ last < size
    BY <1>0, <1>2
  <2>5. \A i \in 1 .. size - 1 : Parent(i) \in Nat /\ Parent(i) <= last
    BY <1>0, <1>2 DEF Parent
  <2> HIDE DEF last
  <2> DEFINE Good(i) == /\ Filled(f[i], n, size) /\ Ordered(f[i], size, expire, i)
                        /\ Held(f[i], size) = Held(a, size)
  <2>6. ASSUME NEW i \in 0 .. size, i > last PROVE Good(i)
    <3>1. f[i] = a
      BY <2>3, <2>6
    <3>2. Ordered(a, size, expire, i)
      <4>1. \A j \in 1 .. size - 1 : ~(Parent(j) >= i)
        BY <1>0, <2>4, <2>5, <2>6
      <4> QED
        BY <4>1 DEF Ordered
    <3> QED
      BY <3>1, <3>2
  <2>7. ASSUME NEW i \in 0 .. size, ~(i > last), Good(i + 1) PROVE Good(i)
    <3>1. f[i] = PercolateDown(f[i + 1], size, i)
      BY <2>3, <2>7
    <3>2. i \in 0 .. n - 1
      BY <1>0, <2>4, <2>7
    <3> QED
      BY <2>7, <3>1, <3>2, SinksDown
  <2> DEFINE S == {m \in 0 .. size : ~Good(size - m)}
  <2> HIDE DEF Good
  <2>8. S = {}
    <3>1. SUFFICES ASSUME S # {} PROVE FALSE
      OBVIOUS
    <3>2. S \subseteq Nat
      BY <1>0
    <3>3. PICK m \in S : \A k \in S : m <= k
      BY <3>1, <3>2, Least
    <3> DEFINE i == size - m
    <3>4. i \in 0 .. size /\ ~Good(i) /\ m \in Nat
      BY <1>0
    <3>5. ~(i > last) /\ ~Good(i + 1)
      BY <2>6, <2>7, <3>4
    <3>6. m - 1 \in S
      <4>1. m - 1 \in 0 .. size /\ size - (m - 1) = i + 1
        BY <1>0, <2>4, <3>4, <3>5
      <4> QED
        BY <3>5, <4>1
    <3> HIDE DEF S
    <3> QED
      BY <3>3, <3>4, <3>6
  <2>9. Good(0)
    <3>1. size \in 0 .. size /\ size - size = 0
      BY <1>0
    <3> QED
      BY <2>8, <3>1
  <2> QED
    BY <2>2, <2>9 DEF Good
<1> QED
  BY <1>1, <1>2

-------------------------------------------------------------------------------
(* What holds between the steps.  The timer whose callback runs stays the  *)
(* top: it is due by now, and what is added meanwhile is due later.        *)
HeapInv ==
  /\ \E n \in Nat : Filled(array, n, cur_size)
  /\ Ordered(array, cur_size, expire, 0)
  /\ expire \in [HeapTimers -> Nat]
  /\ cb_func \subseteq InHeap
  /\ time \in Nat
  /\ cur # NoHeapTimer => cur \in Nat /\ cur <= time
  /\ calling \in BOOLEAN
  /\ calling => cur # NoHeapTimer /\ TopExpired /\ array[0] \in cb_func

(* The times of the timers that have yet to fire, which TimerSet calls due. *)
Dues == [t \in HeapTimers |-> IF t \in HeapPending THEN expire[t] ELSE NoHeapTimer]

HeapMoves == HeapSet!Next \/ UNCHANGED <<time, Dues, cur>>

LEMMA DueOf ==
  ASSUME HeapInv
  PROVE  /\ HeapPending \subseteq cb_func /\ cb_func \subseteq InHeap /\ InHeap \subseteq HeapTimers
         /\ cur_size > 0 => array[0] \in InHeap /\ \A u \in InHeap : expire[array[0]] <= expire[u]
         /\ \A t \in HeapTimers : /\ expire[t] \in Nat /\ expire[t] # NoHeapTimer
                                  /\ Dues[t] # NoHeapTimer <=> t \in HeapPending
                                  /\ t \in HeapPending => Dues[t] = expire[t]
         /\ HeapSet!Pending = HeapPending
         /\ InHeap = Held(array, cur_size)
         /\ cur_size \in Nat /\ (cur_size = 0 => InHeap = {})
<1>1. PICK n \in Nat : Filled(array, n, cur_size)
  BY DEF HeapInv
<1>2. /\ cur_size \in Nat /\ \A i \in 0 .. cur_size - 1 : array[i] \in HeapTimers
  BY <1>1 DEF Filled
<1>3. InHeap \subseteq HeapTimers /\ cb_func \subseteq InHeap /\ HeapPending \subseteq cb_func
  BY <1>2 DEF InHeap, HeapPending, HeapInv
<1>4. expire \in [HeapTimers -> Nat] /\ NoHeapTimer \notin Nat
  BY TimeHeapAssumption DEF HeapInv
<1>5. \A t \in HeapTimers : /\ expire[t] \in Nat /\ expire[t] # NoHeapTimer
                            /\ Dues[t] # NoHeapTimer <=> t \in HeapPending
                            /\ t \in HeapPending => Dues[t] = expire[t]
  BY <1>4 DEF Dues
<1>6. HeapSet!Pending = HeapPending
  <2>1. HeapSet!Pending = {t \in HeapTimers : Dues[t] # NoHeapTimer}
    BY DEF HeapSet!Pending, Dues
  <2> QED
    BY <1>3, <1>5, <2>1
<1>7. ASSUME cur_size > 0
      PROVE  array[0] \in InHeap /\ \A u \in InHeap : expire[array[0]] <= expire[u]
  <2>1. 0 \in 0 .. cur_size - 1
    BY <1>2, <1>7
  <2>2. \A i \in 0 .. cur_size - 1 : expire[array[0]] <= expire[array[i]]
    BY <1>1, <1>4, TopIsFirst DEF HeapInv
  <2> QED
    BY <2>1, <2>2 DEF InHeap
<1>8. InHeap = Held(array, cur_size) /\ (cur_size = 0 => InHeap = {})
  BY <1>2 DEF InHeap, Held
<1> QED
  BY <1>2, <1>3, <1>5, <1>6, <1>7, <1>8

-------------------------------------------------------------------------------
LEMMA HeapAddMoves ==
  ASSUME HeapInv, NEW t \in HeapTimers, NEW delay \in Delays, HeapAdd(t, delay)
  PROVE  HeapInv' /\ HeapSet!Add(t, delay)
<1> DEFINE e == time + delay
           a == IF cur_size >= capacity(array) THEN Resized(array, cur_size) ELSE array
<1>1. /\ time \in Nat /\ e \in Nat /\ time <= e
      /\ cur # NoHeapTimer => cur \in Nat /\ cur <= time
  <2>1. delay \in Nat /\ time \in Nat
    BY TimeHeapAssumption DEF HeapInv
  <2> QED
    BY <2>1 DEF HeapInv
<1>2. /\ t \notin InHeap /\ array' = PercolateUp(a, cur_size, t, e) /\ cur_size' = cur_size + 1
      /\ expire' = [expire EXCEPT ![t] = e] /\ cb_func' = cb_func \cup {t}
      /\ UNCHANGED <<time, cur, calling>>
  BY DEF HeapAdd
<1> HIDE DEF e
<1>3. PICK n \in Nat : Filled(array, n, cur_size)
  BY DEF HeapInv
<1>4. /\ cur_size \in Nat /\ cur_size <= n /\ n > 0 /\ array \in Slot(n)
      /\ DOMAIN array = 0 .. n - 1
      /\ \A i \in 0 .. cur_size - 1 : array[i] \in HeapTimers
      /\ \A i, j \in 0 .. cur_size - 1 : array[i] = array[j] => i = j
  BY <1>3 DEF Filled, Slot
<1>5. capacity(array) = n
  BY <1>4, FS_Interval DEF capacity
<1>6. PICK m \in Nat : Filled(a, m, cur_size) /\ cur_size < m
  <2>1. CASE cur_size >= n
    <3>1. a = [i \in 0 .. 2 * n - 1 |-> IF i < cur_size THEN array[i] ELSE NoHeapTimer]
      BY <1>5, <2>1 DEF Resized
    <3> HIDE DEF a
    <3>2. a \in Slot(2 * n)
      <4>1. \A i \in 0 .. 2 * n - 1 : i < cur_size => i \in 0 .. cur_size - 1
        BY <1>4
      <4> QED
        BY <1>4, <3>1, <4>1 DEF Slot
    <3>3. \A i \in 0 .. cur_size - 1 : i \in 0 .. 2 * n - 1 /\ a[i] = array[i]
      BY <1>4, <3>1
    <3>4. Filled(a, 2 * n, cur_size)
      <4>1. 2 * n \in Nat \ {0} /\ cur_size \in 0 .. 2 * n
        BY <1>4
      <4> QED
        BY <1>4, <3>2, <3>3, <4>1 DEF Filled
    <3> QED
      BY <1>4, <3>4
  <2>2. CASE ~(cur_size >= n)
    BY <1>3, <1>4, <1>5, <2>2
  <2> QED
    BY <2>1, <2>2
<1>7. \A i \in 0 .. cur_size - 1 : a[i] = array[i]
  <2>1. \A i \in 0 .. cur_size - 1 : i \in 0 .. 2 * n - 1 /\ i < cur_size
    BY <1>4
  <2> QED
    BY <1>5, <2>1 DEF Resized
<1> HIDE DEF a
<1>8. Ordered(a, cur_size, expire, 0)
  <2>1. \A i \in 1 .. cur_size - 1 : i \in 0 .. cur_size - 1 /\ Parent(i) \in 0 .. cur_size - 1
    BY <1>4, Parents
  <2> QED
    BY <1>7, <2>1 DEF HeapInv, Ordered
<1>9. Held(a, cur_size) = InHeap
  BY <1>7 DEF Held, InHeap
<1>10. /\ Filled(array', m, cur_size') /\ Ordered(array', cur_size', expire', 0)
       /\ InHeap' = InHeap \cup {t}
       /\ cur_size > 0 /\ expire[array[0]] <= e => array'[0] = array[0]
  <2>1. expire \in [HeapTimers -> Nat] /\ t \in HeapTimers \ Held(a, cur_size)
    BY <1>2, <1>9 DEF HeapInv
  <2>2. LET b == PercolateUp(a, cur_size, t, e)
        IN  /\ Filled(b, m, cur_size + 1)
            /\ Ordered(b, cur_size + 1, expire', 0)
            /\ Held(b, cur_size + 1) = Held(a, cur_size) \cup {t}
            /\ cur_size > 0 /\ expire[a[0]] <= e => b[0] = a[0]
    <3>1. /\ expire' \in [HeapTimers -> Nat] /\ expire'[t] = e
          /\ \A u \in HeapTimers \ {t} : expire'[u] = expire[u]
      BY <1>1, <1>2, <2>1
    <3> QED
      BY <1>1, <1>6, <1>8, <2>1, <3>1, Rises
  <2>3. cur_size > 0 => a[0] = array[0]
    BY <1>4, <1>7
  <2>4. InHeap' = Held(array', cur_size')
    BY DEF InHeap, Held
  <2> QED
    BY <1>2, <1>9, <2>2, <2>3, <2>4
<1>11. /\ InHeap \subseteq HeapTimers /\ cb_func \subseteq InHeap /\ expire \in [HeapTimers -> Nat]
       /\ cur_size > 0 => array[0] \in InHeap
  BY DueOf DEF HeapInv
<1>12. ASSUME calling
       PROVE  /\ array'[0] = array[0] /\ array[0] \in cb_func /\ cur # NoHeapTimer /\ TopExpired
              /\ expire'[array[0]] = expire[array[0]]
  <2>1. cur # NoHeapTimer /\ TopExpired /\ array[0] \in cb_func /\ array[0] # t
    BY <1>2, <1>11, <1>12 DEF HeapInv
  <2>2. expire[array[0]] <= e /\ cur_size > 0
    <3>1. expire[array[0]] \in Nat /\ expire[array[0]] <= cur /\ cur_size > 0
      BY <1>11, <2>1 DEF TopExpired
    <3> QED
      BY <1>1, <2>1, <3>1
  <2> QED
    BY <1>2, <1>10, <1>11, <2>1, <2>2
<1>13. HeapInv'
  <2>1. expire' \in [HeapTimers -> Nat] /\ cb_func' \subseteq InHeap'
    BY <1>1, <1>2, <1>10, <1>11
  <2>2. calling' => cur' # NoHeapTimer /\ TopExpired' /\ array'[0] \in cb_func'
    <3>1. cur_size > 0 => cur_size + 1 > 0
      BY <1>4
    <3> QED
      BY <1>2, <1>12, <3>1 DEF TopExpired
  <2> QED
    BY <1>1, <1>2, <1>6, <1>10, <2>1, <2>2 DEF HeapInv
<1>14. HeapPending' = HeapPending \cup {t} /\ t \notin HeapPending
  BY <1>2, <1>10, <1>11, <1>12 DEF HeapPending
<1>15. Dues' = [Dues EXCEPT ![t] = e]
  BY <1>2, <1>11, <1>14 DEF Dues
<1> QED
  BY <1>2, <1>13, <1>14, <1>15, DueOf DEF HeapSet!Add, HeapDelay, Dues, e

LEMMA HeapDelMoves ==
  ASSUME HeapInv, NEW t \in HeapTimers, HeapDel(t)
  PROVE  HeapInv' /\ HeapSet!Delete(t)
<1>1. /\ t \in HeapPending /\ cb_func' = cb_func \ {t}
      /\ UNCHANGED <<array, cur_size, expire, time, cur, calling>>
  BY DEF HeapDel
<1>2. InHeap' = InHeap /\ TopExpired' = TopExpired
  BY <1>1 DEF InHeap, TopExpired
<1>3. calling => array[0] # t
  BY <1>1 DEF HeapPending
<1>4. HeapInv'
  BY <1>1, <1>2, <1>3 DEF HeapInv
<1>5. HeapPending' = HeapPending \ {t}
  BY <1>1, <1>2 DEF HeapPending
<1>6. Dues' = [Dues EXCEPT ![t] = NoHeapTimer]
  BY <1>1, <1>5 DEF Dues
<1> QED
  BY <1>1, <1>4, <1>6, DueOf DEF HeapSet!Delete, Dues

-------------------------------------------------------------------------------
(* What delete and percolate_down leave: the heap without its top.         *)
LEMMA PopKeeps ==
  ASSUME HeapInv, cur_size > 0, Popped
  PROVE  /\ \E n \in Nat : Filled(array', n, cur_size')
         /\ Ordered(array', cur_size', expire', 0)
         /\ expire' \in [HeapTimers -> Nat]
         /\ InHeap' = InHeap \ {array[0]}
<1> DEFINE last == cur_size - 1
           a == [array EXCEPT ![0] = array[last]]
<1>1. PICK n \in Nat : Filled(array, n, cur_size)
  BY DEF HeapInv
<1>2. /\ cur_size \in Nat /\ cur_size <= n /\ n > 0 /\ array \in Slot(n)
      /\ \A i \in 0 .. cur_size - 1 : array[i] \in HeapTimers
      /\ \A i, j \in 0 .. cur_size - 1 : array[i] = array[j] => i = j
  BY <1>1 DEF Filled
<1>3. /\ cur_size' = last /\ array' = PercolateDown(a, last, 0)
      /\ expire' = [expire EXCEPT ![array[0]] = 0]
  BY DEF Popped
<1>4. last \in Nat /\ last < n /\ 0 \in 0 .. n - 1 /\ last \in 0 .. cur_size - 1 /\ 0 \in 0 .. cur_size - 1
  BY <1>2
<1>5. /\ a \in Slot(n) /\ a[0] = array[last]
      /\ \A i \in 0 .. n - 1 : i # 0 => a[i] = array[i]
  BY <1>2, <1>4 DEF Slot
<1>6. \A i \in 0 .. last - 1 : /\ i \in 0 .. n - 1 /\ i \in 0 .. cur_size - 1 /\ i # last
                               /\ i # 0 => a[i] = array[i]
  BY <1>4, <1>5
<1>e. expire \in [HeapTimers -> Nat] /\ Ordered(array, cur_size, expire, 0)
  BY DEF HeapInv
<1> HIDE DEF last, a
<1>7. Filled(a, n, last)
  <2>1. \A i \in 0 .. last - 1 : a[i] \in HeapTimers
    BY <1>2, <1>4, <1>5, <1>6
  <2>2. \A i, j \in 0 .. last - 1 : a[i] = a[j] => i = j
    BY <1>2, <1>4, <1>5, <1>6
  <2>3. n \in Nat \ {0} /\ last \in 0 .. n
    BY <1>2, <1>4
  <2> QED
    BY <1>5, <2>1, <2>2, <2>3 DEF Filled
<1>8. Ordered(a, last, expire, 0 + 1)
  <2> SUFFICES ASSUME NEW i \in 1 .. last - 1, Parent(i) >= 0 + 1
               PROVE  expire[a[Parent(i)]] <= expire[a[i]]
    BY DEF Ordered
  <2>1. i \in 0 .. last - 1 /\ i # 0 /\ i \in Nat
    BY <1>4
  <2>2. Parent(i) \in 0 .. last - 1 /\ Parent(i) # 0
    BY <1>4, <2>1, Parents
  <2>3. a[i] = array[i] /\ a[Parent(i)] = array[Parent(i)] /\ i \in 1 .. cur_size - 1
    BY <1>2, <1>6, <2>1, <2>2
  <2> QED
    BY <1>e, <2>2, <2>3 DEF Ordered
<1>9. Filled(array', n, last) /\ Ordered(array', last, expire, 0) /\ Held(array', last) = Held(a, last)
  BY <1>3, <1>4, <1>7, <1>8, <1>e, SinksDown
<1>10. Held(a, last) = InHeap \ {array[0]}
  <2>1. ASSUME NEW i \in 0 .. last - 1 PROVE a[i] \in InHeap \ {array[0]}
    <3>1. CASE i = 0
      BY <1>2, <1>4, <1>5, <1>6, <3>1 DEF InHeap
    <3>2. CASE i # 0
      BY <1>2, <1>4, <1>6, <3>2 DEF InHeap
    <3> QED
      BY <3>1, <3>2
  <2>2. ASSUME NEW x \in InHeap \ {array[0]} PROVE \E i \in 0 .. last - 1 : a[i] = x
    <3>1. PICK i \in 0 .. cur_size - 1 : x = array[i]
      BY DEF InHeap
    <3>2. i # 0
      BY <3>1
    <3>3. CASE i = last
      <4>1. 0 \in 0 .. last - 1
        BY <1>4, <3>2, <3>3
      <4> QED
        BY <1>5, <3>1, <3>3, <4>1
    <3>4. CASE i # last
      <4>1. i \in 0 .. last - 1
        BY <1>2, <3>4 DEF last
      <4> QED
        BY <1>6, <3>1, <3>2, <4>1
    <3> QED
      BY <3>3, <3>4
  <2> QED
    BY <2>1, <2>2 DEF Held
<1>11. Ordered(array', last, expire', 0)
  <2>1. array[0] \in HeapTimers
    BY <1>2, <1>4
  <2>2. \A i \in 0 .. last - 1 : array'[i] # array[0] /\ array'[i] \in HeapTimers
    <3>1. \A i \in 0 .. last - 1 : array'[i] \in Held(array', last)
      BY DEF Held
    <3> QED
      BY <1>9, <1>10, <3>1 DEF Filled
  <2>3. \A i \in 0 .. last - 1 : expire'[array'[i]] = expire[array'[i]]
    BY <1>3, <1>e, <2>1, <2>2
  <2>4. \A i \in 1 .. last - 1 : i \in 0 .. last - 1 /\ Parent(i) \in 0 .. last - 1
    BY <1>4, Parents
  <2> QED
    BY <1>9, <2>3, <2>4 DEF Ordered
<1>12. expire' \in [HeapTimers -> Nat]
  BY <1>3, <1>e
<1>13. InHeap' = Held(array', last)
  BY <1>3 DEF InHeap, Held
<1> QED
  BY <1>3, <1>9, <1>10, <1>11, <1>12, <1>13

LEMMA HeapPopMoves ==
  ASSUME HeapInv, HeapPop
  PROVE  HeapInv' /\ HeapMoves
<1>1. /\ cur = NoHeapTimer /\ cur_size > 0 /\ Popped /\ calling' = calling
      /\ cb_func' = cb_func \ {array[0]} /\ expire' = [expire EXCEPT ![array[0]] = 0]
      /\ UNCHANGED <<time, cur>>
  BY DEF HeapPop, Popped
<1>2. ~calling /\ calling \in BOOLEAN
  BY <1>1 DEF HeapInv
<1>3. InHeap' = InHeap \ {array[0]} /\ cb_func \subseteq InHeap
  BY <1>1, PopKeeps DEF HeapInv
<1>4. HeapInv'
  BY <1>1, <1>2, <1>3, PopKeeps DEF HeapInv
<1>5. PICK t \in HeapTimers : t = array[0]
  BY <1>1, DueOf
<1>6. HeapPending' = HeapPending \ {t} /\ (t \in HeapPending <=> t \in cb_func)
  BY <1>1, <1>2, <1>3, <1>5 DEF HeapPending
<1>7. expire \in [HeapTimers -> Nat]
  BY DEF HeapInv
<1>8. Dues' = [Dues EXCEPT ![t] = NoHeapTimer]
  BY <1>1, <1>5, <1>6, <1>7 DEF Dues
<1>9. CASE t \in cb_func
  <2>1. HeapSet!Delete(t)
    BY <1>1, <1>6, <1>8, <1>9, DueOf DEF HeapSet!Delete, Dues
  <2> QED
    BY <1>4, <2>1 DEF HeapMoves, HeapSet!Next
<1>10. CASE t \notin cb_func
  <2>1. Dues' = Dues
    BY <1>6, <1>8, <1>10 DEF Dues
  <2> QED
    BY <1>1, <1>4, <2>1 DEF HeapMoves
<1> QED
  BY <1>9, <1>10

LEMMA HeapFireMoves ==
  ASSUME HeapInv, HeapFire
  PROVE  HeapInv' /\ \E t \in HeapTimers : HeapSet!Fire(t)
<1>1. /\ cur # NoHeapTimer /\ ~calling /\ TopExpired /\ array[0] \in cb_func /\ calling' = TRUE
      /\ UNCHANGED <<array, cur_size, expire, cb_func, time, cur>>
  BY DEF HeapFire
<1>2. InHeap' = InHeap /\ TopExpired' = TopExpired
  BY <1>1 DEF InHeap, TopExpired
<1>3. HeapInv'
  BY <1>1, <1>2 DEF HeapInv
<1>4. PICK t \in HeapTimers : t = array[0]
  BY <1>1, DueOf DEF TopExpired
<1>5. HeapPending' = HeapPending \ {t} /\ t \in HeapPending /\ HeapPending \subseteq InHeap
  BY <1>1, <1>2, <1>4, DueOf DEF HeapPending
<1>6. Dues' = [Dues EXCEPT ![t] = NoHeapTimer]
  BY <1>1, <1>5 DEF Dues
<1>7. \A u \in HeapPending : expire[t] <= expire[u]
  BY <1>1, <1>4, <1>5, DueOf DEF TopExpired
<1>8. Dues[t] <= cur /\ \A u \in HeapPending : Dues[t] <= Dues[u]
  BY <1>1, <1>4, <1>5, <1>7, DueOf DEF TopExpired
<1>9. t \in HeapSet!Pending /\ HeapSet!Pending = HeapPending
  BY <1>5, DueOf
<1>10. HeapSet!Fire(t)
  BY <1>1, <1>6, <1>8, <1>9 DEF HeapSet!Fire, Dues
<1> QED
  BY <1>3, <1>10

LEMMA HeapFiredMoves ==
  ASSUME HeapInv, HeapFired
  PROVE  HeapInv' /\ UNCHANGED <<time, Dues, cur>>
<1>1. /\ cur # NoHeapTimer /\ Popped /\ calling' = FALSE
      /\ calling \/ (TopExpired /\ array[0] \notin cb_func)
      /\ cb_func' = cb_func \ {array[0]} /\ expire' = [expire EXCEPT ![array[0]] = 0]
      /\ UNCHANGED <<time, cur>>
  BY DEF HeapFired, Popped
<1>2. cur_size > 0
  BY <1>1 DEF HeapInv, TopExpired
<1>3. InHeap' = InHeap \ {array[0]} /\ cb_func \subseteq InHeap
  BY <1>1, <1>2, PopKeeps DEF HeapInv
<1>4. HeapInv'
  BY <1>1, <1>2, <1>3, PopKeeps DEF HeapInv
<1>5. HeapPending' = HeapPending /\ array[0] \notin HeapPending /\ array[0] \in HeapTimers
  <2>1. array[0] \in HeapTimers
    BY <1>2, DueOf
  <2> QED
    BY <1>1, <1>3, <2>1 DEF HeapPending
<1>6. expire \in [HeapTimers -> Nat]
  BY DEF HeapInv
<1>7. Dues' = Dues
  BY <1>1, <1>5, <1>6 DEF Dues
<1> QED
  BY <1>1, <1>4, <1>7

LEMMA HeapTickEndsMoves ==
  ASSUME HeapInv, HeapTickEnds
  PROVE  HeapInv' /\ HeapSet!TickEnds
<1>1. /\ cur # NoHeapTimer /\ ~calling /\ ~TopExpired /\ cur' = NoHeapTimer
      /\ UNCHANGED <<array, cur_size, expire, cb_func, time, calling>>
      /\ cur \in Nat /\ time \in Nat
  BY DEF HeapInv, HeapTickEnds
<1>2. InHeap' = InHeap /\ HeapPending' = HeapPending
  BY <1>1 DEF InHeap, HeapPending
<1>3. HeapInv'
  BY <1>1, <1>2 DEF HeapInv
<1>4. Dues' = Dues
  BY <1>1, <1>2 DEF Dues
<1>5. ASSUME NEW u \in HeapPending PROVE Dues[u] > cur
  <2>1. u \in InHeap /\ u \in HeapTimers /\ Dues[u] = expire[u] /\ expire[u] \in Nat
    BY DueOf
  <2>2. cur_size > 0 /\ expire[array[0]] <= expire[u] /\ array[0] \in HeapTimers
    BY <2>1, DueOf
  <2>3. ~(expire[array[0]] <= cur) /\ expire[array[0]] \in Nat
    BY <1>1, <2>2, DueOf DEF TopExpired
  <2> QED
    BY <1>1, <2>1, <2>2, <2>3
<1>6. HeapSet!Pending = HeapPending /\ time' = time + 0
  BY <1>1, DueOf
<1> QED
  BY <1>1, <1>3, <1>4, <1>5, <1>6 DEF HeapSet!TickEnds, Dues

-------------------------------------------------------------------------------
LEMMA HeapStarts == HeapInit => HeapInv /\ HeapSet!Init
<1> SUFFICES ASSUME HeapInit PROVE HeapInv /\ HeapSet!Init
  OBVIOUS
<1> DEFINE Made(cap, size, init_array) ==
        /\ \A i, j \in 0 .. size - 1 : init_array[i] = init_array[j] => i = j
        /\ cb_func = {init_array[i] : i \in 0 .. size - 1}
        /\ cur_size = size
        /\ array = Heapified([i \in 0 .. cap - 1 |->
                                 IF i < size THEN init_array[i] ELSE NoHeapTimer], size)
<1>0. PICK cap \in Capacities : \E size \in 0 .. cap :
        \E init_array \in [0 .. size - 1 -> HeapTimers] : Made(cap, size, init_array)
  BY DEF HeapInit
<1>s. PICK size \in 0 .. cap :
        \E init_array \in [0 .. size - 1 -> HeapTimers] : Made(cap, size, init_array)
  BY <1>0
<1>1. PICK init_array \in [0 .. size - 1 -> HeapTimers] : Made(cap, size, init_array)
  BY <1>s
<1>2. /\ expire \in [HeapTimers -> Delays \cup {0}]
      /\ \A t \in HeapTimers : t \in cb_func => expire[t] \in Delays
      /\ time = 0 /\ cur = NoHeapTimer /\ calling = FALSE
  BY DEF HeapInit
<1>3. expire \in [HeapTimers -> Nat]
  <2>1. Delays \cup {0} \subseteq Nat
    BY TimeHeapAssumption
  <2> HIDE DEF Made
  <2> QED
    BY ONLY <1>2, <2>1
<1> DEFINE a == [i \in 0 .. cap - 1 |-> IF i < size THEN init_array[i] ELSE NoHeapTimer]
<1>4. /\ cap \in Nat \ {0} /\ size \in Nat /\ size <= cap
  BY TimeHeapAssumption
<1>5. a \in Slot(cap) /\ \A i \in 0 .. size - 1 : a[i] = init_array[i]
  <2>1. \A i \in 0 .. cap - 1 : i < size => i \in 0 .. size - 1
    BY <1>4
  <2>2. \A i \in 0 .. size - 1 : i \in 0 .. cap - 1 /\ i < size
    BY <1>4
  <2> QED
    BY <2>1, <2>2 DEF Slot
<1> HIDE DEF a
<1>6. Filled(a, cap, size) /\ Held(a, size) = cb_func
  <2>1. cap \in Nat \ {0} /\ size \in 0 .. cap
    BY <1>4
  <2> QED
    BY <1>1, <1>5, <2>1 DEF Filled, Held
<1>7. /\ Filled(array, cap, cur_size) /\ Ordered(array, cur_size, expire, 0)
      /\ Held(array, cur_size) = cb_func
  BY <1>1, <1>3, <1>6, Heapifies DEF a
<1>8. InHeap = cb_func
  BY <1>7 DEF InHeap, Held
<1>9. HeapInv
  BY <1>2, <1>3, <1>4, <1>7, <1>8 DEF HeapInv
<1>10. Dues \in [HeapTimers -> Delays \cup {NoHeapTimer}]
  <2>1. \A t \in HeapTimers : t \in HeapPending => expire[t] \in Delays
    BY <1>2, <1>8 DEF HeapPending
  <2> QED
    BY <2>1 DEF Dues
<1> QED
  BY <1>2, <1>9, <1>10 DEF HeapSet!Init, Dues

LEMMA HeapSteps == HeapInv /\ [HeapNext]_heapVars => HeapInv' /\ HeapMoves
<1> SUFFICES ASSUME HeapInv, [HeapNext]_heapVars PROVE HeapInv' /\ HeapMoves
  OBVIOUS
<1>1. CASE \E t \in HeapTimers : HeapDel(t)
  BY <1>1, HeapDelMoves DEF HeapMoves, HeapSet!Next
<1>2. CASE \E t \in HeapTimers, delay \in Delays : HeapAdd(t, delay)
  BY <1>2, HeapAddMoves DEF HeapMoves, HeapSet!Next
<1>3. CASE HeapPop
  BY <1>3, HeapPopMoves
<1>4. CASE HeapTick
  <2>1. /\ cur = NoHeapTimer /\ cur' = time
        /\ UNCHANGED <<array, cur_size, expire, cb_func, time, calling>>
    BY <1>4 DEF HeapTick
  <2>2. InHeap' = InHeap /\ HeapPending' = HeapPending
    BY <2>1 DEF InHeap, HeapPending
  <2>3. HeapInv'
    BY <2>1, <2>2 DEF HeapInv
  <2>4. Dues' = Dues
    BY <2>1, <2>2 DEF Dues
  <2> QED
    BY <2>1, <2>3, <2>4 DEF HeapMoves, HeapSet!Next, HeapSet!TickBegins, Dues
<1>5. CASE HeapFire
  BY <1>5, HeapFireMoves DEF HeapMoves, HeapSet!Next
<1>6. CASE HeapFired
  BY <1>6, HeapFiredMoves DEF HeapMoves
<1>7. CASE HeapTickEnds
  BY <1>7, HeapTickEndsMoves DEF HeapMoves, HeapSet!Next
<1>8. CASE HeapTimePasses
  <2>1. time' = time + 1 /\ UNCHANGED <<array, cur_size, expire, cb_func, cur, calling>>
    BY <1>8 DEF HeapTimePasses
  <2>2. InHeap' = InHeap /\ HeapPending' = HeapPending /\ TopExpired' = TopExpired
    BY <2>1 DEF InHeap, HeapPending, TopExpired
  <2>3. HeapInv'
    BY <2>1, <2>2 DEF HeapInv
  <2>4. Dues' = Dues
    BY <2>1, <2>2 DEF Dues
  <2> QED
    BY <2>1, <2>3, <2>4 DEF HeapMoves, HeapSet!Next, HeapSet!TimePasses, Dues
<1>9. CASE UNCHANGED heapVars
  <2>1. InHeap' = InHeap /\ HeapPending' = HeapPending /\ TopExpired' = TopExpired
    BY <1>9 DEF heapVars, InHeap, HeapPending, TopExpired
  <2>2. Dues' = Dues
    BY <1>9, <2>1 DEF heapVars, Dues
  <2> QED
    BY <1>9, <2>1, <2>2 DEF heapVars, HeapInv, HeapMoves
<1> QED
  BY <1>1, <1>2, <1>3, <1>4, <1>5, <1>6, <1>7, <1>8, <1>9 DEF HeapNext

(* time_heap: whatever is added, deleted and popped, by callbacks too, and *)
(* however often resize() doubles the array, it stays a heap, the timer    *)
(* that is due first on top.                                               *)
THEOREM HeapStaysAHeap == HeapInit /\ [][HeapNext]_heapVars => []HeapInv
  BY HeapStarts, HeapSteps, PTL

(* time_heap: tick() runs what is due when it begins, earliest first, each *)
(* once, no other, and leaves nothing due behind: the heap implements the  *)
(* set of timers.                                                          *)
THEOREM HeapImplementsTimerSet == HeapInit /\ [][HeapNext]_heapVars => HeapKeepsTime
  BY HeapStarts, HeapSteps, PTL DEF HeapKeepsTime, HeapSet!TimerSpec, HeapMoves, Dues

-------------------------------------------------------------------------------
(* The slots are counted round and round.                                  *)
LEMMA Rounds ==
  ASSUME NEW d \in Nat
  PROVE  d % N \in 0 .. N - 1 /\ d \div N \in Nat /\ d = N * (d \div N) + (d % N)
  BY TimeWheelAssumption

LEMMA Round ==
  ASSUME NEW d \in 1 - N .. 2 * N - 1
  PROVE  d % N = IF d < 0 THEN d + N ELSE IF d < N THEN d ELSE d - N
  BY TimeWheelAssumption

-------------------------------------------------------------------------------
(* A slot's list names no timer twice; From is it from a timer on.         *)
Distinct(s) == \A j, k \in 1 .. Len(s) : s[j] = s[k] => j = k

From(s, t) == {s[k] : k \in {j \in 1 .. Len(s) : \E i \in 1 .. j : s[i] = t}}

LEMMA FromPlace ==
  ASSUME NEW s \in Seq(WheelTimers), Distinct(s), NEW p \in 1 .. Len(s)
  PROVE  PlaceOf(s, s[p]) = p /\ From(s, s[p]) = {s[k] : k \in p .. Len(s)}
<1>1. Len(s) \in Nat
  OBVIOUS
<1>2. PlaceOf(s, s[p]) = p
  BY <1>1 DEF PlaceOf, Distinct
<1>3. \A j \in 1 .. Len(s) : (\E i \in 1 .. j : s[i] = s[p]) <=> j \in p .. Len(s)
  BY <1>1 DEF Distinct
<1>4. \A j \in p .. Len(s) : j \in 1 .. Len(s)
  BY <1>1
<1> QED
  BY <1>2, <1>3, <1>4 DEF From

LEMMA FromNone ==
  ASSUME NEW s \in Seq(WheelTimers)
  PROVE  From(s, NoWheelTimer) = {} /\ \A t \in ToSet(s) : t \in WheelTimers /\ t # NoWheelTimer
<1>1. Len(s) \in Nat /\ \A k \in 1 .. Len(s) : s[k] \in WheelTimers /\ s[k] # NoWheelTimer
  BY TimeWheelAssumption
<1>2. \A j \in 1 .. Len(s) : \A i \in 1 .. j : i \in 1 .. Len(s)
  BY <1>1
<1> QED
  BY <1>1, <1>2 DEF From, ToSet

LEMMA Members ==
  ASSUME NEW s \in Seq(WheelTimers) PROVE ToSet(s) = {s[k] : k \in 1 .. Len(s)}
  BY DEF ToSet

LEMMA Removed ==
  ASSUME NEW s \in Seq(WheelTimers), Distinct(s), NEW p \in 1 .. Len(s)
  PROVE  LET r == RemoveAt(s, p)
         IN  /\ r \in Seq(WheelTimers) /\ Len(r) = Len(s) - 1 /\ Distinct(r)
             /\ \A k \in 1 .. Len(s) - 1 : r[k] = IF k < p THEN s[k] ELSE s[k + 1]
             /\ ToSet(r) = ToSet(s) \ {s[p]}
<1> DEFINE r == RemoveAt(s, p)
           s1 == SubSeq(s, 1, p - 1)
           s2 == SubSeq(s, p + 1, Len(s))
<1>1. Len(s) \in Nat /\ p \in Nat /\ \A k \in 1 .. Len(s) : s[k] \in WheelTimers
  OBVIOUS
<1>2. /\ s1 \in Seq(WheelTimers) /\ Len(s1) = p - 1 /\ \A i \in 1 .. p - 1 : s1[i] = s[i]
  <2>1. \A i \in 1 .. p - 1 : s[i] \in WheelTimers
    BY <1>1
  <2> QED
    BY <1>1, <2>1, SubSeqProperties
<1>3. /\ s2 \in Seq(WheelTimers) /\ Len(s2) = Len(s) - p
      /\ \A i \in 1 .. Len(s) - p : s2[i] = s[p + i]
  <2>1. \A i \in p + 1 .. Len(s) : s[i] \in WheelTimers
    BY <1>1
  <2> QED
    BY <1>1, <2>1, SubSeqProperties
<1>4. r = s1 \o s2
  BY DEF RemoveAt
<1> HIDE DEF s1, s2, r
<1>5. /\ r \in Seq(WheelTimers) /\ Len(r) = Len(s) - 1
      /\ \A i \in 1 .. Len(s) - 1 : r[i] = IF i <= p - 1 THEN s1[i] ELSE s2[i - (p - 1)]
  <2>1. /\ s1 \o s2 \in Seq(WheelTimers) /\ Len(s1 \o s2) = Len(s1) + Len(s2)
        /\ \A i \in 1 .. Len(s1) + Len(s2) :
             (s1 \o s2)[i] = IF i <= Len(s1) THEN s1[i] ELSE s2[i - Len(s1)]
    BY <1>2, <1>3, ConcatProperties
  <2>2. Len(s1) + Len(s2) = Len(s) - 1
    BY <1>1, <1>2, <1>3
  <2> QED
    BY <1>2, <1>4, <2>1, <2>2
<1>6. \A k \in 1 .. Len(s) - 1 : r[k] = IF k < p THEN s[k] ELSE s[k + 1]
  <2> SUFFICES ASSUME NEW k \in 1 .. Len(s) - 1 PROVE r[k] = IF k < p THEN s[k] ELSE s[k + 1]
    OBVIOUS
  <2>1. CASE k < p
    BY <1>1, <1>2, <1>5, <2>1
  <2>2. CASE ~(k < p)
    <3>1. k - (p - 1) \in 1 .. Len(s) - p /\ p + (k - (p - 1)) = k + 1 /\ ~(k <= p - 1)
      BY <1>1, <2>2
    <3> QED
      BY <1>3, <1>5, <2>2, <3>1
  <2> QED
    BY <2>1, <2>2
<1>7. Distinct(r)
  <2> SUFFICES ASSUME NEW j \in 1 .. Len(s) - 1, NEW k \in 1 .. Len(s) - 1, r[j] = r[k] PROVE j = k
    BY <1>5 DEF Distinct
  <2>1. \A i \in 1 .. Len(s) - 1 : i \in 1 .. Len(s) /\ i + 1 \in 1 .. Len(s)
    BY <1>1
  <2> QED
    BY <1>1, <1>6, <2>1 DEF Distinct
<1>8. ToSet(r) = ToSet(s) \ {s[p]}
  <2>1. \A k \in 1 .. Len(s) - 1 : r[k] \in ToSet(s) \ {s[p]}
    <3> SUFFICES ASSUME NEW k \in 1 .. Len(s) - 1 PROVE r[k] \in ToSet(s) \ {s[p]}
      OBVIOUS
    <3>1. k \in 1 .. Len(s) /\ k + 1 \in 1 .. Len(s)
      BY <1>1
    <3> QED
      BY <1>1, <1>6, <3>1, Members DEF Distinct
  <2>2. \A j \in 1 .. Len(s) : j # p => \E k \in 1 .. Len(s) - 1 : r[k] = s[j]
    <3> SUFFICES ASSUME NEW j \in 1 .. Len(s), j # p PROVE \E k \in 1 .. Len(s) - 1 : r[k] = s[j]
      OBVIOUS
    <3>1. CASE j < p
      <4>1. j \in 1 .. Len(s) - 1
        BY <1>1, <3>1
      <4> QED
        BY <1>6, <3>1, <4>1
    <3>2. CASE j > p
      <4>1. j - 1 \in 1 .. Len(s) - 1 /\ ~(j - 1 < p) /\ j - 1 + 1 = j
        BY <1>1, <3>2
      <4> QED
        BY <1>6, <4>1
    <3> QED
      BY <3>1, <3>2
  <2>3. ToSet(r) = {r[k] : k \in 1 .. Len(s) - 1} /\ ToSet(s) = {s[k] : k \in 1 .. Len(s)}
    BY <1>5, Members
  <2>4. ASSUME NEW x \in ToSet(s) \ {s[p]} PROVE x \in ToSet(r)
    <3>1. PICK j \in 1 .. Len(s) : x = s[j] /\ j # p
      BY <2>3
    <3> QED
      BY <2>2, <2>3, <3>1
  <2> HIDE DEF Distinct
  <2> QED
    BY <2>1, <2>3, <2>4
<1> QED
  BY <1>5, <1>6, <1>7, <1>8 DEF r

(* What follows a timer is what the loop has yet to come to, whether the   *)
(* timer stays in the list or leaves it.                                   *)
LEMMA NextIs ==
  ASSUME NEW s \in Seq(WheelTimers), Distinct(s), NEW p \in 1 .. Len(s)
  PROVE  LET r == RemoveAt(s, p)
             next == NextOf(s, s[p])
         IN  /\ From(s, next) = From(s, s[p]) \ {s[p]}
             /\ From(r, next) = From(s, s[p]) \ {s[p]}
             /\ next = NoWheelTimer \/ (next \in ToSet(r) /\ next \in ToSet(s))
<1> DEFINE r == RemoveAt(s, p)
           next == NextOf(s, s[p])
<1>1. /\ Len(s) \in Nat /\ p \in Nat /\ \A k \in 1 .. Len(s) : s[k] \in WheelTimers
      /\ \A j, k \in 1 .. Len(s) : s[j] = s[k] => j = k
  BY DEF Distinct
<1>2. /\ r \in Seq(WheelTimers) /\ Len(r) = Len(s) - 1 /\ Distinct(r)
      /\ \A k \in 1 .. Len(s) - 1 : r[k] = IF k < p THEN s[k] ELSE s[k + 1]
  BY Removed
<1>3. next = IF p < Len(s) THEN s[p + 1] ELSE NoWheelTimer
  BY FromPlace DEF NextOf
<1>4. From(s, s[p]) = {s[k] : k \in p .. Len(s)}
  BY FromPlace
<1> HIDE DEF r, next
<1>5. From(s, s[p]) \ {s[p]} = {s[k] : k \in p + 1 .. Len(s)}
  <2>1. \A k \in p .. Len(s) : k \in 1 .. Len(s) /\ (k = p \/ k \in p + 1 .. Len(s))
    BY <1>1
  <2>2. \A k \in p + 1 .. Len(s) : k \in p .. Len(s) /\ k \in 1 .. Len(s) /\ k # p
    BY <1>1
  <2>3. \A k \in p + 1 .. Len(s) : s[k] \in {s[j] : j \in p .. Len(s)} \ {s[p]}
    BY <1>1, <2>2
  <2>4. \A x \in {s[j] : j \in p .. Len(s)} \ {s[p]} : \E k \in p + 1 .. Len(s) : x = s[k]
    BY <2>1
  <2> QED
    BY <1>4, <2>3, <2>4
<1>6. CASE p < Len(s)
  <2>1. p + 1 \in 1 .. Len(s) /\ next = s[p + 1] /\ p \in 1 .. Len(r) /\ r[p] = s[p + 1]
    BY <1>1, <1>2, <1>3, <1>6
  <2>2. From(s, next) = {s[k] : k \in p + 1 .. Len(s)}
    BY <2>1, FromPlace
  <2>3. From(r, next) = {r[k] : k \in p .. Len(r)}
    BY <1>2, <2>1, FromPlace
  <2>4. {r[k] : k \in p .. Len(r)} = {s[k] : k \in p + 1 .. Len(s)}
    <3>1. \A k \in p .. Len(r) : k + 1 \in p + 1 .. Len(s) /\ r[k] = s[k + 1]
      BY <1>1, <1>2
    <3>2. \A k \in p + 1 .. Len(s) : k - 1 \in p .. Len(r) /\ r[k - 1] = s[k]
      <4> SUFFICES ASSUME NEW k \in p + 1 .. Len(s)
                   PROVE  k - 1 \in p .. Len(r) /\ r[k - 1] = s[k]
        OBVIOUS
      <4>1. k - 1 \in p .. Len(r) /\ k - 1 + 1 = k /\ ~(k - 1 < p) /\ k - 1 \in 1 .. Len(s) - 1
        BY <1>1, <1>2
      <4> QED
        BY <1>2, <4>1
    <3>3. {r[k] : k \in p .. Len(r)} \subseteq {s[k] : k \in p + 1 .. Len(s)}
      BY <3>1
    <3>4. {s[k] : k \in p + 1 .. Len(s)} \subseteq {r[k] : k \in p .. Len(r)}
      BY <3>2
    <3> QED
      BY <3>3, <3>4
  <2>5. next \in ToSet(s) /\ next \in ToSet(r)
    BY <1>2, <2>1, Members
  <2> QED
    BY <1>5, <2>2, <2>3, <2>4, <2>5 DEF r, next
<1>7. CASE ~(p < Len(s))
  <2>1. next = NoWheelTimer /\ {s[k] : k \in p + 1 .. Len(s)} = {}
    BY <1>1, <1>3, <1>7
  <2> QED
    BY <1>2, <1>5, <2>1, FromNone DEF r, next
<1> QED
  BY <1>6, <1>7

(* Taking out another timer takes just that one away.                      *)
LEMMA OtherRemoved ==
  ASSUME NEW s \in Seq(WheelTimers), Distinct(s), NEW p \in 1 .. Len(s), NEW t \in ToSet(s), t # s[p]
  PROVE  From(RemoveAt(s, p), t) = From(s, t) \ {s[p]}
<1> DEFINE r == RemoveAt(s, p)
<1>1. /\ Len(s) \in Nat /\ p \in Nat
      /\ \A j, k \in 1 .. Len(s) : s[j] = s[k] => j = k
  BY DEF Distinct
<1>2. /\ r \in Seq(WheelTimers) /\ Len(r) = Len(s) - 1 /\ Distinct(r)
      /\ \A k \in 1 .. Len(s) - 1 : r[k] = IF k < p THEN s[k] ELSE s[k + 1]
  BY Removed
<1>3. PICK q \in 1 .. Len(s) : t = s[q]
  BY Members
<1> HIDE DEF r
<1>4. q # p /\ q \in Nat /\ From(s, t) = {s[k] : k \in q .. Len(s)}
  <2>1. From(s, s[q]) = {s[k] : k \in q .. Len(s)}
    BY FromPlace
  <2> QED
    BY <1>1, <1>3, <2>1
<1> DEFINE o == IF q < p THEN q ELSE q - 1
<1>5. o \in 1 .. Len(r) /\ r[o] = t
  <2>1. o \in 1 .. Len(s) - 1 /\ (q < p => o = q) /\ (~(q < p) => ~(o < p) /\ o + 1 = q)
    BY <1>1, <1>4
  <2> HIDE DEF o
  <2> QED
    BY <1>2, <1>3, <2>1
<1>6. From(r, t) = {r[k] : k \in o .. Len(r)}
  <2> HIDE DEF o
  <2> QED
    BY <1>2, <1>5, FromPlace
<1>7. \A k \in o .. Len(r) : \E j \in q .. Len(s) : j # p /\ r[k] = s[j]
  <2> SUFFICES ASSUME NEW k \in o .. Len(r) PROVE \E j \in q .. Len(s) : j # p /\ r[k] = s[j]
    OBVIOUS
  <2>1. k \in 1 .. Len(s) - 1
    BY <1>1, <1>2, <1>5
  <2>2. CASE k < p
    <3>1. k \in q .. Len(s) /\ k # p
      BY <1>1, <1>4, <2>1, <2>2
    <3> QED
      BY <1>2, <2>1, <2>2, <3>1
  <2>3. CASE ~(k < p)
    <3>1. k + 1 \in q .. Len(s) /\ k + 1 # p
      BY <1>1, <1>4, <2>1, <2>3
    <3> QED
      BY <1>2, <2>1, <2>3, <3>1
  <2> QED
    BY <2>2, <2>3
<1>8. \A j \in q .. Len(s) : j # p => \E k \in o .. Len(r) : r[k] = s[j]
  <2> SUFFICES ASSUME NEW j \in q .. Len(s), j # p PROVE \E k \in o .. Len(r) : r[k] = s[j]
    OBVIOUS
  <2>1. CASE j < p
    <3>1. j \in o .. Len(r) /\ j \in 1 .. Len(s) - 1
      BY <1>1, <1>2, <1>4, <2>1
    <3> QED
      BY <1>2, <2>1, <3>1
  <2>2. CASE ~(j < p)
    <3>1. j - 1 \in o .. Len(r) /\ j - 1 \in 1 .. Len(s) - 1 /\ ~(j - 1 < p) /\ j - 1 + 1 = j
      BY <1>1, <1>2, <1>4, <2>2
    <3> QED
      BY <1>2, <3>1
  <2> QED
    BY <2>1, <2>2
<1>9. \A j \in q .. Len(s) : j # p => s[j] # s[p]
  <2>1. \A j \in q .. Len(s) : j \in 1 .. Len(s)
    BY <1>1
  <2> QED
    BY <1>1, <2>1
<1> HIDE DEF o
<1>10. From(r, t) \subseteq From(s, t) \ {s[p]}
  BY <1>4, <1>6, <1>7, <1>9
<1>11. ASSUME NEW x \in From(s, t) \ {s[p]} PROVE x \in From(r, t)
  <2>1. PICK j \in q .. Len(s) : x = s[j] /\ j # p
    BY <1>4
  <2> QED
    BY <1>6, <1>8, <2>1
<1> QED
  BY <1>10, <1>11 DEF r

(* A timer comes in front.                                                 *)
LEMMA Prepended ==
  ASSUME NEW s \in Seq(WheelTimers), Distinct(s), NEW t \in WheelTimers \ ToSet(s)
  PROVE  LET r == <<t>> \o s
         IN  /\ r \in Seq(WheelTimers) /\ Distinct(r)
             /\ ToSet(r) = ToSet(s) \cup {t}
             /\ \A u : u # t => From(r, u) = From(s, u)
<1> DEFINE r == <<t>> \o s
<1>1. /\ Len(s) \in Nat /\ \A k \in 1 .. Len(s) : s[k] # t
      /\ \A j, k \in 1 .. Len(s) : s[j] = s[k] => j = k
  BY Members DEF Distinct
<1>2. /\ r \in Seq(WheelTimers) /\ Len(r) = Len(s) + 1
      /\ \A i \in 1 .. 1 + Len(s) : r[i] = IF i <= 1 THEN t ELSE s[i - 1]
  <2>1. <<t>> \in Seq(WheelTimers) /\ Len(<<t>>) = 1 /\ <<t>>[1] = t
    OBVIOUS
  <2>2. /\ r \in Seq(WheelTimers) /\ Len(r) = 1 + Len(s)
        /\ \A i \in 1 .. 1 + Len(s) : r[i] = IF i <= 1 THEN <<t>>[i] ELSE s[i - 1]
    BY <2>1, ConcatProperties
  <2> HIDE DEF r
  <2> QED
    BY <1>1, <2>1, <2>2
<1> HIDE DEF r
<1>3. /\ r[1] = t /\ 1 \in 1 .. Len(r)
      /\ \A k \in 1 .. Len(s) : k + 1 \in 1 .. Len(r) /\ r[k + 1] = s[k]
      /\ \A k \in 1 .. Len(r) : k = 1 \/ (k - 1 \in 1 .. Len(s) /\ r[k] = s[k - 1])
  BY <1>1, <1>2
<1>4. Distinct(r)
  <2> SUFFICES ASSUME NEW j \in 1 .. Len(r), NEW k \in 1 .. Len(r), r[j] = r[k] PROVE j = k
    BY DEF Distinct
  <2>1. j = 1 \/ (j - 1 \in 1 .. Len(s) /\ r[j] = s[j - 1])
    BY <1>3
  <2>2. k = 1 \/ (k - 1 \in 1 .. Len(s) /\ r[k] = s[k - 1])
    BY <1>3
  <2>3. CASE j = 1 \/ k = 1
    BY <1>1, <1>3, <2>1, <2>2, <2>3
  <2>4. CASE j # 1 /\ k # 1
    <3>1. j - 1 = k - 1
      BY <1>1, <2>1, <2>2, <2>4
    <3> QED
      BY <1>1, <1>2, <3>1
  <2> QED
    BY <2>3, <2>4
<1>5. ToSet(r) = ToSet(s) \cup {t}
  <2>1. ToSet(r) = {r[k] : k \in 1 .. Len(r)} /\ ToSet(s) = {s[k] : k \in 1 .. Len(s)}
    BY <1>2, Members
  <2>2. ASSUME NEW k \in 1 .. Len(r) PROVE r[k] \in ToSet(s) \cup {t}
    <3>1. k = 1 \/ (k - 1 \in 1 .. Len(s) /\ r[k] = s[k - 1])
      BY <1>3
    <3> QED
      BY <1>3, <2>1, <3>1
  <2>3. ASSUME NEW k \in 1 .. Len(s) PROVE s[k] \in ToSet(r)
    <3>1. k + 1 \in 1 .. Len(r) /\ r[k + 1] = s[k]
      BY <1>3
    <3> QED
      BY <2>1, <3>1
  <2>4. t \in ToSet(r)
    BY <1>3, <2>1
  <2> QED
    BY <2>1, <2>2, <2>3, <2>4
<1>6. ASSUME NEW u, u # t PROVE From(r, u) = From(s, u)
  <2>1. CASE u \in ToSet(s)
    <3>1. PICK p \in 1 .. Len(s) : u = s[p]
      BY <2>1, Members
    <3>2. From(s, u) = {s[k] : k \in p .. Len(s)}
      BY <3>1, FromPlace
    <3>3. From(r, u) = {r[k] : k \in p + 1 .. Len(r)}
      BY <1>2, <1>3, <1>4, <3>1, FromPlace
    <3>4. \A k \in p .. Len(s) : k + 1 \in p + 1 .. Len(r) /\ r[k + 1] = s[k]
      BY <1>1, <1>2, <1>3
    <3>5. \A k \in p + 1 .. Len(r) : k - 1 \in p .. Len(s) /\ r[k] = s[k - 1]
      BY <1>1, <1>2, <1>3
    <3> QED
      BY <3>2, <3>3, <3>4, <3>5
  <2>2. CASE u \notin ToSet(s)
    <3>1. \A l \in Seq(WheelTimers) : u \notin ToSet(l) => From(l, u) = {}
      <4> SUFFICES ASSUME NEW l \in Seq(WheelTimers), u \notin ToSet(l) PROVE From(l, u) = {}
        OBVIOUS
      <4>1. \A j \in 1 .. Len(l) : \A i \in 1 .. j : i \in 1 .. Len(l) /\ l[i] # u
        BY Members
      <4> QED
        BY <4>1 DEF From
    <3> QED
      BY <1>2, <1>5, <1>6, <2>2, <3>1
  <2> QED
    BY <2>1, <2>2
<1> QED
  BY <1>2, <1>4, <1>5, <1>6 DEF r

LEMMA FromHead ==
  ASSUME NEW s \in Seq(WheelTimers), Distinct(s), s # << >>
  PROVE  From(s, Head(s)) = ToSet(s) /\ Head(s) \in ToSet(s)
<1>1. 1 \in 1 .. Len(s) /\ Head(s) = s[1]
  OBVIOUS
<1> QED
  BY <1>1, FromPlace, Members

-------------------------------------------------------------------------------
(* What holds between the steps: no timer is in two places, and tick() is  *)
(* at a timer of the slot it handles.                                      *)
WheelInv ==
  /\ slots \in [0 .. N - 1 -> Seq(WheelTimers)]
  /\ \A i \in 0 .. N - 1 : Distinct(slots[i])
  /\ \A i, j \in 0 .. N - 1 : i # j => InSlot(i) \cap InSlot(j) = {}
  /\ cur_slot \in 0 .. N - 1
  /\ rotation \in [WheelTimers -> Nat]
  /\ ticked \in Nat
  /\ phase \in {"idle", "tick", "callback"}
  /\ phase = "idle" => tmp = NoWheelTimer
  /\ phase = "tick" => tmp = NoWheelTimer \/ tmp \in InSlot(cur_slot)
  /\ phase = "callback" => tmp \in InSlot(cur_slot) /\ rotation[tmp] = 0

(* What TimerSet calls due and cur.                                        *)
WheelDues ==
  [t \in WheelTimers |-> IF t \in WheelPending THEN ticked + TicksLeft(t) ELSE NoWheelTimer]
WheelCur == IF phase = "idle" THEN NoWheelTimer ELSE ticked

WheelMoves == WheelSet!Next \/ UNCHANGED <<ticked, WheelDues, WheelCur>>

LEMMA SlotIs ==
  ASSUME NEW wheel, \A i, j \in 0 .. N - 1 : i # j => ToSet(wheel[i]) \cap ToSet(wheel[j]) = {},
         NEW i \in 0 .. N - 1, NEW t \in ToSet(wheel[i])
  PROVE  (CHOOSE j \in 0 .. N - 1 : t \in ToSet(wheel[j])) = i
  OBVIOUS

LEMMA WhereTimersAre ==
  ASSUME WheelInv
  PROVE  /\ InWheel \subseteq WheelTimers /\ WheelPending \subseteq InWheel
         /\ \A i \in 0 .. N - 1 : \A t \in InSlot(i) : t \in InWheel /\ SlotOf(t) = i
         /\ \A t \in InWheel : SlotOf(t) \in 0 .. N - 1 /\ t \in InSlot(SlotOf(t))
         /\ phase = "callback" => tmp \in InWheel
<1>1. \A i \in 0 .. N - 1 : InSlot(i) \subseteq WheelTimers
  BY FromNone DEF WheelInv, InSlot
<1>2. \A i \in 0 .. N - 1 : \A t \in InSlot(i) : t \in InWheel
  BY DEF InWheel
<1>3. \A i \in 0 .. N - 1 : \A t \in InSlot(i) : SlotOf(t) = i
  BY SlotIs DEF WheelInv, InSlot, SlotOf
<1>4. \A t \in InWheel : \E i \in 0 .. N - 1 : t \in InSlot(i)
  BY DEF InWheel
<1>5. WheelPending \subseteq InWheel
  BY DEF WheelPending
<1> QED
  BY <1>1, <1>2, <1>3, <1>4, <1>5 DEF WheelInv

LEMMA AheadIs ==
  Ahead = IF phase = "idle" THEN InSlot(cur_slot) ELSE From(slots[cur_slot], tmp)
  BY DEF Ahead, InSlot, From

LEMMA TicksLeftIs ==
  ASSUME WheelInv, NEW t \in InWheel
  PROVE  /\ TicksLeft(t) \in Nat /\ N * rotation[t] \in Nat
         /\ TicksLeft(t) =
              (IF SlotOf(t) >= cur_slot THEN SlotOf(t) - cur_slot ELSE SlotOf(t) - cur_slot + N)
              + N * rotation[t] + (IF SlotOf(t) = cur_slot /\ t \notin Ahead THEN N ELSE 0)
<1>1. /\ N \in Nat \ {0} /\ SlotOf(t) \in 0 .. N - 1 /\ cur_slot \in 0 .. N - 1 /\ rotation[t] \in Nat
  BY WhereTimersAre, TimeWheelAssumption DEF WheelInv
<1> DEFINE d == SlotOf(t) - cur_slot
<1>2. d \in 1 - N .. 2 * N - 1 /\ d \in 1 - N .. N - 1
  BY <1>1
<1>3. d % N = IF d < 0 THEN d + N ELSE d
  BY <1>1, <1>2, Round
<1>4. N * rotation[t] \in Nat
  BY <1>1
<1>5. TicksLeft(t) = (d % N) + N * rotation[t]
                     + (IF SlotOf(t) = cur_slot /\ t \notin Ahead THEN N ELSE 0)
  <2>1. d % N \in Nat
    BY <1>1, <1>2, <1>3
  <2> QED
    BY <1>1, <1>4, <2>1 DEF TicksLeft
<1> QED
  BY <1>1, <1>2, <1>3, <1>4, <1>5

LEMMA PendingIs ==
  ASSUME WheelInv
  PROVE  /\ WheelSet!Pending = WheelPending
         /\ \A t \in WheelTimers : /\ t \in WheelPending => WheelDues[t] = ticked + TicksLeft(t)
                                   /\ WheelDues[t] # NoWheelTimer <=> t \in WheelPending
         /\ WheelCur # NoWheelTimer <=> phase # "idle"
<1>1. NoWheelTimer \notin Nat /\ ticked \in Nat
  BY TimeWheelAssumption DEF WheelInv
<1>2. \A t \in WheelPending : ticked + TicksLeft(t) \in Nat /\ t \in WheelTimers
  BY <1>1, WhereTimersAre, TicksLeftIs
<1>3. \A t \in WheelTimers : /\ t \in WheelPending => WheelDues[t] = ticked + TicksLeft(t)
                             /\ WheelDues[t] # NoWheelTimer <=> t \in WheelPending
  BY <1>1, <1>2 DEF WheelDues
<1>4. WheelSet!Pending = {t \in WheelTimers : WheelDues[t] # NoWheelTimer}
  BY DEF WheelSet!Pending, WheelDues
<1> QED
  BY <1>1, <1>2, <1>3, <1>4 DEF WheelCur

-------------------------------------------------------------------------------
(* A step that leaves a timer where it is, and ahead or not as it was,     *)
(* leaves it as far away.                                                  *)
LEMMA SameTicks ==
  ASSUME NEW t, SlotOf(t)' = SlotOf(t), cur_slot' = cur_slot, rotation'[t] = rotation[t],
         SlotOf(t) = cur_slot => (t \in Ahead' <=> t \in Ahead)
  PROVE  TicksLeft(t)' = TicksLeft(t)
  BY DEF TicksLeft

LEMMA Unlinks ==
  ASSUME WheelInv, NEW t \in InWheel, Unlinked(t)
  PROVE  /\ slots' \in [0 .. N - 1 -> Seq(WheelTimers)]
         /\ \A i \in 0 .. N - 1 : /\ Distinct(slots'[i]) /\ InSlot(i)' = InSlot(i) \ {t}
                                  /\ i # SlotOf(t) => slots'[i] = slots[i]
         /\ slots'[SlotOf(t)] = RemoveAt(slots[SlotOf(t)], PlaceOf(slots[SlotOf(t)], t))
         /\ rotation' \in [WheelTimers -> Nat] /\ InWheel' = InWheel \ {t}
         /\ \A u \in InWheel \ {t} : SlotOf(u)' = SlotOf(u) /\ rotation'[u] = rotation[u]
<1> DEFINE s == SlotOf(t)
           p == PlaceOf(slots[s], t)
<1>1. /\ slots \in [0 .. N - 1 -> Seq(WheelTimers)] /\ \A i \in 0 .. N - 1 : Distinct(slots[i])
      /\ rotation \in [WheelTimers -> Nat]
  BY DEF WheelInv
<1>2. /\ s \in 0 .. N - 1 /\ t \in InSlot(s) /\ InWheel \subseteq WheelTimers
      /\ \A i \in 0 .. N - 1 : t \in InSlot(i) => i = s
  BY WhereTimersAre
<1>3. /\ slots' = [slots EXCEPT ![s] = RemoveAt(slots[s], p)]
      /\ rotation' = [rotation EXCEPT ![t] = 0]
  BY <1>1, <1>2 DEF Unlinked
<1>4. p \in 1 .. Len(slots[s]) /\ slots[s][p] = t
  <2>1. PICK k \in 1 .. Len(slots[s]) : t = slots[s][k]
    BY <1>1, <1>2, Members DEF InSlot
  <2> QED
    BY <1>1, <1>2, <2>1, FromPlace
<1> HIDE DEF s, p
<1>5. /\ RemoveAt(slots[s], p) \in Seq(WheelTimers) /\ Distinct(RemoveAt(slots[s], p))
      /\ ToSet(RemoveAt(slots[s], p)) = ToSet(slots[s]) \ {t}
  BY <1>1, <1>2, <1>4, Removed
<1>6. /\ slots' \in [0 .. N - 1 -> Seq(WheelTimers)] /\ slots'[s] = RemoveAt(slots[s], p)
      /\ \A i \in 0 .. N - 1 : i # s => slots'[i] = slots[i]
  BY <1>1, <1>2, <1>3, <1>5
<1>7. \A i \in 0 .. N - 1 : Distinct(slots'[i]) /\ InSlot(i)' = InSlot(i) \ {t}
  <2> SUFFICES ASSUME NEW i \in 0 .. N - 1 PROVE Distinct(slots'[i]) /\ InSlot(i)' = InSlot(i) \ {t}
    OBVIOUS
  <2>1. InSlot(i)' = ToSet(slots'[i]) /\ InSlot(i) = ToSet(slots[i])
    BY DEF InSlot
  <2>2. CASE i = s
    BY <1>5, <1>6, <2>1, <2>2
  <2>3. CASE i # s
    BY <1>1, <1>2, <1>6, <2>1, <2>3
  <2> QED
    BY <2>2, <2>3
<1>8. InWheel' = InWheel \ {t}
  BY <1>7 DEF InWheel
<1>9. ASSUME NEW u \in InWheel \ {t} PROVE SlotOf(u)' = SlotOf(u) /\ rotation'[u] = rotation[u]
  <2>1. \A i \in 0 .. N - 1 : u \in InSlot(i)' <=> u \in InSlot(i)
    BY <1>7, <1>9
  <2>2. SlotOf(u)' = SlotOf(u)
    BY <2>1 DEF SlotOf
  <2> QED
    BY <1>1, <1>2, <1>3, <1>9, <2>2
<1>10. rotation' \in [WheelTimers -> Nat]
  BY <1>1, <1>3
<1> QED
  BY <1>6, <1>7, <1>8, <1>9, <1>10 DEF s, p

LEMMA WheelDelMoves ==
  ASSUME WheelInv, NEW t \in WheelTimers, WheelDel(t)
  PROVE  WheelInv' /\ WheelSet!Delete(t)
<1>1. /\ t \in InWheel /\ Unlinked(t) /\ UNCHANGED <<cur_slot, tmp, phase, ticked>>
      /\ phase = "idle" \/ (phase = "callback" /\ t # tmp)
  BY DEF WheelDel
<1>2. /\ slots' \in [0 .. N - 1 -> Seq(WheelTimers)]
      /\ \A i \in 0 .. N - 1 : /\ Distinct(slots'[i]) /\ InSlot(i)' = InSlot(i) \ {t}
                               /\ i # SlotOf(t) => slots'[i] = slots[i]
      /\ slots'[SlotOf(t)] = RemoveAt(slots[SlotOf(t)], PlaceOf(slots[SlotOf(t)], t))
      /\ rotation' \in [WheelTimers -> Nat] /\ InWheel' = InWheel \ {t}
      /\ \A u \in InWheel \ {t} : SlotOf(u)' = SlotOf(u) /\ rotation'[u] = rotation[u]
  BY <1>1, Unlinks
<1>3. /\ cur_slot \in 0 .. N - 1 /\ ticked \in Nat
      /\ \A i \in 0 .. N - 1 : slots[i] \in Seq(WheelTimers) /\ Distinct(slots[i])
      /\ phase = "callback" => tmp \in InSlot(cur_slot) /\ rotation[tmp] = 0
      /\ phase = "idle" => tmp = NoWheelTimer
  BY DEF WheelInv
<1>4. WheelInv'
  <2>1. \A i, j \in 0 .. N - 1 : i # j => InSlot(i)' \cap InSlot(j)' = {}
    BY <1>2 DEF WheelInv
  <2>2. phase = "callback" => tmp \in InSlot(cur_slot)' /\ rotation'[tmp] = 0
    BY <1>1, <1>2, <1>3, WhereTimersAre
  <2> QED
    BY <1>1, <1>2, <1>3, <2>1, <2>2 DEF WheelInv
<1>5. Ahead' = Ahead \ {t}
  <2>1. CASE phase = "idle"
    <3>1. Ahead' = InSlot(cur_slot)' /\ Ahead = InSlot(cur_slot)
      BY <1>1, <2>1 DEF Ahead, InSlot
    <3> QED
      BY <1>1, <1>2, <1>3, <3>1 DEF InSlot
  <2>2. CASE phase = "callback"
    <3>1. Ahead' = From(slots'[cur_slot], tmp) /\ Ahead = From(slots[cur_slot], tmp)
      BY <1>1, <2>2 DEF Ahead, From
    <3>2. CASE SlotOf(t) = cur_slot
      <4>1. PICK p \in 1 .. Len(slots[cur_slot]) : t = slots[cur_slot][p]
        BY <1>1, <1>3, <3>2, WhereTimersAre, Members DEF InSlot
      <4>2. slots'[cur_slot] = RemoveAt(slots[cur_slot], p)
        BY <1>2, <1>3, <3>2, <4>1, FromPlace
      <4>3. tmp \in ToSet(slots[cur_slot]) /\ tmp # t
        BY <1>1, <1>3, <2>2 DEF InSlot
      <4> QED
        BY <1>3, <3>1, <4>1, <4>2, <4>3, OtherRemoved
    <3>3. CASE SlotOf(t) # cur_slot
      <4>1. Ahead' = Ahead
        BY <1>2, <1>3, <3>1, <3>3
      <4>2. t \notin ToSet(slots[cur_slot])
        BY <1>3, <3>3, WhereTimersAre DEF InSlot
      <4>3. From(slots[cur_slot], tmp) \subseteq ToSet(slots[cur_slot])
        BY <1>3, Members DEF From
      <4> QED
        BY <3>1, <4>1, <4>2, <4>3
    <3> QED
      BY <3>2, <3>3
  <2> QED
    BY <1>1, <2>1, <2>2
<1>6. WheelPending' = WheelPending \ {t} /\ t \in WheelPending
  BY <1>1, <1>2 DEF WheelPending
<1>7. \A u \in InWheel \ {t} : TicksLeft(u)' = TicksLeft(u)
  BY <1>1, <1>2, <1>5, SameTicks
<1>8. WheelDues' = [WheelDues EXCEPT ![t] = NoWheelTimer]
  <2>1. \A u \in WheelPending \ {t} : u \in InWheel \ {t}
    BY WhereTimersAre
  <2> QED
    BY <1>1, <1>6, <1>7, <2>1 DEF WheelDues
<1>9. WheelCur' = WheelCur
  BY <1>1 DEF WheelCur
<1> QED
  BY <1>1, <1>4, <1>6, <1>8, <1>9, PendingIs DEF WheelSet!Delete, WheelDues, WheelCur

LEMMA WheelFiredMoves ==
  ASSUME WheelInv, WheelFired
  PROVE  WheelInv' /\ UNCHANGED <<ticked, WheelDues, WheelCur>>
<1>1. /\ phase = "callback" /\ Unlinked(tmp) /\ tmp' = NextOf(slots[cur_slot], tmp) /\ phase' = "tick"
      /\ UNCHANGED <<cur_slot, ticked>> /\ tmp \in InSlot(cur_slot) /\ cur_slot \in 0 .. N - 1
      /\ ticked \in Nat
      /\ \A i \in 0 .. N - 1 : slots[i] \in Seq(WheelTimers) /\ Distinct(slots[i])
  BY DEF WheelFired, WheelInv
<1>2. PICK t \in InWheel : t = tmp
  BY <1>1, WhereTimersAre
<1>3. Unlinked(t)
  BY <1>1, <1>2 DEF Unlinked
<1>4. t \in InSlot(cur_slot) /\ SlotOf(t) = cur_slot
  BY <1>1, <1>2, WhereTimersAre
<1>5. /\ slots' \in [0 .. N - 1 -> Seq(WheelTimers)]
      /\ \A i \in 0 .. N - 1 : Distinct(slots'[i]) /\ InSlot(i)' = InSlot(i) \ {t}
      /\ slots'[cur_slot] = RemoveAt(slots[cur_slot], PlaceOf(slots[cur_slot], t))
      /\ rotation' \in [WheelTimers -> Nat] /\ InWheel' = InWheel \ {t}
      /\ \A u \in InWheel \ {t} : SlotOf(u)' = SlotOf(u) /\ rotation'[u] = rotation[u]
  BY <1>3, <1>4, Unlinks
<1> DEFINE s == slots[cur_slot]
<1>6. s \in Seq(WheelTimers) /\ Distinct(s)
  BY <1>1
<1>7. PICK p \in 1 .. Len(s) : t = s[p]
  BY <1>4, <1>6, Members DEF InSlot
<1>8. slots'[cur_slot] = RemoveAt(s, p) /\ tmp' = NextOf(s, s[p])
  BY <1>1, <1>2, <1>5, <1>6, <1>7, FromPlace
<1> HIDE DEF s
<1>9. /\ From(RemoveAt(s, p), NextOf(s, s[p])) = From(s, t) \ {t}
      /\ tmp' = NoWheelTimer \/ tmp' \in ToSet(slots'[cur_slot])
  BY <1>6, <1>7, <1>8, NextIs
<1>10. WheelInv'
  <2>1. \A i, j \in 0 .. N - 1 : i # j => InSlot(i)' \cap InSlot(j)' = {}
    BY <1>5 DEF WheelInv
  <2>2. tmp' = NoWheelTimer \/ tmp' \in InSlot(cur_slot)'
    BY <1>1, <1>9 DEF InSlot
  <2> QED
    BY <1>1, <1>5, <2>1, <2>2 DEF WheelInv
<1>11. Ahead' = Ahead \ {t}
  <2>1. Ahead = From(s, t)
    BY <1>1, <1>2 DEF Ahead, From, s
  <2>2. Ahead' = From(RemoveAt(s, p), NextOf(s, s[p]))
    BY <1>1, <1>8 DEF Ahead, From
  <2> QED
    BY <1>9, <2>1, <2>2
<1>12. WheelPending' = WheelPending /\ WheelPending = InWheel \ {t}
  BY <1>1, <1>2, <1>5 DEF WheelPending
<1>13. \A u \in InWheel \ {t} : TicksLeft(u)' = TicksLeft(u)
  BY <1>1, <1>5, <1>11, SameTicks
<1>14. WheelDues' = WheelDues
  BY <1>1, <1>12, <1>13 DEF WheelDues
<1>15. WheelCur' = WheelCur
  BY <1>1 DEF WheelCur
<1> QED
  BY <1>1, <1>10, <1>14, <1>15

LEMMA WheelFireMoves ==
  ASSUME WheelInv, WheelFire
  PROVE  WheelInv' /\ \E t \in WheelTimers : WheelSet!Fire(t)
<1>1. /\ phase = "tick" /\ tmp # NoWheelTimer /\ rotation[tmp] = 0 /\ phase' = "callback"
      /\ UNCHANGED <<slots, cur_slot, rotation, tmp, ticked>> /\ tmp \in InSlot(cur_slot)
      /\ cur_slot \in 0 .. N - 1 /\ ticked \in Nat
      /\ \A i \in 0 .. N - 1 : slots[i] \in Seq(WheelTimers) /\ Distinct(slots[i])
  BY DEF WheelFire, WheelInv
<1>2. PICK t \in InWheel : t = tmp
  BY <1>1, WhereTimersAre
<1>3. \A i \in 0 .. N - 1 : InSlot(i)' = InSlot(i)
  BY <1>1 DEF InSlot
<1>4. WheelInv'
  BY <1>1, <1>3 DEF WheelInv, InSlot
<1>5. Ahead' = Ahead /\ t \in Ahead
  <2>1. t \in From(slots[cur_slot], t)
    <3>1. PICK p \in 1 .. Len(slots[cur_slot]) : t = slots[cur_slot][p]
      BY <1>1, <1>2, Members DEF InSlot
    <3>2. From(slots[cur_slot], t) = {slots[cur_slot][k] : k \in p .. Len(slots[cur_slot])}
      BY <1>1, <3>1, FromPlace
    <3>3. p \in p .. Len(slots[cur_slot])
      BY <1>1
    <3> QED
      BY <3>1, <3>2, <3>3
  <2> QED
    BY <1>1, <1>2, <2>1, AheadIs DEF Ahead
<1>6. InWheel' = InWheel /\ \A u \in InWheel : SlotOf(u)' = SlotOf(u) /\ TicksLeft(u)' = TicksLeft(u)
  <2>1. InWheel' = InWheel /\ \A u \in InWheel : SlotOf(u)' = SlotOf(u)
    BY <1>1 DEF InWheel, InSlot, SlotOf
  <2> QED
    BY <1>1, <1>5, <2>1, SameTicks
<1>7. WheelPending = InWheel /\ WheelPending' = WheelPending \ {t} /\ t \in WheelPending
  BY <1>1, <1>2, <1>6 DEF WheelPending
<1>8. WheelDues' = [WheelDues EXCEPT ![t] = NoWheelTimer]
  BY <1>1, <1>6, <1>7 DEF WheelDues
<1>9. t \in WheelTimers /\ InWheel \subseteq WheelTimers /\ SlotOf(t) = cur_slot
  BY <1>1, <1>2, WhereTimersAre
<1>10. TicksLeft(t) = 0
  <2>1. N * rotation[t] = 0
    BY <1>1, <1>2, TimeWheelAssumption
  <2> QED
    BY <1>1, <1>5, <1>9, <2>1, TicksLeftIs
<1>11. WheelDues[t] = ticked /\ \A u \in WheelPending : WheelDues[t] <= WheelDues[u]
  BY <1>1, <1>7, <1>9, <1>10, PendingIs, TicksLeftIs
<1>12. WheelCur = ticked /\ WheelCur' = ticked /\ WheelCur # NoWheelTimer
  BY <1>1, PendingIs DEF WheelCur
<1>13. WheelSet!Fire(t)
  BY <1>1, <1>7, <1>8, <1>11, <1>12, PendingIs DEF WheelSet!Fire, WheelDues, WheelCur
<1> QED
  BY <1>4, <1>9, <1>13

LEMMA WheelTurnsMoves ==
  ASSUME WheelInv, WheelTurns
  PROVE  WheelInv' /\ UNCHANGED <<ticked, WheelDues, WheelCur>>
<1>1. /\ phase = "tick" /\ tmp # NoWheelTimer /\ rotation[tmp] > 0
      /\ rotation' = [rotation EXCEPT ![tmp] = rotation[tmp] - 1]
      /\ tmp' = NextOf(slots[cur_slot], tmp)
      /\ UNCHANGED <<slots, cur_slot, phase, ticked>> /\ tmp \in InSlot(cur_slot)
      /\ cur_slot \in 0 .. N - 1 /\ ticked \in Nat /\ rotation \in [WheelTimers -> Nat]
      /\ \A i \in 0 .. N - 1 : slots[i] \in Seq(WheelTimers) /\ Distinct(slots[i])
  BY DEF WheelTurns, WheelInv
<1>2. PICK t \in InWheel : t = tmp
  BY <1>1, WhereTimersAre
<1>3. t \in WheelTimers /\ SlotOf(t) = cur_slot /\ t \in InSlot(cur_slot) /\ InWheel \subseteq WheelTimers
  BY <1>1, <1>2, WhereTimersAre
<1> DEFINE s == slots[cur_slot]
<1>4. s \in Seq(WheelTimers) /\ Distinct(s)
  BY <1>1
<1>5. PICK p \in 1 .. Len(s) : t = s[p]
  BY <1>3, <1>4, Members DEF InSlot
<1>6. tmp' = NextOf(s, s[p])
  BY <1>1, <1>2, <1>5
<1> HIDE DEF s
<1>7. From(s, tmp') = From(s, t) \ {t} /\ (tmp' = NoWheelTimer \/ tmp' \in ToSet(s)) /\ t \in From(s, t)
  <2>1. p \in p .. Len(s)
    BY <1>4
  <2>2. From(s, s[p]) = {s[k] : k \in p .. Len(s)}
    BY <1>4, FromPlace
  <2> QED
    BY <1>4, <1>5, <1>6, <2>1, <2>2, NextIs
<1>8. \A i \in 0 .. N - 1 : InSlot(i)' = InSlot(i)
  BY <1>1 DEF InSlot
<1>9. rotation' \in [WheelTimers -> Nat] /\ rotation'[t] = rotation[t] - 1
      /\ \A u \in WheelTimers \ {t} : rotation'[u] = rotation[u]
  BY <1>1, <1>2, <1>3
<1>10. tmp' = NoWheelTimer \/ tmp' \in InSlot(cur_slot)'
  BY <1>1, <1>7 DEF InSlot, s
<1>11. WheelInv'
  <2>1. \A i, j \in 0 .. N - 1 : i # j => InSlot(i)' \cap InSlot(j)' = {}
    BY <1>8 DEF WheelInv
  <2>2. slots' \in [0 .. N - 1 -> Seq(WheelTimers)] /\ \A i \in 0 .. N - 1 : Distinct(slots'[i])
    BY <1>1 DEF WheelInv
  <2> QED
    BY <1>1, <1>9, <1>10, <2>1, <2>2 DEF WheelInv
<1>12. Ahead = From(s, t) /\ Ahead' = From(s, tmp')
  BY <1>1, <1>2 DEF Ahead, From, s
<1>13. InWheel' = InWheel /\ \A u \in InWheel : SlotOf(u)' = SlotOf(u)
  BY <1>1 DEF InWheel, InSlot, SlotOf
<1>14. \A u \in InWheel \ {t} : TicksLeft(u)' = TicksLeft(u)
  BY <1>1, <1>3, <1>7, <1>9, <1>12, <1>13, SameTicks
<1>15. TicksLeft(t)' = TicksLeft(t)
  <2>1. N \in Nat /\ rotation[t] \in Nat /\ N * rotation[t] \in Nat /\ N * (rotation[t] - 1) + N = N * rotation[t]
    BY <1>1, <1>3, TimeWheelAssumption
  <2>2. (cur_slot - cur_slot) % N = 0
    BY <1>1, TimeWheelAssumption, Round
  <2>3. TicksLeft(t) = N * rotation[t]
    BY <1>3, <1>7, <1>12, <2>1, <2>2 DEF TicksLeft
  <2>4. TicksLeft(t)' = ((cur_slot - cur_slot) % N) + N * (rotation[t] - 1) + N
    BY <1>1, <1>3, <1>7, <1>9, <1>12, <1>13 DEF TicksLeft
  <2> QED
    BY <2>1, <2>2, <2>3, <2>4
<1>16. WheelPending = InWheel /\ WheelPending' = InWheel
  BY <1>1, <1>13 DEF WheelPending
<1>17. WheelDues' = WheelDues
  BY <1>1, <1>14, <1>15, <1>16 DEF WheelDues
<1> QED
  BY <1>1, <1>11, <1>17 DEF WheelCur

LEMMA WheelTickMoves ==
  ASSUME WheelInv, WheelTick
  PROVE  WheelInv' /\ WheelSet!TickBegins
<1>1. /\ phase = "idle" /\ phase' = "tick"
      /\ tmp' = IF slots[cur_slot] = << >> THEN NoWheelTimer ELSE Head(slots[cur_slot])
      /\ UNCHANGED <<slots, cur_slot, rotation, ticked>>
      /\ slots[cur_slot] \in Seq(WheelTimers) /\ Distinct(slots[cur_slot])
  BY DEF WheelTick, WheelInv
<1>2. /\ tmp' = NoWheelTimer \/ tmp' \in InSlot(cur_slot)
      /\ From(slots[cur_slot], tmp') = InSlot(cur_slot)
  <2>1. CASE slots[cur_slot] = << >>
    <3>1. InSlot(cur_slot) = {}
      BY <2>1 DEF InSlot, ToSet
    <3> QED
      BY <1>1, <2>1, <3>1, FromNone
  <2>2. CASE slots[cur_slot] # << >>
    BY <1>1, <2>2, FromHead DEF InSlot
  <2> QED
    BY <2>1, <2>2
<1>3. \A i \in 0 .. N - 1 : InSlot(i)' = InSlot(i)
  BY <1>1 DEF InSlot
<1>4. WheelInv'
  <2>1. \A i, j \in 0 .. N - 1 : i # j => InSlot(i)' \cap InSlot(j)' = {}
    BY <1>3 DEF WheelInv
  <2>2. tmp' = NoWheelTimer \/ tmp' \in InSlot(cur_slot)'
    BY <1>1, <1>2 DEF InSlot
  <2>3. slots' \in [0 .. N - 1 -> Seq(WheelTimers)] /\ \A i \in 0 .. N - 1 : Distinct(slots'[i])
    BY <1>1 DEF WheelInv
  <2> QED
    BY <1>1, <2>1, <2>2, <2>3 DEF WheelInv
<1>5. Ahead' = Ahead
  <2>1. Ahead = InSlot(cur_slot)
    BY <1>1, AheadIs
  <2>2. Ahead' = From(slots[cur_slot], tmp')
    BY <1>1 DEF Ahead, From
  <2> QED
    BY <1>2, <2>1, <2>2
<1>6. InWheel' = InWheel /\ \A u \in InWheel : SlotOf(u)' = SlotOf(u)
  BY <1>1 DEF InWheel, InSlot, SlotOf
<1>7. \A u \in InWheel : TicksLeft(u)' = TicksLeft(u)
  BY <1>1, <1>5, <1>6, SameTicks
<1>8. WheelPending = InWheel /\ WheelPending' = InWheel
  BY <1>1, <1>6 DEF WheelPending
<1>9. WheelDues' = WheelDues
  BY <1>1, <1>7, <1>8 DEF WheelDues
<1>10. WheelCur = NoWheelTimer /\ WheelCur' = ticked
  BY <1>1 DEF WheelCur
<1> QED
  BY <1>1, <1>4, <1>9, <1>10 DEF WheelSet!TickBegins, WheelDues, WheelCur

LEMMA WheelTickEndsMoves ==
  ASSUME WheelInv, WheelTickEnds
  PROVE  WheelInv' /\ WheelSet!TickEnds
<1>1. /\ phase = "tick" /\ tmp = NoWheelTimer /\ cur_slot' = (cur_slot + 1) % N /\ phase' = "idle"
      /\ ticked' = ticked + 1 /\ UNCHANGED <<slots, rotation, tmp>>
      /\ cur_slot \in 0 .. N - 1 /\ ticked \in Nat
      /\ slots[cur_slot] \in Seq(WheelTimers)
  BY DEF WheelTickEnds, WheelInv
<1>2. N \in Nat \ {0} /\ cur_slot + 1 \in 1 - N .. 2 * N - 1
  BY <1>1, TimeWheelAssumption
<1>3. cur_slot' = IF cur_slot + 1 < N THEN cur_slot + 1 ELSE 0
  <2>1. PICK d \in 1 - N .. 2 * N - 1 : d = cur_slot + 1
    BY <1>2
  <2>2. d % N = IF d < 0 THEN d + N ELSE IF d < N THEN d ELSE d - N
    BY Round
  <2>3. cur_slot' = d % N
    BY <1>1, <2>1
  <2> QED
    BY <1>1, <1>2, <2>1, <2>2, <2>3
<1>4. cur_slot' \in 0 .. N - 1
  BY <1>1, <1>2, <1>3
<1>5. \A i \in 0 .. N - 1 : InSlot(i)' = InSlot(i)
  BY <1>1 DEF InSlot
<1>6. WheelInv'
  <2>1. \A i, j \in 0 .. N - 1 : i # j => InSlot(i)' \cap InSlot(j)' = {}
    BY <1>5 DEF WheelInv
  <2>2. slots' \in [0 .. N - 1 -> Seq(WheelTimers)] /\ \A i \in 0 .. N - 1 : Distinct(slots'[i])
        /\ rotation' \in [WheelTimers -> Nat]
    BY <1>1 DEF WheelInv
  <2> QED
    BY <1>1, <1>4, <2>1, <2>2 DEF WheelInv
<1>7. InWheel' = InWheel /\ \A u \in InWheel : SlotOf(u)' = SlotOf(u)
  BY <1>1 DEF InWheel, InSlot, SlotOf
<1>8. Ahead = {}
  BY <1>1, AheadIs, FromNone
<1>9. ASSUME NEW u \in InWheel PROVE TicksLeft(u) >= 1 /\ TicksLeft(u)' = TicksLeft(u) - 1
  <2> DEFINE s == SlotOf(u)
             rest == N * rotation[u]
             gap == IF s >= cur_slot THEN s - cur_slot ELSE s - cur_slot + N
  <2>1. s \in 0 .. N - 1 /\ rest \in Nat /\ u \in InSlot(s)
    BY TicksLeftIs, WhereTimersAre
  <2>2. TicksLeft(u) = gap + rest + (IF s = cur_slot THEN N ELSE 0)
    BY <1>8, TicksLeftIs
  <2>3. PICK d \in 1 - N .. N - 1 : d = s - cur_slot'
    BY <1>2, <1>4, <2>1
  <2>4. d % N = IF d < 0 THEN d + N ELSE d
    <3>1. d \in 1 - N .. 2 * N - 1 /\ d < N
      BY <1>2
    <3> QED
      BY <3>1, Round
  <2>5. TicksLeft(u)' = (d % N) + rest
    <3>1. SlotOf(u)' = cur_slot' => u \in Ahead'
      <4>1. Ahead' = ToSet(slots[cur_slot'])
        BY <1>1 DEF Ahead
      <4> QED
        BY <1>1, <1>4, <1>7, <2>1, <4>1 DEF InSlot
    <3>2. SlotOf(u)' = s /\ rotation'[u] = rotation[u]
      BY <1>1, <1>7
    <3>3. TicksLeft(u)' = ((SlotOf(u)' - cur_slot') % N) + N * rotation'[u]
      BY <3>1 DEF TicksLeft
    <3> QED
      BY <2>3, <3>2, <3>3
  <2> HIDE DEF s, rest
  <2> QED
    BY <1>1, <1>2, <1>3, <2>1, <2>2, <2>3, <2>4, <2>5
<1>10. WheelPending = InWheel /\ WheelPending' = InWheel
  BY <1>1, <1>7 DEF WheelPending
<1>11. WheelDues' = WheelDues
  <2>1. \A u \in InWheel : ticked + 1 + (TicksLeft(u) - 1) = ticked + TicksLeft(u)
    BY <1>1, TicksLeftIs
  <2> QED
    BY <1>1, <1>9, <1>10, <2>1 DEF WheelDues
<1>12. WheelCur = ticked /\ WheelCur' = NoWheelTimer /\ WheelCur # NoWheelTimer
  BY <1>1, PendingIs DEF WheelCur
<1>13. \A u \in WheelPending : WheelDues[u] > WheelCur
  <2>1. \A u \in WheelPending : WheelDues[u] = ticked + TicksLeft(u) /\ TicksLeft(u) \in Nat
    BY <1>10, PendingIs, TicksLeftIs, WhereTimersAre
  <2> QED
    BY <1>1, <1>9, <1>10, <1>12, <2>1
<1> QED
  BY <1>1, <1>6, <1>11, <1>12, <1>13, PendingIs DEF WheelSet!TickEnds, WheelDues, WheelCur

LEMMA WheelAddMoves ==
  ASSUME WheelInv, NEW t \in WheelTimers, NEW timeout \in WheelTimeouts, WheelAdd(t, timeout)
  PROVE  WheelInv' /\ WheelSet!Add(t, timeout)
<1> DEFINE ticks == Ticks(timeout)
           m == ticks % N
           s == (cur_slot + m) % N
<1>1. /\ phase \in {"idle", "callback"} /\ t \notin InWheel
      /\ rotation' = [rotation EXCEPT ![t] = ticks \div N]
      /\ slots' = [slots EXCEPT ![s] = <<t>> \o slots[s]]
      /\ UNCHANGED <<cur_slot, tmp, phase, ticked>>
  BY DEF WheelAdd, Rotation, WheelInv
<1>2. N \in Nat \ {0} /\ ticks \in Nat
  <2>1. timeout \in Nat /\ SI \in Nat \ {0} /\ N \in Nat \ {0}
    BY TimeWheelAssumption
  <2>2. timeout \div SI \in Nat
    BY <2>1
  <2> QED
    BY <2>1, <2>2 DEF Ticks
<1>3. /\ cur_slot \in 0 .. N - 1 /\ ticked \in Nat /\ rotation \in [WheelTimers -> Nat]
      /\ slots \in [0 .. N - 1 -> Seq(WheelTimers)]
      /\ \A i \in 0 .. N - 1 : slots[i] \in Seq(WheelTimers) /\ Distinct(slots[i])
      /\ phase = "callback" => tmp \in InSlot(cur_slot) /\ rotation[tmp] = 0
      /\ phase = "idle" => tmp = NoWheelTimer
  BY DEF WheelInv
<1> HIDE DEF ticks
<1>4. m \in 0 .. N - 1 /\ ticks \div N \in Nat /\ ticks = N * (ticks \div N) + m
  BY <1>2, Rounds
<1> HIDE DEF m
<1>5. s \in 0 .. N - 1 /\ (s = cur_slot + m \/ s = cur_slot + m - N)
  <2>1. cur_slot + m \in 1 - N .. 2 * N - 1 /\ cur_slot + m >= 0
    BY <1>2, <1>3, <1>4
  <2>2. PICK d \in 1 - N .. 2 * N - 1 : d = cur_slot + m /\ d >= 0
    BY <2>1
  <2>3. d % N = IF d < 0 THEN d + N ELSE IF d < N THEN d ELSE d - N
    BY Round
  <2>4. s = d % N
    BY <2>2
  <2> HIDE DEF s
  <2> QED
    BY <1>2, <1>3, <1>4, <2>2, <2>3, <2>4
<1> HIDE DEF s
<1>6. /\ <<t>> \o slots[s] \in Seq(WheelTimers) /\ Distinct(<<t>> \o slots[s])
      /\ ToSet(<<t>> \o slots[s]) = ToSet(slots[s]) \cup {t}
      /\ \A u : u # t => From(<<t>> \o slots[s], u) = From(slots[s], u)
  <2>1. t \notin ToSet(slots[s])
    BY <1>1, <1>5 DEF InWheel, InSlot
  <2> QED
    BY <1>3, <1>5, <2>1, Prepended
<1>7. /\ slots' \in [0 .. N - 1 -> Seq(WheelTimers)] /\ slots'[s] = <<t>> \o slots[s]
      /\ \A i \in 0 .. N - 1 : i # s => slots'[i] = slots[i]
  <2> DEFINE front == <<t>> \o slots[s]
  <2>1. front \in Seq(WheelTimers) /\ slots' = [slots EXCEPT ![s] = front]
    BY <1>1, <1>6
  <2> HIDE DEF front
  <2>2. /\ slots' \in [0 .. N - 1 -> Seq(WheelTimers)] /\ slots'[s] = front
        /\ \A i \in 0 .. N - 1 : i # s => slots'[i] = slots[i]
    BY <1>3, <1>5, <2>1
  <2> QED
    BY <2>2 DEF front
<1>8. \A i \in 0 .. N - 1 : /\ Distinct(slots'[i])
                            /\ InSlot(i)' = IF i = s THEN InSlot(i) \cup {t} ELSE InSlot(i)
  <2> SUFFICES ASSUME NEW i \in 0 .. N - 1
               PROVE  /\ Distinct(slots'[i])
                      /\ InSlot(i)' = IF i = s THEN InSlot(i) \cup {t} ELSE InSlot(i)
    OBVIOUS
  <2>1. InSlot(i)' = ToSet(slots'[i]) /\ InSlot(i) = ToSet(slots[i])
    BY DEF InSlot
  <2>2. CASE i = s
    BY <1>6, <1>7, <2>1, <2>2
  <2>3. CASE i # s
    BY <1>3, <1>7, <2>1, <2>3
  <2> QED
    BY <2>2, <2>3
<1>9. rotation' \in [WheelTimers -> Nat] /\ rotation'[t] = ticks \div N
      /\ \A u \in WheelTimers \ {t} : rotation'[u] = rotation[u]
  BY <1>1, <1>3, <1>4
<1>10. phase = "callback" => tmp \in InWheel /\ tmp # t /\ tmp \in WheelTimers
  BY <1>1, WhereTimersAre
<1>11. \A i \in 0 .. N - 1 : t \notin InSlot(i)
  BY <1>1 DEF InWheel
<1>12. WheelInv'
  <2>1. \A i, j \in 0 .. N - 1 : i # j => InSlot(i)' \cap InSlot(j)' = {}
    <3>1. \A i, j \in 0 .. N - 1 : i # j => InSlot(i) \cap InSlot(j) = {}
      BY DEF WheelInv
    <3> QED
      BY <1>8, <1>11, <3>1
  <2>2. phase = "callback" => tmp \in InSlot(cur_slot)' /\ rotation'[tmp] = 0
    <3>1. InSlot(cur_slot) \subseteq ToSet(slots'[cur_slot])
      BY <1>3, <1>6, <1>7 DEF InSlot
    <3> QED
      BY <1>1, <1>3, <1>9, <1>10, <3>1 DEF InSlot
  <2> QED
    BY <1>1, <1>3, <1>7, <1>8, <1>9, <2>1, <2>2 DEF WheelInv
<1>13. InWheel' = InWheel \cup {t} /\ SlotOf(t)' = s /\ \A u \in InWheel : SlotOf(u)' = SlotOf(u)
  <2>1. InWheel' = InWheel \cup {t}
    BY <1>5, <1>8 DEF InWheel
  <2>2. \A u \in InWheel : \A i \in 0 .. N - 1 : u \in InSlot(i)' <=> u \in InSlot(i)
    BY <1>1, <1>8
  <2>3. \A i \in 0 .. N - 1 : t \in InSlot(i)' <=> i = s
    BY <1>8, <1>11
  <2>4. SlotOf(t)' = s
    BY <1>5, <2>3 DEF SlotOf
  <2>5. \A u \in InWheel : SlotOf(u)' = SlotOf(u)
    BY <2>2 DEF SlotOf
  <2> QED
    BY <2>1, <2>4, <2>5
<1>14. /\ \A u \in InWheel : u \in Ahead' <=> u \in Ahead
       /\ s = cur_slot => (t \in Ahead' <=> phase = "idle")
  <2>1. CASE phase = "idle"
    <3>1. Ahead = InSlot(cur_slot) /\ Ahead' = ToSet(slots'[cur_slot])
      BY <1>1, <2>1, AheadIs DEF Ahead
    <3> QED
      BY <1>1, <1>3, <1>6, <1>7, <2>1, <3>1 DEF InSlot
  <2>2. CASE phase = "callback"
    <3>1. Ahead = From(slots[cur_slot], tmp) /\ Ahead' = From(slots'[cur_slot], tmp)
      BY <1>1, <2>2 DEF Ahead, From
    <3>2. Ahead' = Ahead
      BY <1>3, <1>6, <1>7, <1>10, <2>2, <3>1
    <3>3. Ahead \subseteq InSlot(cur_slot)
      BY <1>3, <3>1, Members DEF From, InSlot
    <3> QED
      BY <1>3, <1>11, <2>2, <3>2, <3>3
  <2> QED
    BY <1>1, <2>1, <2>2
<1>15. \A u \in InWheel : TicksLeft(u)' = TicksLeft(u)
  BY <1>1, <1>9, <1>13, <1>14, WhereTimersAre, SameTicks
<1>16. TicksLeft(t)' = WheelDelay(timeout, WheelCur # NoWheelTimer)
  <2>1. (s - cur_slot) % N = m
    <3>1. s - cur_slot \in 1 - N .. 2 * N - 1 /\ (s - cur_slot = m \/ s - cur_slot = m - N)
          /\ s - cur_slot < N
      BY <1>2, <1>3, <1>4, <1>5
    <3> QED
      BY <1>2, <1>4, <3>1, Round
  <2>2. s = cur_slot <=> m = 0
    BY <1>2, <1>3, <1>4, <1>5
  <2>3. TicksLeft(t)' = m + N * (ticks \div N)
                        + (IF s = cur_slot /\ phase # "idle" THEN N ELSE 0)
    <3>1. m + N * (ticks \div N) \in Nat /\ N \in Nat
      BY <1>2, <1>4
    <3>2. TicksLeft(t)' = IF s = cur_slot /\ t \notin Ahead'
                          THEN m + N * (ticks \div N) + N ELSE m + N * (ticks \div N)
      BY <1>1, <1>9, <1>13, <2>1 DEF TicksLeft
    <3> QED
      BY <1>14, <3>1, <3>2
  <2>4. WheelDelay(timeout, WheelCur # NoWheelTimer)
          = ticks + (IF phase # "idle" /\ m = 0 THEN N ELSE 0)
    BY PendingIs DEF WheelDelay, ticks, m
  <2> QED
    BY <1>2, <1>4, <2>2, <2>3, <2>4
<1>17. WheelPending' = WheelPending \cup {t} /\ t \notin WheelPending
  BY <1>1, <1>10, <1>13 DEF WheelPending
<1>18. WheelDues' = [WheelDues EXCEPT ![t] = ticked + WheelDelay(timeout, WheelCur # NoWheelTimer)]
  BY <1>1, <1>15, <1>16, <1>17, WhereTimersAre DEF WheelDues
<1>19. WheelCur' = WheelCur
  BY <1>1 DEF WheelCur
<1> QED
  BY <1>1, <1>12, <1>17, <1>18, <1>19, PendingIs DEF WheelSet!Add, WheelDues, WheelCur

-------------------------------------------------------------------------------
LEMMA WheelStarts == WheelInit => WheelInv /\ WheelSet!Init
<1> SUFFICES ASSUME WheelInit PROVE WheelInv /\ WheelSet!Init
  OBVIOUS
<1>1. /\ slots = [i \in 0 .. N - 1 |-> << >>] /\ cur_slot = 0
      /\ rotation = [t \in WheelTimers |-> 0] /\ tmp = NoWheelTimer /\ phase = "idle" /\ ticked = 0
  BY DEF WheelInit
<1>2. \A i \in 0 .. N - 1 : InSlot(i) = {} /\ Distinct(slots[i]) /\ slots[i] \in Seq(WheelTimers)
  BY <1>1 DEF InSlot, Distinct, ToSet
<1>3. WheelInv
  BY <1>1, <1>2, TimeWheelAssumption DEF WheelInv
<1>4. WheelPending = {}
  BY <1>1, <1>2 DEF WheelPending, InWheel
<1>5. WheelDues \in [WheelTimers -> WheelTimeouts \cup {NoWheelTimer}]
  BY <1>4 DEF WheelDues
<1>6. WheelCur = NoWheelTimer
  BY <1>1 DEF WheelCur
<1> QED
  BY <1>1, <1>3, <1>5, <1>6 DEF WheelSet!Init, WheelDues, WheelCur

LEMMA WheelSteps == WheelInv /\ [WheelNext]_wheelVars => WheelInv' /\ WheelMoves
<1> SUFFICES ASSUME WheelInv, [WheelNext]_wheelVars PROVE WheelInv' /\ WheelMoves
  OBVIOUS
<1>1. CASE \E t \in WheelTimers : WheelDel(t)
  BY <1>1, WheelDelMoves DEF WheelMoves, WheelSet!Next
<1>2. CASE \E t \in WheelTimers, timeout \in WheelTimeouts : WheelAdd(t, timeout)
  BY <1>2, WheelAddMoves DEF WheelMoves, WheelSet!Next
<1>3. CASE WheelTick
  BY <1>3, WheelTickMoves DEF WheelMoves, WheelSet!Next
<1>4. CASE WheelTurns
  BY <1>4, WheelTurnsMoves DEF WheelMoves
<1>5. CASE WheelFire
  BY <1>5, WheelFireMoves DEF WheelMoves, WheelSet!Next
<1>6. CASE WheelFired
  BY <1>6, WheelFiredMoves DEF WheelMoves
<1>7. CASE WheelTickEnds
  BY <1>7, WheelTickEndsMoves DEF WheelMoves, WheelSet!Next
<1>8. CASE UNCHANGED wheelVars
  <2>1. WheelInv' /\ WheelDues' = WheelDues /\ WheelCur' = WheelCur
    BY <1>8 DEF wheelVars, WheelInv, InSlot, WheelDues, WheelCur, WheelPending, InWheel,
                TicksLeft, SlotOf, Ahead
  <2> QED
    BY <1>8, <2>1 DEF wheelVars, WheelMoves
<1> QED
  BY <1>1, <1>2, <1>3, <1>4, <1>5, <1>6, <1>7, <1>8 DEF WheelNext

(* time_wheel: whatever is added and deleted, by callbacks too, a timer    *)
(* fires in the tick after those its timeout is worth (a turn later when a *)
(* callback adds it for whole turns), once, and never after it was         *)
(* deleted: the slots and rotations implement the set of timers.           *)
THEOREM WheelImplementsTimerSet == WheelInit /\ [][WheelNext]_wheelVars => WheelKeepsTime
  BY WheelStarts, WheelSteps, PTL DEF WheelKeepsTime, WheelSet!TimerSpec, WheelMoves, WheelDues, WheelCur
===============================================================================
