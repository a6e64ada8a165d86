----------------------------- MODULE TimerListProofs -----------------------------
(***************************************************************************)
(* sort_timer_list, pointer by pointer, for any number of timers, and what *)
(* stands on it: the server that closes inactive connections.              *)
(***************************************************************************)
EXTENDS InactiveServer, TimerList, FiniteSetTheorems, WellFoundedInduction, TLAPS

(* A set of naturals that is not empty has a least member.                 *)
LEMMA Least == ASSUME NEW S \in SUBSET Nat, S # {} PROVE \E m \in S : \A k \in S : m =< k
<1> DEFINE Less == {ss \in Nat \X Nat : ss[1] < ss[2]}
<1>1. IsWellFoundedOn(Less, Nat)
  BY NatLessThanWellFounded, Zenon DEF OpToRel
<1> HIDE DEF Less
<1>2. PICK m \in S : \A y \in S : ~ (<<y, m>> \in Less)
  BY <1>1, WFMin
<1>3. ASSUME NEW k \in S PROVE m =< k
  <2>1. k \in Nat /\ m \in Nat
    OBVIOUS
  <2>2. k < m => <<k, m>> \in Less
    BY <2>1 DEF Less
  <2> QED
    BY <1>2, <2>1, <2>2
<1> QED
  BY <1>3

LEMMA Lowest ==
  ASSUME NEW b \in Nat, NEW r \in [Timers -> 0 .. b], NEW S \in SUBSET Timers, S # {}
  PROVE  \E m \in S : \A k \in S : r[m] =< r[k]
<1> DEFINE R == {r[k] : k \in S}
<1>1. R \in SUBSET Nat /\ R # {}
  OBVIOUS
<1>2. PICK n \in R : \A k \in R : n =< k
  BY <1>1, Least
<1> QED
  BY <1>2

LEMMA Highest ==
  ASSUME NEW b \in Nat, NEW r \in [Timers -> 0 .. b], NEW S \in SUBSET Timers, S # {}
  PROVE  \E m \in S : \A k \in S : r[k] =< r[m]
<1> DEFINE R == {b - r[k] : k \in S}
<1>1. R \in SUBSET Nat /\ R # {}
  OBVIOUS
<1>2. PICK n \in R : \A k \in R : n =< k
  BY <1>1, Least
<1>3. PICK m \in S : n = b - r[m]
  BY <1>2
<1>4. ASSUME NEW k \in S PROVE r[k] =< r[m]
  <2>1. b - r[m] =< b - r[k]
    BY <1>2, <1>3
  <2>2. r[m] \in Int /\ r[k] \in Int
    OBVIOUS
  <2> QED
    BY <2>1, <2>2
<1> QED
  BY <1>4

-------------------------------------------------------------------------------
(* The shape of a list: M are the timers that are linked, and next follows *)
(* descending ranks, so that no timers form a ring.                        *)
TimerLists ==
  [head : Timers \cup {NULL}, tail : Timers \cup {NULL},
   next : [Timers -> Timers \cup {NULL}], prev : [Timers -> Timers \cup {NULL}],
   expire : [Timers -> Nat], live : SUBSET Timers]

Linked(l, M) ==
  /\ l.head # NULL => l.head \in M /\ l.prev[l.head] = NULL
                      /\ l.tail \in M /\ l.next[l.tail] = NULL
  /\ l.head = NULL <=> M = {}
  /\ \A t \in M :
       /\ t # l.tail => l.next[t] \in M /\ l.prev[l.next[t]] = t
       /\ t # l.head => l.prev[t] \in M /\ l.next[l.prev[t]] = t

InOrder(l, M) ==
  \A t \in M : l.next[t] # NULL => l.expire[t] <= l.expire[l.next[t]]

Descends(l, r) == \A p \in Timers : l.next[p] # NULL => r[l.next[p]] < r[p]
Ranked(l) == \E b \in Nat : \E r \in [Timers -> 0 .. b] : Descends(l, r)

Shape(l, M) ==
  /\ l \in TimerLists /\ M \subseteq Timers /\ NULL \notin Timers
  /\ Linked(l, M) /\ InOrder(l, M) /\ Ranked(l)

(* Who is not in the list does not point into it.                          *)
Sound(l) == Shape(l, l.live) /\ \A p \in Timers \ l.live : l.next[p] = NULL

(* No member is before the head, and none is due before it.                *)
LEMMA HeadIsFirst ==
  ASSUME NEW l, NEW M, Shape(l, M), NEW u \in M
  PROVE  /\ l.head \in M /\ l.expire[l.head] <= l.expire[u]
         /\ l.next[l.head] = NULL => M = {l.head}
<1>b. PICK b \in Nat : \E r \in [Timers -> 0 .. b] : Descends(l, r)
  BY DEF Shape, Ranked
<1>1. PICK r \in [Timers -> 0 .. b] : Descends(l, r)
  BY <1>b
<1>2. /\ M \subseteq Timers /\ NULL \notin Timers /\ l.head \in M
      /\ \A t \in M : t # l.head => l.prev[t] \in M /\ l.next[l.prev[t]] = t
  BY DEF Shape, Linked
<1>3. \A t \in M : t # l.head => r[t] < r[l.prev[t]]
  BY <1>1, <1>2 DEF Descends
<1>4. \A t \in M : l.expire[t] \in Nat
  BY <1>2 DEF Shape, TimerLists
<1>5. l.expire[l.head] <= l.expire[u]
  <2> DEFINE S == {t \in M : l.expire[t] < l.expire[l.head]}
  <2>1. SUFFICES ASSUME S # {} PROVE FALSE
    BY <1>2, <1>4
  <2>2. PICK m \in S : \A k \in S : r[k] <= r[m]
    BY <1>2, <2>1, Highest
  <2>3. m \in M /\ l.expire[m] < l.expire[l.head] /\ m # l.head
    BY <1>2, <1>4
  <2>4. l.prev[m] \in M /\ l.next[l.prev[m]] = m /\ m # NULL
    BY <1>2, <2>3
  <2>5. l.expire[l.prev[m]] <= l.expire[m]
    BY <2>4 DEF Shape, InOrder
  <2>6. l.prev[m] \in S
    BY <1>2, <1>4, <2>3, <2>4, <2>5
  <2>7. r[m] \in Int /\ r[l.prev[m]] \in Int
    BY <1>2, <2>3, <2>4
  <2> QED
    BY <1>3, <2>2, <2>3, <2>6, <2>7
<1>6. ASSUME l.next[l.head] = NULL PROVE M = {l.head}
  <2> DEFINE S == M \ {l.head}
  <2>1. SUFFICES ASSUME S # {} PROVE FALSE
    BY <1>2
  <2>2. PICK m \in S : \A k \in S : r[k] <= r[m]
    BY <1>2, <2>1, Highest
  <2>3. l.prev[m] \in M /\ l.next[l.prev[m]] = m /\ m # NULL
    BY <1>2
  <2>4. l.prev[m] \in S
    BY <1>6, <2>3
  <2>5. r[m] \in Int /\ r[l.prev[m]] \in Int
    BY <1>2, <2>3
  <2> QED
    BY <1>3, <2>2, <2>4, <2>5
<1> QED
  BY <1>2, <1>5, <1>6

-------------------------------------------------------------------------------
(* The loop of add_timer.                                                  *)
Stops(l, t, p) == l.next[p] = NULL \/ l.expire[t] < l.expire[l.next[p]]
PlaceIs(f, l, t) ==
  f = [p \in Timers |-> IF l.next[p] = NULL THEN p
                        ELSE IF l.expire[t] < l.expire[l.next[p]] THEN p ELSE f[l.next[p]]]

(* It ends, because next descends: the recursion defines a function.       *)
LEMMA PlaceExists ==
  ASSUME NEW l \in TimerLists, NEW t \in Timers, NULL \notin Timers, Ranked(l)
  PROVE  \E f : PlaceIs(f, l, t)
<1>b. PICK b \in Nat : \E r \in [Timers -> 0 .. b] : Descends(l, r)
  BY DEF Ranked
<1>1. PICK r \in [Timers -> 0 .. b] : Descends(l, r)
  BY <1>b
<1> DEFINE Turn(f, p) == IF Stops(l, t, p) THEN p ELSE f[l.next[p]]
           Upto(f, n) == \A p \in Timers : r[p] < n => f[p] = Turn(f, p)
           Fails == {n \in Nat : ~ \E f : Upto(f, n)}
<1>t. \A p \in Timers : /\ ~Stops(l, t, p) => l.next[p] \in Timers /\ r[l.next[p]] < r[p]
                        /\ r[p] \in Nat /\ r[p] <= b
  BY <1>1 DEF Descends, Stops, TimerLists
<1>2. Fails = {}
  <2>1. SUFFICES ASSUME Fails # {} PROVE FALSE
    OBVIOUS
  <2>2. PICK n \in Fails : \A k \in Fails : n <= k
    BY <2>1, Least
  <2>3. n # 0
    <3>1. Upto(<< >>, 0)
      BY <1>t
    <3> QED
      BY <3>1
  <2>4. n - 1 \in Nat /\ n - 1 \notin Fails /\ n \in Nat
    BY <2>2, <2>3
  <2>5. PICK f : Upto(f, n - 1)
    BY <2>4
  <2> DEFINE g == [p \in Timers |-> IF r[p] < n - 1 THEN f[p] ELSE Turn(f, p)]
  <2>6. ASSUME NEW p \in Timers, r[p] < n PROVE g[p] = Turn(g, p)
    <3>1. g[p] = Turn(f, p)
      BY <2>5
    <3>2. ~Stops(l, t, p) => g[l.next[p]] = f[l.next[p]]
      <4>1. ~Stops(l, t, p) => l.next[p] \in Timers /\ r[l.next[p]] < n - 1
        BY <1>t, <2>4, <2>6
      <4> QED
        BY <4>1
    <3> HIDE DEF g
    <3> QED
      BY <3>1, <3>2
  <2> HIDE DEF g
  <2>7. Upto(g, n)
    BY <2>6
  <2> QED
    BY <2>2, <2>7
<1>3. PICK f : Upto(f, b + 1)
  BY <1>2
<1> DEFINE g == [p \in Timers |-> f[p]]
<1>4. ASSUME NEW p \in Timers PROVE g[p] = Turn(g, p)
  <2>1. r[p] < b + 1
    BY <1>t
  <2>2. f[p] = Turn(f, p)
    BY <1>3, <2>1
  <2> QED
    BY <1>t, <2>2
<1>5. g = [p \in Timers |-> Turn(g, p)]
  <2>1. \A p \in Timers : g[p] = Turn(g, p)
    BY <1>4
  <2>2. g = [p \in Timers |-> g[p]]
    OBVIOUS
  <2> HIDE DEF g
  <2> QED
    BY <2>1, <2>2
<1> HIDE DEF g
<1>6. PlaceIs(g, l, t)
  BY <1>5 DEF PlaceIs, Stops
<1> QED
  BY <1>6

(* Where it ends: in the part of the list it started in, in front of a     *)
(* later timer or of nothing, and behind one that is not later.            *)
LEMMA PlaceFound ==
  ASSUME NEW l \in TimerLists, NEW t \in Timers, NULL \notin Timers, Ranked(l),
         NEW M \in SUBSET Timers, \A p \in M : l.next[p] # NULL => l.next[p] \in M,
         NEW h \in M, l.expire[h] <= l.expire[t]
  PROVE  /\ LastNotAfter(l, t, h) \in M /\ Stops(l, t, LastNotAfter(l, t, h))
         /\ l.expire[LastNotAfter(l, t, h)] <= l.expire[t]
<1> DEFINE f == CHOOSE place : PlaceIs(place, l, t)
<1>1. PlaceIs(f, l, t)
  BY PlaceExists
<1>2. LastNotAfter(l, t, h) = f[h]
  BY DEF LastNotAfter, PlaceIs
<1> HIDE DEF f
<1>3. \A p \in Timers : f[p] = IF Stops(l, t, p) THEN p ELSE f[l.next[p]]
  BY <1>1 DEF PlaceIs, Stops
<1>b. PICK b \in Nat : \E r \in [Timers -> 0 .. b] : Descends(l, r)
  BY DEF Ranked
<1>4. PICK r \in [Timers -> 0 .. b] : Descends(l, r)
  BY <1>b
<1> DEFINE Good(p) == f[p] \in M /\ Stops(l, t, f[p]) /\ l.expire[f[p]] <= l.expire[t]
           S == {p \in M : l.expire[p] <= l.expire[t] /\ ~Good(p)}
<1>5. S = {}
  <2>1. SUFFICES ASSUME S # {} PROVE FALSE
    OBVIOUS
  <2>2. PICK p \in S : \A k \in S : r[p] <= r[k]
    BY <1>4, <2>1, Lowest
  <2>3. ~Stops(l, t, p)
    BY <1>3
  <2>4. l.next[p] \in M /\ r[l.next[p]] < r[p] /\ f[p] = f[l.next[p]]
    BY <1>3, <1>4, <2>3 DEF Stops, Descends
  <2>5. l.expire[l.next[p]] \in Nat /\ l.expire[t] \in Nat
    BY <2>4 DEF TimerLists
  <2>6. l.expire[l.next[p]] <= l.expire[t]
    BY <2>3, <2>5 DEF Stops
  <2>7. l.next[p] \in S
    BY <2>4, <2>6
  <2>8. r[p] \in Int /\ r[l.next[p]] \in Int
    BY <2>4
  <2> QED
    BY <2>2, <2>4, <2>7, <2>8
<1> QED
  BY <1>2, <1>5

-------------------------------------------------------------------------------
(* Insertion *)

(* The private add_timer links t, which is in no list, somewhere behind    *)
(* list_head.                                                              *)
LEMMA AddAfterKeeps ==
  ASSUME NEW l, NEW M, Shape(l, M), NEW t \in Timers \ M, NEW h \in M, l.expire[h] <= l.expire[t],
         \A p \in Timers \ (M \cup {t}) : l.next[p] = NULL
  PROVE  LET l2 == AddAfter(l, t, h)
         IN  /\ Shape(l2, M \cup {t})
             /\ l2.live = l.live /\ l2.expire = l.expire /\ l2.head = l.head
             /\ \A p \in Timers \ (M \cup {t}) : l2.next[p] = NULL
<1> DEFINE l2 == AddAfter(l, t, h)
           before == LastNotAfter(l, t, h)
           after == l.next[before]
<1>1. /\ l \in TimerLists /\ M \subseteq Timers /\ NULL \notin Timers /\ t \in Timers /\ t \notin M
      /\ Linked(l, M) /\ InOrder(l, M) /\ Ranked(l) /\ h \in M
  BY DEF Shape
<1>2. /\ l.head \in M /\ l.prev[l.head] = NULL /\ l.tail \in M /\ l.next[l.tail] = NULL
      /\ \A p \in M : /\ p # l.tail => l.next[p] \in M /\ l.prev[l.next[p]] = p
                      /\ p # l.head => l.prev[p] \in M /\ l.next[l.prev[p]] = p
  BY <1>1 DEF Linked
<1>3. before \in M /\ Stops(l, t, before) /\ l.expire[before] <= l.expire[t]
  <2>1. \A p \in M : l.next[p] # NULL => l.next[p] \in M
    BY <1>2
  <2> QED
    BY <1>1, <2>1, PlaceFound
<1>4. /\ after # NULL => after \in M /\ l.prev[after] = before /\ before # l.tail /\ after # before
      /\ after = NULL => before = l.tail
  <2>1. PICK b \in Nat : \E r \in [Timers -> 0 .. b] : Descends(l, r)
    BY <1>1 DEF Ranked
  <2>2. PICK r \in [Timers -> 0 .. b] : Descends(l, r)
    BY <2>1
  <2>3. after # NULL => r[after] < r[before]
    BY <1>1, <1>3, <2>2 DEF Descends
  <2>4. r[before] \in Int
    BY <1>1, <1>3
  <2> QED
    BY <1>1, <1>2, <1>3, <2>3, <2>4
<1>5. l2 = IF after # NULL
           THEN [l EXCEPT !.next[before] = t, !.next[t] = after, !.prev[after] = t, !.prev[t] = before]
           ELSE [l EXCEPT !.next[before] = t, !.next[t] = NULL, !.prev[t] = before, !.tail = t]
  BY DEF AddAfter
<1> HIDE DEF before, after, l2
<1>6. /\ l2.live = l.live /\ l2.expire = l.expire /\ l2.head = l.head
      /\ l2.next = [l.next EXCEPT ![before] = t, ![t] = after]
      /\ l2.prev = IF after # NULL THEN [l.prev EXCEPT ![after] = t, ![t] = before]
                   ELSE [l.prev EXCEPT ![t] = before]
      /\ l2.tail = IF after # NULL THEN l.tail ELSE t
      /\ l2 \in TimerLists
  BY <1>1, <1>3, <1>4, <1>5 DEF TimerLists
<1>n. /\ \A p \in Timers : l2.next[p] = IF p = t THEN after ELSE IF p = before THEN t ELSE l.next[p]
      /\ \A p \in Timers : l2.prev[p] = IF p = t THEN before
                                        ELSE IF p = after THEN t ELSE l.prev[p]
  BY <1>1, <1>3, <1>4, <1>6 DEF TimerLists
<1>7. Linked(l2, M \cup {t})
  <2>1. /\ l2.head \in M /\ l2.prev[l2.head] = NULL
        /\ l2.tail \in M \cup {t} /\ l2.next[l2.tail] = NULL
    <3>1. after # l.head
      BY <1>1, <1>2, <1>3, <1>4
    <3> QED
      BY <1>1, <1>2, <1>3, <1>4, <1>6, <1>n, <3>1
  <2>2. ASSUME NEW p \in M \cup {t}, p # l2.tail
        PROVE  l2.next[p] \in M \cup {t} /\ l2.prev[l2.next[p]] = p
    <3>1. CASE p = t
      BY <1>1, <1>3, <1>4, <1>6, <1>n, <2>2, <3>1
    <3>2. CASE p = before
      BY <1>1, <1>3, <1>4, <1>6, <1>n, <2>2, <3>2
    <3>3. CASE p # t /\ p # before
      <4>1. p \in M /\ p # l.tail
        BY <1>1, <1>4, <1>6, <2>2, <3>3
      <4>2. l.next[p] \in M /\ l.prev[l.next[p]] = p
        BY <1>2, <4>1
      <4>3. l.next[p] # after
        BY <1>1, <1>4, <3>3, <4>2
      <4> QED
        BY <1>1, <1>n, <3>3, <4>1, <4>2, <4>3
    <3> QED
      BY <3>1, <3>2, <3>3
  <2>3. ASSUME NEW p \in M \cup {t}, p # l2.head
        PROVE  l2.prev[p] \in M \cup {t} /\ l2.next[l2.prev[p]] = p
    <3>1. CASE p = t
      BY <1>1, <1>3, <1>n, <3>1
    <3>2. CASE p = after
      BY <1>1, <1>3, <1>4, <1>n, <2>3, <3>2
    <3>3. CASE p # t /\ p # after
      <4>1. p \in M /\ l.prev[p] \in M /\ l.next[l.prev[p]] = p
        BY <1>2, <1>6, <2>3, <3>3
      <4>2. l.prev[p] # before
        BY <3>3, <4>1 DEF after
      <4> QED
        BY <1>1, <1>n, <3>3, <4>1, <4>2
    <3> QED
      BY <3>1, <3>2, <3>3
  <2> QED
    BY <1>1, <2>1, <2>2, <2>3 DEF Linked
<1>8. InOrder(l2, M \cup {t})
  <2> SUFFICES ASSUME NEW p \in M \cup {t}, l2.next[p] # NULL
               PROVE  l2.expire[p] <= l2.expire[l2.next[p]]
    BY DEF InOrder
  <2>1. CASE p = t
    <3>1. after # NULL /\ l.expire[t] < l.expire[after] /\ l2.next[p] = after
      BY <1>1, <1>3, <1>n, <2>1 DEF Stops, after
    <3>2. l.expire[t] \in Nat /\ l.expire[after] \in Nat
      BY <1>1, <1>4, <3>1 DEF TimerLists
    <3> QED
      BY <1>6, <2>1, <3>1, <3>2
  <2>2. CASE p = before /\ p # t
    BY <1>1, <1>3, <1>6, <1>n, <2>2
  <2>3. CASE p # before /\ p # t
    BY <1>1, <1>6, <1>n, <2>3 DEF InOrder
  <2> QED
    BY <2>1, <2>2, <2>3
<1>9. Ranked(l2)
  <2>1. PICK b \in Nat : \E r \in [Timers -> 0 .. b] : Descends(l, r)
    BY <1>1 DEF Ranked
  <2>2. PICK r \in [Timers -> 0 .. b] : Descends(l, r)
    BY <2>1
  <2> DEFINE q == [p \in Timers |-> IF p = t THEN r[before]
                                    ELSE IF r[p] >= r[before] THEN r[p] + 1 ELSE r[p]]
  <2>3. /\ \A p \in Timers : r[p] \in 0 .. b
        /\ \A p \in Timers : l.next[p] # NULL => l.next[p] \in Timers /\ r[l.next[p]] < r[p]
    BY <1>1, <2>2 DEF Descends, TimerLists
  <2>4. q \in [Timers -> 0 .. b + 1]
    BY <1>1, <1>3, <2>3
  <2>5. ASSUME NEW p \in Timers, l2.next[p] # NULL PROVE q[l2.next[p]] < q[p]
    <3>1. CASE p = t
      <4>1. after # NULL /\ after \in M /\ l2.next[p] = after /\ r[after] < r[before] /\ after # t
        BY <1>1, <1>3, <1>4, <1>n, <2>3, <2>5, <3>1 DEF after
      <4>2. q[after] = r[after]
        BY <1>1, <1>3, <2>3, <4>1
      <4> QED
        BY <3>1, <4>1, <4>2
    <3>2. CASE p = before /\ p # t
      <4>1. q[p] = r[p] + 1
        BY <2>3, <3>2
      <4> QED
        BY <1>n, <2>3, <3>2, <4>1
    <3>3. CASE p # before /\ p # t
      <4>1. l2.next[p] = l.next[p] /\ l.next[p] \in Timers /\ r[l.next[p]] < r[p]
        BY <1>n, <2>3, <2>5, <3>3
      <4>2. p \in M
        BY <2>5, <3>3, <4>1
      <4>3. l.next[p] # t
        BY <1>1, <1>2, <2>5, <4>1, <4>2
      <4> QED
        BY <1>1, <1>3, <2>3, <3>3, <4>1, <4>3
    <3> QED
      BY <3>1, <3>2, <3>3
  <2> HIDE DEF q
  <2>6. b + 1 \in Nat /\ Descends(l2, q)
    BY <2>5 DEF Descends
  <2> QED
    BY <2>4, <2>6 DEF Ranked
<1>10. \A p \in Timers \ (M \cup {t}) : l2.next[p] = NULL
  BY <1>1, <1>3, <1>n
<1> QED
  BY <1>1, <1>6, <1>7, <1>8, <1>9, <1>10 DEF Shape, l2

(* add_timer of a new timer.                                               *)
LEMMA AddKeeps ==
  ASSUME NEW l, Sound(l), NEW t \in Timers \ l.live, NEW e \in Nat
  PROVE  LET l2 == AddTimer(NewTimer(l, t, e), t)
         IN  /\ Sound(l2) /\ l2.live = l.live \cup {t}
             /\ l2.expire = [l.expire EXCEPT ![t] = e]
             /\ l2.head = IF l.head = NULL \/ e < l.expire[l.head] THEN t ELSE l.head
<1> DEFINE n == NewTimer(l, t, e)
           l2 == AddTimer(n, t)
           M == l.live
<1>1. /\ l \in TimerLists /\ M \subseteq Timers /\ NULL \notin Timers
      /\ Linked(l, M) /\ InOrder(l, M) /\ Ranked(l) /\ t \in Timers /\ t \notin M
      /\ \A p \in Timers \ M : l.next[p] = NULL
  BY DEF Sound, Shape
<1>2. /\ n \in TimerLists /\ n.head = l.head /\ n.tail = l.tail /\ n.live = M \cup {t}
      /\ n.next = [l.next EXCEPT ![t] = NULL] /\ n.prev = [l.prev EXCEPT ![t] = NULL]
      /\ n.expire = [l.expire EXCEPT ![t] = e]
  BY <1>1 DEF NewTimer, TimerLists
<1>l. l2 = AddTimer(n, t)
  OBVIOUS
<1> HIDE DEF n, l2
<1>3. /\ \A p \in Timers : n.next[p] = l.next[p]
      /\ \A p \in M : n.prev[p] = l.prev[p] /\ n.expire[p] = l.expire[p]
      /\ n.next[t] = NULL /\ n.prev[t] = NULL /\ n.expire[t] = e
  BY <1>1, <1>2 DEF TimerLists
<1>4. Shape(n, M)
  <2>1. Linked(n, M)
    BY <1>1, <1>2, <1>3 DEF Linked
  <2>2. InOrder(n, M)
    <3>1. \A p \in M : l.next[p] # NULL => l.next[p] \in M
      BY <1>1 DEF Linked
    <3> QED
      BY <1>1, <1>3, <3>1 DEF InOrder
  <2>3. Ranked(n)
    BY <1>1, <1>3 DEF Ranked, Descends
  <2> QED
    BY <1>1, <1>2, <2>1, <2>2, <2>3 DEF Shape
<1>5. CASE n.head = NULL
  <2>1. l2 = [n EXCEPT !.head = t, !.tail = t]
    BY <1>l, <1>5 DEF AddTimer
  <2>2. /\ l2 \in TimerLists /\ l2.head = t /\ l2.tail = t /\ l2.live = n.live
        /\ l2.next = n.next /\ l2.prev = n.prev /\ l2.expire = n.expire
    BY <1>1, <1>2, <2>1 DEF TimerLists
  <2>3. M = {}
    BY <1>4, <1>5 DEF Shape, Linked
  <2>4. Linked(l2, {t})
    BY <1>1, <1>3, <2>2 DEF Linked
  <2>5. InOrder(l2, {t})
    BY <1>3, <2>2 DEF InOrder
  <2>6. Ranked(l2)
    BY <1>4, <2>2 DEF Shape, Ranked, Descends
  <2>7. Sound(l2)
    BY <1>1, <1>2, <1>3, <2>2, <2>3, <2>4, <2>5, <2>6 DEF Sound, Shape
  <2> QED
    BY <1>2, <1>5, <2>2, <2>7 DEF n, l2
<1>6. CASE n.head # NULL /\ n.expire[t] < n.expire[n.head]
  <2>1. l2 = [n EXCEPT !.next[t] = n.head, !.prev[n.head] = t, !.head = t]
    BY <1>l, <1>6 DEF AddTimer
  <2>h. /\ n.head \in M /\ n.prev[n.head] = NULL /\ n.tail \in M /\ n.next[n.tail] = NULL
        /\ \A p \in M : /\ p # n.tail => n.next[p] \in M /\ n.prev[n.next[p]] = p
                        /\ p # n.head => n.prev[p] \in M /\ n.next[n.prev[p]] = p
    BY <1>4, <1>6 DEF Shape, Linked
  <2>2. /\ l2 \in TimerLists /\ l2.head = t /\ l2.tail = n.tail /\ l2.live = n.live
        /\ l2.next = [n.next EXCEPT ![t] = n.head] /\ l2.prev = [n.prev EXCEPT ![n.head] = t]
        /\ l2.expire = n.expire
    BY <1>1, <1>2, <1>6, <2>1, <2>h DEF TimerLists
  <2>3. /\ \A p \in Timers : l2.next[p] = IF p = t THEN n.head ELSE n.next[p]
        /\ \A p \in Timers : l2.prev[p] = IF p = n.head THEN t ELSE n.prev[p]
    BY <1>1, <1>2, <2>2, <2>h DEF TimerLists
  <2>4. Linked(l2, M \cup {t})
    <3>1. /\ l2.head # NULL /\ l2.head \in M \cup {t} /\ l2.prev[l2.head] = NULL
          /\ l2.tail \in M \cup {t} /\ l2.next[l2.tail] = NULL
      BY <1>1, <1>3, <2>2, <2>3, <2>h
    <3>2. ASSUME NEW p \in M \cup {t}, p # l2.tail
          PROVE  l2.next[p] \in M \cup {t} /\ l2.prev[l2.next[p]] = p
      <4>1. CASE p = t
        BY <1>1, <2>3, <2>h, <4>1
      <4>2. CASE p # t
        <5>1. p \in M /\ n.next[p] \in M /\ n.prev[n.next[p]] = p
          BY <2>2, <2>h, <3>2, <4>2
        <5>2. n.next[p] # n.head
          BY <1>1, <2>h, <5>1
        <5> QED
          BY <1>1, <2>3, <4>2, <5>1, <5>2
      <4> QED
        BY <4>1, <4>2
    <3>3. ASSUME NEW p \in M \cup {t}, p # l2.head
          PROVE  l2.prev[p] \in M \cup {t} /\ l2.next[l2.prev[p]] = p
      <4>1. p \in M /\ p # t
        BY <2>2, <3>3
      <4>2. CASE p = n.head
        BY <1>1, <2>3, <4>1, <4>2
      <4>3. CASE p # n.head
        <5>1. n.prev[p] \in M /\ n.next[n.prev[p]] = p
          BY <2>h, <4>1, <4>3
        <5> QED
          BY <1>1, <2>3, <4>1, <4>3, <5>1
      <4> QED
        BY <4>2, <4>3
    <3> QED
      BY <3>1, <3>2, <3>3 DEF Linked
  <2>5. InOrder(l2, M \cup {t})
    <3>1. \A p \in M : n.expire[p] \in Nat
      BY <1>1, <1>2 DEF TimerLists
    <3>2. n.expire[t] <= n.expire[n.head]
      BY <1>3, <1>6, <2>h, <3>1
    <3> QED
      BY <1>1, <1>4, <2>2, <2>3, <3>2 DEF Shape, InOrder
  <2>6. Ranked(l2)
    <3>1. PICK b \in Nat : \E r \in [Timers -> 0 .. b] : Descends(n, r)
      BY <1>4 DEF Shape, Ranked
    <3>2. PICK r \in [Timers -> 0 .. b] : Descends(n, r)
      BY <3>1
    <3> DEFINE q == [r EXCEPT ![t] = b + 1]
    <3>3. q \in [Timers -> 0 .. b + 1] /\ \A p \in Timers : q[p] = IF p = t THEN b + 1 ELSE r[p]
      BY <1>1
    <3> HIDE DEF q
    <3>4. ASSUME NEW p \in Timers, l2.next[p] # NULL PROVE q[l2.next[p]] < q[p]
      <4>1. CASE p = t
        <5>1. l2.next[p] = n.head /\ n.head \in Timers /\ n.head # t
          BY <1>1, <2>3, <2>h, <4>1
        <5> QED
          BY <3>3, <4>1, <5>1
      <4>2. CASE p # t
        <5>1. l2.next[p] = n.next[p] /\ n.next[p] # t
          BY <1>1, <1>3, <2>3, <2>h, <3>4, <4>2
        <5>2. n.next[p] \in Timers /\ r[n.next[p]] < r[p]
          BY <1>2, <3>2, <3>4, <5>1 DEF Descends, TimerLists
        <5> QED
          BY <3>3, <4>2, <5>1, <5>2
      <4> QED
        BY <4>1, <4>2
    <3> QED
      BY <3>3, <3>4 DEF Ranked, Descends
  <2>7. Sound(l2)
    BY <1>1, <1>2, <1>3, <2>2, <2>3, <2>4, <2>5, <2>6 DEF Sound, Shape
  <2>8. e < l.expire[l.head]
    BY <1>2, <1>3, <1>6, <2>h
  <2> QED
    BY <1>2, <1>6, <2>2, <2>7, <2>8 DEF n, l2
<1>7. CASE n.head # NULL /\ ~(n.expire[t] < n.expire[n.head])
  <2>1. l2 = AddAfter(n, t, n.head)
    BY <1>l, <1>7 DEF AddTimer
  <2>2. n.head \in M /\ n.expire[n.head] \in Nat /\ n.expire[t] \in Nat
    BY <1>1, <1>2, <1>4, <1>7 DEF Shape, Linked, TimerLists
  <2>3. \A p \in Timers \ (M \cup {t}) : n.next[p] = NULL
    BY <1>1, <1>3
  <2>4. /\ Shape(l2, M \cup {t})
        /\ l2.live = n.live /\ l2.expire = n.expire /\ l2.head = n.head
        /\ \A p \in Timers \ (M \cup {t}) : l2.next[p] = NULL
    <3>1. n.expire[n.head] <= n.expire[t]
      BY <1>7, <2>2
    <3>2. t \in Timers \ M
      BY <1>1
    <3> DEFINE h == n.head
               a == AddAfter(n, t, h)
    <3>3. h \in M /\ n.expire[h] <= n.expire[t]
      BY <2>2, <3>1
    <3> HIDE DEF M, h
    <3>4. /\ Shape(a, M \cup {t})
          /\ a.live = n.live /\ a.expire = n.expire /\ a.head = n.head
          /\ \A p \in Timers \ (M \cup {t}) : a.next[p] = NULL
      BY <1>4, <2>3, <3>2, <3>3, AddAfterKeeps
    <3>5. l2 = a
      BY <2>1 DEF h
    <3> HIDE DEF a
    <3> QED
      BY <3>4, <3>5
  <2>5. ~(e < l.expire[l.head]) /\ l.head # NULL
    BY <1>2, <1>3, <1>7, <2>2
  <2> QED
    BY <1>2, <2>4, <2>5 DEF Sound, n, l2
<1> QED
  BY <1>5, <1>6, <1>7

-------------------------------------------------------------------------------
(* Removal *)

(* The head goes: in tick(), del_timer and adjust_timer.  A stale tail is  *)
(* left only by an empty list.                                             *)
LEMMA HeadUnlinked ==
  ASSUME NEW l, NEW M, Shape(l, M), l.head # NULL,
         NEW l2 \in TimerLists,
         l2.head = l.next[l.head], l.next[l.head] # NULL => l2.tail = l.tail,
         \A p \in Timers : l2.next[p] = IF p = l.head THEN NULL ELSE l.next[p],
         \A p \in M \ {l.head} : /\ l2.prev[p] = IF p = l.next[l.head] THEN NULL ELSE l.prev[p]
                                 /\ l2.expire[p] = l.expire[p]
  PROVE  Shape(l2, M \ {l.head})
<1> DEFINE t == l.head
           second == l.next[l.head]
           M2 == M \ {t}
<1>1. /\ l \in TimerLists /\ M \subseteq Timers /\ NULL \notin Timers
      /\ t \in M /\ l.prev[t] = NULL /\ l.tail \in M /\ l.next[l.tail] = NULL
      /\ \A p \in M : /\ p # l.tail => l.next[p] \in M /\ l.prev[l.next[p]] = p
                      /\ p # t => l.prev[p] \in M /\ l.next[l.prev[p]] = p
      /\ InOrder(l, M)
  BY DEF Shape, Linked
<1>2. second = NULL => M2 = {}
  BY <1>1, HeadIsFirst
<1>3. second # NULL => t # l.tail /\ second \in M2 /\ l.prev[second] = t
  <2>1. ASSUME second # NULL PROVE t # l.tail /\ second \in M /\ l.prev[second] = t
    BY <1>1, <2>1
  <2>2. ASSUME second # NULL PROVE second # t
    BY <1>1, <2>1, <2>2
  <2> QED
    BY <2>1, <2>2
<1>4. /\ l2.head = second /\ (second # NULL => l2.tail = l.tail)
      /\ \A p \in Timers : l2.next[p] = IF p = t THEN NULL ELSE l.next[p]
      /\ \A p \in M2 : /\ l2.prev[p] = IF p = second THEN NULL ELSE l.prev[p]
                       /\ l2.expire[p] = l.expire[p]
  OBVIOUS
<1>5. \A p \in M2 : p \in Timers /\ p \in M /\ p # t
  BY <1>1
<1>6. \A p \in M2 : l.next[p] # t
  BY <1>1, <1>5
<1> HIDE DEF t, second, M2
<1>7. Linked(l2, M2)
  <2>1. CASE second = NULL
    BY <1>2, <1>4, <2>1 DEF Linked
  <2>2. CASE second # NULL
    <3>1. l.tail \in M2
      BY <1>1, <1>3, <2>2 DEF M2
    <3>2. /\ l2.head \in M2 /\ l2.prev[l2.head] = NULL /\ l2.tail \in M2 /\ l2.next[l2.tail] = NULL
      BY <1>1, <1>3, <1>4, <1>5, <2>2, <3>1
    <3>3. ASSUME NEW p \in M2, p # l2.tail PROVE l2.next[p] \in M2 /\ l2.prev[l2.next[p]] = p
      <4>1. l.next[p] \in M /\ l.prev[l.next[p]] = p /\ l.next[p] # t
        BY <1>1, <1>4, <1>5, <1>6, <2>2, <3>3
      <4>2. l.next[p] # second
        BY <1>3, <1>5, <2>2, <4>1
      <4> QED
        BY <1>4, <1>5, <4>1, <4>2 DEF M2
    <3>4. ASSUME NEW p \in M2, p # l2.head PROVE l2.prev[p] \in M2 /\ l2.next[l2.prev[p]] = p
      <4>1. p # second /\ l.prev[p] \in M /\ l.next[l.prev[p]] = p
        BY <1>1, <1>4, <1>5, <3>4
      <4>2. l.prev[p] # t
        BY <4>1 DEF second, t
      <4> QED
        BY <1>1, <1>4, <1>5, <4>1, <4>2 DEF M2
    <3>5. l2.head # NULL /\ M2 # {}
      BY <1>4, <2>2, <3>2
    <3> QED
      BY <3>2, <3>3, <3>4, <3>5 DEF Linked
  <2> QED
    BY <2>1, <2>2
<1>8. InOrder(l2, M2)
  <2> SUFFICES ASSUME NEW p \in M2, l2.next[p] # NULL PROVE l2.expire[p] <= l2.expire[l2.next[p]]
    BY DEF InOrder
  <2>1. l2.next[p] = l.next[p] /\ l.next[p] \in M2
    BY <1>1, <1>4, <1>5, <1>6 DEF M2
  <2> QED
    BY <1>1, <1>4, <1>5, <2>1 DEF InOrder
<1>9. Ranked(l2)
  BY <1>4 DEF Shape, Ranked, Descends
<1>10. M2 \subseteq Timers
  BY <1>5
<1> QED
  BY <1>1, <1>7, <1>8, <1>9, <1>10 DEF Shape, M2, t

(* Another timer goes; what its own pointers then are does not matter.     *)
LEMMA OtherUnlinked ==
  ASSUME NEW l, NEW M, Shape(l, M), NEW t \in M, t # l.head,
         NEW l2 \in TimerLists,
         l2.head = l.head, l2.tail = (IF l.next[t] = NULL THEN l.prev[t] ELSE l.tail),
         l2.next[t] \in {NULL, l.next[t]},
         \A p \in Timers \ {t} : l2.next[p] = IF p = l.prev[t] THEN l.next[t] ELSE l.next[p],
         \A p \in M \ {t} : /\ l2.prev[p] = IF p = l.next[t] THEN l.prev[t] ELSE l.prev[p]
                            /\ l2.expire[p] = l.expire[p]
  PROVE  Shape(l2, M \ {t})
<1> DEFINE before == l.prev[t]
           after == l.next[t]
           M2 == M \ {t}
<1>1. /\ l \in TimerLists /\ M \subseteq Timers /\ NULL \notin Timers
      /\ l.head \in M /\ l.prev[l.head] = NULL /\ l.tail \in M /\ l.next[l.tail] = NULL
      /\ \A p \in M : /\ p # l.tail => l.next[p] \in M /\ l.prev[l.next[p]] = p
                      /\ p # l.head => l.prev[p] \in M /\ l.next[l.prev[p]] = p
      /\ InOrder(l, M) /\ Ranked(l)
  BY DEF Shape, Linked
<1>2. PICK b \in Nat : \E r \in [Timers -> 0 .. b] : Descends(l, r)
  BY <1>1 DEF Ranked
<1>3. PICK r \in [Timers -> 0 .. b] : Descends(l, r)
  BY <1>2
<1>4. /\ \A p \in Timers : r[p] \in 0 .. b
      /\ \A p \in Timers : l.next[p] # NULL => l.next[p] \in Timers /\ r[l.next[p]] < r[p]
  BY <1>1, <1>3 DEF Descends, TimerLists
<1>5. /\ before \in M /\ l.next[before] = t /\ t # NULL /\ t \in Timers
      /\ r[t] < r[before] /\ before # t /\ before \in M2
  <2>1. before \in M /\ l.next[before] = t /\ t # NULL /\ t \in Timers
    BY <1>1
  <2>2. r[t] < r[before] /\ r[t] \in Int
    BY <1>1, <1>4, <2>1
  <2> QED
    BY <2>1, <2>2
<1>6. /\ after # NULL => after \in M /\ l.prev[after] = t /\ r[after] < r[t] /\ after # t
                         /\ after # before /\ after # l.head /\ t # l.tail
      /\ after = NULL => t = l.tail
  <2>1. after # NULL => after \in M /\ l.prev[after] = t /\ t # l.tail
    BY <1>1
  <2>2. after # NULL => r[after] < r[t] /\ r[after] \in Int /\ r[before] \in Int
    BY <1>1, <1>4, <1>5, <2>1
  <2>3. after = NULL => t = l.tail
    BY <1>1
  <2> QED
    BY <1>1, <1>4, <1>5, <2>1, <2>2, <2>3
<1>7. /\ l2.head = l.head /\ l2.tail = (IF after = NULL THEN before ELSE l.tail)
      /\ l2.next[t] \in {NULL, after}
      /\ \A p \in Timers \ {t} : l2.next[p] = IF p = before THEN after ELSE l.next[p]
      /\ \A p \in M2 : /\ l2.prev[p] = IF p = after THEN before ELSE l.prev[p]
                       /\ l2.expire[p] = l.expire[p]
  OBVIOUS
<1>8. \A p \in M2 : p \in Timers \ {t} /\ p \in M /\ p # t /\ (p # before => l.next[p] # t)
  <2>1. \A p \in M : l.next[p] = t => p = before
    BY <1>1, <1>5
  <2> QED
    BY <1>1, <2>1
<1> HIDE DEF before, after, M2
<1>9. Linked(l2, M2)
  <2>1. /\ l2.head \in M2 /\ l2.head # NULL /\ l2.prev[l2.head] = NULL
        /\ l2.tail \in M2 /\ l2.next[l2.tail] = NULL
    <3>1. l.head \in M2
      BY <1>1 DEF M2
    <3>2. l2.prev[l.head] = NULL /\ l.head # NULL
      BY <1>1, <1>6, <1>7, <3>1
    <3>3. CASE after = NULL
      BY <1>5, <1>7, <1>8, <3>1, <3>2, <3>3
    <3>4. CASE after # NULL
      <4>1. l.tail \in M2
        BY <1>1, <1>6, <3>4 DEF M2
      <4>2. l.tail # before
        BY <1>1, <1>5
      <4> QED
        BY <1>1, <1>7, <1>8, <3>1, <3>2, <3>4, <4>1, <4>2
    <3> QED
      BY <3>3, <3>4
  <2>2. ASSUME NEW p \in M2, p # l2.tail PROVE l2.next[p] \in M2 /\ l2.prev[l2.next[p]] = p
    <3>1. CASE p = before
      <4>1. after # NULL /\ after \in M2
        BY <1>6, <1>7, <2>2, <3>1 DEF M2
      <4> QED
        BY <1>7, <1>8, <3>1, <4>1
    <3>2. CASE p # before
      <4>1. p # l.tail
        BY <1>6, <1>7, <1>8, <2>2
      <4>2. l.next[p] \in M /\ l.prev[l.next[p]] = p /\ l.next[p] # t
        BY <1>1, <1>8, <3>2, <4>1
      <4>3. l.next[p] # after
        BY <1>1, <1>6, <1>8, <4>2
      <4> QED
        BY <1>7, <1>8, <3>2, <4>2, <4>3 DEF M2
    <3> QED
      BY <3>1, <3>2
  <2>3. ASSUME NEW p \in M2, p # l2.head PROVE l2.prev[p] \in M2 /\ l2.next[l2.prev[p]] = p
    <3>1. CASE p = after
      BY <1>5, <1>7, <1>8, <3>1
    <3>2. CASE p # after
      <4>1. l.prev[p] \in M /\ l.next[l.prev[p]] = p
        BY <1>1, <1>7, <1>8, <2>3
      <4>2. l.prev[p] # t /\ l.prev[p] # before
        BY <1>5, <1>8, <3>2, <4>1 DEF after
      <4>3. l.prev[p] \in Timers \ {t}
        BY <1>1, <4>1, <4>2
      <4> QED
        BY <1>7, <3>2, <4>1, <4>2, <4>3 DEF M2
    <3> QED
      BY <3>1, <3>2
  <2>4. M2 # {}
    BY <2>1
  <2> QED
    BY <2>1, <2>2, <2>3, <2>4 DEF Linked
<1>10. InOrder(l2, M2)
  <2> SUFFICES ASSUME NEW p \in M2, l2.next[p] # NULL PROVE l2.expire[p] <= l2.expire[l2.next[p]]
    BY DEF InOrder
  <2>e. \A q \in M : l.expire[q] \in Nat
    BY <1>1 DEF TimerLists
  <2>1. CASE p = before
    <3>1. l2.next[p] = after /\ after \in M2 /\ after # NULL
      BY <1>6, <1>7, <1>8, <2>1 DEF M2
    <3>2. l.expire[before] <= l.expire[t]
      BY <1>1, <1>5 DEF InOrder
    <3>3. l.expire[t] <= l.expire[after]
      BY <1>1, <3>1 DEF InOrder, after
    <3>4. l.expire[before] \in Nat /\ l.expire[t] \in Nat /\ l.expire[after] \in Nat
      BY <1>5, <1>6, <2>e, <3>1
    <3>5. l2.expire[before] = l.expire[before] /\ l2.expire[after] = l.expire[after]
      BY <1>5, <1>7, <3>1
    <3> QED
      BY <2>1, <3>1, <3>2, <3>3, <3>4, <3>5
  <2>2. CASE p # before
    <3>1. l2.next[p] = l.next[p] /\ l.next[p] \in M /\ l.next[p] # t
      BY <1>1, <1>7, <1>8, <2>2
    <3>2. l.next[p] \in M2
      BY <3>1 DEF M2
    <3> QED
      BY <1>1, <1>7, <1>8, <3>1, <3>2 DEF InOrder
  <2> QED
    BY <2>1, <2>2
<1>11. Ranked(l2)
  <2>1. ASSUME NEW p \in Timers, l2.next[p] # NULL PROVE r[l2.next[p]] < r[p]
    <3>1. CASE p = t
      BY <1>6, <1>7, <2>1, <3>1
    <3>2. CASE p = before
      <4>1. p \in Timers \ {t}
        BY <1>5, <3>2
      <4>2. l2.next[p] = after /\ after # NULL /\ after \in Timers
        BY <1>1, <1>6, <1>7, <2>1, <3>2, <4>1
      <4>3. r[after] \in Int /\ r[t] \in Int /\ r[before] \in Int
        BY <1>4, <1>5, <3>2, <4>2
      <4> QED
        BY <1>5, <1>6, <3>2, <4>2, <4>3
    <3>3. CASE p # t /\ p # before
      BY <1>4, <1>7, <2>1, <3>3
    <3> QED
      BY <3>1, <3>2, <3>3
  <2> QED
    BY <2>1 DEF Ranked, Descends
<1>12. M2 \subseteq Timers
  BY <1>8
<1> QED
  BY <1>1, <1>9, <1>10, <1>11, <1>12 DEF Shape, M2

-------------------------------------------------------------------------------
(* The operations keep the list sound and leave the others' times alone.   *)

LEMMA FreedIs ==
  ASSUME NEW l \in TimerLists, NEW t \in Timers, NULL \notin Timers
  PROVE  /\ Freed(l, t) \in TimerLists /\ Freed(l, t).head = l.head /\ Freed(l, t).tail = l.tail
         /\ \A p \in Timers : /\ Freed(l, t).next[p] = IF p = t THEN NULL ELSE l.next[p]
                              /\ p # t => Freed(l, t).prev[p] = l.prev[p]
                              /\ p # t => Freed(l, t).expire[p] = l.expire[p]
         /\ Freed(l, t).live = l.live \ {t} /\ Freed(l, t).expire = [l.expire EXCEPT ![t] = 0]
  BY DEF TimerLists, Freed

(* tick() after the callback.                                              *)
LEMMA PopKeeps ==
  ASSUME NEW l, Sound(l), l.head # NULL
  PROVE  /\ l.head \in l.live
         /\ Sound(PopHead(l)) /\ PopHead(l).live = l.live \ {l.head}
         /\ PopHead(l).expire = [l.expire EXCEPT ![l.head] = 0]
<1> DEFINE t == l.head
           second == l.next[l.head]
           m == IF second # NULL THEN [l EXCEPT !.head = second, !.prev[second] = NULL]
                ELSE [l EXCEPT !.head = second]
           l2 == Freed(m, t)
<1>1. /\ l \in TimerLists /\ t \in Timers /\ t \in l.live /\ NULL \notin Timers
      /\ second \in Timers \cup {NULL} /\ Shape(l, l.live) /\ l.live \subseteq Timers
      /\ \A p \in Timers \ l.live : l.next[p] = NULL
  BY DEF Sound, Shape, Linked, TimerLists
<1>2. PopHead(l) = l2
  BY DEF PopHead
<1> HIDE DEF t, second
<1>3. /\ m \in TimerLists /\ m.head = second /\ m.tail = l.tail /\ m.live = l.live
      /\ m.next = l.next /\ m.expire = l.expire
      /\ \A p \in Timers : m.prev[p] = IF p = second THEN NULL ELSE l.prev[p]
  BY <1>1 DEF TimerLists
<1> HIDE DEF m
<1>4. /\ l2 \in TimerLists /\ l2.head = m.head /\ l2.tail = m.tail
      /\ \A p \in Timers : /\ l2.next[p] = IF p = t THEN NULL ELSE m.next[p]
                           /\ p # t => l2.prev[p] = m.prev[p]
                           /\ p # t => l2.expire[p] = m.expire[p]
      /\ l2.live = m.live \ {t} /\ l2.expire = [m.expire EXCEPT ![t] = 0]
  BY <1>1, <1>3, FreedIs
<1> HIDE DEF l2
<1>5. Shape(l2, l.live \ {t})
  <2>1. \A p \in Timers : l2.next[p] = IF p = t THEN NULL ELSE l.next[p]
    BY <1>3, <1>4
  <2>2. \A p \in l.live \ {t} : /\ l2.prev[p] = IF p = second THEN NULL ELSE l.prev[p]
                                /\ l2.expire[p] = l.expire[p]
    BY <1>1, <1>3, <1>4
  <2>3. l2.head = second /\ l2.tail = l.tail /\ l2 \in TimerLists
    BY <1>3, <1>4
  <2> QED
    BY <1>1, <2>1, <2>2, <2>3, HeadUnlinked DEF t, second
<1>6. \A p \in Timers \ (l.live \ {t}) : l2.next[p] = NULL
  BY <1>1, <1>3, <1>4
<1> QED
  BY <1>1, <1>2, <1>3, <1>4, <1>5, <1>6 DEF Sound, t

LEMMA DelKeeps ==
  ASSUME NEW l, Sound(l), NEW t \in l.live
  PROVE  LET l2 == DelTimer(l, t)
         IN  /\ Sound(l2) /\ l2.live = l.live \ {t} /\ l2.expire = [l.expire EXCEPT ![t] = 0]
             /\ t # l.head => l2.head = l.head
<1> DEFINE M == l.live
           before == l.prev[t]
           after == l.next[t]
           l2 == DelTimer(l, t)
<1>1. /\ l \in TimerLists /\ M \subseteq Timers /\ NULL \notin Timers /\ t \in Timers
      /\ l.head \in M /\ l.prev[l.head] = NULL /\ l.tail \in M /\ l.next[l.tail] = NULL
      /\ \A p \in M : /\ p # l.tail => l.next[p] \in M /\ l.prev[l.next[p]] = p
                      /\ p # l.head => l.prev[p] \in M /\ l.next[l.prev[p]] = p
      /\ Shape(l, M) /\ \A p \in Timers \ M : l.next[p] = NULL
  BY DEF Sound, Shape, Linked
<1>2. SUFFICES /\ Shape(l2, M \ {t}) /\ l2.live = M \ {t} /\ l2.expire = [l.expire EXCEPT ![t] = 0]
               /\ t # l.head => l2.head = l.head
               /\ \A p \in Timers \ (M \ {t}) : l2.next[p] = NULL
  BY DEF Sound
<1>3. CASE t = l.head
  <2> DEFINE m == IF t = l.tail THEN [l EXCEPT !.head = NULL, !.tail = NULL]
                  ELSE [l EXCEPT !.head = after, !.prev[after] = NULL]
  <2>1. l2 = Freed(m, t)
    BY <1>3 DEF DelTimer
  <2>2. (t = l.tail => after = NULL) /\ (t # l.tail => after \in M) /\ after \in Timers \cup {NULL}
    BY <1>1
  <2> HIDE DEF l2, after, M
  <2>3. /\ m \in TimerLists /\ m.head = after /\ (after # NULL => m.tail = l.tail) /\ m.live = l.live
        /\ m.next = l.next /\ m.expire = l.expire
        /\ \A p \in Timers : p # NULL => m.prev[p] = IF p = after THEN NULL ELSE l.prev[p]
    BY <1>1, <2>2 DEF TimerLists
  <2> HIDE DEF m
  <2>4. /\ l2 \in TimerLists /\ l2.head = m.head /\ l2.tail = m.tail
        /\ \A p \in Timers : /\ l2.next[p] = IF p = t THEN NULL ELSE m.next[p]
                             /\ p # t => l2.prev[p] = m.prev[p]
                             /\ p # t => l2.expire[p] = m.expire[p]
        /\ l2.live = m.live \ {t} /\ l2.expire = [m.expire EXCEPT ![t] = 0]
    BY <1>1, <2>1, <2>3, FreedIs
  <2>5. Shape(l2, M \ {t})
    <3>1. \A p \in Timers : l2.next[p] = IF p = l.head THEN NULL ELSE l.next[p]
      BY <1>3, <2>3, <2>4
    <3>2. \A p \in M \ {l.head} : /\ l2.prev[p] = IF p = l.next[l.head] THEN NULL ELSE l.prev[p]
                                  /\ l2.expire[p] = l.expire[p]
      BY <1>1, <1>3, <2>3, <2>4 DEF after
    <3>3. /\ l2.head = l.next[l.head] /\ (l.next[l.head] # NULL => l2.tail = l.tail)
          /\ l2 \in TimerLists /\ l.head # NULL
      BY <1>1, <1>3, <2>3, <2>4 DEF after
    <3> QED
      BY <1>1, <1>3, <3>1, <3>2, <3>3, HeadUnlinked
  <2>6. \A p \in Timers \ (M \ {t}) : l2.next[p] = NULL
    BY <1>1, <2>3, <2>4
  <2> QED
    BY <1>1, <1>3, <2>3, <2>4, <2>5, <2>6 DEF M
<1>4. CASE t # l.head
  <2> DEFINE m == IF t = l.tail THEN [l EXCEPT !.tail = before, !.next[before] = NULL]
                  ELSE [l EXCEPT !.next[before] = after, !.prev[after] = before]
  <2>1. l2 = Freed(m, t)
    BY <1>4 DEF DelTimer
  <2>2. /\ (t = l.tail => after = NULL) /\ (t # l.tail => after \in M) /\ after \in Timers \cup {NULL}
        /\ before \in M /\ l.next[before] = t /\ before \in Timers
    BY <1>1, <1>4
  <2> HIDE DEF l2, after, before, M
  <2>3. /\ m \in TimerLists /\ m.head = l.head /\ m.tail = (IF after = NULL THEN before ELSE l.tail)
        /\ m.live = l.live /\ m.expire = l.expire
        /\ \A p \in Timers : /\ m.next[p] = IF p = before THEN after ELSE l.next[p]
                             /\ m.prev[p] = IF p = after THEN before ELSE l.prev[p]
    <3>1. CASE t = l.tail
      <4>1. /\ m \in TimerLists /\ m.head = l.head /\ m.tail = before /\ m.live = l.live
            /\ m.expire = l.expire /\ m.prev = l.prev /\ m.next = [l.next EXCEPT ![before] = NULL]
        BY <1>1, <2>2, <3>1 DEF TimerLists
      <4> HIDE DEF m
      <4> QED
        BY <1>1, <2>2, <3>1, <4>1 DEF TimerLists
    <3>2. CASE t # l.tail
      <4>0. after \in Timers
        BY <1>1, <2>2, <3>2
      <4>1. /\ m \in TimerLists /\ m.head = l.head /\ m.tail = l.tail /\ m.live = l.live
            /\ m.expire = l.expire /\ m.prev = [l.prev EXCEPT ![after] = before]
            /\ m.next = [l.next EXCEPT ![before] = after]
        BY <1>1, <2>2, <3>2, <4>0 DEF TimerLists
      <4> HIDE DEF m
      <4> QED
        BY <1>1, <2>2, <3>2, <4>0, <4>1 DEF TimerLists
    <3> QED
      BY <3>1, <3>2
  <2> HIDE DEF m
  <2>4. /\ l2 \in TimerLists /\ l2.head = m.head /\ l2.tail = m.tail
        /\ \A p \in Timers : /\ l2.next[p] = IF p = t THEN NULL ELSE m.next[p]
                             /\ p # t => l2.prev[p] = m.prev[p]
                             /\ p # t => l2.expire[p] = m.expire[p]
        /\ l2.live = m.live \ {t} /\ l2.expire = [m.expire EXCEPT ![t] = 0]
    <3>1. m \in TimerLists /\ t \in Timers /\ NULL \notin Timers
      BY <1>1, <2>3
    <3> QED
      BY <2>1, <3>1, FreedIs
  <2>5. Shape(l2, M \ {t})
    <3>1. /\ l2.next[t] = NULL
          /\ \A p \in Timers \ {t} : l2.next[p] = IF p = l.prev[t] THEN l.next[t] ELSE l.next[p]
      BY <1>1, <2>3, <2>4 DEF before, after
    <3>2. \A p \in M \ {t} : /\ l2.prev[p] = IF p = l.next[t] THEN l.prev[t] ELSE l.prev[p]
                             /\ l2.expire[p] = l.expire[p]
      BY <1>1, <2>3, <2>4 DEF before, after
    <3>3. /\ l2.head = l.head /\ l2.tail = (IF l.next[t] = NULL THEN l.prev[t] ELSE l.tail)
          /\ l2 \in TimerLists
      BY <2>3, <2>4 DEF before, after
    <3>4. t \in M
      BY DEF M
    <3> QED
      BY <1>1, <1>4, <3>1, <3>2, <3>3, <3>4, OtherUnlinked
  <2>6. \A p \in Timers \ (M \ {t}) : l2.next[p] = NULL
    BY <1>1, <2>2, <2>3, <2>4
  <2> QED
    BY <1>1, <1>4, <2>3, <2>4, <2>5, <2>6 DEF M
<1> QED
  BY <1>3, <1>4

(* adjust_timer of a timer whose expire was put off to e.                  *)
LEMMA AdjustKeeps ==
  ASSUME NEW l, Sound(l), NEW t \in l.live, NEW e \in Nat, l.expire[t] <= e
  PROVE  LET l2 == AdjustTimer([l EXCEPT !.expire[t] = e], t)
         IN  /\ Sound(l2) /\ l2.live = l.live /\ l2.expire = [l.expire EXCEPT ![t] = e]
             /\ t # l.head => l2.head = l.head
<1> DEFINE M == l.live
           n == [l EXCEPT !.expire[t] = e]
           tmp == l.next[t]
           l2 == AdjustTimer(n, t)
<1>1. /\ l \in TimerLists /\ M \subseteq Timers /\ NULL \notin Timers /\ t \in Timers
      /\ l.head \in M /\ l.prev[l.head] = NULL /\ l.tail \in M /\ l.next[l.tail] = NULL
      /\ \A p \in M : /\ p # l.tail => l.next[p] \in M /\ l.prev[l.next[p]] = p
                      /\ p # l.head => l.prev[p] \in M /\ l.next[l.prev[p]] = p
      /\ Shape(l, M) /\ \A p \in Timers \ M : l.next[p] = NULL
      /\ InOrder(l, M) /\ Ranked(l) /\ Linked(l, M)
  BY DEF Sound, Shape, Linked
<1>2. /\ n \in TimerLists /\ n.head = l.head /\ n.tail = l.tail /\ n.next = l.next /\ n.prev = l.prev
      /\ n.live = l.live /\ n.expire = [l.expire EXCEPT ![t] = e]
  BY <1>1 DEF TimerLists
<1>3. /\ tmp # NULL => tmp \in M /\ tmp \in Timers /\ l.prev[tmp] = t
      /\ \A p \in Timers : n.expire[p] = IF p = t THEN e ELSE l.expire[p]
      /\ \A p \in Timers : l.expire[p] \in Nat
  BY <1>1, <1>2 DEF TimerLists
<1>4. t # tmp
  <2>1. PICK b \in Nat : \E r \in [Timers -> 0 .. b] : Descends(l, r)
    BY <1>1 DEF Ranked
  <2>2. PICK r \in [Timers -> 0 .. b] : Descends(l, r)
    BY <2>1
  <2> QED
    BY <1>1, <1>3, <2>2 DEF Descends
<1> HIDE DEF M, n
<1>5. CASE tmp = NULL \/ e < l.expire[tmp]
  <2>1. l2 = n
    BY <1>1, <1>2, <1>3, <1>4, <1>5 DEF AdjustTimer
  <2>2. Linked(n, M)
    BY <1>1, <1>2 DEF Linked
  <2>3. InOrder(n, M)
    <3> SUFFICES ASSUME NEW p \in M, n.next[p] # NULL PROVE n.expire[p] <= n.expire[n.next[p]]
      BY DEF InOrder
    <3>1. /\ l.expire[p] <= l.expire[l.next[p]] /\ n.next[p] = l.next[p]
          /\ p \in Timers /\ l.next[p] \in Timers
      BY <1>1, <1>2 DEF InOrder
    <3>2. CASE p = t
      BY <1>3, <1>4, <1>5, <3>1, <3>2
    <3>3. CASE p # t
      BY <1>3, <3>1, <3>3
    <3> QED
      BY <3>2, <3>3
  <2>4. Ranked(n)
    BY <1>1, <1>2 DEF Ranked, Descends
  <2>5. Sound(n)
    BY <1>1, <1>2, <2>2, <2>3, <2>4 DEF Sound, Shape, M
  <2> QED
    BY <1>2, <2>1, <2>5 DEF n
<1>6. CASE tmp # NULL /\ ~(e < l.expire[tmp])
  <2> DEFINE before == l.prev[t]
             m == IF t = l.head THEN [n EXCEPT !.head = tmp, !.prev[tmp] = NULL, !.next[t] = NULL]
                  ELSE [n EXCEPT !.next[before] = tmp, !.prev[tmp] = before]
  <2>1. l2 = AddAfter(m, t, tmp)
    <3>1. n.next[t] = tmp /\ n.prev[t] = before /\ n.head = l.head /\ ~(n.expire[t] < n.expire[tmp])
      BY <1>1, <1>2, <1>3, <1>4, <1>6
    <3>2. CASE t = l.head
      BY <1>6, <3>1, <3>2 DEF AdjustTimer
    <3>3. CASE t # l.head
      BY <1>6, <3>1, <3>3 DEF AdjustTimer
    <3> QED
      BY <3>2, <3>3
  <2>2. t # l.head => before \in M /\ before \in Timers
    BY <1>1 DEF M
  <2> HIDE DEF before, tmp, l2
  <2>3. /\ m \in TimerLists /\ m.tail = l.tail /\ m.live = l.live /\ m.expire = n.expire
        /\ m.head = IF t = l.head THEN tmp ELSE l.head
        /\ \A p \in Timers :
             /\ m.next[p] = IF t = l.head THEN IF p = t THEN NULL ELSE l.next[p]
                            ELSE IF p = before THEN tmp ELSE l.next[p]
             /\ m.prev[p] = IF p = tmp THEN IF t = l.head THEN NULL ELSE before
                            ELSE l.prev[p]
    <3>1. CASE t = l.head
      <4>1. /\ m \in TimerLists /\ m.tail = n.tail /\ m.live = n.live /\ m.expire = n.expire
            /\ m.head = tmp /\ m.prev = [n.prev EXCEPT ![tmp] = NULL]
            /\ m.next = [n.next EXCEPT ![t] = NULL]
        <5>1. tmp \in Timers
          BY <1>3, <1>6
        <5> QED
          BY <1>1, <1>2, <3>1, <5>1 DEF TimerLists
      <4> HIDE DEF m
      <4> QED
        BY <1>1, <1>2, <3>1, <4>1 DEF TimerLists
    <3>2. CASE t # l.head
      <4>1. /\ m \in TimerLists /\ m.tail = n.tail /\ m.live = n.live /\ m.expire = n.expire
            /\ m.head = n.head /\ m.prev = [n.prev EXCEPT ![tmp] = before]
            /\ m.next = [n.next EXCEPT ![before] = tmp]
        <5>1. tmp \in Timers /\ before \in Timers
          BY <1>3, <1>6, <2>2, <3>2
        <5> QED
          BY <1>1, <1>2, <3>2, <5>1 DEF TimerLists
      <4> HIDE DEF m
      <4> QED
        BY <1>1, <1>2, <3>2, <4>1 DEF TimerLists
    <3> QED
      BY <3>1, <3>2
  <2> HIDE DEF m
  <2>4. \A p \in M \ {t} : m.expire[p] = l.expire[p] /\ p \in Timers
    BY <1>1, <1>3, <2>3
  <2>5. Shape(m, M \ {t})
    <3>1. CASE t = l.head
      <4>1. \A p \in Timers : m.next[p] = IF p = l.head THEN NULL ELSE l.next[p]
        BY <2>3, <3>1
      <4>2. \A p \in M \ {l.head} : /\ m.prev[p] = IF p = l.next[l.head] THEN NULL ELSE l.prev[p]
                                    /\ m.expire[p] = l.expire[p]
        BY <2>3, <2>4, <3>1 DEF tmp
      <4>3. m.head = l.next[l.head] /\ m.tail = l.tail /\ l.head # NULL
        BY <1>1, <2>3, <3>1 DEF tmp
      <4> QED
        BY <1>1, <2>3, <3>1, <4>1, <4>2, <4>3, HeadUnlinked
    <3>2. CASE t # l.head
      <4>1. /\ \A p \in Timers \ {t} : m.next[p] = IF p = l.prev[t] THEN l.next[t] ELSE l.next[p]
            /\ m.next[t] \in {NULL, l.next[t]}
        BY <1>1, <2>3, <3>2 DEF before, tmp
      <4>2. \A p \in M \ {t} : /\ m.prev[p] = IF p = l.next[t] THEN l.prev[t] ELSE l.prev[p]
                               /\ m.expire[p] = l.expire[p]
        BY <2>3, <2>4, <3>2 DEF before, tmp
      <4>3. m.head = l.head /\ m.tail = (IF l.next[t] = NULL THEN l.prev[t] ELSE l.tail) /\ t \in M
        BY <1>6, <2>3, <3>2 DEF tmp, M
      <4>4. Shape(l, M) /\ m \in TimerLists
        BY <1>1, <2>3
      <4> QED
        BY <3>2, <4>1, <4>2, <4>3, <4>4, OtherUnlinked
    <3> QED
      BY <3>1, <3>2
  <2>6. \A p \in Timers \ ((M \ {t}) \cup {t}) : m.next[p] = NULL
    BY <1>1, <2>2, <2>3 DEF M
  <2>7. tmp \in M \ {t} /\ m.expire[tmp] <= m.expire[t]
    <3>1. tmp \in M \ {t} /\ tmp \in Timers
      BY <1>3, <1>4, <1>6
    <3>2. m.expire[t] = e /\ m.expire[tmp] = l.expire[tmp] /\ l.expire[tmp] \in Nat
      BY <1>1, <1>3, <2>3, <2>4, <3>1
    <3> QED
      BY <1>6, <3>1, <3>2
  <2> DEFINE a == AddAfter(m, t, tmp)
             M2 == M \ {t}
  <2>8. t \in Timers \ M2
    BY <1>1
  <2> HIDE DEF M2
  <2>9. /\ Shape(a, M2 \cup {t}) /\ a.live = m.live /\ a.expire = m.expire /\ a.head = m.head
        /\ \A p \in Timers \ (M2 \cup {t}) : a.next[p] = NULL
    BY <2>5, <2>6, <2>7, <2>8, AddAfterKeeps DEF M2
  <2>10. M2 \cup {t} = l.live
    BY DEF M2, M
  <2>11. l2 = a
    BY <2>1
  <2> HIDE DEF a
  <2>12. Sound(l2) /\ l2.live = l.live /\ l2.expire = n.expire /\ l2.head = m.head
    BY <2>3, <2>9, <2>10, <2>11 DEF Sound
  <2> QED
    BY <1>2, <2>3, <2>12 DEF l2, n
<1> QED
  BY <1>5, <1>6

(* Time passes for all timers alike.                                       *)
LEMMA ExpireKeeps ==
  ASSUME NEW l, Sound(l), NEW e \in [Timers -> Nat],
         \A p, q \in Timers : l.expire[p] <= l.expire[q] => e[p] <= e[q]
  PROVE  Sound([l EXCEPT !.expire = e])
<1> DEFINE l2 == [l EXCEPT !.expire = e]
<1>1. /\ l \in TimerLists /\ Linked(l, l.live) /\ InOrder(l, l.live) /\ Ranked(l)
      /\ l.live \subseteq Timers /\ NULL \notin Timers
      /\ \A p \in Timers \ l.live : l.next[p] = NULL
  BY DEF Sound, Shape
<1>2. /\ l2 \in TimerLists /\ l2.head = l.head /\ l2.tail = l.tail /\ l2.next = l.next
      /\ l2.prev = l.prev /\ l2.live = l.live /\ l2.expire = e
  BY <1>1 DEF TimerLists
<1> HIDE DEF l2
<1>3. Linked(l2, l.live)
  BY <1>1, <1>2 DEF Linked
<1>4. InOrder(l2, l.live)
  <2>1. \A p \in l.live : l.next[p] # NULL => l.next[p] \in l.live
    BY <1>1 DEF Linked
  <2> QED
    BY <1>1, <1>2, <2>1 DEF InOrder
<1>5. Ranked(l2)
  BY <1>1, <1>2 DEF Ranked, Descends
<1> QED
  BY <1>1, <1>2, <1>3, <1>4, <1>5 DEF Sound, Shape, l2

LEMMA EmptyIsSound == ASSUME NULL \notin Timers PROVE Sound(EmptyList)
<1>1. /\ EmptyList \in TimerLists /\ EmptyList.live = {} /\ EmptyList.head = NULL
      /\ \A p \in Timers : EmptyList.next[p] = NULL
  BY DEF EmptyList, TimerLists
<1>2. Linked(EmptyList, {}) /\ InOrder(EmptyList, {})
  BY <1>1 DEF Linked, InOrder
<1>3. Ranked(EmptyList)
  <2>1. [p \in Timers |-> 0] \in [Timers -> 0 .. 0]
    OBVIOUS
  <2> QED
    BY <1>1, <2>1 DEF Ranked, Descends
<1> QED
  BY <1>1, <1>2, <1>3 DEF Sound, Shape

-------------------------------------------------------------------------------
(* The server: its invariant says who has which timer in both directions,  *)
(* and that what epoll has reported is still there.                        *)
Paired ==
  /\ \A fd \in open : timerOf[fd] \in list.live /\ user[timerOf[fd]] = fd
  /\ \A t \in list.live : user[t] \in open /\ timerOf[user[t]] = t

Due == \A fd \in open : list.expire[timerOf[fd]] = Lifetime - idle[fd]

TimersMatch == Sound(list) /\ Paired /\ Due

Reported ==
  /\ edges \cap Fds \subseteq open /\ batch \cap Fds \subseteq open
  /\ pc # "batch" => batch = {}
  /\ (IF "listen" \in edges THEN 1 ELSE 0) + (IF "listen" \in batch THEN 1 ELSE 0) <= backlog

InactiveInv == TypeOK /\ TimersMatch /\ Reported

LEMMA Slots ==
  /\ Lifetime \in Nat \ {0} /\ TIMESLOT \in Nat /\ NULL \notin Timers
  /\ "listen" \notin Fds /\ "pipe" \notin Fds
  /\ IsFiniteSet(Fds) /\ Cardinality(Fds) \in Nat
  BY InactiveServerAssumption, FS_CardinalityType DEF Lifetime

LEMMA Lists ==
  ASSUME Sound(list)
  PROVE  /\ list \in TimerLists /\ list.live \subseteq Timers /\ list.expire \in [Timers -> Nat]
         /\ list.head # NULL => list.head \in list.live
  BY DEF Sound, Shape, TimerLists, Linked

(* A connection is closed and its timer deleted.                           *)
LEMMA CloseKeeps ==
  ASSUME InactiveInv, NEW fd \in open, NEW t, t = timerOf[fd], Close(fd, t), UNCHANGED timerOf,
         Sound(list'), list'.live = list.live \ {t}, list'.expire = [list.expire EXCEPT ![t] = 0]
  PROVE  TimersMatch'
<1>1. /\ open' = open \ {fd} /\ user' = [user EXCEPT ![t] = NULL] /\ idle' = [idle EXCEPT ![fd] = 0]
      /\ timerOf' = timerOf
  BY DEF Close
<1>2. /\ Paired /\ Due /\ open \subseteq Fds /\ list.live \subseteq Timers /\ list.expire \in [Timers -> Nat]
      /\ user \in [Timers -> Fds \cup {NULL}] /\ idle \in [Fds -> 0 .. Lifetime] /\ t \in list.live
  BY Lists DEF InactiveInv, TimersMatch, TypeOK, Paired
<1>3. Paired'
  BY <1>1, <1>2 DEF Paired
<1>4. Due'
  <2> SUFFICES ASSUME NEW g \in open' PROVE list'.expire[timerOf'[g]] = Lifetime - idle'[g]
    BY DEF Due, Lifetime
  <2>1. g \in open /\ g # fd /\ timerOf[g] # t /\ timerOf[g] \in Timers
    BY <1>1, <1>2 DEF Paired
  <2> QED
    BY <1>1, <1>2, <2>1 DEF Due
<1> QED
  BY <1>3, <1>4 DEF TimersMatch

LEMMA AcceptKeeps == InactiveInv /\ Accept => InactiveInv'
<1> SUFFICES ASSUME InactiveInv, Accept PROVE InactiveInv'
  OBVIOUS
<1> USE Slots
<1>1. PICK fd \in Fds \ open, t \in Timers \ list.live :
        /\ open' = open \cup {fd}
        /\ user' = [user EXCEPT ![t] = fd]
        /\ timerOf' = [timerOf EXCEPT ![fd] = t]
        /\ list' = AddTimer(NewTimer(list, t, Lifetime), t)
        /\ idle' = [idle EXCEPT ![fd] = 0]
  BY DEF Accept
<1>2. /\ "listen" \in batch /\ batch' = batch \ {"listen"} /\ backlog' = backlog - 1
      /\ UNCHANGED <<unread, peer, edges, pc, timeout, stop_server, alarm, pipe>>
  BY DEF Accept, Handling
<1>3. TypeOK /\ Reported /\ Sound(list) /\ Paired /\ Due
  BY DEF InactiveInv, TimersMatch
<1>4. Sound(list') /\ list'.live = list.live \cup {t} /\ list'.expire = [list.expire EXCEPT ![t] = Lifetime]
  BY <1>1, <1>3, AddKeeps
<1>5. TypeOK'
  <2>1. backlog' \in 0 .. Cardinality(Fds)
    BY <1>2, <1>3 DEF TypeOK, Reported
  <2>2. list'.live \subseteq Timers /\ list'.expire \in [Timers -> 0 .. Lifetime]
    BY <1>1, <1>3, <1>4 DEF TypeOK
  <2>3. idle' \in [Fds -> 0 .. Lifetime]
    BY <1>1, <1>3 DEF TypeOK
  <2> QED
    BY <1>1, <1>2, <1>3, <2>1, <2>2, <2>3 DEF TypeOK, Events
<1>6. Paired'
  BY <1>1, <1>3, <1>4 DEF Paired, TypeOK
<1>7. Due'
  <2> SUFFICES ASSUME NEW g \in open' PROVE list'.expire[timerOf'[g]] = Lifetime - idle'[g]
    BY DEF Due, Lifetime
  <2>1. CASE g = fd
    BY <1>1, <1>3, <1>4, <2>1 DEF TypeOK
  <2>2. CASE g # fd
    <3>1. g \in open /\ timerOf[g] \in list.live /\ timerOf[g] # t /\ timerOf[g] \in Timers
      BY <1>1, <1>3, <2>2 DEF Paired, TypeOK
    <3> QED
      BY <1>1, <1>3, <1>4, <2>2, <3>1 DEF Due, TypeOK
  <2> QED
    BY <2>1, <2>2
<1>8. Reported'
  BY <1>1, <1>2, <1>3 DEF Reported, TypeOK
<1> QED
  BY <1>4, <1>5, <1>6, <1>7, <1>8 DEF InactiveInv, TimersMatch

LEMMA HandleInKeeps == InactiveInv /\ (\E fd \in Fds : HandleIn(fd)) => InactiveInv'
<1> SUFFICES ASSUME InactiveInv, NEW fd \in Fds, HandleIn(fd) PROVE InactiveInv'
  OBVIOUS
<1> USE Slots
<1> DEFINE t == timerOf[fd]
<1>1. TypeOK /\ Reported /\ Sound(list) /\ Paired /\ Due
  BY DEF InactiveInv, TimersMatch
<1>2. /\ fd \in batch /\ batch' = batch \ {fd} /\ unread' \subseteq unread
      /\ list' = AdjustTimer([list EXCEPT !.expire[t] = Lifetime], t)
      /\ idle' = [idle EXCEPT ![fd] = 0]
      /\ UNCHANGED <<user, timerOf, open, backlog, peer, edges, pc, timeout, stop_server, alarm, pipe>>
  BY DEF HandleIn, Handling, PutOff
<1>3. fd \in open /\ t \in list.live /\ user[t] = fd /\ t \in Timers
  BY <1>1, <1>2 DEF Reported, Paired, TypeOK
<1>4. list.expire[t] <= Lifetime
  BY <1>1, <1>3 DEF TypeOK
<1> HIDE DEF t
<1>5. Sound(list') /\ list'.live = list.live /\ list'.expire = [list.expire EXCEPT ![t] = Lifetime]
  BY <1>1, <1>2, <1>3, <1>4, AdjustKeeps
<1>6. TypeOK'
  <2>1. list'.live \subseteq Timers /\ list'.expire \in [Timers -> 0 .. Lifetime]
    <3>1. list.expire \in [Timers -> 0 .. Lifetime] /\ list.live \subseteq Timers /\ Lifetime \in 0 .. Lifetime
      BY <1>1 DEF TypeOK
    <3> QED
      BY <1>3, <1>5, <3>1
  <2>2. idle' \in [Fds -> 0 .. Lifetime]
    BY <1>1, <1>2 DEF TypeOK
  <2> QED
    BY <1>1, <1>2, <2>1, <2>2 DEF TypeOK, Events
<1>7. Paired'
  BY <1>1, <1>2, <1>5 DEF Paired
<1>8. Due'
  <2> SUFFICES ASSUME NEW g \in open' PROVE list'.expire[timerOf'[g]] = Lifetime - idle'[g]
    BY DEF Due, Lifetime
  <2>1. CASE g = fd
    BY <1>1, <1>2, <1>3, <1>5, <2>1 DEF TypeOK, t
  <2>2. CASE g # fd
    <3>1. g \in open /\ timerOf[g] # t /\ timerOf[g] \in Timers
      BY <1>1, <1>2, <1>3, <2>2 DEF Paired, TypeOK
    <3> QED
      BY <1>1, <1>2, <1>5, <2>2, <3>1 DEF Due, TypeOK
  <2> QED
    BY <2>1, <2>2
<1>9. Reported'
  BY <1>1, <1>2 DEF Reported
<1> QED
  BY <1>5, <1>6, <1>7, <1>8, <1>9 DEF InactiveInv, TimersMatch

(* What both ways to close a connection have in common.                    *)
LEMMA ClosedIsTyped ==
  ASSUME InactiveInv, NEW fd \in open, NEW t, t = timerOf[fd], Close(fd, t), TimersMatch',
         UNCHANGED <<timerOf, backlog, pc, timeout, stop_server, alarm, pipe>>,
         batch' = batch \ {fd},
         list'.live = list.live \ {t}, list'.expire = [list.expire EXCEPT ![t] = 0]
  PROVE  InactiveInv'
<1> USE Slots
<1>1. TypeOK /\ Reported
  BY DEF InactiveInv
<1>2. /\ open' = open \ {fd} /\ edges' = edges \ {fd} /\ unread' = unread \ {fd}
      /\ peer' = [peer EXCEPT ![fd] = "there"] /\ idle' = [idle EXCEPT ![fd] = 0]
      /\ user' = [user EXCEPT ![t] = NULL]
  BY DEF Close
<1>3. TypeOK'
  <2>1. list'.live \subseteq Timers
    BY <1>1 DEF TypeOK
  <2>2. list'.expire \in [Timers -> 0 .. Lifetime]
    <3>1. list.expire \in [Timers -> 0 .. Lifetime] /\ 0 \in 0 .. Lifetime
      BY <1>1 DEF TypeOK
    <3>2. \A p \in Timers : [list.expire EXCEPT ![t] = 0][p] \in 0 .. Lifetime
      BY <3>1
    <3>3. list'.expire = [p \in Timers |-> list'.expire[p]]
      BY <3>1
    <3> QED
      BY <3>2, <3>3
  <2>3. idle' \in [Fds -> 0 .. Lifetime]
    BY <1>1, <1>2 DEF TypeOK
  <2> QED
    BY <1>1, <1>2, <2>1, <2>2, <2>3 DEF TypeOK, Events
<1>4. fd \in Fds /\ "listen" \notin {fd}
  BY <1>1 DEF TypeOK
<1>5. Reported'
  BY <1>1, <1>2, <1>4 DEF Reported
<1> QED
  BY <1>3, <1>5 DEF InactiveInv

LEMMA HandleInClosesKeeps == InactiveInv /\ (\E fd \in Fds : HandleInCloses(fd)) => InactiveInv'
<1> SUFFICES ASSUME InactiveInv, NEW fd \in Fds, HandleInCloses(fd) PROVE InactiveInv'
  OBVIOUS
<1> DEFINE t == timerOf[fd]
<1>1. TypeOK /\ Reported /\ Sound(list) /\ Paired
  BY DEF InactiveInv, TimersMatch
<1>2. /\ fd \in batch /\ batch' = batch \ {fd} /\ Close(fd, t) /\ list' = DelTimer(list, t)
      /\ UNCHANGED <<timerOf, backlog, pc, timeout, stop_server, alarm, pipe>>
  BY DEF HandleInCloses, Handling
<1>3. fd \in open /\ t \in list.live
  BY <1>1, <1>2 DEF Reported, Paired
<1> HIDE DEF t
<1>4. Sound(list') /\ list'.live = list.live \ {t} /\ list'.expire = [list.expire EXCEPT ![t] = 0]
  BY <1>1, <1>2, <1>3, DelKeeps
<1>5. t = timerOf[fd]
  BY DEF t
<1>6. TimersMatch'
  BY <1>2, <1>3, <1>4, <1>5, CloseKeeps
<1> QED
  BY <1>2, <1>3, <1>4, <1>5, <1>6, ClosedIsTyped

LEMMA FireKeeps == InactiveInv /\ Fire => InactiveInv'
<1> SUFFICES ASSUME InactiveInv, Fire PROVE InactiveInv'
  OBVIOUS
<1> DEFINE t == list.head
           fd == user[t]
<1>1. TypeOK /\ Reported /\ Sound(list) /\ Paired
  BY DEF InactiveInv, TimersMatch
<1>2. /\ pc = "tick" /\ list.head # NULL /\ Close(fd, t) /\ list' = PopHead(list)
      /\ UNCHANGED <<timerOf, backlog, batch, pc, timeout, stop_server, alarm, pipe>>
  BY DEF Fire, HeadExpired, loopVars
<1>3. /\ t \in list.live /\ Sound(list') /\ list'.live = list.live \ {t}
      /\ list'.expire = [list.expire EXCEPT ![t] = 0]
  BY <1>1, <1>2, PopKeeps
<1>4. fd \in open /\ t = timerOf[fd]
  BY <1>1, <1>3 DEF Paired
<1>5. batch' = batch \ {fd}
  BY <1>1, <1>2 DEF Reported
<1> HIDE DEF t, fd
<1>6. TimersMatch'
  BY <1>2, <1>3, <1>4, CloseKeeps
<1> QED
  BY <1>2, <1>3, <1>4, <1>5, <1>6, ClosedIsTyped

LEMMA TimePassesKeeps == InactiveInv /\ TimePasses => InactiveInv'
<1> SUFFICES ASSUME InactiveInv, TimePasses PROVE InactiveInv'
  OBVIOUS
<1> USE Slots
<1> DEFINE e == [t \in Timers |-> IF list.expire[t] > 0 THEN list.expire[t] - 1 ELSE 0]
<1>1. TypeOK /\ Reported /\ Sound(list) /\ Paired /\ Due
  BY DEF InactiveInv, TimersMatch
<1>2. /\ list' = [list EXCEPT !.expire = e]
      /\ idle' = [fd \in Fds |-> IF fd \in open /\ idle[fd] < Lifetime THEN idle[fd] + 1 ELSE idle[fd]]
      /\ alarm' = IF alarm > 0 THEN alarm - 1 ELSE 0
      /\ pipe' = IF alarm = 1 THEN pipe \cup {"SIGALRM"} ELSE pipe
      /\ UNCHANGED <<user, timerOf, open, backlog, unread, peer, edges, batch, pc, timeout, stop_server>>
  BY DEF TimePasses, connVars, loopVars
<1>3. \A t \in Timers : list.expire[t] \in Nat /\ list.expire[t] <= Lifetime
  BY <1>1 DEF TypeOK
<1>4. /\ e \in [Timers -> Nat] /\ e \in [Timers -> 0 .. Lifetime]
      /\ \A p, q \in Timers : list.expire[p] <= list.expire[q] => e[p] <= e[q]
  BY <1>3
<1> HIDE DEF e
<1>5. Sound(list') /\ list'.live = list.live /\ list'.expire = e
  BY <1>1, <1>2, <1>4, ExpireKeeps, Lists DEF TimerLists
<1>6. \A fd \in Fds : idle[fd] \in 0 .. Lifetime
  BY <1>1 DEF TypeOK
<1>7. idle' \in [Fds -> 0 .. Lifetime]
  BY <1>2, <1>6
<1>8. TypeOK'
  BY <1>1, <1>2, <1>4, <1>5, <1>7 DEF TypeOK, Events
<1>9. Due'
  <2> SUFFICES ASSUME NEW fd \in open' PROVE list'.expire[timerOf'[fd]] = Lifetime - idle'[fd]
    BY DEF Due, Lifetime
  <2>1. fd \in open /\ fd \in Fds /\ timerOf[fd] \in Timers
    BY <1>1, <1>2 DEF TypeOK, Paired
  <2>2. list.expire[timerOf[fd]] = Lifetime - idle[fd] /\ idle[fd] \in 0 .. Lifetime
    BY <1>1, <1>6, <2>1 DEF Due
  <2>3. e[timerOf[fd]] = IF list.expire[timerOf[fd]] > 0 THEN list.expire[timerOf[fd]] - 1 ELSE 0
    BY <2>1 DEF e
  <2>4. idle'[fd] = IF idle[fd] < Lifetime THEN idle[fd] + 1 ELSE idle[fd]
    BY <1>2, <2>1
  <2> QED
    BY <1>2, <1>5, <2>2, <2>3, <2>4
<1>10. Paired' /\ Reported'
  BY <1>1, <1>2, <1>5 DEF Paired, Reported
<1> QED
  BY <1>5, <1>8, <1>9, <1>10 DEF InactiveInv, TimersMatch

(* Every step of the server, of its clients and of time keeps it.          *)
LEMMA InactiveStep == InactiveInv /\ [Next]_vars => InactiveInv'
<1> SUFFICES ASSUME InactiveInv, [Next]_vars PROVE InactiveInv'
  OBVIOUS
<1> USE Slots
<1>1. TypeOK /\ TimersMatch /\ Reported
  BY DEF InactiveInv
<1>2. ASSUME UNCHANGED <<list, user, timerOf, open, idle>> PROVE TimersMatch'
  BY <1>1, <1>2 DEF TimersMatch, Sound, Paired, Due, Lifetime
<1>3. CASE EpollWait
  <2>1. /\ UNCHANGED <<list, user, timerOf, open, backlog, unread, peer, timeout, stop_server, alarm, pipe, idle>>
        /\ batch' = edges \cup (IF pipe # {} THEN {"pipe"} ELSE {})
        /\ edges' = {} /\ pc' = "batch" /\ pc = "poll"
    BY <1>3 DEF EpollWait, timerVars, connVars
  <2>2. TypeOK' /\ TimersMatch'
    BY <1>1, <1>2, <2>1 DEF TypeOK, Events
  <2>3. Reported'
    BY <1>1, <2>1 DEF Reported
  <2> QED
    BY <2>2, <2>3 DEF InactiveInv
<1>4. CASE HandleSignals
  <2>1. /\ UNCHANGED <<list, user, timerOf, open, backlog, unread, peer, edges, pc, alarm, idle>>
        /\ batch' = batch \ {"pipe"} /\ pipe' = {} /\ timeout' \in BOOLEAN /\ stop_server' \in BOOLEAN
    BY <1>1, <1>4 DEF HandleSignals, Handling, timerVars, connVars, TypeOK
  <2>2. TypeOK' /\ TimersMatch'
    BY <1>1, <1>2, <2>1 DEF TypeOK, Events
  <2>3. Reported'
    BY <1>1, <2>1 DEF Reported
  <2> QED
    BY <2>2, <2>3 DEF InactiveInv
<1>5. CASE TimerHandler \/ TickEnds \/ NoTimerHandler
  <2>1. /\ UNCHANGED <<list, user, timerOf, open, backlog, unread, peer, edges, batch, stop_server, pipe, idle>>
        /\ batch = {} /\ pc' \in {"poll", "tick", "gone"} /\ alarm' \in 0 .. TIMESLOT /\ timeout' \in BOOLEAN
    <3>1. /\ alarm \in 0 .. TIMESLOT /\ TIMESLOT \in 0 .. TIMESLOT /\ timeout \in BOOLEAN
          /\ pc = "tick" => batch = {}
      BY <1>1 DEF TypeOK, Reported
    <3>2. CASE TimerHandler
      BY <3>1, <3>2 DEF TimerHandler, timerVars, connVars
    <3>3. CASE TickEnds
      BY <3>1, <3>3 DEF TickEnds, BackToLoop, SetAlarm, timerVars, connVars
    <3>4. CASE NoTimerHandler
      BY <3>1, <3>4 DEF NoTimerHandler, BackToLoop, timerVars, connVars
    <3> QED
      BY <1>5, <3>2, <3>3, <3>4
  <2>2. TypeOK' /\ TimersMatch'
    BY <1>1, <1>2, <2>1 DEF TypeOK, Events
  <2>3. Reported'
    BY <1>1, <2>1 DEF Reported
  <2> QED
    BY <2>2, <2>3 DEF InactiveInv
<1>6. CASE \E fd \in Fds : HandleInAgain(fd)
  <2>1. PICK fd \in Fds : HandleInAgain(fd)
    BY <1>6
  <2>2. /\ UNCHANGED <<list, user, timerOf, open, backlog, unread, peer, edges, pc, timeout, stop_server,
                       alarm, pipe, idle>>
        /\ batch' = batch \ {fd}
    BY <2>1 DEF HandleInAgain, Handling, timerVars, connVars
  <2>3. TypeOK' /\ TimersMatch'
    BY <1>1, <1>2, <2>2 DEF TypeOK, Events
  <2>4. Reported'
    BY <1>1, <2>2 DEF Reported
  <2> QED
    BY <2>3, <2>4 DEF InactiveInv
<1>7. CASE Connect
  <2>1. /\ UNCHANGED <<list, user, timerOf, open, unread, peer, batch, pc, timeout, stop_server, alarm, pipe, idle>>
        /\ backlog + Cardinality(open) < Cardinality(Fds)
        /\ backlog' = backlog + 1 /\ edges' = edges \cup {"listen"}
    BY <1>7 DEF Connect, timerVars, loopVars
  <2>2. Cardinality(open) \in Nat
    BY <1>1, FS_Subset, FS_CardinalityType DEF TypeOK
  <2>3. backlog' \in 0 .. Cardinality(Fds)
    BY <1>1, <2>1, <2>2 DEF TypeOK
  <2>4. TypeOK' /\ TimersMatch'
    BY <1>1, <1>2, <2>1, <2>3 DEF TypeOK, Events
  <2>5. Reported'
    <3>1. (IF "listen" \in batch THEN 1 ELSE 0) \in {0, 1} /\ backlog \in Nat
          /\ ("listen" \in batch => backlog >= 1)
      BY <1>1 DEF Reported, TypeOK
    <3>2. (IF "listen" \in edges' THEN 1 ELSE 0) + (IF "listen" \in batch' THEN 1 ELSE 0) <= backlog'
      BY <2>1, <3>1
    <3> QED
      BY <1>1, <2>1, <3>2 DEF Reported
  <2> QED
    BY <2>4, <2>5 DEF InactiveInv
<1>8. CASE Terminate
  <2>1. /\ UNCHANGED <<list, user, timerOf, open, backlog, unread, peer, edges, batch, pc, timeout, stop_server,
                       alarm, idle>>
        /\ pipe' = pipe \cup {"SIGTERM"}
    BY <1>8 DEF Terminate, timerVars, connVars, loopVars
  <2>2. TypeOK' /\ TimersMatch'
    BY <1>1, <1>2, <2>1 DEF TypeOK, Events
  <2>3. Reported'
    BY <1>1, <2>1 DEF Reported
  <2> QED
    BY <2>2, <2>3 DEF InactiveInv
<1>9. CASE \E fd \in Fds : Send(fd) \/ Leave(fd)
  <2>1. PICK fd \in Fds : Send(fd) \/ Leave(fd)
    BY <1>9
  <2>2. /\ UNCHANGED <<list, user, timerOf, open, backlog, batch, pc, timeout, stop_server, alarm, pipe, idle>>
        /\ fd \in open /\ edges' = edges \cup {fd}
        /\ unread' \subseteq unread \cup {fd}
        /\ peer' \in {peer, [peer EXCEPT ![fd] = "closed"], [peer EXCEPT ![fd] = "reset"]}
    BY <2>1 DEF Send, Leave, timerVars, loopVars
  <2>3. peer' \in [Fds -> {"there", "closed", "reset"}]
    BY <1>1, <2>2 DEF TypeOK
  <2>4. TypeOK' /\ TimersMatch'
    BY <1>1, <1>2, <2>2, <2>3 DEF TypeOK, Events
  <2>5. Reported'
    BY <1>1, <2>2 DEF Reported
  <2> QED
    BY <2>4, <2>5 DEF InactiveInv
<1>10. CASE UNCHANGED vars
  <2>1. UNCHANGED <<list, user, timerOf, open, backlog, unread, peer, edges, batch, pc, timeout, stop_server,
                    alarm, pipe, idle>>
    BY <1>10 DEF vars, timerVars, connVars, loopVars
  <2> QED
    BY <1>1, <1>2, <2>1 DEF InactiveInv, TypeOK, Reported, Events
<1> QED
  BY <1>3, <1>4, <1>5, <1>6, <1>7, <1>8, <1>9, <1>10, AcceptKeeps, HandleInKeeps, HandleInClosesKeeps,
     FireKeeps, TimePassesKeeps DEF Next, Server

(* Both are linked the same way, and there is one timer for each connection. *)
LEMMA InactiveInvIsSound == InactiveInv => TimersSound
<1> SUFFICES ASSUME InactiveInv PROVE TimersSound
  OBVIOUS
<1>1. TypeOK /\ Sound(list) /\ Paired /\ Due
  BY DEF InactiveInv, TimersMatch
<1>2. WellLinked(list) /\ Sorted(list)
  BY <1>1 DEF Sound, Shape, Linked, InOrder, WellLinked, Sorted
<1>3. Cardinality(list.live) = Cardinality(open)
  <2>1. IsFiniteSet(open)
    BY <1>1, Slots, FS_Subset DEF TypeOK
  <2> DEFINE f == [fd \in open |-> timerOf[fd]]
  <2>2. f \in Bijection(open, list.live)
    <3>1. f \in [open -> list.live]
      BY <1>1 DEF Paired
    <3>2. \A a, b \in open : f[a] = f[b] => a = b
      BY <1>1 DEF Paired
    <3>3. \A t \in list.live : \E fd \in open : f[fd] = t
      BY <1>1 DEF Paired
    <3> HIDE DEF f
    <3> QED
      BY <3>1, <3>2, <3>3 DEF Bijection, Injection, Surjection, IsInjective
  <2> QED
    BY <2>1, <2>2, FS_Bijection DEF ExistsBijection
<1> QED
  BY <1>1, <1>2, <1>3 DEF TimersSound, Paired, Due

(* close_inactive_connection: after any calls of accept, recv and tick()   *)
(* the list is whole and in order, holds one timer for each connection,    *)
(* and that timer is due 3 * TIMESLOT after the connection's last input.   *)
THEOREM InactiveTimersSound == Spec => []TimersSound
<1>1. Init => InactiveInv
  <2> SUFFICES ASSUME Init PROVE InactiveInv
    OBVIOUS
  <2>1. list = EmptyList /\ list.live = {} /\ open = {}
    BY DEF Init, EmptyList
  <2>2. TypeOK
    <3>1. list.expire = [t \in Timers |-> 0] /\ TIMESLOT \in 0 .. TIMESLOT /\ 0 \in 0 .. Lifetime
          /\ backlog = 0 /\ 0 \in 0 .. Cardinality(Fds)
      BY Slots DEF Init, EmptyList
    <3> QED
      BY <2>1, <3>1 DEF Init, TypeOK, Events
  <2>3. TimersMatch
    BY <2>1, Slots, EmptyIsSound DEF TimersMatch, Paired, Due
  <2>4. Reported
    BY DEF Init, Reported
  <2> QED
    BY <2>2, <2>3, <2>4 DEF InactiveInv
<1> QED
  BY <1>1, InactiveStep, InactiveInvIsSound, PTL DEF Spec

-------------------------------------------------------------------------------
(* A program on the list, whose callbacks use it too.  The timer whose     *)
(* callback runs stays the head: it is due by now, and what is added or    *)
(* put off meanwhile is due later.                                         *)
ListInv ==
  /\ Sound(timer_list)
  /\ now \in Nat
  /\ tickCur # NULL => tickCur \in Nat /\ tickCur <= now
  /\ inCallback \in BOOLEAN
  /\ inCallback => tickCur # NULL /\ HeadExpired(timer_list, tickCur)

(* The times of the timers that have yet to fire, which TimerSet calls due. *)
Times == [t \in Timers |-> IF t \in ListPending THEN timer_list.expire[t] ELSE NULL]

Moves == ListSet!Next \/ UNCHANGED <<now, Times, tickCur>>

LEMMA TimeOf ==
  ASSUME ListInv
  PROVE  /\ ListPending \subseteq timer_list.live /\ timer_list.live \subseteq Timers
         /\ \A t \in Timers : /\ timer_list.expire[t] \in Nat /\ timer_list.expire[t] # NULL
                              /\ Times[t] # NULL <=> t \in ListPending
                              /\ t \in ListPending => Times[t] = timer_list.expire[t]
         /\ ListSet!Pending = ListPending
<1>1. /\ timer_list.live \subseteq Timers /\ timer_list.expire \in [Timers -> Nat]
      /\ NULL \notin Nat
  BY TimerListAssumption DEF ListInv, Sound, Shape, TimerLists
<1>2. ListPending \subseteq timer_list.live
  BY DEF ListPending
<1>3. \A t \in Timers : /\ timer_list.expire[t] \in Nat /\ timer_list.expire[t] # NULL
                        /\ Times[t] # NULL <=> t \in ListPending
                        /\ t \in ListPending => Times[t] = timer_list.expire[t]
  BY <1>1 DEF Times
<1>4. ListSet!Pending = ListPending
  <2>1. ListSet!Pending = {t \in Timers : Times[t] # NULL}
    BY DEF ListSet!Pending, Times
  <2> QED
    BY <1>1, <1>2, <1>3, <2>1
<1> QED
  BY <1>1, <1>2, <1>3, <1>4

LEMMA ListAddMoves ==
  ASSUME ListInv, NEW t \in Timers, NEW delay \in ListTimeouts, ListAdd(t, delay)
  PROVE  ListInv' /\ ListSet!Add(t, delay)
<1> DEFINE e == now + delay
<1>1. /\ now \in Nat /\ e \in Nat /\ now <= e /\ Sound(timer_list) /\ inCallback \in BOOLEAN
      /\ tickCur # NULL => tickCur \in Nat /\ tickCur <= now
  <2>1. delay \in Nat /\ now \in Nat
    BY TimerListAssumption DEF ListInv
  <2> QED
    BY <2>1 DEF ListInv
<1>2. /\ t \notin timer_list.live /\ timer_list' = AddTimer(NewTimer(timer_list, t, e), t)
      /\ UNCHANGED <<now, tickCur, inCallback>>
  BY DEF ListAdd
<1> HIDE DEF e
<1>3. /\ Sound(timer_list') /\ timer_list'.live = timer_list.live \cup {t}
      /\ timer_list'.expire = [timer_list.expire EXCEPT ![t] = e]
      /\ timer_list'.head = IF timer_list.head = NULL \/ e < timer_list.expire[timer_list.head]
                            THEN t ELSE timer_list.head
  BY <1>1, <1>2, AddKeeps
<1>4. /\ timer_list.expire \in [Timers -> Nat] /\ timer_list.live \subseteq Timers
      /\ timer_list.head # NULL => timer_list.head \in timer_list.live
  BY <1>1 DEF Sound, Shape, TimerLists, Linked
<1>5. ASSUME inCallback
      PROVE  /\ timer_list'.head = timer_list.head /\ timer_list.head \in timer_list.live
             /\ timer_list'.expire[timer_list.head] = timer_list.expire[timer_list.head]
             /\ HeadExpired(timer_list, tickCur) /\ tickCur # NULL
  <2>1. /\ tickCur # NULL /\ timer_list.head # NULL /\ tickCur >= timer_list.expire[timer_list.head]
        /\ HeadExpired(timer_list, tickCur)
    BY <1>5 DEF ListInv, HeadExpired
  <2>2. timer_list.expire[timer_list.head] \in Nat /\ timer_list.head # t
    BY <1>2, <1>4, <2>1
  <2> QED
    BY <1>1, <1>3, <1>4, <2>1, <2>2
<1>6. ListInv'
  BY <1>1, <1>2, <1>3, <1>5 DEF ListInv, HeadExpired
<1>7. ListPending' = ListPending \cup {t}
  BY <1>2, <1>3, <1>5 DEF ListPending
<1>8. Times' = [Times EXCEPT ![t] = e]
  BY <1>3, <1>4, <1>7 DEF Times
<1>9. t \notin ListPending
  BY <1>2 DEF ListPending
<1> QED
  BY <1>2, <1>6, <1>8, <1>9, TimeOf DEF ListSet!Add, ListDelay, Times, e

LEMMA ListAdjustMoves ==
  ASSUME ListInv, NEW t \in Timers, NEW delay \in ListTimeouts, ListAdjust(t, delay)
  PROVE  ListInv' /\ ListSet!PutOff(t, delay)
<1> DEFINE e == now + delay
<1>1. /\ now \in Nat /\ e \in Nat /\ Sound(timer_list) /\ inCallback \in BOOLEAN
      /\ tickCur # NULL => tickCur \in Nat /\ tickCur <= now
  <2>1. delay \in Nat /\ now \in Nat
    BY TimerListAssumption DEF ListInv
  <2> QED
    BY <2>1 DEF ListInv
<1>2. /\ t \in ListPending /\ e >= timer_list.expire[t]
      /\ timer_list' = AdjustTimer([timer_list EXCEPT !.expire[t] = e], t)
      /\ UNCHANGED <<now, tickCur, inCallback>>
  BY DEF ListAdjust
<1> HIDE DEF e
<1>3. /\ timer_list.expire \in [Timers -> Nat] /\ timer_list.live \subseteq Timers
      /\ t \in timer_list.live /\ (inCallback => t # timer_list.head)
  BY <1>1, <1>2 DEF Sound, Shape, TimerLists, ListPending
<1>4. e \in Nat /\ timer_list.expire[t] <= e
  BY <1>1, <1>2, <1>3
<1>5. /\ Sound(timer_list') /\ timer_list'.live = timer_list.live
      /\ timer_list'.expire = [timer_list.expire EXCEPT ![t] = e]
      /\ t # timer_list.head => timer_list'.head = timer_list.head
  <2>1. Sound(timer_list) /\ t \in timer_list.live
    BY <1>1, <1>3
  <2>2. timer_list' = AdjustTimer([timer_list EXCEPT !.expire[t] = e], t)
    BY <1>2
  <2> QED
    BY <1>4, <2>1, <2>2, AdjustKeeps
<1>6. ListInv'
  <2>1. inCallback => /\ tickCur # NULL /\ HeadExpired(timer_list, tickCur)
                      /\ timer_list'.head = timer_list.head
                      /\ timer_list'.expire[timer_list.head] = timer_list.expire[timer_list.head]
    BY <1>3, <1>5 DEF ListInv
  <2>2. inCallback => HeadExpired(timer_list', tickCur)
    BY <2>1 DEF HeadExpired
  <2> QED
    BY <1>1, <1>2, <1>5, <2>1, <2>2 DEF ListInv
<1>7. ListPending' = ListPending
  BY <1>2, <1>3, <1>5 DEF ListPending
<1>8. Times' = [Times EXCEPT ![t] = e]
  BY <1>2, <1>3, <1>5, <1>7 DEF Times
<1>9. Times[t] <= e /\ t \in ListSet!Pending
  BY <1>2, <1>4, TimeOf
<1> QED
  BY <1>2, <1>6, <1>8, <1>9 DEF ListSet!PutOff, ListDelay, Times, e

LEMMA ListDelMoves ==
  ASSUME ListInv, NEW t \in Timers, ListDel(t)
  PROVE  ListInv' /\ ListSet!Delete(t)
<1>1. /\ Sound(timer_list) /\ t \in ListPending /\ timer_list' = DelTimer(timer_list, t)
      /\ UNCHANGED <<now, tickCur, inCallback>>
  BY DEF ListInv, ListDel
<1>2. /\ timer_list.expire \in [Timers -> Nat] /\ timer_list.live \subseteq Timers
      /\ t \in timer_list.live /\ (inCallback => t # timer_list.head)
      /\ timer_list.head # NULL => timer_list.head \in timer_list.live
  BY <1>1 DEF Sound, Shape, TimerLists, ListPending, Linked
<1>3. /\ Sound(timer_list') /\ timer_list'.live = timer_list.live \ {t}
      /\ timer_list'.expire = [timer_list.expire EXCEPT ![t] = 0]
      /\ t # timer_list.head => timer_list'.head = timer_list.head
  BY <1>1, <1>2, DelKeeps
<1>4. ListInv'
  BY <1>1, <1>2, <1>3 DEF ListInv, HeadExpired
<1>5. ListPending' = ListPending \ {t}
  BY <1>1, <1>2, <1>3 DEF ListPending
<1>6. Times' = [Times EXCEPT ![t] = NULL]
  BY <1>2, <1>3, <1>5 DEF Times
<1>7. t \in ListSet!Pending
  BY <1>1, TimeOf
<1> QED
  BY <1>1, <1>4, <1>6, <1>7 DEF ListSet!Delete, Times

(* The head is taken out of what is due when its callback begins.          *)
LEMMA ListFireMoves ==
  ASSUME ListInv, ListFire
  PROVE  ListInv' /\ \E t \in Timers : ListSet!Fire(t)
<1>0. PICK t \in Timers : t = timer_list.head
  BY TimerListAssumption DEF ListInv, ListFire, HeadExpired, Sound, Shape, Linked
<1>1. /\ tickCur # NULL /\ ~inCallback /\ HeadExpired(timer_list, tickCur) /\ inCallback' = TRUE
      /\ UNCHANGED <<timer_list, now, tickCur>>
      /\ Sound(timer_list) /\ tickCur \in Nat /\ t # NULL /\ tickCur >= timer_list.expire[t]
  BY <1>0 DEF ListInv, ListFire, HeadExpired
<1>2. ListInv'
  BY <1>1 DEF ListInv
<1>3. /\ ListPending = timer_list.live /\ ListPending' = timer_list.live \ {t} /\ t \in ListPending
  BY <1>0, <1>1 DEF ListPending, Sound, Shape, Linked
<1>4. \A u \in ListPending : timer_list.expire[t] <= timer_list.expire[u]
  BY <1>0, <1>1, <1>3, HeadIsFirst DEF Sound
<1>5. Times' = [Times EXCEPT ![t] = NULL]
  BY <1>1, <1>3 DEF Times
<1>6. Times[t] <= tickCur /\ \A u \in ListPending : Times[t] <= Times[u]
  BY <1>1, <1>3, <1>4, TimeOf
<1>7. t \in ListSet!Pending /\ ListSet!Pending = ListPending
  BY <1>3, TimeOf
<1>8. ListSet!Fire(t)
  BY <1>1, <1>5, <1>6, <1>7 DEF ListSet!Fire, Times
<1> QED
  BY <1>2, <1>8

LEMMA ListFiredMoves ==
  ASSUME ListInv, ListFired
  PROVE  ListInv' /\ UNCHANGED <<now, Times, tickCur>>
<1>1. /\ inCallback /\ timer_list' = PopHead(timer_list) /\ inCallback' = FALSE
      /\ UNCHANGED <<now, tickCur>> /\ Sound(timer_list) /\ timer_list.head # NULL
  BY DEF ListInv, ListFired, HeadExpired
<1>2. /\ Sound(timer_list') /\ timer_list'.live = timer_list.live \ {timer_list.head}
      /\ timer_list'.expire = [timer_list.expire EXCEPT ![timer_list.head] = 0]
      /\ timer_list.expire \in [Timers -> Nat]
  BY <1>1, PopKeeps DEF Sound, Shape, TimerLists
<1>3. ListInv'
  BY <1>1, <1>2 DEF ListInv
<1>4. ListPending' = ListPending /\ timer_list.head \notin ListPending
  BY <1>1, <1>2 DEF ListPending
<1>5. Times' = Times
  BY <1>2, <1>4 DEF Times
<1> QED
  BY <1>1, <1>3, <1>5

LEMMA ListTickEndsMoves ==
  ASSUME ListInv, ListTickEnds
  PROVE  ListInv' /\ ListSet!TickEnds
<1>1. /\ tickCur # NULL /\ ~inCallback /\ ~HeadExpired(timer_list, tickCur) /\ tickCur' = NULL
      /\ UNCHANGED <<timer_list, now, inCallback>> /\ Sound(timer_list) /\ tickCur \in Nat /\ now \in Nat
  BY DEF ListInv, ListTickEnds
<1>2. ListInv'
  BY <1>1 DEF ListInv
<1>3. ListPending = timer_list.live /\ ListPending' = ListPending
  BY <1>1 DEF ListPending
<1>4. Times' = Times
  BY <1>1, <1>3 DEF Times
<1>5. ASSUME NEW u \in ListPending PROVE Times[u] > tickCur
  <2>1. /\ timer_list.head \in timer_list.live
        /\ timer_list.expire[timer_list.head] <= timer_list.expire[u]
    BY <1>1, <1>3, <1>5, HeadIsFirst DEF Sound
  <2>2. /\ u \in Timers /\ timer_list.head \in Timers /\ timer_list.head # NULL
        /\ timer_list.expire[u] \in Nat /\ timer_list.expire[timer_list.head] \in Nat
        /\ Times[u] = timer_list.expire[u]
    BY <1>3, <2>1, TimeOf, TimerListAssumption
  <2>3. ~(tickCur >= timer_list.expire[timer_list.head])
    BY <1>1, <2>2 DEF HeadExpired
  <2> QED
    BY <1>1, <2>1, <2>2, <2>3
<1>6. ListSet!Pending = ListPending /\ now' = now + 0
  BY <1>1, TimeOf
<1> QED
  BY <1>1, <1>2, <1>4, <1>5, <1>6 DEF ListSet!TickEnds, Times

LEMMA ListMoves == ListInv /\ [ListNext]_listVars => ListInv' /\ Moves
<1> SUFFICES ASSUME ListInv, [ListNext]_listVars PROVE ListInv' /\ Moves
  OBVIOUS
<1>1. CASE \E t \in Timers, delay \in ListTimeouts : ListAdd(t, delay) \/ ListAdjust(t, delay)
  BY <1>1, ListAddMoves, ListAdjustMoves DEF Moves, ListSet!Next
<1>2. CASE \E t \in Timers : ListDel(t)
  BY <1>2, ListDelMoves DEF Moves, ListSet!Next
<1>3. CASE ListTick
  <2>1. tickCur = NULL /\ tickCur' = now /\ UNCHANGED <<timer_list, now, inCallback>>
    BY <1>3 DEF ListTick
  <2>2. ListInv'
    BY <2>1 DEF ListInv
  <2>3. Times' = Times
    BY <2>1 DEF Times, ListPending
  <2> QED
    BY <2>1, <2>2, <2>3 DEF Moves, ListSet!Next, ListSet!TickBegins, Times
<1>4. CASE ListFire
  BY <1>4, ListFireMoves DEF Moves, ListSet!Next
<1>5. CASE ListFired
  BY <1>5, ListFiredMoves DEF Moves
<1>6. CASE ListTickEnds
  BY <1>6, ListTickEndsMoves DEF Moves, ListSet!Next
<1>7. CASE ListTimePasses
  <2>1. now' = now + 1 /\ UNCHANGED <<timer_list, tickCur, inCallback>>
    BY <1>7 DEF ListTimePasses
  <2>2. ListInv'
    BY <2>1 DEF ListInv
  <2>3. Times' = Times
    BY <2>1 DEF Times, ListPending
  <2> QED
    BY <2>1, <2>2, <2>3 DEF Moves, ListSet!Next, ListSet!TimePasses, Times
<1>8. CASE UNCHANGED listVars
  BY <1>8 DEF listVars, ListInv, Moves, Times, ListPending
<1> QED
  BY <1>1, <1>2, <1>3, <1>4, <1>5, <1>6, <1>7, <1>8 DEF ListNext

(* sort_timer_list: whatever is added, put off and deleted, by callbacks   *)
(* too, tick() runs what is due, earliest first, each once, no other, and  *)
(* leaves nothing due behind: the pointers implement the set of timers.    *)
THEOREM ListImplementsTimerSet == ListInit /\ [][ListNext]_listVars => ListKeepsTime
<1>1. ListInit => ListInv /\ ListSet!Init
  <2> SUFFICES ASSUME ListInit PROVE ListInv /\ ListSet!Init
    OBVIOUS
  <2>1. /\ timer_list = EmptyList /\ timer_list.live = {} /\ now = 0 /\ tickCur = NULL /\ inCallback = FALSE
    BY DEF ListInit, EmptyList
  <2>2. ListInv
    BY <2>1, EmptyIsSound, TimerListAssumption DEF ListInv
  <2>3. Times = [t \in Timers |-> NULL]
    BY <2>1 DEF Times, ListPending
  <2>4. Times \in [Timers -> ListTimeouts \cup {NULL}]
    BY <2>3
  <2> QED
    BY <2>1, <2>2, <2>4 DEF ListSet!Init, Times
<1> QED
  BY <1>1, ListMoves, PTL DEF ListKeepsTime, ListSet!TimerSpec, Moves, Times
===============================================================================
