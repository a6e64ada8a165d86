---------------------------- MODULE EventPollProofs ----------------------------
(***************************************************************************)
(* The kernel's eventpoll for any files, threads and interests: the lists  *)
(* and the locks, who may be on a list, who is awake, and that it is what  *)
(* EventSet promises.                                                      *)
(***************************************************************************)
EXTENDS EventPoll, SequenceTheorems, FiniteSetTheorems, WellFoundedInduction, TLAPS

(* The lists: what is on one, and that it is there once.                   *)
LEMMA EmptyList == Elements(<< >>) = {} /\ Once(<< >>)
  BY DEF Elements, Once

LEMMA ElementsIn ==
  ASSUME NEW S, NEW s \in Seq(S)
  PROVE  Elements(s) \subseteq S /\ (Elements(s) = {} <=> s = << >>)
  BY DEF Elements

LEMMA Appended ==
  ASSUME NEW S, NEW s \in Seq(S), NEW x \in S
  PROVE  /\ Append(s, x) \in Seq(S) /\ Append(s, x) # << >>
         /\ Elements(Append(s, x)) = Elements(s) \cup {x}
         /\ Once(s) /\ x \notin Elements(s) => Once(Append(s, x))
<1> DEFINE a == Append(s, x)
<1>1. /\ a \in Seq(S) /\ Len(s) \in Nat /\ Len(a) = Len(s) + 1
      /\ \A i \in 1 .. Len(s) : a[i] = s[i]
      /\ a[Len(s) + 1] = x
  OBVIOUS
<1>2. Elements(a) = Elements(s) \cup {x}
  <2>1. 1 .. Len(a) = (1 .. Len(s)) \cup {Len(s) + 1}
    BY <1>1
  <2> HIDE DEF a
  <2> QED
    BY <1>1, <2>1 DEF Elements
<1>3. ASSUME Once(s), x \notin Elements(s) PROVE Once(a)
  <2>1. ASSUME NEW i \in 1 .. Len(a), NEW j \in 1 .. Len(a), a[i] = a[j] PROVE i = j
    <3>1. i \in 1 .. Len(s) \/ i = Len(s) + 1
      BY <1>1
    <3>2. j \in 1 .. Len(s) \/ j = Len(s) + 1
      BY <1>1
    <3> HIDE DEF a
    <3> QED
      BY <1>1, <1>3, <2>1, <3>1, <3>2 DEF Once, Elements
  <2> QED
    BY <2>1 DEF Once
<1> QED
  BY <1>1, <1>2, <1>3

LEMMA Joined ==
  ASSUME NEW S, NEW s \in Seq(S), NEW t \in Seq(S)
  PROVE  /\ s \o t \in Seq(S)
         /\ Elements(s \o t) = Elements(s) \cup Elements(t)
         /\ Once(s \o t) <=> Once(s) /\ Once(t) /\ Elements(s) \cap Elements(t) = {}
<1> DEFINE u == s \o t
<1>1. /\ u \in Seq(S) /\ Len(s) \in Nat /\ Len(t) \in Nat /\ Len(u) = Len(s) + Len(t)
      /\ \A i \in 1 .. Len(s) : u[i] = s[i]
      /\ \A i \in 1 .. Len(t) : u[Len(s) + i] = t[i]
  BY ConcatProperties
<1> HIDE DEF u
<1>2. \A i \in 1 .. Len(u) : i \in 1 .. Len(s) \/ \E j \in 1 .. Len(t) : i = Len(s) + j
  <2>1. ASSUME NEW i \in 1 .. Len(u), i \notin 1 .. Len(s)
        PROVE  i - Len(s) \in 1 .. Len(t) /\ i = Len(s) + (i - Len(s))
    BY <1>1, <2>1
  <2> QED
    BY <2>1
<1>a. /\ \A i \in 1 .. Len(s) : i \in 1 .. Len(u)
      /\ \A j \in 1 .. Len(t) : Len(s) + j \in 1 .. Len(u)
  BY <1>1
<1>3. Elements(u) = Elements(s) \cup Elements(t)
  <2>1. Elements(u) \subseteq Elements(s) \cup Elements(t)
    <3>1. ASSUME NEW i \in 1 .. Len(u) PROVE u[i] \in Elements(s) \cup Elements(t)
      <4>1. CASE i \in 1 .. Len(s)
        BY <1>1, <4>1 DEF Elements
      <4>2. ASSUME NEW j \in 1 .. Len(t), i = Len(s) + j PROVE u[i] \in Elements(t)
        BY <1>1, <4>2 DEF Elements
      <4> QED
        BY <1>2, <4>1, <4>2
    <3> QED
      BY <3>1 DEF Elements
  <2>2. Elements(s) \cup Elements(t) \subseteq Elements(u)
    BY <1>1, <1>a DEF Elements
  <2> QED
    BY <2>1, <2>2
<1>4. ASSUME Once(u) PROVE Once(s) /\ Once(t) /\ Elements(s) \cap Elements(t) = {}
  <2>1. Once(s)
    BY <1>1, <1>4, <1>a DEF Once
  <2>2. Once(t)
    <3>1. ASSUME NEW i \in 1 .. Len(t), NEW j \in 1 .. Len(t), t[i] = t[j] PROVE i = j
      <4>1. Len(s) + i = Len(s) + j
        BY <1>1, <1>4, <1>a, <3>1 DEF Once
      <4> QED
        BY <1>1, <4>1
    <3> QED
      BY <3>1 DEF Once
  <2>3. ASSUME NEW i \in 1 .. Len(s), NEW j \in 1 .. Len(t), s[i] = t[j] PROVE FALSE
    <3>1. i = Len(s) + j
      BY <1>1, <1>4, <1>a, <2>3 DEF Once
    <3> QED
      BY <1>1, <3>1
  <2> QED
    BY <2>1, <2>2, <2>3 DEF Elements
<1>5. ASSUME Once(s), Once(t), Elements(s) \cap Elements(t) = {} PROVE Once(u)
  <2>1. ASSUME NEW i \in 1 .. Len(u), NEW j \in 1 .. Len(u), u[i] = u[j] PROVE i = j
    <3>1. CASE i \in 1 .. Len(s) /\ j \in 1 .. Len(s)
      BY <1>1, <1>5, <2>1, <3>1 DEF Once
    <3>2. CASE i \notin 1 .. Len(s) /\ j \notin 1 .. Len(s)
      <4>1. PICK k \in 1 .. Len(t), l \in 1 .. Len(t) : i = Len(s) + k /\ j = Len(s) + l
        BY <1>2, <3>2
      <4>2. t[k] = t[l]
        BY <1>1, <2>1, <4>1
      <4> QED
        BY <1>5, <4>1, <4>2 DEF Once
    <3>3. ASSUME NEW k \in 1 .. Len(s), NEW l \in 1 .. Len(t), u[k] = u[Len(s) + l] PROVE FALSE
      BY <1>1, <1>5, <3>3 DEF Elements
    <3> QED
      BY <1>2, <2>1, <3>1, <3>2, <3>3
  <2> QED
    BY <2>1 DEF Once
<1> QED
  BY <1>1, <1>3, <1>4, <1>5 DEF u

LEMMA HeadAndTail ==
  ASSUME NEW S, NEW s \in Seq(S), s # << >>
  PROVE  /\ Head(s) \in S /\ Tail(s) \in Seq(S)
         /\ Elements(s) = {Head(s)} \cup Elements(Tail(s))
         /\ Once(s) => Once(Tail(s)) /\ Head(s) \notin Elements(Tail(s))
<1>1. /\ Head(s) \in S /\ Tail(s) \in Seq(S) /\ Head(s) = s[1]
      /\ Len(s) \in Nat \ {0} /\ Len(Tail(s)) = Len(s) - 1
      /\ \A i \in 1 .. Len(Tail(s)) : Tail(s)[i] = s[i + 1]
  OBVIOUS
<1> DEFINE t == Tail(s)
<1> HIDE DEF t
<1>2. \A i \in 1 .. Len(s) : i = 1 \/ \E j \in 1 .. Len(t) : i = j + 1
  <2>1. ASSUME NEW i \in 1 .. Len(s), i # 1 PROVE i - 1 \in 1 .. Len(t) /\ i = (i - 1) + 1
    BY <1>1, <2>1 DEF t
  <2> QED
    BY <2>1
<1>3. 1 \in 1 .. Len(s) /\ \A j \in 1 .. Len(t) : j + 1 \in 1 .. Len(s) /\ j + 1 # 1
  BY <1>1 DEF t
<1>4. \A j \in 1 .. Len(t) : t[j] = s[j + 1]
  BY <1>1 DEF t
<1>5. Elements(s) = {Head(s)} \cup Elements(t)
  <2>1. Elements(s) \subseteq {Head(s)} \cup Elements(t)
    BY <1>1, <1>2, <1>4 DEF Elements
  <2>2. {Head(s)} \cup Elements(t) \subseteq Elements(s)
    BY <1>1, <1>3, <1>4 DEF Elements
  <2> QED
    BY <2>1, <2>2
<1>6. ASSUME Once(s) PROVE Once(t) /\ Head(s) \notin Elements(t)
  <2>1. ASSUME NEW i \in 1 .. Len(t), NEW j \in 1 .. Len(t), t[i] = t[j] PROVE i = j
    <3>1. i + 1 = j + 1
      BY <1>3, <1>4, <1>6, <2>1 DEF Once
    <3> QED
      BY <3>1
  <2>2. ASSUME NEW j \in 1 .. Len(t), Head(s) = t[j] PROVE FALSE
    BY <1>1, <1>3, <1>4, <1>6, <2>2 DEF Once
  <2> QED
    BY <2>1, <2>2 DEF Once, Elements
<1> QED
  BY <1>1, <1>5, <1>6 DEF t

(* list_del takes an item off, and nothing else.                           *)
LEMMA Deleted ==
  ASSUME NEW S, NEW s \in Seq(S), Once(s), NEW f
  PROVE  /\ Without(s, f) \in Seq(S) /\ Once(Without(s, f))
         /\ Elements(Without(s, f)) = Elements(s) \ {f}
<1>1. CASE f \notin Elements(s)
  BY <1>1 DEF Without
<1>2. CASE f \in Elements(s)
  <2> DEFINE at == CHOOSE i \in 1 .. Len(s) : s[i] = f
             front == SubSeq(s, 1, at - 1)
             back == SubSeq(s, at + 1, Len(s))
  <2>1. at \in 1 .. Len(s) /\ s[at] = f
    BY <1>2 DEF Elements
  <2>2. Without(s, f) = front \o back
    BY <1>2 DEF Without
  <2> HIDE DEF at
  <2>3. Len(s) \in Nat /\ at \in Nat \ {0} /\ at <= Len(s)
    BY <2>1
  <2>4. /\ front \in Seq(S) /\ Len(front) = at - 1
        /\ \A i \in 1 .. at - 1 : front[i] = s[i]
    BY <2>1, <2>3
  <2>5. /\ back \in Seq(S) /\ Len(back) = Len(s) - at
        /\ \A i \in 1 .. Len(s) - at : back[i] = s[at + i]
    BY <2>1, <2>3
  <2> HIDE DEF front, back
  <2>6. \A i \in 1 .. at - 1 : i \in 1 .. Len(s) /\ i < at
    BY <2>3
  <2>7. \A i \in 1 .. Len(s) - at : at + i \in 1 .. Len(s) /\ at + i > at
    BY <2>3
  <2>8. Once(front)
    BY <2>4, <2>6 DEF Once
  <2>9. Once(back)
    <3>1. ASSUME NEW i \in 1 .. Len(back), NEW j \in 1 .. Len(back), back[i] = back[j] PROVE i = j
      <4>1. at + i = at + j
        BY <2>5, <2>7, <3>1 DEF Once
      <4> QED
        BY <2>3, <2>5, <4>1
    <3> QED
      BY <3>1 DEF Once
  <2>10. Elements(front) \cap Elements(back) = {}
    <3>1. ASSUME NEW i \in 1 .. at - 1, NEW j \in 1 .. Len(s) - at, s[i] = s[at + j] PROVE FALSE
      <4>1. i = at + j
        BY <2>6, <2>7, <3>1 DEF Once
      <4> QED
        BY <2>3, <4>1
    <3> QED
      BY <2>4, <2>5, <3>1 DEF Elements
  <2>11. Elements(front) \cup Elements(back) = Elements(s) \ {f}
    <3>1. \A i \in 1 .. at - 1 : s[i] # f
      BY <2>1, <2>3, <2>6 DEF Once
    <3>2. \A i \in 1 .. Len(s) - at : s[at + i] # f
      <4>1. ASSUME NEW i \in 1 .. Len(s) - at, s[at + i] = f PROVE FALSE
        <5>1. at + i = at
          BY <2>1, <2>7, <4>1 DEF Once
        <5> QED
          BY <2>3, <5>1
      <4> QED
        BY <4>1
    <3>3. ASSUME NEW i \in 1 .. Len(s), i # at
          PROVE  i \in 1 .. at - 1 \/ (i - at \in 1 .. Len(s) - at /\ i = at + (i - at))
      BY <2>3, <3>3
    <3>4. Elements(front) \cup Elements(back) \subseteq Elements(s) \ {f}
      <4>1. Elements(front) \subseteq Elements(s) \ {f}
        BY <2>4, <2>6, <3>1 DEF Elements
      <4>2. Elements(back) \subseteq Elements(s) \ {f}
        BY <2>5, <2>7, <3>2 DEF Elements
      <4> QED
        BY <4>1, <4>2
    <3>5. ASSUME NEW i \in 1 .. Len(s), s[i] # f PROVE s[i] \in Elements(front) \cup Elements(back)
      <4>1. CASE i \in 1 .. at - 1
        BY <2>4, <4>1 DEF Elements
      <4>2. ASSUME NEW j \in 1 .. Len(s) - at, i = at + j PROVE s[i] \in Elements(back)
        BY <2>5, <4>2 DEF Elements
      <4> QED
        BY <2>1, <3>3, <3>5, <4>1, <4>2
    <3> QED
      BY <3>4, <3>5 DEF Elements
  <2> QED
    BY <2>2, <2>4, <2>5, <2>8, <2>9, <2>10, <2>11, Joined
<1> QED
  BY <1>1, <1>2

-------------------------------------------------------------------------------
(* Induction over the naturals, for a set and not for a predicate.         *)
LEMMA Naturals == ASSUME NEW S, 0 \in S, \A n \in Nat : n \in S => n + 1 \in S PROVE Nat \subseteq S
<1> SUFFICES ASSUME Nat \ S # {} PROVE FALSE
  OBVIOUS
<1> DEFINE Less == {ss \in Nat \X Nat : ss[1] < ss[2]}
<1>1. IsWellFoundedOn(Less, Nat)
  BY NatLessThanWellFounded, Zenon DEF OpToRel
<1> HIDE DEF Less
<1>2. PICK m \in Nat \ S : \A y \in Nat \ S : ~ (<<y, m>> \in Less)
  BY <1>1, WFMin
<1>3. m # 0 /\ m - 1 \in Nat /\ m = (m - 1) + 1
  BY <1>2
<1>4. m - 1 \in S
  <2>1. m \in Nat /\ m - 1 < m
    BY <1>2
  <2>2. <<m - 1, m>> \in Less
    BY <1>3, <2>1 DEF Less
  <2> QED
    BY <1>2, <1>3, <2>2
<1> QED
  BY <1>2, <1>3, <1>4

(* The overflow list is requeued: what was on one of the lists is now on   *)
(* the ready list or still on the stolen one, and nothing is linked twice. *)
QueueOf(upTo, n) ==
  upTo = [i \in 0 .. n |->
            IF i = 0 THEN rdllist
            ELSE IF ovflist[i] \in Elements(txlist) \cup Elements(upTo[i - 1]) THEN upTo[i - 1]
            ELSE Append(upTo[i - 1], ovflist[i])]

LEMMA QueueExists == ASSUME NEW n \in Nat PROVE \E upTo : QueueOf(upTo, n)
<1> DEFINE S == {m \in Nat : \E upTo : QueueOf(upTo, m)}
<1>1. 0 \in S
  <2>1. QueueOf([i \in 0 .. 0 |-> rdllist], 0)
    BY DEF QueueOf
  <2> QED
    BY <2>1
<1>2. ASSUME NEW m \in Nat, m \in S PROVE m + 1 \in S
  <2>1. PICK q : QueueOf(q, m)
    BY <1>2
  <2> DEFINE last == IF ovflist[m + 1] \in Elements(txlist) \cup Elements(q[m]) THEN q[m]
                     ELSE Append(q[m], ovflist[m + 1])
             r == [i \in 0 .. m + 1 |-> IF i = m + 1 THEN last ELSE q[i]]
  <2>2. /\ \A i \in 0 .. m : r[i] = q[i] /\ i # m + 1
        /\ r[m + 1] = last /\ (m + 1) - 1 = m /\ m + 1 # 0
    OBVIOUS
  <2>3. \A i \in 0 .. m + 1 : i = m + 1 \/ i \in 0 .. m
    OBVIOUS
  <2>4. \A i \in 0 .. m : i = 0 \/ i - 1 \in 0 .. m
    OBVIOUS
  <2>5. r = [i \in 0 .. m + 1 |-> r[i]]
    OBVIOUS
  <2> DEFINE Next1(i) == IF i = 0 THEN rdllist
              ELSE IF ovflist[i] \in Elements(txlist) \cup Elements(r[i - 1]) THEN r[i - 1]
              ELSE Append(r[i - 1], ovflist[i])
  <2>6. ASSUME NEW i \in 0 .. m + 1 PROVE r[i] = Next1(i)
    <3>1. CASE i = m + 1
      BY <2>2, <3>1
    <3>2. CASE i \in 0 .. m
      <4>1. q[i] = IF i = 0 THEN rdllist
                   ELSE IF ovflist[i] \in Elements(txlist) \cup Elements(q[i - 1]) THEN q[i - 1]
                   ELSE Append(q[i - 1], ovflist[i])
        BY <2>1, <3>2 DEF QueueOf
      <4>2. CASE i = 0
        BY <2>2, <3>2, <4>1, <4>2
      <4>3. CASE i # 0
        <5>1. r[i] = q[i] /\ r[i - 1] = q[i - 1]
          BY <2>2, <2>4, <3>2, <4>3
        <5> HIDE DEF r, last
        <5> QED
          BY <4>1, <4>3, <5>1
      <4> QED
        BY <4>2, <4>3
    <3> QED
      BY <2>3, <3>1, <3>2
  <2>7. QueueOf(r, m + 1)
    <3>1. r = [i \in 0 .. m + 1 |-> Next1(i)]
      BY <2>5, <2>6
    <3> HIDE DEF r
    <3> QED
      BY <3>1 DEF QueueOf
  <2> QED
    BY <2>7
<1> HIDE DEF S
<1>3. n \in S
  BY <1>1, <1>2, Naturals
<1> QED
  BY <1>3 DEF S

LEMMA RequeuedKeeps ==
  ASSUME rdllist \in Seq(Fds), txlist \in Seq(Fds), ovflist \in Seq(Fds)
  PROVE  /\ Requeued \in Seq(Fds)
         /\ Elements(Requeued) \cup Elements(txlist)
              = Elements(rdllist) \cup Elements(txlist) \cup Elements(ovflist)
         /\ Once(rdllist \o txlist) => Once(txlist \o Requeued)
<1> DEFINE L == Len(ovflist)
           q == CHOOSE upTo : QueueOf(upTo, L)
           Seen(n) == {ovflist[i] : i \in 1 .. n}
           Good(s, n) ==
             /\ s \in Seq(Fds)
             /\ Elements(s) \cup Elements(txlist)
                  = Elements(rdllist) \cup Elements(txlist) \cup Seen(n)
             /\ Once(rdllist \o txlist) => Once(s) /\ Elements(s) \cap Elements(txlist) = {}
           S == {n \in Nat : n <= L => Good(q[n], n)}
<1>1. L \in Nat /\ \A i \in 1 .. L : ovflist[i] \in Fds
  OBVIOUS
<1>2. QueueOf(q, L)
  BY <1>1, QueueExists
<1>3. Requeued = q[L]
  BY DEF Requeued, QueueOf
<1> HIDE DEF q, L
<1>4. 0 \in S
  <2>1. q[0] = rdllist
    BY <1>1, <1>2 DEF QueueOf
  <2>2. Seen(0) = {}
    OBVIOUS
  <2>3. Good(rdllist, 0)
    BY <2>2, Joined
  <2> QED
    BY <2>1, <2>3
<1>5. ASSUME NEW n \in Nat, n \in S PROVE n + 1 \in S
  <2> SUFFICES ASSUME n + 1 <= L PROVE Good(q[n + 1], n + 1)
    OBVIOUS
  <2>1. n + 1 \in 0 .. L /\ n + 1 # 0 /\ (n + 1) - 1 = n /\ n <= L /\ n + 1 \in 1 .. L
    BY <1>1
  <2>2. Good(q[n], n)
    BY <1>5, <2>1
  <2>3. q[n + 1] = IF ovflist[n + 1] \in Elements(txlist) \cup Elements(q[n]) THEN q[n]
                   ELSE Append(q[n], ovflist[n + 1])
    BY <1>2, <2>1 DEF QueueOf
  <2>4. Seen(n + 1) = Seen(n) \cup {ovflist[n + 1]}
    <3>1. 1 .. n + 1 = (1 .. n) \cup {n + 1}
      OBVIOUS
    <3> QED
      BY <3>1
  <2>5. ovflist[n + 1] \in Fds
    BY <1>1, <2>1
  <2> DEFINE f == ovflist[n + 1]
             s == q[n]
  <2> HIDE DEF Seen, f, s
  <2>6. CASE f \in Elements(txlist) \cup Elements(s)
    BY <2>2, <2>3, <2>4, <2>6 DEF f, s
  <2>7. CASE f \notin Elements(txlist) \cup Elements(s)
    <3>1. q[n + 1] = Append(s, f)
      BY <2>3, <2>7 DEF f, s
    <3>2. s \in Seq(Fds) /\ f \in Fds
      BY <2>2, <2>5 DEF f, s
    <3>3. /\ Append(s, f) \in Seq(Fds)
          /\ Elements(Append(s, f)) = Elements(s) \cup {f}
          /\ Once(s) => Once(Append(s, f))
      BY <2>7, <3>2, Appended
    <3> QED
      BY <2>2, <2>4, <2>7, <3>1, <3>3 DEF f, s
  <2> QED
    BY <2>6, <2>7
<1> HIDE DEF S
<1>6. L \in S
  BY <1>1, <1>4, <1>5, Naturals
<1>7. Good(Requeued, L)
  BY <1>1, <1>3, <1>6 DEF S
<1>8. Seen(L) = Elements(ovflist)
  BY DEF L, Elements
<1> QED
  BY <1>7, <1>8, Joined

LEMMA MergedKeeps ==
  ASSUME rdllist \in Seq(Fds), txlist \in Seq(Fds), ovflist \in Seq(Fds)
  PROVE  /\ Merged \in Seq(Fds)
         /\ Elements(Merged) = Elements(rdllist) \cup Elements(txlist) \cup Elements(ovflist)
         /\ Once(rdllist \o txlist) => Once(Merged)
  BY RequeuedKeeps, Joined DEF Merged

-------------------------------------------------------------------------------
(* The inductive invariant *)

Typed ==
  /\ ready \in [Fds -> SUBSET Bits]
  /\ pend \in [Fds -> SUBSET (Bits \cup {NoKey})]
  /\ open \in BOOLEAN
  /\ mode \in [Fds -> Modes \cup {"none"}]
  /\ events \in [Fds -> SUBSET Bits]
  /\ rbr \subseteq Fds /\ hooked \subseteq Fds
  /\ pc \in [Threads -> CtlPCs \cup WaitPCs \cup {"idle"}]
  /\ cur \in [Threads -> Fds \cup {NoFd}]
  /\ jtimeout \in [Threads -> {"zero", "finite", "forever"}]
  /\ room \in [Threads -> 0 .. MaxEvents]
  /\ sent \in [Threads -> SUBSET Fds]
  /\ signalled \subseteq Threads
  /\ scanning \in BOOLEAN /\ mtx \subseteq Threads

(* ep->mtx is held through an epoll_ctl and through a scan; a thread has   *)
(* an item in hand in the one and while it copies it out in the other.     *)
Locks ==
  /\ \A t, u \in mtx : t = u
  /\ \A t \in Threads : t \in mtx <=> pc[t] \in CtlPCs \cup ScanPCs
  /\ \A t \in Threads : cur[t] # NoFd <=> pc[t] \in CtlPCs \cup {"put"}
  /\ scanning <=> \E t \in mtx : pc[t] \in ScanPCs
  /\ ~scanning => txlist = << >> /\ ovflist = << >>

(* An item is linked once, and by what is in progress only.                *)
Lists ==
  /\ rdllist \in Seq(Fds) /\ txlist \in Seq(Fds) /\ ovflist \in Seq(Fds)
  /\ Once(rdllist) /\ Once(txlist)
  /\ Elements(rdllist) \cap Elements(txlist) = {}
  /\ InHand \cap (Elements(rdllist) \cup Elements(txlist)) = {}

(* An item in the tree has its callback; one that has none is about to get *)
(* it or to be undone.                                                     *)
Items ==
  /\ rbr \subseteq hooked
  /\ \A f \in Fds : mode[f] = "none" => f \notin hooked /\ events[f] = {}
  /\ \A f \in Fds : mode[f] # "none" => f \in hooked \cup InCall({"hook", "unhook", "unlink"})
  /\ \A t \in Threads :
       /\ pc[t] \in {"poll", "repoll", "link", "insert"} => cur[t] \in hooked
       /\ pc[t] \in {"hook", "poll", "unhook", "unlink"} => cur[t] \notin rbr
       /\ pc[t] = "unlink" => cur[t] \notin hooked
       /\ pc[t] \in CtlPCs => mode[cur[t]] # "none"
       /\ pc[t] = "put" => events[cur[t]] # {}

(* What is on a list has an item that is not freed.                        *)
Listed == Elements(rdllist) \cup Elements(txlist) \cup Elements(ovflist)
ListedLive == \A f \in Listed : mode[f] # "none"

PollInv == Typed /\ Locks /\ Lists /\ Items /\ ListedLive /\ SomebodyLooks

-------------------------------------------------------------------------------
(* What the list operations do to the ready list.                          *)
LEMMA Linking ==
  ASSUME rdllist \in Seq(Fds), NEW f \in Fds, Link(f)
  PROVE  /\ rdllist' \in Seq(Fds) /\ rdllist' # << >>
         /\ Elements(rdllist') = Elements(rdllist) \cup {f}
         /\ Once(rdllist) => Once(rdllist')
<1>1. CASE f \in Elements(rdllist)
  BY <1>1, ElementsIn DEF Link
<1>2. CASE f \notin Elements(rdllist)
  BY <1>2, Appended DEF Link
<1> QED
  BY <1>1, <1>2

LEMMA Overflowing ==
  ASSUME ovflist \in Seq(Fds), NEW f \in Fds, Overflow(f)
  PROVE  ovflist' \in Seq(Fds) /\ Elements(ovflist') = Elements(ovflist) \cup {f}
<1>1. <<f>> \in Seq(Fds) /\ Elements(<<f>>) = {f}
  BY DEF Elements
<1>2. CASE f \in Elements(ovflist)
  BY <1>2 DEF Overflow
<1>3. CASE f \notin Elements(ovflist)
  <2>1. ovflist' = <<f>> \o ovflist
    BY <1>3 DEF Overflow
  <2>2. Elements(<<f>> \o ovflist) = Elements(<<f>>) \cup Elements(ovflist)
    BY <1>1, Joined
  <2>3. <<f>> \o ovflist \in Seq(Fds)
    BY <1>1
  <2> QED
    BY <1>1, <2>1, <2>2, <2>3
<1> QED
  BY <1>2, <1>3

LEMMA Unlinking ==
  ASSUME rdllist \in Seq(Fds), Once(rdllist), NEW f, Unlink(f)
  PROVE  /\ rdllist' \in Seq(Fds) /\ Once(rdllist')
         /\ Elements(rdllist') = Elements(rdllist) \ {f}
  BY Deleted DEF Unlink

LEMMA Waking ==
  ASSUME NEW P, NEW p \in [Threads -> P], "woken" \in P, NEW q \in Wake(p)
  PROVE  /\ q \in [Threads -> P]
         /\ \A t \in Threads : q[t] = p[t] \/ (p[t] = "asleep" /\ q[t] = "woken")
         /\ \A t \in Threads : p[t] # "asleep" => q[t] = p[t]
         /\ (\A t \in Threads : p[t] # "asleep") \/ \E t \in Threads : q[t] = "woken"
<1> DEFINE Sleepers == {t \in Threads : p[t] = "asleep"}
<1>1. CASE Sleepers = {}
  BY <1>1 DEF Wake
<1>2. CASE Sleepers # {}
  <2>1. PICK u \in Sleepers : q = [p EXCEPT ![u] = "woken"]
    BY <1>2 DEF Wake
  <2> QED
    BY <2>1
<1> QED
  BY <1>1, <1>2

(* What a call or a scan in progress has in hand.                          *)
LEMMA InProgress ==
  ASSUME Typed, Locks, NEW t \in Threads
  PROVE  /\ pc[t] \in CtlPCs \cup {"put"} => cur[t] \in Fds
         /\ pc[t] \in CtlPCs => ~scanning /\ InHand = {} /\ mtx = {t}
         /\ pc[t] \in ScanPCs => scanning /\ mtx = {t}
         /\ pc[t] = "put" => InHand = {cur[t]}
         /\ pc[t] \in ScanPCs \ {"put"} => InHand = {}
         /\ mtx = {} => ~scanning /\ InHand = {} /\ pc[t] \notin CtlPCs \cup ScanPCs
<1> USE DEF Typed, Locks, CtlPCs, ScanPCs
<1>1. pc[t] \in CtlPCs \cup {"put"} => cur[t] \in Fds
  OBVIOUS
<1>2. InHand = {cur[u] : u \in {v \in mtx : pc[v] = "put"}}
  BY DEF InHand
<1> QED
  BY <1>1, <1>2

-------------------------------------------------------------------------------
LEMMA PollInit == Init => PollInv
<1> SUFFICES ASSUME Init PROVE PollInv
  OBVIOUS
<1> USE EmptyList DEF Init
<1>1. Typed
  <2>1. room \in [Threads -> 0 .. MaxEvents]
    BY EventPollAssumption
  <2>2. pc \in [Threads -> CtlPCs \cup WaitPCs \cup {"idle"}]
    OBVIOUS
  <2>3. /\ mode \in [Fds -> Modes \cup {"none"}]
        /\ events \in [Fds -> SUBSET Bits] /\ ready \in [Fds -> SUBSET Bits]
        /\ pend \in [Fds -> SUBSET (Bits \cup {NoKey})]
    OBVIOUS
  <2>4. /\ cur \in [Threads -> Fds \cup {NoFd}] /\ sent \in [Threads -> SUBSET Fds]
        /\ jtimeout \in [Threads -> {"zero", "finite", "forever"}]
    OBVIOUS
  <2> QED
    BY <2>1, <2>2, <2>3, <2>4 DEF Typed
<1>2. Locks
  BY DEF Locks, CtlPCs, ScanPCs
<1>3. InHand = {} /\ InCall({"hook", "unhook", "unlink"}) = {} /\ << >> \in Seq(Fds)
  BY DEF InHand, InCall
<1>4. Lists
  BY <1>3 DEF Lists
<1>5. Items
  BY DEF Items, CtlPCs
<1>6. ListedLive
  BY DEF ListedLive, Listed
<1>7. SomebodyLooks
  BY DEF SomebodyLooks
<1> QED
  BY <1>1, <1>2, <1>4, <1>5, <1>6, <1>7 DEF PollInv

LEMMA TypedStep == Typed /\ Locks /\ Lists /\ [Next]_vars => Typed'
<1> SUFFICES ASSUME Typed, Locks, Lists, [Next]_vars PROVE Typed'
  OBVIOUS
<1> USE EventPollAssumption DEF Typed, CtlPCs, ScanPCs, WaitPCs
<1>a. "woken" \in CtlPCs \cup WaitPCs \cup {"idle"}
  OBVIOUS
<1>b. ASSUME NEW t \in Threads, UNCHANGED waitVars \/ WaitReturns(t)
      PROVE  /\ jtimeout' \in [Threads -> {"zero", "finite", "forever"}]
             /\ room' \in [Threads -> 0 .. MaxEvents]
             /\ sent' \in [Threads -> SUBSET Fds] /\ signalled' \subseteq Threads
  <2>1. 0 \in 0 .. MaxEvents
    BY EventPollAssumption
  <2> QED
    BY <1>b, <2>1 DEF waitVars, WaitReturns
<1>1. CASE UNCHANGED vars
  BY <1>1 DEF vars, fileVars, itemVars, listVars, waitVars
<1>2. CASE Create
  BY <1>2 DEF Create, fileVars, itemVars, listVars, waitVars
<1>3. CASE Free
  BY <1>3 DEF Free, fileVars, itemVars, listVars, waitVars
<1>4. ASSUME NEW t \in Threads, NEW f \in Fds, CtlAdd(t, f)
      PROVE  Typed'
  <2>1. PICK ev \in Interests[f] : SetEvents(f, ev)
    BY <1>4 DEF CtlAdd
  <2>2. ev.mode \in Modes /\ ev.bits \cup {"err"} \subseteq Bits
    BY DEF Bits
  <2> QED
    BY <1>4, <2>1, <2>2 DEF CtlAdd, CtlBegin, SetEvents, Goto, fileVars, itemVars, listVars, waitVars
<1>5. ASSUME NEW t \in Threads, NEW f \in Fds, CtlDel(t, f)
      PROVE  Typed'
  BY <1>5 DEF CtlDel, FreeItem, fileVars, itemVars, listVars, waitVars
<1>6. ASSUME NEW t \in Threads, NEW f \in Fds, CtlMod(t, f)
      PROVE  Typed'
  <2>1. PICK ev \in Interests[f] : SetEvents(f, ev)
    BY <1>6 DEF CtlMod
  <2>2. ev.mode \in Modes /\ ev.bits \cup {"err"} \subseteq Bits
    BY DEF Bits
  <2> QED
    BY <1>6, <2>1, <2>2 DEF CtlMod, CtlBegin, SetEvents, Goto, fileVars, itemVars, listVars, waitVars
<1>7. ASSUME NEW t \in Threads, EpollWait(t)
      PROVE  Typed'
  BY <1>7 DEF EpollWait, Goto, fileVars, itemVars, listVars, waitVars
<1>8. ASSUME NEW t \in Threads, InsertHook(t)
      PROVE  Typed'
  <2>1. cur[t] \in Fds
    BY <1>8, InProgress DEF InsertHook
  <2> QED
    BY <1>8, <2>1 DEF InsertHook, Goto, fileVars, itemVars, listVars, waitVars
<1>9. ASSUME NEW t \in Threads, CtlPoll(t)
      PROVE  Typed'
  BY <1>9 DEF CtlPoll, Goto, fileVars, itemVars, listVars, waitVars
<1>10. ASSUME NEW t \in Threads, CtlLink(t)
       PROVE  Typed'
  <2>1. pc' \in [Threads -> CtlPCs \cup WaitPCs \cup {"idle"}]
    <3>1. CASE pc' \in Wake([pc EXCEPT ![t] = "idle"])
      <4>1. [pc EXCEPT ![t] = "idle"] \in [Threads -> CtlPCs \cup WaitPCs \cup {"idle"}]
        OBVIOUS
      <4> QED
        BY <1>a, <3>1, <4>1, Waking
    <3>2. CASE Goto(t, "idle")
      BY <3>2 DEF Goto
    <3> QED
      BY <1>10, <3>1, <3>2 DEF CtlLink
  <2>2. cur[t] \in Fds
    BY <1>10, InProgress DEF CtlLink
  <2> QED
    BY <1>10, <2>1, <2>2 DEF CtlLink, CtlReturns, Goto, fileVars, itemVars, listVars, waitVars
<1>11. ASSUME NEW t \in Threads, InsertUnhook(t)
       PROVE  Typed'
  BY <1>11 DEF InsertUnhook, Goto, fileVars, itemVars, listVars, waitVars
<1>12. ASSUME NEW t \in Threads, InsertUnlink(t)
       PROVE  Typed'
  BY <1>12 DEF InsertUnlink, FreeItem, CtlReturns, Goto, fileVars, itemVars, listVars, waitVars
<1>13. ASSUME NEW t \in Threads, PollLoop(t)
       PROVE  Typed'
  <2>1. pc' \in [Threads -> CtlPCs \cup WaitPCs \cup {"idle"}]
    BY <1>13 DEF PollLoop, Goto
  <2>2. UNCHANGED waitVars \/ WaitReturns(t)
    BY <1>13 DEF PollLoop
  <2>3. UNCHANGED <<fileVars, open, itemVars, listVars, mtx, cur>>
    BY <1>13 DEF PollLoop
  <2> QED
    BY <1>b, <2>1, <2>2, <2>3 DEF fileVars, itemVars, listVars
<1>14. ASSUME NEW t \in Threads, ScanStart(t)
       PROVE  Typed'
  BY <1>14 DEF ScanStart, OpenOverflow, Goto, fileVars, itemVars, listVars, waitVars
<1>15. ASSUME NEW t \in Threads, SendPoll(t)
       PROVE  Typed'
  <2>1. Head(txlist) \in Fds
    BY <1>15, HeadAndTail DEF SendPoll, Exhausted, Lists
  <2>2. /\ pc' \in [Threads -> CtlPCs \cup WaitPCs \cup {"idle"}]
        /\ cur' \in [Threads -> Fds \cup {NoFd}]
    <3>1. \/ pc' = [pc EXCEPT ![t] = "put"] /\ cur' = [cur EXCEPT ![t] = Head(txlist)]
          \/ pc' = pc /\ cur' = cur
      BY <1>15 DEF SendPoll, Goto
    <3> QED
      BY <2>1, <3>1
  <2> QED
    BY <1>15, <2>2 DEF SendPoll, Goto, fileVars, itemVars, listVars, waitVars
<1>16. ASSUME NEW t \in Threads, SendPut(t)
       PROVE  Typed'
  <2>1. cur[t] \in Fds
    BY <1>16, InProgress DEF SendPut
  <2> QED
    BY <1>16, <2>1 DEF SendPut, AfterReport, Goto, fileVars, itemVars, listVars, waitVars
<1>17. ASSUME NEW t \in Threads, ScanEnd(t)
       PROVE  Typed'
  <2>1. pc' \in [Threads -> CtlPCs \cup WaitPCs \cup {"idle"}]
    <3>1. PICK left \in [Threads -> CtlPCs \cup WaitPCs \cup {"idle"}] :
            pc' = left \/ pc' \in Wake(left)
      BY <1>17 DEF ScanEnd
    <3> QED
      BY <1>a, <3>1, Waking
  <2>2. UNCHANGED waitVars \/ WaitReturns(t)
    BY <1>17 DEF ScanEnd
  <2> QED
    BY <1>17, <1>b, <2>1, <2>2 DEF ScanEnd, fileVars, itemVars
<1>18. ASSUME NEW t \in Threads, InsertHookFails(t)
       PROVE  Typed'
  BY <1>18 DEF InsertHookFails, Goto, fileVars, itemVars, listVars, waitVars
<1>19. ASSUME NEW t \in Threads, TimeOut(t)
       PROVE  Typed'
  BY <1>19 DEF TimeOut, Goto, fileVars, itemVars, listVars, waitVars
<1>20. ASSUME NEW t \in Threads, Signal(t)
       PROVE  Typed'
  BY <1>20 DEF Signal, Goto, fileVars, itemVars, listVars, waitVars
<1>21. ASSUME NEW t \in Threads, SendFault(t)
       PROVE  Typed'
  BY <1>21 DEF SendFault, Goto, fileVars, itemVars, listVars, waitVars
<1>22. ASSUME NEW f \in Fds, NEW b \in Raised, NEW key \in Raised \cup {NoKey}, FileArrive(f, b, key)
       PROVE  Typed'
  BY <1>22 DEF FileArrive, fileVars, itemVars, listVars, waitVars
<1>23. ASSUME NEW f \in Fds, NEW b \in Raised, FileClear(f, b)
       PROVE  Typed'
  BY <1>23 DEF FileClear, fileVars, itemVars, listVars, waitVars
<1>24. ASSUME NEW f \in Fds, PollCallback(f)
       PROVE  Typed'
  <2>1. pc' \in [Threads -> CtlPCs \cup WaitPCs \cup {"idle"}]
    <3>1. pc' = pc \/ pc' \in Wake(pc)
      BY <1>24 DEF PollCallback
    <3>2. pc \in [Threads -> CtlPCs \cup WaitPCs \cup {"idle"}]
      OBVIOUS
    <3> HIDE DEF Typed, CtlPCs, ScanPCs, WaitPCs
    <3> QED
      BY <1>a, <3>1, <3>2, Waking
  <2> QED
    BY <1>24, <2>1 DEF PollCallback, fileVars, itemVars, listVars, waitVars
<1> QED
  BY <1>1, <1>2, <1>3, <1>4, <1>5, <1>6, <1>7, <1>8, <1>9, <1>10, <1>11, <1>12,
     <1>13, <1>14, <1>15, <1>16, <1>17, <1>18, <1>19, <1>20, <1>21, <1>22, <1>23, <1>24
  DEF Next, Syscall, Proceed

(* A thread goes on, and a sleeper may be woken.                           *)
LEMMA GoesOn ==
  ASSUME Typed, NEW t \in Threads, NEW next \in {"idle", "enter"},
         pc' = [pc EXCEPT ![t] = next] \/ pc' \in Wake([pc EXCEPT ![t] = next])
  PROVE  /\ pc'[t] = next
         /\ \A u \in Threads \ {t} : pc'[u] = pc[u] \/ (pc[u] = "asleep" /\ pc'[u] = "woken")
         /\ pc' \in Wake([pc EXCEPT ![t] = next]) =>
              \/ \A u \in Threads : pc'[u] # "asleep"
              \/ \E u \in Threads : pc'[u] = "woken"
<1> DEFINE P == CtlPCs \cup WaitPCs \cup {"idle"}
           p == [pc EXCEPT ![t] = next]
<1>1. p \in [Threads -> P] /\ p[t] = next /\ \A u \in Threads \ {t} : p[u] = pc[u]
  BY DEF Typed, WaitPCs
<1>2. "woken" \in P
  BY DEF WaitPCs
<1>3. next # "asleep"
  OBVIOUS
<1>4. pc' = p \/ pc' \in Wake(p)
  OBVIOUS
<1> HIDE DEF p, P
<1>5. ASSUME pc' \in Wake(p)
      PROVE  /\ \A u \in Threads : pc'[u] = p[u] \/ (p[u] = "asleep" /\ pc'[u] = "woken")
             /\ (\A u \in Threads : p[u] # "asleep") \/ \E u \in Threads : pc'[u] = "woken"
  BY <1>1, <1>2, <1>5, Waking
<1> QED
  BY <1>1, <1>3, <1>4, <1>5 DEF p

LEMMA Roused ==
  ASSUME Typed, pc' \in Wake(pc)
  PROVE  /\ \A u \in Threads : pc'[u] = pc[u] \/ (pc[u] = "asleep" /\ pc'[u] = "woken")
         /\ (\A u \in Threads : pc'[u] # "asleep") \/ \E u \in Threads : pc'[u] = "woken"
<1> DEFINE P == CtlPCs \cup WaitPCs \cup {"idle"}
<1>1. pc \in [Threads -> P] /\ "woken" \in P
  BY DEF Typed, WaitPCs
<1> HIDE DEF P
<1> QED
  BY <1>1, Waking

LEMMA LocksStep == Typed /\ Locks /\ Lists /\ [Next]_vars => Locks'
<1> SUFFICES ASSUME Typed, Locks, Lists, [Next]_vars PROVE Locks'
  OBVIOUS
<1> USE EventPollAssumption DEF Typed, Locks, CtlPCs, ScanPCs
<1>1. CASE UNCHANGED vars
  BY <1>1 DEF vars, fileVars, itemVars, listVars, waitVars
<1>2. CASE Create
  BY <1>2 DEF Create, fileVars, itemVars, listVars, waitVars
<1>3. CASE Free
  BY <1>3 DEF Free, fileVars, itemVars, listVars, waitVars
<1>4. ASSUME NEW t \in Threads, NEW f \in Fds, CtlAdd(t, f)
      PROVE  Locks'
  BY <1>4 DEF CtlAdd, CtlBegin, SetEvents, Goto, fileVars, itemVars, listVars, waitVars
<1>5. ASSUME NEW t \in Threads, NEW f \in Fds, CtlDel(t, f)
      PROVE  Locks'
  BY <1>5 DEF CtlDel, FreeItem, fileVars, itemVars, listVars, waitVars
<1>6. ASSUME NEW t \in Threads, NEW f \in Fds, CtlMod(t, f)
      PROVE  Locks'
  BY <1>6 DEF CtlMod, CtlBegin, SetEvents, Goto, fileVars, itemVars, listVars, waitVars
<1>7. ASSUME NEW t \in Threads, EpollWait(t)
      PROVE  Locks'
  BY <1>7 DEF EpollWait, Goto, fileVars, itemVars, listVars, waitVars
<1>8. ASSUME NEW t \in Threads, InsertHook(t)
      PROVE  Locks'
  BY <1>8 DEF InsertHook, Goto, fileVars, itemVars, listVars, waitVars
<1>9. ASSUME NEW t \in Threads, CtlPoll(t)
      PROVE  Locks'
  BY <1>9 DEF CtlPoll, Goto, fileVars, itemVars, listVars, waitVars
<1>10. ASSUME NEW t \in Threads, CtlLink(t)
       PROVE  Locks'
  <2>1. /\ pc'[t] = "idle" /\ mtx' = {}
        /\ \A u \in Threads \ {t} : pc'[u] = pc[u] \/ (pc[u] = "asleep" /\ pc'[u] = "woken")
    BY <1>10, GoesOn DEF CtlLink, Goto, CtlReturns
  <2>2. cur'[t] = NoFd /\ \A u \in Threads \ {t} : cur'[u] = cur[u]
    BY <1>10 DEF CtlLink, CtlReturns
  <2>3. mtx = {t} /\ ~scanning /\ scanning' = scanning /\ txlist' = txlist /\ ovflist' = ovflist
    BY <1>10, InProgress DEF CtlLink
  <2> QED
    BY <2>1, <2>2, <2>3
<1>11. ASSUME NEW t \in Threads, InsertUnhook(t)
       PROVE  Locks'
  BY <1>11 DEF InsertUnhook, Goto, fileVars, itemVars, listVars, waitVars
<1>12. ASSUME NEW t \in Threads, InsertUnlink(t)
       PROVE  Locks'
  BY <1>12 DEF InsertUnlink, FreeItem, CtlReturns, Goto, fileVars, itemVars, listVars, waitVars
<1>13. ASSUME NEW t \in Threads, PollLoop(t)
       PROVE  Locks'
  <2>1. \E next \in {"avail", "idle", "asleep"} : pc' = [pc EXCEPT ![t] = next]
    BY <1>13 DEF PollLoop, Goto
  <2>2. pc[t] \in {"enter", "woken"} /\ UNCHANGED <<mtx, cur, listVars>>
    BY <1>13 DEF PollLoop
  <2> QED
    BY <2>1, <2>2 DEF listVars
<1>14. ASSUME NEW t \in Threads, ScanStart(t)
       PROVE  Locks'
  <2>1. mtx' = {t} /\ scanning' /\ pc' = [pc EXCEPT ![t] = "send"] /\ cur' = cur
    BY <1>14 DEF ScanStart, OpenOverflow, Goto
  <2>2. mtx = {} /\ pc[t] = "avail"
    BY <1>14 DEF ScanStart
  <2> QED
    BY <2>1, <2>2
<1>15. ASSUME NEW t \in Threads, SendPoll(t)
       PROVE  Locks'
  <2>1. Head(txlist) \in Fds
    BY <1>15, HeadAndTail DEF SendPoll, Exhausted, Lists
  <2>2. mtx = {t} /\ scanning
    BY <1>15, InProgress DEF SendPoll
  <2>3. \/ pc' = [pc EXCEPT ![t] = "put"] /\ cur' = [cur EXCEPT ![t] = Head(txlist)]
        \/ pc' = pc /\ cur' = cur
    BY <1>15 DEF SendPoll, Goto
  <2>4. mtx' = mtx /\ scanning'
    BY <1>15, <2>2 DEF SendPoll
  <2> QED
    <3>1. CASE pc' = pc /\ cur' = cur
      BY <2>2, <2>4, <3>1
    <3>2. CASE pc' = [pc EXCEPT ![t] = "put"] /\ cur' = [cur EXCEPT ![t] = Head(txlist)]
      <4>1. pc'[t] = "put" /\ cur'[t] # NoFd /\ pc[t] = "send"
        BY <1>15, <2>1, <3>2 DEF SendPoll
      <4>2. \A u \in Threads \ {t} : pc'[u] = pc[u] /\ cur'[u] = cur[u]
        BY <3>2
      <4> QED
        BY <2>2, <2>4, <4>1, <4>2
    <3> QED
      BY <2>3, <3>1, <3>2
<1>16. ASSUME NEW t \in Threads, SendPut(t)
       PROVE  Locks'
  BY <1>16 DEF SendPut, AfterReport, Goto, fileVars, itemVars, listVars, waitVars
<1>17. ASSUME NEW t \in Threads, ScanEnd(t)
       PROVE  Locks'
  <2>1. PICK next \in {"idle", "enter"} :
          pc' = [pc EXCEPT ![t] = next] \/ pc' \in Wake([pc EXCEPT ![t] = next])
    BY <1>17 DEF ScanEnd
  <2>2. /\ pc'[t] = next /\ mtx' = {}
        /\ \A u \in Threads \ {t} : pc'[u] = pc[u] \/ (pc[u] = "asleep" /\ pc'[u] = "woken")
    <3>1. mtx' = {}
      BY <1>17 DEF ScanEnd
    <3> HIDE DEF Locks, CtlPCs, ScanPCs
    <3> QED
      BY <2>1, <3>1, GoesOn
  <2>3. mtx = {t} /\ ~scanning' /\ txlist' = << >> /\ ovflist' = << >> /\ cur' = cur
    BY <1>17, InProgress DEF ScanEnd
  <2>4. cur[t] = NoFd
    BY <1>17 DEF ScanEnd
  <2> QED
    BY <2>2, <2>3, <2>4
<1>18. ASSUME NEW t \in Threads, InsertHookFails(t)
       PROVE  Locks'
  BY <1>18 DEF InsertHookFails, Goto, fileVars, itemVars, listVars, waitVars
<1>19. ASSUME NEW t \in Threads, TimeOut(t)
       PROVE  Locks'
  BY <1>19 DEF TimeOut, Goto, fileVars, itemVars, listVars, waitVars
<1>20. ASSUME NEW t \in Threads, Signal(t)
       PROVE  Locks'
  BY <1>20 DEF Signal, Goto, fileVars, itemVars, listVars, waitVars
<1>21. ASSUME NEW t \in Threads, SendFault(t)
       PROVE  Locks'
  BY <1>21 DEF SendFault, Goto, fileVars, itemVars, listVars, waitVars
<1>22. ASSUME NEW f \in Fds, NEW b \in Raised, NEW key \in Raised \cup {NoKey}, FileArrive(f, b, key)
       PROVE  Locks'
  BY <1>22 DEF FileArrive, fileVars, itemVars, listVars, waitVars
<1>23. ASSUME NEW f \in Fds, NEW b \in Raised, FileClear(f, b)
       PROVE  Locks'
  BY <1>23 DEF FileClear, fileVars, itemVars, listVars, waitVars
<1>24. ASSUME NEW f \in Fds, PollCallback(f)
       PROVE  Locks'
  <2>1. mtx' = mtx /\ cur' = cur /\ scanning' = scanning /\ txlist' = txlist
    BY <1>24 DEF PollCallback
  <2>2. ~scanning => ovflist' = ovflist
    BY <1>24 DEF PollCallback
  <2>3. \A u \in Threads : pc'[u] = pc[u] \/ (pc[u] = "asleep" /\ pc'[u] = "woken")
    BY <1>24, Roused DEF PollCallback
  <2> QED
    BY <2>1, <2>2, <2>3
<1> QED
  BY <1>1, <1>2, <1>3, <1>4, <1>5, <1>6, <1>7, <1>8, <1>9, <1>10, <1>11, <1>12,
     <1>13, <1>14, <1>15, <1>16, <1>17, <1>18, <1>19, <1>20, <1>21, <1>22, <1>23, <1>24
  DEF Next, Syscall, Proceed

LEMMA ListsStep == Typed /\ Locks /\ Lists /\ [Next]_vars => Lists'
<1> SUFFICES ASSUME Typed, Locks, Lists, [Next]_vars PROVE Lists'
  OBVIOUS
<1> USE DEF Lists
<1>a. ASSUME \A u \in Threads : /\ pc'[u] = "put" <=> pc[u] = "put"
                                /\ pc[u] = "put" => cur'[u] = cur[u]
      PROVE  InHand' = InHand
  BY <1>a DEF InHand
<1>1. CASE UNCHANGED vars
  BY <1>1, <1>a DEF vars, listVars
<1>2. CASE Create
  BY <1>2, <1>a DEF Create, listVars
<1>3. CASE Free
  BY <1>3, <1>a, EmptyList DEF Free
<1>4. ASSUME NEW t \in Threads, NEW f \in Fds, CtlAdd(t, f)
      PROVE  Lists'
  <2>1. \A u \in Threads :
          /\ pc'[u] = "put" <=> pc[u] = "put"
          /\ pc[u] = "put" => cur'[u] = cur[u]
    <3>1. /\ pc[t] = "idle" /\ pc' = [pc EXCEPT ![t] = "hook"]
          /\ cur' = [cur EXCEPT ![t] = f]
      BY <1>4 DEF CtlAdd, CtlBegin, Goto
    <3> QED
      BY <3>1 DEF Typed
  <2>2. InHand' = InHand
    BY <1>a, <2>1
  <2>3. UNCHANGED <<rdllist, txlist, ovflist>>
    BY <1>4 DEF CtlAdd, listVars
  <2> QED
    BY <2>2, <2>3
<1>5. ASSUME NEW t \in Threads, NEW f \in Fds, CtlDel(t, f)
      PROVE  Lists'
  <2>1. UNCHANGED <<pc, cur, txlist, ovflist>> /\ Unlink(f)
    BY <1>5 DEF CtlDel
  <2> QED
    BY <1>a, <2>1, Unlinking
<1>6. ASSUME NEW t \in Threads, NEW f \in Fds, CtlMod(t, f)
      PROVE  Lists'
  <2>1. \A u \in Threads :
          /\ pc'[u] = "put" <=> pc[u] = "put"
          /\ pc[u] = "put" => cur'[u] = cur[u]
    <3>1. /\ pc[t] = "idle" /\ pc' = [pc EXCEPT ![t] = "repoll"]
          /\ cur' = [cur EXCEPT ![t] = f]
      BY <1>6 DEF CtlMod, CtlBegin, Goto
    <3> QED
      BY <3>1 DEF Typed
  <2>2. InHand' = InHand
    BY <1>a, <2>1
  <2>3. UNCHANGED <<rdllist, txlist, ovflist>>
    BY <1>6 DEF CtlMod, listVars
  <2> QED
    BY <2>2, <2>3
<1>7. ASSUME NEW t \in Threads, EpollWait(t)
      PROVE  Lists'
  <2>1. \A u \in Threads :
          /\ pc'[u] = "put" <=> pc[u] = "put"
          /\ pc[u] = "put" => cur'[u] = cur[u]
    BY <1>7 DEF Typed, WaitPCs, EpollWait, Goto
  <2>2. InHand' = InHand
    BY <1>a, <2>1
  <2>3. UNCHANGED <<rdllist, txlist, ovflist>>
    BY <1>7 DEF EpollWait, listVars
  <2> QED
    BY <2>2, <2>3
<1>8. ASSUME NEW t \in Threads, InsertHook(t)
      PROVE  Lists'
  <2>1. \A u \in Threads :
          /\ pc'[u] = "put" <=> pc[u] = "put"
          /\ pc[u] = "put" => cur'[u] = cur[u]
    BY <1>8 DEF Typed, WaitPCs, InsertHook, Goto
  <2>2. InHand' = InHand
    BY <1>a, <2>1
  <2>3. UNCHANGED <<rdllist, txlist, ovflist>>
    BY <1>8 DEF InsertHook, listVars
  <2> QED
    BY <2>2, <2>3
<1>9. ASSUME NEW t \in Threads, CtlPoll(t)
      PROVE  Lists'
  <2>1. \A u \in Threads :
          /\ pc'[u] = "put" <=> pc[u] = "put"
          /\ pc[u] = "put" => cur'[u] = cur[u]
    BY <1>9 DEF Typed, WaitPCs, CtlPoll, Goto
  <2>2. InHand' = InHand
    BY <1>a, <2>1
  <2>3. UNCHANGED <<rdllist, txlist, ovflist>>
    BY <1>9 DEF CtlPoll, listVars
  <2> QED
    BY <2>2, <2>3
<1>10. ASSUME NEW t \in Threads, CtlLink(t)
       PROVE  Lists'
  <2>1. cur[t] \in Fds /\ InHand = {} /\ txlist = << >> /\ UNCHANGED <<txlist, ovflist>>
    BY <1>10, InProgress DEF CtlLink, CtlPCs, Locks
  <2>2. InHand' = {}
    <3>1. pc' = [pc EXCEPT ![t] = "idle"] \/ pc' \in Wake([pc EXCEPT ![t] = "idle"])
      BY <1>10 DEF CtlLink, Goto
    <3>2. \A u \in Threads : pc'[u] # "put"
      <4>1. \A u \in Threads : pc[u] # "put"
        BY <2>1 DEF InHand
      <4> QED
        BY <3>1, <4>1, GoesOn
    <3> QED
      BY <3>2 DEF InHand
  <2>3. rdllist' = rdllist \/ Link(cur[t])
    BY <1>10 DEF CtlLink
  <2> QED
    BY <2>1, <2>2, <2>3, Linking, EmptyList
<1>11. ASSUME NEW t \in Threads, InsertUnhook(t)
       PROVE  Lists'
  <2>1. \A u \in Threads :
          /\ pc'[u] = "put" <=> pc[u] = "put"
          /\ pc[u] = "put" => cur'[u] = cur[u]
    BY <1>11 DEF Typed, WaitPCs, InsertUnhook, Goto
  <2>2. InHand' = InHand
    BY <1>a, <2>1
  <2>3. UNCHANGED <<rdllist, txlist, ovflist>>
    BY <1>11 DEF InsertUnhook, listVars
  <2> QED
    BY <2>2, <2>3
<1>12. ASSUME NEW t \in Threads, InsertUnlink(t)
       PROVE  Lists'
  <2>1. InHand = {} /\ Unlink(cur[t]) /\ UNCHANGED <<txlist, ovflist>>
    BY <1>12, InProgress DEF InsertUnlink, CtlPCs
  <2>2. pc' = [pc EXCEPT ![t] = "idle"]
    BY <1>12 DEF InsertUnlink, Goto
  <2>3. InHand' = {}
    BY <2>1, <2>2 DEF InHand, Typed
  <2> QED
    BY <2>1, <2>3, Unlinking
<1>13. ASSUME NEW t \in Threads, PollLoop(t)
       PROVE  Lists'
  <2>1. \A u \in Threads :
          /\ pc'[u] = "put" <=> pc[u] = "put"
          /\ pc[u] = "put" => cur'[u] = cur[u]
    BY <1>13 DEF Typed, WaitPCs, PollLoop, WaitReturns, Goto
  <2>2. InHand' = InHand
    BY <1>a, <2>1
  <2>3. UNCHANGED <<rdllist, txlist, ovflist>>
    BY <1>13 DEF PollLoop, listVars
  <2> QED
    BY <2>2, <2>3
<1>14. ASSUME NEW t \in Threads, ScanStart(t)
       PROVE  Lists'
  <2>1. pc' = [pc EXCEPT ![t] = "send"] /\ mtx = {}
    BY <1>14 DEF ScanStart, Goto
  <2>2. InHand' = {}
    BY <2>1, InProgress DEF InHand, Typed
  <2>3. rdllist' = << >> /\ txlist' = rdllist /\ ovflist' = ovflist
    BY <1>14 DEF ScanStart
  <2> QED
    BY <2>2, <2>3, EmptyList
<1>15. ASSUME NEW t \in Threads, SendPoll(t)
       PROVE  Lists'
  <2> DEFINE h == Head(txlist)
  <2>1. txlist # << >> /\ txlist' = Tail(txlist) /\ UNCHANGED <<rdllist, ovflist>> /\ pc[t] = "send"
    BY <1>15 DEF SendPoll, Exhausted
  <2>2. /\ h \in Elements(txlist) /\ txlist' \in Seq(Fds) /\ Once(txlist')
        /\ Elements(txlist') = Elements(txlist) \ {h}
    BY <2>1, HeadAndTail
  <2>3. InHand = {}
    BY <2>1, InProgress DEF ScanPCs
  <2>4. \/ pc' = [pc EXCEPT ![t] = "put"] /\ cur' = [cur EXCEPT ![t] = h]
        \/ pc' = pc /\ cur' = cur
    BY <1>15 DEF SendPoll, Goto
  <2>5. InHand' \subseteq {h}
    <3>1. \A u \in Threads : pc[u] # "put"
      BY <2>3 DEF InHand
    <3>2. \A u \in Threads : pc'[u] = "put" => cur'[u] = h
      BY <2>4, <3>1 DEF Typed
    <3> QED
      BY <3>2 DEF InHand
  <2> QED
    BY <2>1, <2>2, <2>5
<1>16. ASSUME NEW t \in Threads, SendPut(t)
       PROVE  Lists'
  <2>1. InHand = {cur[t]} /\ cur[t] \in Fds
    BY <1>16, InProgress DEF SendPut
  <2>2. pc' = [pc EXCEPT ![t] = "send"] /\ UNCHANGED <<txlist, ovflist>>
    BY <1>16 DEF SendPut, Goto
  <2>3. InHand' = {}
    <3>1. \A u \in Threads \ {t} : pc[u] # "put"
      BY <1>16, InProgress DEF SendPut, Locks, ScanPCs
    <3> QED
      BY <2>2, <3>1 DEF InHand, Typed
  <2>4. rdllist' = rdllist \/ rdllist' = Append(rdllist, cur[t])
    BY <1>16 DEF SendPut, AfterReport
  <2>5. cur[t] \notin Elements(rdllist) /\ cur[t] \notin Elements(txlist)
    BY <2>1
  <2>6. CASE rdllist' = Append(rdllist, cur[t])
    <3>1. /\ rdllist' \in Seq(Fds) /\ Once(rdllist')
          /\ Elements(rdllist') = Elements(rdllist) \cup {cur[t]}
      BY <2>1, <2>5, <2>6, Appended
    <3> QED
      BY <2>2, <2>3, <2>5, <3>1
  <2> QED
    BY <2>2, <2>3, <2>4, <2>6
<1>17. ASSUME NEW t \in Threads, ScanEnd(t)
       PROVE  Lists'
  <2>1. InHand = {}
    BY <1>17, InProgress DEF ScanEnd, ScanPCs
  <2>2. PICK next \in {"idle", "enter"} :
          pc' = [pc EXCEPT ![t] = next] \/ pc' \in Wake([pc EXCEPT ![t] = next])
    BY <1>17 DEF ScanEnd
  <2>3. InHand' = {}
    <3>1. \A u \in Threads : pc'[u] # "put"
      <4>1. \A u \in Threads : pc[u] # "put"
        BY <2>1 DEF InHand
      <4> QED
        BY <2>2, <4>1, GoesOn
    <3> QED
      BY <3>1 DEF InHand
  <2>4. rdllist' = Merged /\ txlist' = << >> /\ ovflist' = << >>
    BY <1>17 DEF ScanEnd
  <2>5. Once(rdllist \o txlist)
    BY Joined
  <2> QED
    BY <2>3, <2>4, <2>5, MergedKeeps, EmptyList
<1>18. ASSUME NEW t \in Threads, InsertHookFails(t)
       PROVE  Lists'
  <2>1. \A u \in Threads :
          /\ pc'[u] = "put" <=> pc[u] = "put"
          /\ pc[u] = "put" => cur'[u] = cur[u]
    BY <1>18 DEF Typed, WaitPCs, InsertHookFails, Goto
  <2>2. InHand' = InHand
    BY <1>a, <2>1
  <2>3. UNCHANGED <<rdllist, txlist, ovflist>>
    BY <1>18 DEF InsertHookFails, listVars
  <2> QED
    BY <2>2, <2>3
<1>19. ASSUME NEW t \in Threads, TimeOut(t)
       PROVE  Lists'
  <2>1. \A u \in Threads :
          /\ pc'[u] = "put" <=> pc[u] = "put"
          /\ pc[u] = "put" => cur'[u] = cur[u]
    BY <1>19 DEF Typed, WaitPCs, TimeOut, Goto
  <2>2. InHand' = InHand
    BY <1>a, <2>1
  <2>3. UNCHANGED <<rdllist, txlist, ovflist>>
    BY <1>19 DEF TimeOut, listVars
  <2> QED
    BY <2>2, <2>3
<1>20. ASSUME NEW t \in Threads, Signal(t)
       PROVE  Lists'
  <2>1. \A u \in Threads :
          /\ pc'[u] = "put" <=> pc[u] = "put"
          /\ pc[u] = "put" => cur'[u] = cur[u]
    BY <1>20 DEF Typed, WaitPCs, Signal, Goto
  <2>2. InHand' = InHand
    BY <1>a, <2>1
  <2>3. UNCHANGED <<rdllist, txlist, ovflist>>
    BY <1>20 DEF Signal, listVars
  <2> QED
    BY <2>2, <2>3
<1>21. ASSUME NEW t \in Threads, SendFault(t)
       PROVE  Lists'
  <2>1. InHand = {cur[t]} /\ cur[t] \in Fds
    BY <1>21, InProgress DEF SendFault
  <2>2. /\ pc' = [pc EXCEPT ![t] = "fault"] /\ UNCHANGED <<rdllist, ovflist>>
        /\ txlist' = <<cur[t]>> \o txlist
    BY <1>21 DEF SendFault, Goto
  <2>3. InHand' = {}
    <3>1. \A u \in Threads \ {t} : pc[u] # "put"
      BY <1>21, InProgress DEF SendFault, Locks, ScanPCs
    <3> QED
      BY <2>2, <3>1 DEF InHand, Typed
  <2>4. <<cur[t]>> \in Seq(Fds) /\ Elements(<<cur[t]>>) = {cur[t]} /\ Once(<<cur[t]>>)
    BY <2>1 DEF Elements, Once
  <2>5. /\ txlist' \in Seq(Fds) /\ Elements(txlist') = {cur[t]} \cup Elements(txlist)
        /\ Once(txlist')
    <3>1. {cur[t]} \cap Elements(txlist) = {}
      BY <2>1
    <3> QED
      BY <2>2, <2>4, <3>1, Joined
  <2> QED
    BY <2>1, <2>2, <2>3, <2>5
<1>22. ASSUME NEW f \in Fds, NEW b \in Raised, NEW key \in Raised \cup {NoKey}, FileArrive(f, b, key)
       PROVE  Lists'
  BY <1>22, <1>a DEF FileArrive, listVars
<1>23. ASSUME NEW f \in Fds, NEW b \in Raised, FileClear(f, b)
       PROVE  Lists'
  BY <1>23, <1>a DEF FileClear, listVars
<1>24. ASSUME NEW f \in Fds, PollCallback(f)
       PROVE  Lists'
  <2>1. UNCHANGED <<cur, txlist>>
    BY <1>24 DEF PollCallback
  <2>2. \A u \in Threads : pc'[u] = pc[u] \/ (pc[u] = "asleep" /\ pc'[u] = "woken")
    BY <1>24, Roused DEF PollCallback
  <2>3. InHand' = InHand
    BY <1>a, <2>1, <2>2
  <2>4. CASE scanning
    <3>1. rdllist' = rdllist /\ (ovflist' = ovflist \/ Overflow(f))
      BY <1>24, <2>4 DEF PollCallback
    <3> QED
      BY <2>1, <2>3, <3>1, Overflowing
  <2>5. CASE ~scanning
    <3>1. ovflist' = ovflist /\ (rdllist' = rdllist \/ Link(f))
      BY <1>24, <2>5 DEF PollCallback
    <3>2. txlist = << >> /\ InHand = {}
      BY <2>5 DEF InHand, Locks, ScanPCs
    <3> QED
      BY <2>1, <2>3, <3>1, <3>2, Linking, EmptyList
  <2> QED
    BY <2>4, <2>5
<1> QED
  BY <1>1, <1>2, <1>3, <1>4, <1>5, <1>6, <1>7, <1>8, <1>9, <1>10, <1>11, <1>12,
     <1>13, <1>14, <1>15, <1>16, <1>17, <1>18, <1>19, <1>20, <1>21, <1>22, <1>23, <1>24
  DEF Next, Syscall, Proceed

LEMMA ItemsStep == Typed /\ Locks /\ Lists /\ Items /\ [Next]_vars => Items'
<1> SUFFICES ASSUME Typed, Locks, Lists, Items, [Next]_vars PROVE Items'
  OBVIOUS
<1>q. ASSUME UNCHANGED <<mode, events, hooked, rbr>>,
             \A u \in Threads :
               /\ pc'[u] \in CtlPCs \cup {"put"} => pc'[u] = pc[u] /\ cur'[u] = cur[u]
               /\ pc[u] \in CtlPCs => pc'[u] = pc[u] /\ cur'[u] = cur[u]
      PROVE  Items'
  <2>1. InCall({"hook", "unhook", "unlink"})' = InCall({"hook", "unhook", "unlink"})
    BY <1>q DEF InCall, CtlPCs
  <2> QED
    BY <1>q, <2>1 DEF Items, CtlPCs
<1>s. ASSUME NEW t \in Threads, pc[t] \in CtlPCs \cup ScanPCs
      PROVE  \A u \in Threads \ {t} : pc[u] \notin CtlPCs \cup {"put"}
  BY <1>s DEF Locks, CtlPCs, ScanPCs
<1>n. ASSUME mtx = {} PROVE \A u \in Threads : pc[u] \notin CtlPCs \cup {"put"}
  BY <1>n DEF Locks, CtlPCs, ScanPCs
<1>1. CASE UNCHANGED vars
  <2>1. \A u \in Threads :
          /\ pc'[u] \in CtlPCs \cup {"put"} => pc'[u] = pc[u] /\ cur'[u] = cur[u]
          /\ pc[u] \in CtlPCs => pc'[u] = pc[u] /\ cur'[u] = cur[u]
    BY <1>1 DEF Typed, WaitPCs, CtlPCs, vars
  <2>2. UNCHANGED <<mode, events, hooked, rbr>>
    BY <1>1 DEF vars, itemVars
  <2> QED
    BY <1>q, <2>1, <2>2
<1>2. CASE Create
  <2>1. \A u \in Threads :
          /\ pc'[u] \in CtlPCs \cup {"put"} => pc'[u] = pc[u] /\ cur'[u] = cur[u]
          /\ pc[u] \in CtlPCs => pc'[u] = pc[u] /\ cur'[u] = cur[u]
    BY <1>2 DEF Typed, WaitPCs, CtlPCs, Create
  <2>2. UNCHANGED <<mode, events, hooked, rbr>>
    BY <1>2 DEF Create, itemVars
  <2> QED
    BY <1>q, <2>1, <2>2
<1>3. CASE Free
  <2>1. \A u \in Threads : pc'[u] = "idle"
    BY <1>3 DEF Free
  <2>2. /\ hooked' = {} /\ rbr' = {}
        /\ \A f \in Fds : mode'[f] = "none" /\ events'[f] = {}
    BY <1>3 DEF Free
  <2> QED
    BY <2>1, <2>2 DEF Items, CtlPCs
<1>4. ASSUME NEW t \in Threads, NEW f \in Fds, CtlAdd(t, f)
      PROVE  Items'
  <2>1. /\ pc' = [pc EXCEPT ![t] = "hook"] /\ cur' = [cur EXCEPT ![t] = f]
        /\ UNCHANGED <<hooked, rbr>> /\ mtx = {} /\ f \notin rbr
    BY <1>4 DEF CtlAdd, CtlBegin, Goto
  <2>2. PICK ev \in Interests[f] : SetEvents(f, ev)
    BY <1>4 DEF CtlAdd
  <2>3. ev.mode # "none"
    BY EventPollAssumption DEF Modes
  <2>4. /\ pc'[t] = "hook" /\ cur'[t] = f
        /\ \A u \in Threads \ {t} : pc'[u] = pc[u]
    BY <2>1 DEF Typed
  <2>5. /\ mode'[f] # "none"
        /\ \A g \in Fds \ {f} : mode'[g] = mode[g] /\ events'[g] = events[g]
    BY <2>2, <2>3 DEF SetEvents, Typed
  <2>6. \A u \in Threads : pc[u] \notin CtlPCs \cup {"put"}
    BY <1>n, <2>1
  <2>7. InCall({"hook", "unhook", "unlink"})' = {f}
    BY <2>4, <2>6 DEF InCall, CtlPCs
  <2>8. InCall({"hook", "unhook", "unlink"}) = {}
    BY <2>6 DEF InCall, CtlPCs
  <2> QED
    BY <2>1, <2>4, <2>5, <2>6, <2>7, <2>8 DEF Items, CtlPCs
<1>5. ASSUME NEW t \in Threads, NEW f \in Fds, CtlDel(t, f)
      PROVE  Items'
  <2>1. /\ UNCHANGED <<pc, cur>> /\ mtx = {}
        /\ hooked' = hooked \ {f} /\ rbr' = rbr \ {f}
    BY <1>5 DEF CtlDel
  <2>2. /\ mode'[f] = "none" /\ events'[f] = {}
        /\ \A g \in Fds \ {f} : mode'[g] = mode[g] /\ events'[g] = events[g]
    BY <1>5 DEF CtlDel, FreeItem, Typed
  <2>3. \A u \in Threads : pc[u] \notin CtlPCs \cup {"put"}
    BY <1>n, <2>1
  <2>4. InCall({"hook", "unhook", "unlink"}) = {}
    BY <2>3 DEF InCall, CtlPCs
  <2> QED
    BY <2>1, <2>2, <2>3, <2>4 DEF Items, CtlPCs
<1>6. ASSUME NEW t \in Threads, NEW f \in Fds, CtlMod(t, f)
      PROVE  Items'
  <2>1. /\ pc' = [pc EXCEPT ![t] = "repoll"] /\ cur' = [cur EXCEPT ![t] = f]
        /\ UNCHANGED <<hooked, rbr>> /\ mtx = {} /\ f \in rbr
    BY <1>6 DEF CtlMod, CtlBegin, Goto
  <2>2. PICK ev \in Interests[f] : SetEvents(f, ev)
    BY <1>6 DEF CtlMod
  <2>3. ev.mode # "none"
    BY EventPollAssumption DEF Modes
  <2>4. /\ pc'[t] = "repoll" /\ cur'[t] = f
        /\ \A u \in Threads \ {t} : pc'[u] = pc[u]
    BY <2>1 DEF Typed
  <2>5. /\ mode'[f] # "none"
        /\ \A g \in Fds \ {f} : mode'[g] = mode[g] /\ events'[g] = events[g]
    BY <2>2, <2>3 DEF SetEvents, Typed
  <2>6. \A u \in Threads : pc[u] \notin CtlPCs \cup {"put"}
    BY <1>n, <2>1
  <2>7. InCall({"hook", "unhook", "unlink"}) = {}
    BY <2>6 DEF InCall, CtlPCs
  <2> QED
    BY <2>1, <2>4, <2>5, <2>6, <2>7 DEF Items, CtlPCs
<1>7. ASSUME NEW t \in Threads, EpollWait(t)
      PROVE  Items'
  <2>1. \A u \in Threads :
          /\ pc'[u] \in CtlPCs \cup {"put"} => pc'[u] = pc[u] /\ cur'[u] = cur[u]
          /\ pc[u] \in CtlPCs => pc'[u] = pc[u] /\ cur'[u] = cur[u]
    BY <1>7 DEF Typed, WaitPCs, CtlPCs, EpollWait, Goto
  <2>2. UNCHANGED <<mode, events, hooked, rbr>>
    BY <1>7 DEF EpollWait, itemVars
  <2> QED
    BY <1>q, <2>1, <2>2
<1>8. ASSUME NEW t \in Threads, InsertHook(t)
      PROVE  Items'
  <2>1. /\ pc[t] \in {"hook"} /\ pc'[t] \in {"poll"} /\ UNCHANGED cur
        /\ \A u \in Threads \ {t} : pc'[u] = pc[u]
    BY <1>8 DEF InsertHook, Goto, Typed
  <2>2. \A u \in Threads \ {t} : pc[u] \notin CtlPCs \cup {"put"}
    BY <1>s, <2>1 DEF CtlPCs
  <2>3. cur[t] \in Fds
    BY <2>1, InProgress DEF CtlPCs
  <2>4. hooked' = hooked \cup {cur[t]} /\ UNCHANGED <<mode, events, rbr>>
    BY <1>8 DEF InsertHook
  <2>5. \A f \in Fds : f \in InCall({"hook", "unhook", "unlink"})' <=>
                       f = cur[t] /\ pc'[t] \in {"hook", "unhook", "unlink"}
    BY <2>1, <2>2 DEF InCall, CtlPCs
  <2>6. \A f \in Fds : f \in InCall({"hook", "unhook", "unlink"}) <=>
                       f = cur[t] /\ pc[t] \in {"hook", "unhook", "unlink"}
    BY <2>1, <2>2 DEF InCall, CtlPCs
  <2> QED
    BY <2>1, <2>2, <2>3, <2>4, <2>5, <2>6 DEF Items, CtlPCs
<1>9. ASSUME NEW t \in Threads, CtlPoll(t)
      PROVE  Items'
  <2>1. /\ pc[t] \in {"poll", "repoll"} /\ pc'[t] \in {"link", "insert"} /\ UNCHANGED cur
        /\ \A u \in Threads \ {t} : pc'[u] = pc[u]
    BY <1>9 DEF CtlPoll, Goto, Typed
  <2>2. \A u \in Threads \ {t} : pc[u] \notin CtlPCs \cup {"put"}
    BY <1>s, <2>1 DEF CtlPCs
  <2>3. cur[t] \in Fds
    BY <2>1, InProgress DEF CtlPCs
  <2>4. UNCHANGED <<mode, events, hooked, rbr>>
    BY <1>9 DEF CtlPoll, itemVars
  <2>5. \A f \in Fds : f \in InCall({"hook", "unhook", "unlink"})' <=>
                       f = cur[t] /\ pc'[t] \in {"hook", "unhook", "unlink"}
    BY <2>1, <2>2 DEF InCall, CtlPCs
  <2>6. \A f \in Fds : f \in InCall({"hook", "unhook", "unlink"}) <=>
                       f = cur[t] /\ pc[t] \in {"hook", "unhook", "unlink"}
    BY <2>1, <2>2 DEF InCall, CtlPCs
  <2> QED
    BY <2>1, <2>2, <2>3, <2>4, <2>5, <2>6 DEF Items, CtlPCs
<1>10. ASSUME NEW t \in Threads, CtlLink(t)
       PROVE  Items'
  <2>1. /\ pc'[t] = "idle" /\ pc[t] \in {"link", "insert"}
        /\ \A u \in Threads \ {t} : pc'[u] = pc[u] \/ (pc[u] = "asleep" /\ pc'[u] = "woken")
    BY <1>10, GoesOn DEF CtlLink, Goto
  <2>2. \A u \in Threads \ {t} : pc[u] \notin CtlPCs \cup {"put"}
    BY <1>s, <2>1 DEF CtlPCs
  <2>3. rbr' = rbr \cup {cur[t]} /\ UNCHANGED <<mode, events, hooked>>
    BY <1>10 DEF CtlLink
  <2>4. \A u \in Threads : pc'[u] \notin CtlPCs \cup {"put"}
    BY <2>1, <2>2 DEF CtlPCs
  <2>5. InCall({"hook", "unhook", "unlink"}) = {}
    BY <2>1, <2>2 DEF InCall, CtlPCs
  <2> QED
    BY <2>1, <2>3, <2>4, <2>5 DEF Items, CtlPCs
<1>11. ASSUME NEW t \in Threads, InsertUnhook(t)
       PROVE  Items'
  <2>1. /\ pc[t] \in {"unhook"} /\ pc'[t] \in {"unlink"} /\ UNCHANGED cur
        /\ \A u \in Threads \ {t} : pc'[u] = pc[u]
    BY <1>11 DEF InsertUnhook, Goto, Typed
  <2>2. \A u \in Threads \ {t} : pc[u] \notin CtlPCs \cup {"put"}
    BY <1>s, <2>1 DEF CtlPCs
  <2>3. cur[t] \in Fds
    BY <2>1, InProgress DEF CtlPCs
  <2>4. hooked' = hooked \ {cur[t]} /\ UNCHANGED <<mode, events, rbr>>
    BY <1>11 DEF InsertUnhook
  <2>5. \A f \in Fds : f \in InCall({"hook", "unhook", "unlink"})' <=>
                       f = cur[t] /\ pc'[t] \in {"hook", "unhook", "unlink"}
    BY <2>1, <2>2 DEF InCall, CtlPCs
  <2>6. \A f \in Fds : f \in InCall({"hook", "unhook", "unlink"}) <=>
                       f = cur[t] /\ pc[t] \in {"hook", "unhook", "unlink"}
    BY <2>1, <2>2 DEF InCall, CtlPCs
  <2> QED
    BY <2>1, <2>2, <2>3, <2>4, <2>5, <2>6 DEF Items, CtlPCs
<1>12. ASSUME NEW t \in Threads, InsertUnlink(t)
       PROVE  Items'
  <2>1. /\ pc[t] = "unlink" /\ pc' = [pc EXCEPT ![t] = "idle"]
        /\ UNCHANGED <<hooked, rbr>>
    BY <1>12 DEF InsertUnlink, Goto
  <2>2. \A u \in Threads \ {t} : pc[u] \notin CtlPCs \cup {"put"}
    BY <1>s, <2>1 DEF CtlPCs
  <2>3. cur[t] \in Fds
    BY <2>1, InProgress DEF CtlPCs
  <2>4. /\ mode'[cur[t]] = "none" /\ events'[cur[t]] = {}
        /\ \A g \in Fds \ {cur[t]} : mode'[g] = mode[g] /\ events'[g] = events[g]
    BY <1>12, <2>3 DEF InsertUnlink, FreeItem, Typed
  <2>5. \A u \in Threads : pc'[u] \notin CtlPCs \cup {"put"}
    BY <2>1, <2>2 DEF CtlPCs, Typed
  <2>6. InCall({"hook", "unhook", "unlink"}) \subseteq {cur[t]}
    BY <2>1, <2>2 DEF InCall, CtlPCs
  <2> QED
    BY <2>1, <2>4, <2>5, <2>6 DEF Items, CtlPCs
<1>13. ASSUME NEW t \in Threads, PollLoop(t)
       PROVE  Items'
  <2>1. \E next \in {"avail", "idle", "asleep"} : pc' = [pc EXCEPT ![t] = next]
    BY <1>13 DEF PollLoop, Goto
  <2>2. pc[t] \in {"enter", "woken"} /\ UNCHANGED <<cur, mode, events, hooked, rbr>>
    BY <1>13 DEF PollLoop, itemVars
  <2>3. \A u \in Threads :
          /\ pc'[u] \in CtlPCs \cup {"put"} => pc'[u] = pc[u] /\ cur'[u] = cur[u]
          /\ pc[u] \in CtlPCs => pc'[u] = pc[u] /\ cur'[u] = cur[u]
    BY <2>1, <2>2 DEF Typed, CtlPCs
  <2> QED
    BY <1>q, <2>2, <2>3
<1>14. ASSUME NEW t \in Threads, ScanStart(t)
       PROVE  Items'
  <2>1. \A u \in Threads :
          /\ pc'[u] \in CtlPCs \cup {"put"} => pc'[u] = pc[u] /\ cur'[u] = cur[u]
          /\ pc[u] \in CtlPCs => pc'[u] = pc[u] /\ cur'[u] = cur[u]
    BY <1>14 DEF Typed, WaitPCs, CtlPCs, ScanStart, Goto
  <2>2. UNCHANGED <<mode, events, hooked, rbr>>
    BY <1>14 DEF ScanStart, itemVars
  <2> QED
    BY <1>q, <2>1, <2>2
<1>15. ASSUME NEW t \in Threads, SendPoll(t)
       PROVE  Items'
  <2> DEFINE h == Head(txlist)
  <2>1. h \in Fds /\ UNCHANGED <<mode, events, hooked, rbr>> /\ pc[t] = "send"
    BY <1>15, HeadAndTail DEF SendPoll, Exhausted, Lists, itemVars
  <2>2. CASE UNCHANGED <<pc, cur>>
    BY <1>q, <2>1, <2>2
  <2>3. CASE pc' = [pc EXCEPT ![t] = "put"] /\ cur' = [cur EXCEPT ![t] = h] /\ events[h] # {}
    <3>1. pc'[t] = "put" /\ cur'[t] = h /\ \A u \in Threads \ {t} : pc'[u] = pc[u] /\ cur'[u] = cur[u]
      BY <2>3 DEF Typed
    <3>2. \A u \in Threads : pc[u] \notin CtlPCs \cup {"put"}
      BY <1>s, <2>1 DEF CtlPCs, ScanPCs
    <3>3. InCall({"hook", "unhook", "unlink"}) = {}
      BY <3>2 DEF InCall, CtlPCs
    <3> QED
      BY <2>1, <2>3, <3>1, <3>2, <3>3 DEF Items, CtlPCs
  <2> QED
    BY <1>15, <2>2, <2>3 DEF SendPoll, Goto
<1>16. ASSUME NEW t \in Threads, SendPut(t)
       PROVE  Items'
  <2>1. /\ pc[t] = "put" /\ pc' = [pc EXCEPT ![t] = "send"] /\ UNCHANGED <<mode, hooked, rbr>>
    BY <1>16 DEF SendPut, Goto
  <2>2. \A u \in Threads \ {t} : pc[u] \notin CtlPCs \cup {"put"}
    BY <1>s, <2>1 DEF ScanPCs
  <2>3. \A u \in Threads : pc'[u] \notin CtlPCs \cup {"put"}
    BY <2>1, <2>2 DEF CtlPCs, Typed
  <2>4. \A f \in Fds : events'[f] = events[f] \/ events'[f] = {}
    BY <1>16 DEF SendPut, AfterReport, Typed
  <2>5. InCall({"hook", "unhook", "unlink"}) = {}
    BY <2>1, <2>2 DEF InCall, CtlPCs
  <2> QED
    BY <2>1, <2>3, <2>4, <2>5 DEF Items, CtlPCs
<1>17. ASSUME NEW t \in Threads, ScanEnd(t)
       PROVE  Items'
  <2>1. PICK next \in {"idle", "enter"} :
          pc' = [pc EXCEPT ![t] = next] \/ pc' \in Wake([pc EXCEPT ![t] = next])
    BY <1>17 DEF ScanEnd
  <2>2. /\ pc'[t] = next
        /\ \A u \in Threads \ {t} : pc'[u] = pc[u] \/ (pc[u] = "asleep" /\ pc'[u] = "woken")
    BY <2>1, GoesOn
  <2>3. pc[t] \in {"send", "fault"} /\ UNCHANGED <<cur, mode, events, hooked, rbr>>
    BY <1>17 DEF ScanEnd, itemVars
  <2>4. \A u \in Threads :
          /\ pc'[u] \in CtlPCs \cup {"put"} => pc'[u] = pc[u] /\ cur'[u] = cur[u]
          /\ pc[u] \in CtlPCs => pc'[u] = pc[u] /\ cur'[u] = cur[u]
    BY <2>2, <2>3 DEF CtlPCs
  <2> QED
    BY <1>q, <2>3, <2>4
<1>18. ASSUME NEW t \in Threads, InsertHookFails(t)
       PROVE  Items'
  <2>1. /\ pc[t] \in {"hook", "poll"} /\ pc'[t] \in {"unhook"} /\ UNCHANGED cur
        /\ \A u \in Threads \ {t} : pc'[u] = pc[u]
    BY <1>18 DEF InsertHookFails, Goto, Typed
  <2>2. \A u \in Threads \ {t} : pc[u] \notin CtlPCs \cup {"put"}
    BY <1>s, <2>1 DEF CtlPCs
  <2>3. cur[t] \in Fds
    BY <2>1, InProgress DEF CtlPCs
  <2>4. UNCHANGED <<mode, events, hooked, rbr>>
    BY <1>18 DEF InsertHookFails, itemVars
  <2>5. \A f \in Fds : f \in InCall({"hook", "unhook", "unlink"})' <=>
                       f = cur[t] /\ pc'[t] \in {"hook", "unhook", "unlink"}
    BY <2>1, <2>2 DEF InCall, CtlPCs
  <2>6. \A f \in Fds : f \in InCall({"hook", "unhook", "unlink"}) <=>
                       f = cur[t] /\ pc[t] \in {"hook", "unhook", "unlink"}
    BY <2>1, <2>2 DEF InCall, CtlPCs
  <2> QED
    BY <2>1, <2>2, <2>3, <2>4, <2>5, <2>6 DEF Items, CtlPCs
<1>19. ASSUME NEW t \in Threads, TimeOut(t)
       PROVE  Items'
  <2>1. \A u \in Threads :
          /\ pc'[u] \in CtlPCs \cup {"put"} => pc'[u] = pc[u] /\ cur'[u] = cur[u]
          /\ pc[u] \in CtlPCs => pc'[u] = pc[u] /\ cur'[u] = cur[u]
    BY <1>19 DEF Typed, WaitPCs, CtlPCs, TimeOut, Goto
  <2>2. UNCHANGED <<mode, events, hooked, rbr>>
    BY <1>19 DEF TimeOut, itemVars
  <2> QED
    BY <1>q, <2>1, <2>2
<1>20. ASSUME NEW t \in Threads, Signal(t)
       PROVE  Items'
  <2>1. \A u \in Threads :
          /\ pc'[u] \in CtlPCs \cup {"put"} => pc'[u] = pc[u] /\ cur'[u] = cur[u]
          /\ pc[u] \in CtlPCs => pc'[u] = pc[u] /\ cur'[u] = cur[u]
    BY <1>20 DEF Typed, WaitPCs, CtlPCs, Signal, Goto, ScanPCs
  <2>2. UNCHANGED <<mode, events, hooked, rbr>>
    BY <1>20 DEF Signal, itemVars
  <2> QED
    BY <1>q, <2>1, <2>2
<1>21. ASSUME NEW t \in Threads, SendFault(t)
       PROVE  Items'
  <2>1. \A u \in Threads :
          /\ pc'[u] \in CtlPCs \cup {"put"} => pc'[u] = pc[u] /\ cur'[u] = cur[u]
          /\ pc[u] \in CtlPCs => pc'[u] = pc[u] /\ cur'[u] = cur[u]
    BY <1>21 DEF Typed, WaitPCs, CtlPCs, SendFault, Goto
  <2>2. UNCHANGED <<mode, events, hooked, rbr>>
    BY <1>21 DEF SendFault, itemVars
  <2> QED
    BY <1>q, <2>1, <2>2
<1>22. ASSUME NEW f \in Fds, NEW b \in Raised, NEW key \in Raised \cup {NoKey}, FileArrive(f, b, key)
       PROVE  Items'
  <2>1. \A u \in Threads :
          /\ pc'[u] \in CtlPCs \cup {"put"} => pc'[u] = pc[u] /\ cur'[u] = cur[u]
          /\ pc[u] \in CtlPCs => pc'[u] = pc[u] /\ cur'[u] = cur[u]
    BY <1>22 DEF Typed, WaitPCs, CtlPCs, FileArrive
  <2>2. UNCHANGED <<mode, events, hooked, rbr>>
    BY <1>22 DEF FileArrive, itemVars
  <2> QED
    BY <1>q, <2>1, <2>2
<1>23. ASSUME NEW f \in Fds, NEW b \in Raised, FileClear(f, b)
       PROVE  Items'
  <2>1. \A u \in Threads :
          /\ pc'[u] \in CtlPCs \cup {"put"} => pc'[u] = pc[u] /\ cur'[u] = cur[u]
          /\ pc[u] \in CtlPCs => pc'[u] = pc[u] /\ cur'[u] = cur[u]
    BY <1>23 DEF Typed, WaitPCs, CtlPCs, FileClear
  <2>2. UNCHANGED <<mode, events, hooked, rbr>>
    BY <1>23 DEF FileClear, itemVars
  <2> QED
    BY <1>q, <2>1, <2>2
<1>24. ASSUME NEW f \in Fds, PollCallback(f)
       PROVE  Items'
  <2>1. \A u \in Threads : pc'[u] = pc[u] \/ (pc[u] = "asleep" /\ pc'[u] = "woken")
    BY <1>24, Roused DEF PollCallback
  <2>2. UNCHANGED <<cur, mode, events, hooked, rbr>>
    BY <1>24 DEF PollCallback, itemVars
  <2>3. \A u \in Threads :
          /\ pc'[u] \in CtlPCs \cup {"put"} => pc'[u] = pc[u] /\ cur'[u] = cur[u]
          /\ pc[u] \in CtlPCs => pc'[u] = pc[u] /\ cur'[u] = cur[u]
    BY <2>1, <2>2 DEF CtlPCs
  <2> QED
    BY <1>q, <2>2, <2>3
<1> QED
  BY <1>1, <1>2, <1>3, <1>4, <1>5, <1>6, <1>7, <1>8, <1>9, <1>10, <1>11, <1>12,
     <1>13, <1>14, <1>15, <1>16, <1>17, <1>18, <1>19, <1>20, <1>21, <1>22, <1>23, <1>24
  DEF Next, Syscall, Proceed

LEMMA ListedLiveStep ==
  Typed /\ Locks /\ Lists /\ Items /\ ListedLive /\ [Next]_vars => ListedLive'
<1> SUFFICES ASSUME Typed, Locks, Lists, Items, ListedLive, [Next]_vars PROVE ListedLive'
  OBVIOUS
<1>b. Listed \subseteq Fds
  BY ElementsIn DEF Listed, Lists
<1>a. ASSUME Listed' \subseteq Listed, \A g \in Fds : mode[g] # "none" => mode'[g] # "none"
      PROVE  ListedLive'
  BY <1>a, <1>b DEF ListedLive
<1>1. CASE UNCHANGED vars
  <2>1. UNCHANGED <<rdllist, txlist, ovflist>> /\ mode' = mode
    BY <1>1 DEF vars, listVars, itemVars
  <2> QED
    BY <1>a, <2>1 DEF Listed
<1>2. CASE Create
  <2>1. UNCHANGED <<rdllist, txlist, ovflist>> /\ mode' = mode
    BY <1>2 DEF Create, listVars, itemVars
  <2> QED
    BY <1>a, <2>1 DEF Listed
<1>3. CASE Free
  <2>1. mtx = {}
    BY <1>3 DEF Free, Locks, Typed, CtlPCs, ScanPCs
  <2>2. txlist = << >> /\ ovflist = << >>
    BY <2>1 DEF Locks
  <2>3. rdllist' = << >> /\ txlist' = << >> /\ ovflist' = << >>
    BY <1>3, <2>2 DEF Free
  <2> QED
    BY <2>3, EmptyList DEF ListedLive, Listed
<1>4. ASSUME NEW t \in Threads, NEW f \in Fds, CtlAdd(t, f)
      PROVE  ListedLive'
  <2>1. PICK ev \in Interests[f] : SetEvents(f, ev)
    BY <1>4 DEF CtlAdd
  <2>2. ev.mode # "none"
    BY EventPollAssumption DEF Modes
  <2>3. \A g \in Fds : mode[g] # "none" => mode'[g] # "none"
    BY <2>1, <2>2 DEF SetEvents, Typed
  <2>4. UNCHANGED <<rdllist, txlist, ovflist>>
    BY <1>4 DEF CtlAdd, listVars
  <2> QED
    BY <1>a, <2>3, <2>4 DEF Listed
<1>5. ASSUME NEW t \in Threads, NEW f \in Fds, CtlDel(t, f)
      PROVE  ListedLive'
  <2>1. Unlink(f) /\ UNCHANGED <<txlist, ovflist>> /\ mtx = {}
    BY <1>5 DEF CtlDel
  <2>2. txlist = << >> /\ ovflist = << >>
    BY <2>1 DEF Locks
  <2>3. Elements(rdllist') = Elements(rdllist) \ {f}
    BY <2>1, Unlinking DEF Lists
  <2>4. \A g \in Fds \ {f} : mode'[g] = mode[g]
    BY <1>5 DEF CtlDel, FreeItem, Typed
  <2> QED
    BY <1>b, <2>1, <2>2, <2>3, <2>4, EmptyList DEF ListedLive, Listed
<1>6. ASSUME NEW t \in Threads, NEW f \in Fds, CtlMod(t, f)
      PROVE  ListedLive'
  <2>1. PICK ev \in Interests[f] : SetEvents(f, ev)
    BY <1>6 DEF CtlMod
  <2>2. ev.mode # "none"
    BY EventPollAssumption DEF Modes
  <2>3. \A g \in Fds : mode[g] # "none" => mode'[g] # "none"
    BY <2>1, <2>2 DEF SetEvents, Typed
  <2>4. UNCHANGED <<rdllist, txlist, ovflist>>
    BY <1>6 DEF CtlMod, listVars
  <2> QED
    BY <1>a, <2>3, <2>4 DEF Listed
<1>7. ASSUME NEW t \in Threads, EpollWait(t)
      PROVE  ListedLive'
  <2>1. UNCHANGED <<rdllist, txlist, ovflist>> /\ mode' = mode
    BY <1>7 DEF EpollWait, listVars, itemVars
  <2> QED
    BY <1>a, <2>1 DEF Listed
<1>8. ASSUME NEW t \in Threads, InsertHook(t)
      PROVE  ListedLive'
  <2>1. UNCHANGED <<rdllist, txlist, ovflist>> /\ mode' = mode
    BY <1>8 DEF InsertHook, listVars, itemVars
  <2> QED
    BY <1>a, <2>1 DEF Listed
<1>9. ASSUME NEW t \in Threads, CtlPoll(t)
      PROVE  ListedLive'
  <2>1. UNCHANGED <<rdllist, txlist, ovflist>> /\ mode' = mode
    BY <1>9 DEF CtlPoll, listVars, itemVars
  <2> QED
    BY <1>a, <2>1 DEF Listed
<1>10. ASSUME NEW t \in Threads, CtlLink(t)
       PROVE  ListedLive'
  <2>1. /\ UNCHANGED <<txlist, ovflist, mode>> /\ cur[t] \in Fds
        /\ rdllist' = rdllist \/ Link(cur[t])
    BY <1>10, InProgress DEF CtlLink, CtlPCs
  <2>2. mode[cur[t]] # "none"
    BY <1>10 DEF CtlLink, Items, CtlPCs
  <2>3. Listed' \subseteq Listed \cup {cur[t]}
    BY <2>1, Linking DEF Listed, Lists
  <2> QED
    BY <1>b, <2>1, <2>2, <2>3 DEF ListedLive
<1>11. ASSUME NEW t \in Threads, InsertUnhook(t)
       PROVE  ListedLive'
  <2>1. UNCHANGED <<rdllist, txlist, ovflist>> /\ mode' = mode
    BY <1>11 DEF InsertUnhook, listVars, itemVars
  <2> QED
    BY <1>a, <2>1 DEF Listed
<1>12. ASSUME NEW t \in Threads, InsertUnlink(t)
       PROVE  ListedLive'
  <2>1. Unlink(cur[t]) /\ UNCHANGED <<txlist, ovflist>> /\ pc[t] = "unlink"
    BY <1>12 DEF InsertUnlink
  <2>2. txlist = << >> /\ ovflist = << >>
    BY <2>1, InProgress DEF Locks, CtlPCs
  <2>3. Elements(rdllist') = Elements(rdllist) \ {cur[t]}
    BY <2>1, Unlinking DEF Lists
  <2>4. \A g \in Fds \ {cur[t]} : mode'[g] = mode[g]
    BY <1>12 DEF InsertUnlink, FreeItem, Typed
  <2> QED
    BY <1>b, <2>1, <2>2, <2>3, <2>4, EmptyList DEF ListedLive, Listed
<1>13. ASSUME NEW t \in Threads, PollLoop(t)
       PROVE  ListedLive'
  <2>1. UNCHANGED <<rdllist, txlist, ovflist>> /\ mode' = mode
    BY <1>13 DEF PollLoop, listVars, itemVars
  <2> QED
    BY <1>a, <2>1 DEF Listed
<1>14. ASSUME NEW t \in Threads, ScanStart(t)
       PROVE  ListedLive'
  <2>1. rdllist' = << >> /\ txlist' = rdllist /\ ovflist' = ovflist /\ mode' = mode
    BY <1>14 DEF ScanStart, itemVars
  <2> QED
    BY <1>a, <2>1, EmptyList DEF Listed
<1>15. ASSUME NEW t \in Threads, SendPoll(t)
       PROVE  ListedLive'
  <2>1. txlist # << >> /\ txlist' = Tail(txlist) /\ UNCHANGED <<rdllist, ovflist, mode>>
    BY <1>15 DEF SendPoll, Exhausted, itemVars
  <2>2. Elements(txlist') \subseteq Elements(txlist)
    BY <2>1, HeadAndTail DEF Lists
  <2> QED
    BY <1>a, <2>1, <2>2 DEF Listed
<1>16. ASSUME NEW t \in Threads, SendPut(t)
       PROVE  ListedLive'
  <2>1. cur[t] \in Fds /\ UNCHANGED <<txlist, ovflist, mode>>
    BY <1>16, InProgress DEF SendPut
  <2>2. events[cur[t]] # {}
    BY <1>16 DEF SendPut, Items
  <2>3. mode[cur[t]] # "none"
    BY <2>1, <2>2 DEF Items
  <2>4. Elements(rdllist') \subseteq Elements(rdllist) \cup {cur[t]}
    BY <1>16, <2>1, Appended DEF SendPut, AfterReport, Lists
  <2> QED
    BY <1>b, <2>1, <2>3, <2>4 DEF ListedLive, Listed
<1>17. ASSUME NEW t \in Threads, ScanEnd(t)
       PROVE  ListedLive'
  <2>1. rdllist' = Merged /\ txlist' = << >> /\ ovflist' = << >> /\ mode' = mode
    BY <1>17 DEF ScanEnd, itemVars
  <2> QED
    BY <1>a, <2>1, MergedKeeps, EmptyList DEF Listed, Lists
<1>18. ASSUME NEW t \in Threads, InsertHookFails(t)
       PROVE  ListedLive'
  <2>1. UNCHANGED <<rdllist, txlist, ovflist>> /\ mode' = mode
    BY <1>18 DEF InsertHookFails, listVars, itemVars
  <2> QED
    BY <1>a, <2>1 DEF Listed
<1>19. ASSUME NEW t \in Threads, TimeOut(t)
       PROVE  ListedLive'
  <2>1. UNCHANGED <<rdllist, txlist, ovflist>> /\ mode' = mode
    BY <1>19 DEF TimeOut, listVars, itemVars
  <2> QED
    BY <1>a, <2>1 DEF Listed
<1>20. ASSUME NEW t \in Threads, Signal(t)
       PROVE  ListedLive'
  <2>1. UNCHANGED <<rdllist, txlist, ovflist>> /\ mode' = mode
    BY <1>20 DEF Signal, listVars, itemVars
  <2> QED
    BY <1>a, <2>1 DEF Listed
<1>21. ASSUME NEW t \in Threads, SendFault(t)
       PROVE  ListedLive'
  <2>1. cur[t] \in Fds /\ UNCHANGED <<rdllist, ovflist, mode>> /\ txlist' = <<cur[t]>> \o txlist
    BY <1>21, InProgress DEF SendFault, itemVars
  <2>2. events[cur[t]] # {}
    BY <1>21 DEF SendFault, Items
  <2>3. mode[cur[t]] # "none"
    BY <2>1, <2>2 DEF Items
  <2>4. <<cur[t]>> \in Seq(Fds) /\ Elements(<<cur[t]>>) = {cur[t]}
    BY <2>1 DEF Elements
  <2>5. Elements(txlist') = {cur[t]} \cup Elements(txlist)
    BY <2>1, <2>4, Joined DEF Lists
  <2> QED
    BY <1>b, <2>1, <2>3, <2>5 DEF ListedLive, Listed
<1>22. ASSUME NEW f \in Fds, NEW b \in Raised, NEW key \in Raised \cup {NoKey}, FileArrive(f, b, key)
       PROVE  ListedLive'
  <2>1. UNCHANGED <<rdllist, txlist, ovflist>> /\ mode' = mode
    BY <1>22 DEF FileArrive, listVars, itemVars
  <2> QED
    BY <1>a, <2>1 DEF Listed
<1>23. ASSUME NEW f \in Fds, NEW b \in Raised, FileClear(f, b)
       PROVE  ListedLive'
  <2>1. UNCHANGED <<rdllist, txlist, ovflist>> /\ mode' = mode
    BY <1>23 DEF FileClear, listVars, itemVars
  <2> QED
    BY <1>a, <2>1 DEF Listed
<1>24. ASSUME NEW f \in Fds, PollCallback(f)
       PROVE  ListedLive'
  <2>1. UNCHANGED <<txlist, mode>>
    BY <1>24 DEF PollCallback, itemVars
  <2>2. CASE UNCHANGED <<rdllist, ovflist>>
    BY <1>a, <2>1, <2>2 DEF Listed
  <2>3. CASE f \in hooked /\ ((Link(f) /\ ovflist' = ovflist) \/ (Overflow(f) /\ rdllist' = rdllist))
    <3>1. Listed' \subseteq Listed \cup {f}
      BY <2>1, <2>3, Linking, Overflowing DEF Listed, Lists
    <3>2. mode[f] # "none"
      BY <2>3 DEF Items
    <3> QED
      BY <1>b, <2>1, <3>1, <3>2 DEF ListedLive
  <2> QED
    BY <1>24, <2>2, <2>3 DEF PollCallback
<1> QED
  BY <1>1, <1>2, <1>3, <1>4, <1>5, <1>6, <1>7, <1>8, <1>9, <1>10, <1>11, <1>12,
     <1>13, <1>14, <1>15, <1>16, <1>17, <1>18, <1>19, <1>20, <1>21, <1>22, <1>23, <1>24
  DEF Next, Syscall, Proceed

LEMMA SomebodyLooksStep ==
  Typed /\ Locks /\ Lists /\ SomebodyLooks /\ [Next]_vars => SomebodyLooks'
<1> SUFFICES ASSUME Typed, Locks, Lists, SomebodyLooks, [Next]_vars PROVE SomebodyLooks'
  OBVIOUS
<1>a. ASSUME UNCHANGED <<rdllist, scanning>>,
             \A u \in Threads : \/ pc'[u] = pc[u]
                                \/ pc[u] \notin {"enter", "woken", "avail"} /\ pc'[u] # "asleep"
      PROVE  SomebodyLooks'
  BY <1>a DEF SomebodyLooks
<1>1. CASE UNCHANGED vars
  BY <1>1 DEF vars, listVars, SomebodyLooks
<1>2. CASE Create
  BY <1>2 DEF Create, listVars, SomebodyLooks
<1>3. CASE Free
  BY <1>3 DEF Free, SomebodyLooks
<1>4. ASSUME NEW t \in Threads, NEW f \in Fds, CtlAdd(t, f)
      PROVE  SomebodyLooks'
  <2>1. UNCHANGED <<rdllist, scanning>>
    BY <1>4 DEF CtlAdd, listVars
  <2>2. \A u \in Threads : pc'[u] = pc[u] \/ (pc[u] \notin {"enter", "woken", "avail"} /\ pc'[u] # "asleep")
    BY <1>4 DEF CtlAdd, CtlBegin, SetEvents, Goto, Typed, CtlPCs, WaitPCs
  <2> QED
    BY <1>a, <2>1, <2>2
<1>5. ASSUME NEW t \in Threads, NEW f \in Fds, CtlDel(t, f)
      PROVE  SomebodyLooks'
  <2>1. Elements(rdllist') \subseteq Elements(rdllist) /\ rdllist' \in Seq(Fds)
    BY <1>5, Unlinking DEF CtlDel, Lists
  <2>2. rdllist' # << >> => rdllist # << >>
    BY <2>1, ElementsIn, EmptyList
  <2>3. UNCHANGED <<pc, scanning>>
    BY <1>5 DEF CtlDel
  <2> QED
    BY <2>2, <2>3 DEF SomebodyLooks
<1>6. ASSUME NEW t \in Threads, NEW f \in Fds, CtlMod(t, f)
      PROVE  SomebodyLooks'
  <2>1. UNCHANGED <<rdllist, scanning>>
    BY <1>6 DEF CtlMod, listVars
  <2>2. \A u \in Threads : pc'[u] = pc[u] \/ (pc[u] \notin {"enter", "woken", "avail"} /\ pc'[u] # "asleep")
    BY <1>6 DEF CtlMod, CtlBegin, SetEvents, Goto, Typed, CtlPCs, WaitPCs
  <2> QED
    BY <1>a, <2>1, <2>2
<1>7. ASSUME NEW t \in Threads, EpollWait(t)
      PROVE  SomebodyLooks'
  <2>1. UNCHANGED <<rdllist, scanning>>
    BY <1>7 DEF EpollWait, listVars
  <2>2. \A u \in Threads : pc'[u] = pc[u] \/ (pc[u] \notin {"enter", "woken", "avail"} /\ pc'[u] # "asleep")
    BY <1>7 DEF EpollWait, Goto, Typed, CtlPCs, WaitPCs
  <2> QED
    BY <1>a, <2>1, <2>2
<1>8. ASSUME NEW t \in Threads, InsertHook(t)
      PROVE  SomebodyLooks'
  <2>1. UNCHANGED <<rdllist, scanning>>
    BY <1>8 DEF InsertHook, listVars
  <2>2. \A u \in Threads : pc'[u] = pc[u] \/ (pc[u] \notin {"enter", "woken", "avail"} /\ pc'[u] # "asleep")
    BY <1>8 DEF InsertHook, Goto, Typed, CtlPCs, WaitPCs
  <2> QED
    BY <1>a, <2>1, <2>2
<1>9. ASSUME NEW t \in Threads, CtlPoll(t)
      PROVE  SomebodyLooks'
  <2>1. UNCHANGED <<rdllist, scanning>>
    BY <1>9 DEF CtlPoll, listVars
  <2>2. \A u \in Threads : pc'[u] = pc[u] \/ (pc[u] \notin {"enter", "woken", "avail"} /\ pc'[u] # "asleep")
    BY <1>9 DEF CtlPoll, Goto, Typed, CtlPCs, WaitPCs
  <2> QED
    BY <1>a, <2>1, <2>2
<1>10. ASSUME NEW t \in Threads, CtlLink(t)
       PROVE  SomebodyLooks'
  <2>1. scanning' = scanning
    BY <1>10 DEF CtlLink
  <2>2. CASE pc' \in Wake([pc EXCEPT ![t] = "idle"])
    BY <2>2, GoesOn DEF SomebodyLooks
  <2>3. CASE rdllist' = rdllist /\ pc' = [pc EXCEPT ![t] = "idle"]
    <3>1. pc[t] \in {"link", "insert"}
      BY <1>10 DEF CtlLink
    <3>2. \A u \in Threads : pc'[u] = pc[u] \/ (pc[u] \notin {"enter", "woken", "avail"} /\ pc'[u] # "asleep")
      BY <2>3, <3>1 DEF Typed
    <3> QED
      BY <1>a, <2>1, <2>3, <3>2
  <2> QED
    BY <1>10, <2>2, <2>3 DEF CtlLink, Goto
<1>11. ASSUME NEW t \in Threads, InsertUnhook(t)
       PROVE  SomebodyLooks'
  <2>1. UNCHANGED <<rdllist, scanning>>
    BY <1>11 DEF InsertUnhook, listVars
  <2>2. \A u \in Threads : pc'[u] = pc[u] \/ (pc[u] \notin {"enter", "woken", "avail"} /\ pc'[u] # "asleep")
    BY <1>11 DEF InsertUnhook, Goto, Typed, CtlPCs, WaitPCs
  <2> QED
    BY <1>a, <2>1, <2>2
<1>12. ASSUME NEW t \in Threads, InsertUnlink(t)
       PROVE  SomebodyLooks'
  <2>1. Elements(rdllist') \subseteq Elements(rdllist) /\ rdllist' \in Seq(Fds)
    BY <1>12, Unlinking DEF InsertUnlink, Lists
  <2>2. rdllist' # << >> => rdllist # << >>
    BY <2>1, ElementsIn, EmptyList
  <2>3. pc' = [pc EXCEPT ![t] = "idle"] /\ pc[t] = "unlink" /\ scanning' = scanning
    BY <1>12 DEF InsertUnlink, Goto
  <2> QED
    BY <2>2, <2>3 DEF SomebodyLooks, Typed
<1>13. ASSUME NEW t \in Threads, PollLoop(t)
       PROVE  SomebodyLooks'
  <2>1. UNCHANGED <<rdllist, scanning>>
    BY <1>13 DEF PollLoop, listVars
  <2>2. rdllist # << >> => pc' = [pc EXCEPT ![t] = "avail"]
    BY <1>13 DEF PollLoop, Goto
  <2> QED
    BY <2>1, <2>2 DEF SomebodyLooks, Typed
<1>14. ASSUME NEW t \in Threads, ScanStart(t)
       PROVE  SomebodyLooks'
  BY <1>14 DEF ScanStart, OpenOverflow, SomebodyLooks
<1>15. ASSUME NEW t \in Threads, SendPoll(t)
       PROVE  SomebodyLooks'
  <2>1. scanning /\ scanning' = scanning
    BY <1>15, InProgress DEF SendPoll, ScanPCs
  <2> QED
    BY <2>1 DEF SomebodyLooks
<1>16. ASSUME NEW t \in Threads, SendPut(t)
       PROVE  SomebodyLooks'
  <2>1. scanning /\ scanning' = scanning
    BY <1>16, InProgress DEF SendPut, ScanPCs
  <2> QED
    BY <2>1 DEF SomebodyLooks
<1>17. ASSUME NEW t \in Threads, ScanEnd(t)
       PROVE  SomebodyLooks'
  <2>1. PICK next \in {"idle", "enter"} :
          IF Merged = << >> THEN pc' = [pc EXCEPT ![t] = next]
          ELSE pc' \in Wake([pc EXCEPT ![t] = next])
    BY <1>17 DEF ScanEnd
  <2>2. rdllist' = Merged
    BY <1>17 DEF ScanEnd
  <2>3. CASE Merged # << >>
    BY <2>1, <2>3, GoesOn DEF SomebodyLooks
  <2> QED
    BY <2>2, <2>3 DEF SomebodyLooks
<1>18. ASSUME NEW t \in Threads, InsertHookFails(t)
       PROVE  SomebodyLooks'
  <2>1. UNCHANGED <<rdllist, scanning>>
    BY <1>18 DEF InsertHookFails, listVars
  <2>2. \A u \in Threads : pc'[u] = pc[u] \/ (pc[u] \notin {"enter", "woken", "avail"} /\ pc'[u] # "asleep")
    BY <1>18 DEF InsertHookFails, Goto, Typed, CtlPCs, WaitPCs
  <2> QED
    BY <1>a, <2>1, <2>2
<1>19. ASSUME NEW t \in Threads, TimeOut(t)
       PROVE  SomebodyLooks'
  <2>1. pc' = [pc EXCEPT ![t] = "woken"]
    BY <1>19 DEF TimeOut, Goto
  <2> QED
    BY <2>1 DEF SomebodyLooks, Typed
<1>20. ASSUME NEW t \in Threads, Signal(t)
       PROVE  SomebodyLooks'
  <2>1. UNCHANGED <<rdllist, scanning>>
    BY <1>20 DEF Signal, listVars
  <2>2. pc' = [pc EXCEPT ![t] = IF pc[t] = "asleep" THEN "woken" ELSE pc[t]]
    BY <1>20 DEF Signal, Goto
  <2> QED
    BY <2>1, <2>2 DEF SomebodyLooks, Typed
<1>21. ASSUME NEW t \in Threads, SendFault(t)
       PROVE  SomebodyLooks'
  <2>1. scanning /\ scanning' = scanning
    BY <1>21, InProgress DEF SendFault, ScanPCs
  <2> QED
    BY <2>1 DEF SomebodyLooks
<1>22. ASSUME NEW f \in Fds, NEW b \in Raised, NEW key \in Raised \cup {NoKey}, FileArrive(f, b, key)
       PROVE  SomebodyLooks'
  BY <1>22 DEF FileArrive, listVars, SomebodyLooks
<1>23. ASSUME NEW f \in Fds, NEW b \in Raised, FileClear(f, b)
       PROVE  SomebodyLooks'
  BY <1>23 DEF FileClear, listVars, SomebodyLooks
<1>24. ASSUME NEW f \in Fds, PollCallback(f)
       PROVE  SomebodyLooks'
  <2>1. scanning' = scanning
    BY <1>24 DEF PollCallback
  <2>2. CASE UNCHANGED <<rdllist, pc>>
    BY <2>1, <2>2 DEF SomebodyLooks
  <2>3. CASE pc' \in Wake(pc)
    BY <2>3, Roused DEF SomebodyLooks
  <2> QED
    BY <1>24, <2>2, <2>3 DEF PollCallback
<1> QED
  BY <1>1, <1>2, <1>3, <1>4, <1>5, <1>6, <1>7, <1>8, <1>9, <1>10, <1>11, <1>12,
     <1>13, <1>14, <1>15, <1>16, <1>17, <1>18, <1>19, <1>20, <1>21, <1>22, <1>23, <1>24
  DEF Next, Syscall, Proceed

LEMMA PollStep == PollInv /\ [Next]_vars => PollInv'
  BY TypedStep, LocksStep, ListsStep, ItemsStep, ListedLiveStep, SomebodyLooksStep DEF PollInv

(* The inductive invariant, from which the theorems below follow.          *)
THEOREM PollInvariant == Spec => []PollInv
<1>1. Init => PollInv
  BY PollInit
<1>2. PollInv /\ [Next]_vars => PollInv'
  BY PollStep
<1> QED
  BY <1>1, <1>2, PTL DEF Spec

-------------------------------------------------------------------------------
LEMMA TypeHolds == PollInv => TypeOK
<1> SUFFICES ASSUME PollInv PROVE TypeOK
  OBVIOUS
<1> USE DEF PollInv
<1>1. Cardinality(mtx) <= 1
  <2>1. CASE mtx = {}
    BY <2>1, FS_EmptySet
  <2>2. ASSUME NEW t \in mtx PROVE Cardinality(mtx) = 1
    <3>1. mtx = {t}
      BY <2>2 DEF Locks
    <3> QED
      BY <3>1, FS_Singleton
  <2> QED
    BY <2>1, <2>2
<1>2. {rdllist, txlist, ovflist} \subseteq Seq(Fds)
  BY DEF Lists
<1>3. Typed /\ (scanning <=> \E t \in mtx : pc[t] \in ScanPCs)
            /\ (~scanning => txlist = << >> /\ ovflist = << >>)
  BY DEF Locks
<1> QED
  BY <1>1, <1>2, <1>3 DEF TypeOK, Typed

LEMMA LinkedHolds == PollInv => LinkedOnce
<1> SUFFICES ASSUME PollInv PROVE LinkedOnce
  OBVIOUS
<1>1. /\ Elements(rdllist \o txlist) = Elements(rdllist) \cup Elements(txlist)
      /\ Once(rdllist \o txlist)
  BY Joined DEF PollInv, Lists
<1> QED
  BY <1>1 DEF LinkedOnce, PollInv, Lists

LEMMA NoneFreed == PollInv => NoFreedItem
<1> SUFFICES ASSUME PollInv PROVE NoFreedItem
  OBVIOUS
<1> USE DEF PollInv
<1>1. Elements(rdllist \o txlist \o ovflist) = Listed
  <2>1. /\ rdllist \o txlist \in Seq(Fds)
        /\ Elements(rdllist \o txlist) = Elements(rdllist) \cup Elements(txlist)
        /\ ovflist \in Seq(Fds)
    BY Joined DEF Lists
  <2> DEFINE both == rdllist \o txlist
  <2> HIDE DEF both
  <2>2. Elements(both \o ovflist) = Elements(both) \cup Elements(ovflist)
    <3>1. both \in Seq(Fds) /\ ovflist \in Seq(Fds)
      BY <2>1 DEF both
    <3> QED
      BY <3>1, Joined
  <2> QED
    BY <2>1, <2>2 DEF Listed, both
<1>2. \A f \in Listed : mode[f] # "none"
  BY DEF ListedLive
<1>3. ASSUME NEW t \in Threads, pc[t] = "put" PROVE mode[cur[t]] # "none"
  <2>1. cur[t] \in Fds /\ events[cur[t]] # {}
    BY <1>3, InProgress DEF Items
  <2> QED
    BY <2>1 DEF Items
<1>4. \A f \in InHand : mode[f] # "none"
  BY <1>3 DEF InHand
<1>5. \A f \in hooked : mode[f] # "none"
  BY DEF Items, Typed
<1> QED
  BY <1>1, <1>2, <1>4, <1>5 DEF NoFreedItem

(* Whatever the files and the threads do, the variables keep their types,  *)
(* ep->mtx has one holder, and the overflow list is open exactly while     *)
(* that holder scans.                                                      *)
THEOREM PollTyped == Spec => []TypeOK
  BY PollInvariant, TypeHolds, PTL

(* No item is linked twice, although ep_poll_callback, the requeueing of   *)
(* level-triggered items and the merge of ep_scan_ready_list each link one *)
(* without knowing of the others: txlist is given back before ovflist is   *)
(* gone through, and what is linked by then is passed over.                *)
THEOREM PollLinkedOnce == Spec => []LinkedOnce
  BY PollInvariant, LinkedHolds, PTL

(* Nothing that epoll_ctl, ep_free or the undoing of ep_insert freed is    *)
(* still on a list, in a scan's hand or reachable by a wake-up.            *)
THEOREM PollNothingFreed == Spec => []NoFreedItem
  BY PollInvariant, NoneFreed, PTL

(* With items on the ready list and no scan taking place, ep_poll's        *)
(* waiters do not all sleep: no wake-up is lost to a thread that is about  *)
(* to sleep, nor to one that was woken and then timed out or got a signal. *)
THEOREM PollSomebodyLooks == Spec => []SomebodyLooks
<1>1. PollInv => SomebodyLooks
  BY DEF PollInv
<1> QED
  BY <1>1, PollInvariant, PTL

-------------------------------------------------------------------------------
(* The refinement.  EventSet's interest, how and owed for a state of       *)
(* EventPoll, as the substitution gives them.                              *)
Interest == [f \in Fds |-> IF f \in BeingUndone THEN {} ELSE events[f]]
How == [f \in Fds |-> IF f \in BeingUndone THEN "none" ELSE mode[f]]
Doing == {"put", "hook", "poll", "repoll", "link"}

LEMMA AsBefore ==
  ASSUME UNCHANGED <<ready, pend, Interest, How, Owed>>
  PROVE  UNCHANGED Events!eventVars
  BY DEF Events!eventVars, Interest, How

LEMMA AsWatch ==
  ASSUME NEW f \in Fds, UNCHANGED <<ready, pend>>,
         Interest' \in [Fds -> SUBSET Bits],
         How' \in [Fds -> Modes \cup {"none"}], How'[f] # "none",
         \A g \in Fds \ {f} : Interest'[g] = Interest[g] /\ How'[g] = How[g],
         Owed' = Owed \cup {f}
  PROVE  Events!EventNext
<1>1. Events!Watch(f)
  BY DEF Events!Watch, Interest, How, Modes
<1> QED
  BY <1>1 DEF Events!EventNext

LEMMA AsUnwatch ==
  ASSUME NEW F \in SUBSET Fds, UNCHANGED <<ready, pend>>,
         Interest' = [f \in Fds |-> IF f \in F THEN {} ELSE Interest[f]],
         How' = [f \in Fds |-> IF f \in F THEN "none" ELSE How[f]],
         Owed' = Owed \ F
  PROVE  Events!EventNext
<1>1. Events!Unwatch(F)
  BY DEF Events!Unwatch, Interest, How
<1> QED
  BY <1>1 DEF Events!EventNext

LEMMA AsReport ==
  ASSUME NEW f \in Fds, UNCHANGED <<ready, pend, How>>,
         f \in Owed, Interest[f] # {},
         Interest' = IF How[f] = "ONESHOT" THEN [Interest EXCEPT ![f] = {}] ELSE Interest,
         Owed' \in {Owed, Owed \ {f}}, How[f] = "LT" => Owed' = Owed
  PROVE  Events!EventNext
<1>1. Events!Report(f)
  BY DEF Events!Report, Interest, How
<1> QED
  BY <1>1 DEF Events!EventNext

LEMMA AsDismiss ==
  ASSUME NEW f \in Fds, UNCHANGED <<ready, pend, Interest, How>>,
         f \in Owed, ready[f] \cap Interest[f] = {}, Owed' = Owed \ {f}
  PROVE  Events!EventNext
<1>1. Events!Dismiss(f)
  BY DEF Events!Dismiss, Interest, How
<1> QED
  BY <1>1 DEF Events!EventNext

LEMMA AsNotify ==
  ASSUME NEW f \in Fds, UNCHANGED <<ready, Interest, How>>,
         pend[f] # {}, pend' = [pend EXCEPT ![f] = {}],
         Owed' = IF Interest[f] # {} /\ pend[f] \cap (Interest[f] \cup {NoKey}) # {}
                 THEN Owed \cup {f} ELSE Owed
  PROVE  Events!EventNext
<1>1. Events!Notify(f)
  BY DEF Events!Notify, Events!Counts, Events!NoKey, NoKey, Interest, How
<1> QED
  BY <1>1 DEF Events!EventNext

LEMMA AsArriveOrClear ==
  ASSUME NEW f \in Fds, NEW b \in Bits, UNCHANGED <<Interest, How, Owed>>,
         \/ \E key \in {b, NoKey} :
              /\ pend[f] = {}
              /\ ready' = [ready EXCEPT ![f] = @ \cup {b}]
              /\ pend' = [pend EXCEPT ![f] = {key}]
         \/ b \in ready[f] /\ ready' = [ready EXCEPT ![f] = @ \ {b}] /\ UNCHANGED pend
  PROVE  Events!EventNext
<1>1. ASSUME NEW key \in {b, NoKey}, pend[f] = {},
             ready' = [ready EXCEPT ![f] = @ \cup {b}],
             pend' = [pend EXCEPT ![f] = {key}]
      PROVE  Events!EventNext
  <2>1. Events!Arrive(f, b, key) /\ key \in Events!Keys
    BY <1>1 DEF Events!Arrive, Events!Keys, Events!NoKey, NoKey, Interest, How
  <2> QED
    BY <2>1 DEF Events!EventNext
<1>2. ASSUME b \in ready[f], ready' = [ready EXCEPT ![f] = @ \ {b}], UNCHANGED pend
      PROVE  Events!EventNext
  <2>1. Events!Clear(f, b)
    BY <1>2 DEF Events!Clear, Interest, How
  <2> QED
    BY <2>1 DEF Events!EventNext
<1> QED
  BY <1>1, <1>2

(* What is owed and what is being undone, when nobody holds ep->mtx and    *)
(* when one thread does.                                                   *)
OwedNow ==
  /\ Owed = (Listed \cup InCall(Doing)) \ BeingUndone
  /\ Owed \subseteq Fds
  /\ Interest \in [Fds -> SUBSET Bits] /\ How \in [Fds -> Modes \cup {"none"}]
  /\ mtx = {} =>
       BeingUndone = {} /\ Owed = Listed /\ Interest = events /\ How = mode
  /\ \A t \in Threads : mtx = {t} =>
       LET c(pcs) == IF pc[t] \in pcs THEN {cur[t]} ELSE {}
       IN  /\ BeingUndone = c({"unhook", "unlink"})
           /\ Owed = (Listed \cup c(Doing)) \ BeingUndone
           /\ pc[t] \notin {"unhook", "unlink"} => Interest = events /\ How = mode

LEMMA OwedIs == PollInv => OwedNow
<1> SUFFICES ASSUME PollInv PROVE OwedNow
  OBVIOUS
<1> USE DEF PollInv
<1>1. Elements(rdllist \o txlist \o ovflist) = Listed
  <2>1. /\ rdllist \o txlist \in Seq(Fds)
        /\ Elements(rdllist \o txlist) = Elements(rdllist) \cup Elements(txlist)
        /\ ovflist \in Seq(Fds)
    BY Joined DEF Lists
  <2> DEFINE both == rdllist \o txlist
  <2> HIDE DEF both
  <2>2. Elements(both \o ovflist) = Elements(both) \cup Elements(ovflist)
    <3>1. both \in Seq(Fds) /\ ovflist \in Seq(Fds)
      BY <2>1 DEF both
    <3> QED
      BY <3>1, Joined
  <2> QED
    BY <2>1, <2>2 DEF Listed, both
<1>2. Owed = (Listed \cup InCall(Doing)) \ BeingUndone
  BY <1>1 DEF Owed, Doing
<1>3. ASSUME NEW pcs \in SUBSET (CtlPCs \cup {"put"})
      PROVE  /\ InCall(pcs) \subseteq Fds
             /\ mtx = {} => InCall(pcs) = {}
             /\ \A t \in Threads : mtx = {t} =>
                  InCall(pcs) = IF pc[t] \in pcs THEN {cur[t]} ELSE {}
  <2>1. \A u \in Threads : pc[u] \in pcs => u \in mtx /\ cur[u] \in Fds
    BY InProgress DEF Locks, ScanPCs
  <2> QED
    BY <2>1 DEF InCall
<1>4. {"unhook", "unlink"} \in SUBSET (CtlPCs \cup {"put"}) /\ Doing \in SUBSET (CtlPCs \cup {"put"})
  BY DEF CtlPCs, Doing
<1>5. Listed \subseteq Fds
  BY ElementsIn DEF Listed, Lists
<1>6. /\ Interest \in [Fds -> SUBSET Bits] /\ How \in [Fds -> Modes \cup {"none"}]
      /\ BeingUndone = {} => Interest = events /\ How = mode
  BY DEF Interest, How, Typed
<1>7. /\ InCall(Doing) \subseteq Fds
      /\ mtx = {} => InCall(Doing) = {} /\ BeingUndone = {}
      /\ \A t \in Threads : mtx = {t} =>
           /\ InCall(Doing) = IF pc[t] \in Doing THEN {cur[t]} ELSE {}
           /\ BeingUndone = IF pc[t] \in {"unhook", "unlink"} THEN {cur[t]} ELSE {}
  BY <1>3, <1>4 DEF BeingUndone
<1> QED
  BY <1>2, <1>5, <1>6, <1>7 DEF OwedNow

LEMMA OwedIsNext == PollInv' => OwedNow'
  BY OwedIs, PTL

LEMMA BeginsAsEventSet == Init => Events!EventInit
<1> SUFFICES ASSUME Init PROVE Events!EventInit
  OBVIOUS
<1>1. PollInv /\ OwedNow
  BY PollInit, OwedIs
<1>2. Owed = {} /\ Interest = events /\ How = mode
  BY <1>1, EmptyList DEF OwedNow, Init, Listed
<1> QED
  BY <1>2 DEF Events!EventInit, Init, Interest, How

(* Every step is one of EventSet's or changes nothing it knows of.         *)
LEMMA StepsAsEventSet ==
  PollInv /\ PollInv' /\ [Next]_vars => [Events!EventNext]_Events!eventVars
<1> SUFFICES ASSUME PollInv, PollInv', [Next]_vars PROVE [Events!EventNext]_Events!eventVars
  OBVIOUS
<1>p. Typed /\ Locks /\ Lists /\ Items /\ OwedNow
  BY OwedIs DEF PollInv
<1>q. OwedNow'
  BY OwedIsNext
<1> USE <1>p, <1>q
<1>b. ASSUME UNCHANGED cur,
             \A u \in Threads : pc'[u] = pc[u] \/ {pc[u], pc'[u]} \cap (CtlPCs \cup {"put"}) = {}
      PROVE  InCall(Doing)' = InCall(Doing) /\ BeingUndone' = BeingUndone
  BY <1>b DEF InCall, BeingUndone, Doing, CtlPCs
<1>a. ASSUME UNCHANGED <<fileVars, mode, events, listVars, cur>>,
             \A u \in Threads : pc'[u] = pc[u] \/ {pc[u], pc'[u]} \cap (CtlPCs \cup {"put"}) = {}
      PROVE  UNCHANGED Events!eventVars
  <2>1. InCall(Doing)' = InCall(Doing) /\ BeingUndone' = BeingUndone
    BY <1>a, <1>b
  <2>2. Listed' = Listed
    BY <1>a DEF Listed, listVars
  <2>3. UNCHANGED <<ready, pend, Interest, How, Owed>>
    BY <1>a, <2>1, <2>2 DEF OwedNow, Interest, How, fileVars
  <2> QED
    BY <2>3, AsBefore
<1>1. CASE UNCHANGED vars
  BY <1>1, <1>a DEF vars, itemVars, waitVars
<1>2. CASE Create
  BY <1>2, <1>a DEF Create, itemVars, waitVars
<1>3. CASE Free
  <2>1. mtx = {} /\ mtx' = {}
    BY <1>3 DEF Free, Typed, Locks, CtlPCs, ScanPCs
  <2>2. Interest' = [f \in Fds |-> {}] /\ How' = [f \in Fds |-> "none"]
    BY <1>3, <2>1 DEF Free, OwedNow
  <2>3. Owed' = {}
    BY <1>3, <2>1, EmptyList DEF Free, OwedNow, Listed, listVars, Locks, ScanPCs
  <2>4. Owed \subseteq Fds
    BY DEF OwedNow
  <2> QED
    BY <1>3, <2>2, <2>3, <2>4, AsUnwatch DEF Free, fileVars
<1>4. ASSUME NEW t \in Threads, NEW f \in Fds, CtlAdd(t, f)
      PROVE  [Events!EventNext]_Events!eventVars
  <2>1. PICK ev \in Interests[f] : SetEvents(f, ev)
    BY <1>4 DEF CtlAdd
  <2>2. ev.mode \in Modes /\ ev.mode # "none"
    BY EventPollAssumption DEF Modes
  <2>3. mtx = {} /\ mtx' = {t} /\ pc'[t] = "hook" /\ cur'[t] = f
    BY <1>4 DEF CtlAdd, CtlBegin, Goto, Typed
  <2>4. Interest' = events' /\ How' = mode' /\ Interest = events /\ How = mode
    BY <2>3 DEF OwedNow
  <2>5. How'[f] = ev.mode /\ \A g \in Fds \ {f} : Interest'[g] = Interest[g] /\ How'[g] = How[g]
    BY <2>1, <2>4 DEF SetEvents, Typed
  <2>6. Listed' = Listed
    BY <1>4 DEF CtlAdd, listVars, Listed
  <2>7. Owed' = Owed \cup {f}
    BY <2>3, <2>6 DEF OwedNow, Doing
  <2>8. Interest' \in [Fds -> SUBSET Bits] /\ How' \in [Fds -> Modes \cup {"none"}]
    BY DEF OwedNow
  <2> QED
    BY <1>4, <2>2, <2>5, <2>7, <2>8, AsWatch DEF CtlAdd, fileVars
<1>5. ASSUME NEW t \in Threads, NEW f \in Fds, CtlDel(t, f)
      PROVE  [Events!EventNext]_Events!eventVars
  <2>1. mtx = {} /\ mtx' = {}
    BY <1>5 DEF CtlDel
  <2>2. Interest' = events' /\ How' = mode' /\ Interest = events /\ How = mode
    BY <2>1 DEF OwedNow
  <2>3. /\ Interest' = [g \in Fds |-> IF g \in {f} THEN {} ELSE Interest[g]]
        /\ How' = [g \in Fds |-> IF g \in {f} THEN "none" ELSE How[g]]
    BY <1>5, <2>2 DEF CtlDel, FreeItem, Typed
  <2>4. Listed' = Listed \ {f}
    <3>1. Elements(rdllist') = Elements(rdllist) \ {f}
      BY <1>5, Unlinking DEF CtlDel, Lists
    <3>2. txlist = << >> /\ ovflist = << >>
      BY <2>1 DEF Locks
    <3> QED
      BY <1>5, <3>1, <3>2, EmptyList DEF CtlDel, Listed
  <2>5. Owed' = Owed \ {f}
    BY <2>1, <2>4 DEF OwedNow
  <2> QED
    BY <1>5, <2>3, <2>5, AsUnwatch DEF CtlDel, fileVars
<1>6. ASSUME NEW t \in Threads, NEW f \in Fds, CtlMod(t, f)
      PROVE  [Events!EventNext]_Events!eventVars
  <2>1. PICK ev \in Interests[f] : SetEvents(f, ev)
    BY <1>6 DEF CtlMod
  <2>2. ev.mode \in Modes /\ ev.mode # "none"
    BY EventPollAssumption DEF Modes
  <2>3. mtx = {} /\ mtx' = {t} /\ pc'[t] = "repoll" /\ cur'[t] = f
    BY <1>6 DEF CtlMod, CtlBegin, Goto, Typed
  <2>4. Interest' = events' /\ How' = mode' /\ Interest = events /\ How = mode
    BY <2>3 DEF OwedNow
  <2>5. How'[f] = ev.mode /\ \A g \in Fds \ {f} : Interest'[g] = Interest[g] /\ How'[g] = How[g]
    BY <2>1, <2>4 DEF SetEvents, Typed
  <2>6. Listed' = Listed
    BY <1>6 DEF CtlMod, listVars, Listed
  <2>7. Owed' = Owed \cup {f}
    BY <2>3, <2>6 DEF OwedNow, Doing
  <2>8. Interest' \in [Fds -> SUBSET Bits] /\ How' \in [Fds -> Modes \cup {"none"}]
    BY DEF OwedNow
  <2> QED
    BY <1>6, <2>2, <2>5, <2>7, <2>8, AsWatch DEF CtlMod, fileVars
<1>7. ASSUME NEW t \in Threads, EpollWait(t)
      PROVE  [Events!EventNext]_Events!eventVars
  <2>1. UNCHANGED <<fileVars, mode, events, listVars, cur>>
    BY <1>7 DEF EpollWait, itemVars
  <2>2. \A u \in Threads : pc'[u] = pc[u] \/ {pc[u], pc'[u]} \cap (CtlPCs \cup {"put"}) = {}
    BY <1>7 DEF EpollWait, Goto, Typed, CtlPCs
  <2> QED
    BY <1>a, <2>1, <2>2
<1>8. ASSUME NEW t \in Threads, InsertHook(t)
      PROVE  [Events!EventNext]_Events!eventVars
  <2>1. mtx = {t} /\ mtx' = {t}
    BY <1>8, InProgress DEF InsertHook, CtlPCs
  <2>2. pc[t] = "hook" /\ pc'[t] = "poll" /\ cur' = cur
    BY <1>8 DEF InsertHook, Goto, Typed
  <2>3. Listed' = Listed /\ UNCHANGED <<ready, pend, events, mode>>
    BY <1>8 DEF InsertHook, listVars, Listed, fileVars
  <2> QED
    BY <2>1, <2>2, <2>3, AsBefore DEF OwedNow, Doing
<1>9. ASSUME NEW t \in Threads, CtlPoll(t)
      PROVE  [Events!EventNext]_Events!eventVars
  <2>1. mtx = {t} /\ mtx' = {t} /\ cur[t] \in Fds
    BY <1>9, InProgress DEF CtlPoll, CtlPCs
  <2>2. /\ pc[t] \in {"poll", "repoll"} /\ cur' = cur
        /\ pc'[t] = IF Revents(t) # {} THEN "link" ELSE "insert"
    BY <1>9 DEF CtlPoll, Goto, Typed
  <2>3. Listed' = Listed /\ UNCHANGED <<ready, pend, events, mode>>
    BY <1>9 DEF CtlPoll, listVars, itemVars, Listed, fileVars
  <2>4. /\ Interest = events /\ How = mode /\ Interest' = Interest /\ How' = How
        /\ Owed = Listed \cup {cur[t]}
        /\ Owed' = IF Revents(t) # {} THEN Owed ELSE Listed
    BY <2>1, <2>2, <2>3 DEF OwedNow, Doing
  <2>5. CASE Revents(t) # {} \/ cur[t] \in Listed
    BY <2>3, <2>4, <2>5, AsBefore
  <2>6. CASE Revents(t) = {} /\ cur[t] \notin Listed
    BY <2>1, <2>3, <2>4, <2>6, AsDismiss DEF Revents
  <2> QED
    BY <2>5, <2>6
<1>10. ASSUME NEW t \in Threads, CtlLink(t)
       PROVE  [Events!EventNext]_Events!eventVars
  <2>1. mtx = {t} /\ mtx' = {} /\ cur[t] \in Fds /\ pc[t] \in {"link", "insert"}
    BY <1>10, InProgress DEF CtlLink, CtlReturns, CtlPCs
  <2>2. UNCHANGED <<ready, pend, events, mode, txlist, ovflist>>
    BY <1>10 DEF CtlLink, fileVars
  <2>3. /\ Interest' = Interest /\ How' = How
        /\ Owed = Listed \cup (IF pc[t] = "link" THEN {cur[t]} ELSE {})
        /\ Owed' = Listed'
    BY <2>1, <2>2 DEF OwedNow, Doing
  <2>4. Listed' = Owed
    <3>1. CASE pc[t] = "link" /\ Link(cur[t])
      <4>1. Elements(rdllist') = Elements(rdllist) \cup {cur[t]}
        BY <2>1, <3>1, Linking DEF Lists
      <4> QED
        BY <2>2, <2>3, <3>1, <4>1 DEF Listed
    <3>2. CASE /\ pc[t] = "insert" \/ cur[t] \in Elements(rdllist)
               /\ UNCHANGED rdllist
      BY <2>1, <2>2, <2>3, <3>2 DEF Listed
    <3> QED
      BY <1>10, <3>1, <3>2 DEF CtlLink
  <2> QED
    BY <2>2, <2>3, <2>4, AsBefore
<1>11. ASSUME NEW t \in Threads, InsertUnhook(t)
       PROVE  [Events!EventNext]_Events!eventVars
  <2>1. mtx = {t} /\ mtx' = {t}
    BY <1>11, InProgress DEF InsertUnhook, CtlPCs
  <2>2. pc[t] = "unhook" /\ pc'[t] = "unlink" /\ cur' = cur
    BY <1>11 DEF InsertUnhook, Goto, Typed
  <2>3. Listed' = Listed /\ UNCHANGED <<ready, pend, events, mode>>
    BY <1>11 DEF InsertUnhook, listVars, Listed, fileVars
  <2>4. BeingUndone' = BeingUndone /\ Owed' = Owed
    BY <2>1, <2>2, <2>3 DEF OwedNow, Doing
  <2> QED
    BY <2>3, <2>4, AsBefore DEF Interest, How
<1>12. ASSUME NEW t \in Threads, InsertUnlink(t)
       PROVE  [Events!EventNext]_Events!eventVars
  <2>1. mtx = {t} /\ mtx' = {} /\ pc[t] = "unlink" /\ cur[t] \in Fds /\ ~scanning
    BY <1>12, InProgress DEF InsertUnlink, CtlReturns, CtlPCs
  <2>2. BeingUndone = {cur[t]} /\ BeingUndone' = {}
    BY <2>1 DEF OwedNow
  <2>3. Interest' = Interest /\ How' = How
    BY <1>12, <2>1, <2>2 DEF InsertUnlink, FreeItem, Interest, How, Typed
  <2>4. Listed' = Listed \ {cur[t]}
    <3>1. Elements(rdllist') = Elements(rdllist) \ {cur[t]}
      BY <1>12, Unlinking DEF InsertUnlink, Lists
    <3>2. txlist = << >> /\ ovflist = << >>
      BY <2>1 DEF Locks
    <3> QED
      BY <1>12, <3>1, <3>2, EmptyList DEF InsertUnlink, Listed
  <2>5. Owed' = Owed
    BY <2>1, <2>2, <2>4 DEF OwedNow, Doing
  <2> QED
    BY <1>12, <2>3, <2>5, AsBefore DEF InsertUnlink, fileVars
<1>13. ASSUME NEW t \in Threads, PollLoop(t)
       PROVE  [Events!EventNext]_Events!eventVars
  <2>1. UNCHANGED <<fileVars, mode, events, listVars, cur>>
    BY <1>13 DEF PollLoop, itemVars
  <2>2. \A u \in Threads : pc'[u] = pc[u] \/ {pc[u], pc'[u]} \cap (CtlPCs \cup {"put"}) = {}
    BY <1>13 DEF PollLoop, Goto, Typed, CtlPCs
  <2> QED
    BY <1>a, <2>1, <2>2
<1>14. ASSUME NEW t \in Threads, ScanStart(t)
       PROVE  [Events!EventNext]_Events!eventVars
  <2>1. mtx = {} /\ mtx' = {t} /\ pc'[t] = "send" /\ txlist = << >>
    BY <1>14 DEF ScanStart, Goto, Typed, Locks
  <2>2. Listed' = Listed
    BY <1>14, <2>1, EmptyList DEF ScanStart, Listed
  <2>3. UNCHANGED <<ready, pend, Interest, How, Owed>>
    BY <1>14, <2>1, <2>2 DEF ScanStart, itemVars, fileVars, OwedNow, Doing
  <2> QED
    BY <2>3, AsBefore
<1>15. ASSUME NEW t \in Threads, SendPoll(t)
       PROVE  [Events!EventNext]_Events!eventVars
  <2> DEFINE h == Head(txlist)
  <2>1. mtx = {t} /\ mtx' = {t} /\ pc[t] = "send"
    BY <1>15, InProgress DEF SendPoll, ScanPCs
  <2>2. UNCHANGED <<ready, pend, events, mode>>
    BY <1>15 DEF SendPoll, fileVars, itemVars
  <2>3. h \in Fds /\ Listed = Listed' \cup {h}
    BY <1>15, HeadAndTail DEF SendPoll, Exhausted, Lists, Listed
  <2> HIDE DEF h
  <2>4. Interest = events /\ Owed = Listed
    BY <2>1 DEF OwedNow, Doing
  <2>5. CASE pc'[t] = "put" /\ cur'[t] = h
    <3>1. UNCHANGED <<Interest, How, Owed>>
      BY <2>1, <2>2, <2>3, <2>4, <2>5 DEF OwedNow, Doing
    <3> QED
      BY <2>2, <3>1, AsBefore
  <2>6. CASE UNCHANGED pc /\ ready[h] \cap events[h] = {}
    <3>1. UNCHANGED <<Interest, How>> /\ Owed' = Listed'
      BY <2>1, <2>2, <2>6 DEF OwedNow, Doing
    <3>2. CASE h \in Listed'
      BY <2>2, <2>3, <2>4, <3>1, <3>2, AsBefore
    <3>3. CASE h \notin Listed'
      BY <2>2, <2>3, <2>4, <2>6, <3>1, <3>3, AsDismiss
    <3> QED
      BY <3>2, <3>3
  <2> QED
    BY <1>15, <2>5, <2>6 DEF SendPoll, Goto, Typed, h
<1>16. ASSUME NEW t \in Threads, SendPut(t)
       PROVE  [Events!EventNext]_Events!eventVars
  <2> DEFINE c == cur[t]
  <2>1. mtx = {t} /\ mtx' = {t} /\ pc[t] = "put" /\ pc'[t] = "send" /\ c \in Fds
    BY <1>16, InProgress DEF SendPut, ScanPCs, Goto, Typed
  <2>2. UNCHANGED <<ready, pend, mode>> /\ events[c] # {}
    BY <1>16 DEF SendPut, fileVars, Items
  <2>3. /\ Interest = events /\ How = mode /\ Interest' = events' /\ How' = mode'
        /\ Owed = Listed \cup {c} /\ Owed' = Listed'
    BY <2>1 DEF OwedNow, Doing
  <2>4. Listed' = IF mode[c] = "LT" THEN Listed \cup {c} ELSE Listed
    <3>1. CASE mode[c] = "LT"
      <4>1. Elements(Append(rdllist, c)) = Elements(rdllist) \cup {c}
        BY <2>1, Appended DEF Lists
      <4> QED
        BY <1>16, <3>1, <4>1 DEF SendPut, AfterReport, Listed
    <3>2. CASE mode[c] # "LT"
      BY <1>16, <3>2 DEF SendPut, AfterReport, Listed
    <3> QED
      BY <3>1, <3>2
  <2>5. events' = IF mode[c] = "ONESHOT" THEN [events EXCEPT ![c] = {}] ELSE events
    BY <1>16 DEF SendPut, AfterReport
  <2>6. Owed' \in {Owed, Owed \ {c}} /\ (mode[c] = "LT" => Owed' = Owed)
    BY <2>3, <2>4
  <2> HIDE DEF c
  <2> QED
    BY <2>1, <2>2, <2>3, <2>5, <2>6, AsReport
<1>17. ASSUME NEW t \in Threads, ScanEnd(t)
       PROVE  [Events!EventNext]_Events!eventVars
  <2>1. mtx = {t} /\ mtx' = {} /\ pc[t] \in {"fault", "send"}
    BY <1>17, InProgress DEF ScanEnd, ScanPCs
  <2>2. UNCHANGED <<ready, pend, events, mode>>
    BY <1>17 DEF ScanEnd, fileVars, itemVars
  <2>3. Listed' = Listed
    BY <1>17, MergedKeeps, EmptyList DEF ScanEnd, Listed, Lists
  <2>4. UNCHANGED <<Interest, How, Owed>>
    BY <2>1, <2>2, <2>3 DEF OwedNow, Doing
  <2> QED
    BY <2>2, <2>4, AsBefore
<1>18. ASSUME NEW t \in Threads, InsertHookFails(t)
       PROVE  [Events!EventNext]_Events!eventVars
  <2>1. mtx = {t} /\ mtx' = {t} /\ cur[t] \in Fds
    BY <1>18, InProgress DEF InsertHookFails, CtlPCs
  <2>2. pc[t] \in {"hook", "poll"} /\ pc'[t] = "unhook" /\ cur' = cur
    BY <1>18 DEF InsertHookFails, Goto, Typed
  <2>3. Listed' = Listed /\ UNCHANGED <<ready, pend, events, mode>>
    BY <1>18 DEF InsertHookFails, listVars, itemVars, Listed, fileVars
  <2>4. BeingUndone' = {cur[t]} /\ Interest = events /\ How = mode /\ Owed' = Owed \ {cur[t]}
    BY <2>1, <2>2, <2>3 DEF OwedNow, Doing
  <2>5. /\ Interest' = [f \in Fds |-> IF f \in {cur[t]} THEN {} ELSE Interest[f]]
        /\ How' = [f \in Fds |-> IF f \in {cur[t]} THEN "none" ELSE How[f]]
    BY <2>3, <2>4 DEF Interest, How
  <2> QED
    BY <2>1, <2>3, <2>4, <2>5, AsUnwatch
<1>19. ASSUME NEW t \in Threads, TimeOut(t)
       PROVE  [Events!EventNext]_Events!eventVars
  <2>1. UNCHANGED <<fileVars, mode, events, listVars, cur>>
    BY <1>19 DEF TimeOut, itemVars
  <2>2. \A u \in Threads : pc'[u] = pc[u] \/ {pc[u], pc'[u]} \cap (CtlPCs \cup {"put"}) = {}
    BY <1>19 DEF TimeOut, Goto, Typed, CtlPCs
  <2> QED
    BY <1>a, <2>1, <2>2
<1>20. ASSUME NEW t \in Threads, Signal(t)
       PROVE  [Events!EventNext]_Events!eventVars
  <2>1. UNCHANGED <<fileVars, mode, events, listVars, cur>>
    BY <1>20 DEF Signal, itemVars
  <2>2. \A u \in Threads : pc'[u] = pc[u] \/ {pc[u], pc'[u]} \cap (CtlPCs \cup {"put"}) = {}
    BY <1>20 DEF Signal, Goto, Typed, CtlPCs, WaitPCs
  <2> QED
    BY <1>a, <2>1, <2>2
<1>21. ASSUME NEW t \in Threads, SendFault(t)
       PROVE  [Events!EventNext]_Events!eventVars
  <2> DEFINE c == cur[t]
  <2>1. mtx = {t} /\ mtx' = {t} /\ pc[t] = "put" /\ pc'[t] = "fault" /\ c \in Fds
    BY <1>21, InProgress DEF SendFault, ScanPCs, Goto, Typed
  <2>2. UNCHANGED <<ready, pend, events, mode>>
    BY <1>21 DEF SendFault, fileVars, itemVars
  <2>3. Listed' = Listed \cup {c}
    <3>1. <<c>> \in Seq(Fds) /\ Elements(<<c>>) = {c}
      BY <2>1 DEF Elements
    <3>2. Elements(<<c>> \o txlist) = {c} \cup Elements(txlist)
      BY <3>1, Joined DEF Lists
    <3> QED
      BY <1>21, <3>2 DEF SendFault, Listed
  <2>4. UNCHANGED <<Interest, How, Owed>>
    BY <2>1, <2>2, <2>3 DEF OwedNow, Doing
  <2> QED
    BY <2>2, <2>4, AsBefore
<1>22. ASSUME NEW f \in Fds, NEW b \in Raised, NEW key \in Raised \cup {NoKey}, FileArrive(f, b, key)
       PROVE  [Events!EventNext]_Events!eventVars
  <2>1. UNCHANGED <<Interest, How, Owed>>
    BY <1>22 DEF FileArrive, itemVars, listVars, Interest, How, Owed, BeingUndone, InCall
  <2>2. b \in Bits
    BY EventPollAssumption
  <2> QED
    BY <1>22, <2>1, <2>2, AsArriveOrClear DEF FileArrive
<1>23. ASSUME NEW f \in Fds, NEW b \in Raised, FileClear(f, b)
       PROVE  [Events!EventNext]_Events!eventVars
  <2>1. UNCHANGED <<Interest, How, Owed>>
    BY <1>23 DEF FileClear, itemVars, listVars, Interest, How, Owed, BeingUndone, InCall
  <2>2. b \in Bits
    BY EventPollAssumption
  <2> QED
    BY <1>23, <2>1, <2>2, AsArriveOrClear DEF FileClear
<1>24. ASSUME NEW f \in Fds, PollCallback(f)
       PROVE  [Events!EventNext]_Events!eventVars
  <2>1. UNCHANGED <<ready, events, mode, cur, txlist>> /\ pend[f] # {} /\ pend' = [pend EXCEPT ![f] = {}]
    BY <1>24 DEF PollCallback, itemVars
  <2>2. \A u \in Threads : pc'[u] = pc[u] \/ {pc[u], pc'[u]} \cap (CtlPCs \cup {"put"}) = {}
    BY <1>24, Roused DEF PollCallback, CtlPCs
  <2>3. InCall(Doing)' = InCall(Doing) /\ BeingUndone' = BeingUndone
    BY <1>b, <2>1, <2>2
  <2>4. UNCHANGED <<Interest, How>>
    BY <2>1, <2>3 DEF Interest, How
  <2>5. /\ Interest[f] = IF f \in BeingUndone THEN {} ELSE events[f]
        /\ Owed = (Listed \cup InCall(Doing)) \ BeingUndone
        /\ Owed' = (Listed' \cup InCall(Doing)) \ BeingUndone
    BY <2>3 DEF Interest, OwedNow
  <2> DEFINE counts == Interest[f] # {} /\ pend[f] \cap (Interest[f] \cup {NoKey}) # {}
  <2>6. counts <=> f \notin BeingUndone /\ OfInterest(f)
    BY <2>5 DEF OfInterest
  <2> HIDE DEF counts
  <2>7. Owed' = IF counts THEN Owed \cup {f} ELSE Owed
    <3>1. CASE f \in hooked /\ OfInterest(f)
      <4>1. Listed' = Listed \cup {f}
        <5>1. CASE scanning
          <6>1. Overflow(f) /\ UNCHANGED rdllist
            BY <1>24, <3>1, <5>1 DEF PollCallback
          <6>2. Elements(ovflist') = Elements(ovflist) \cup {f}
            BY <6>1, Overflowing DEF Lists
          <6> QED
            BY <2>1, <6>1, <6>2 DEF Listed
        <5>2. CASE ~scanning
          <6>1. Link(f) /\ UNCHANGED ovflist
            BY <1>24, <3>1, <5>2 DEF PollCallback
          <6>2. Elements(rdllist') = Elements(rdllist) \cup {f}
            BY <6>1, Linking DEF Lists
          <6> QED
            BY <2>1, <6>1, <6>2 DEF Listed
        <5> QED
          BY <5>1, <5>2
      <4> QED
        BY <2>5, <2>6, <3>1, <4>1
    <3>2. CASE ~(f \in hooked /\ OfInterest(f))
      <4>1. Listed' = Listed
        BY <1>24, <2>1, <3>2 DEF PollCallback, Listed
      <4>2. ASSUME counts PROVE f \in Owed
        <5>1. f \notin hooked /\ f \notin BeingUndone /\ mode[f] # "none"
          BY <2>6, <3>2, <4>2 DEF OfInterest, Items
        <5>2. f \in InCall({"hook", "unhook", "unlink"})
          BY <5>1 DEF Items
        <5>3. f \in InCall(Doing)
          BY <5>1, <5>2 DEF InCall, Doing, BeingUndone
        <5> QED
          BY <2>5, <5>1, <5>3
      <4> QED
        BY <2>5, <4>1, <4>2
    <3> QED
      BY <3>1, <3>2
  <2> QED
    BY <2>1, <2>4, <2>7, AsNotify DEF counts
<1> QED
  BY <1>1, <1>2, <1>3, <1>4, <1>5, <1>6, <1>7, <1>8, <1>9, <1>10, <1>11, <1>12,
     <1>13, <1>14, <1>15, <1>16, <1>17, <1>18, <1>19, <1>20, <1>21, <1>22, <1>23, <1>24
  DEF Next, Syscall, Proceed

(* Eventpoll does what EventSet promises: a file that was notified while   *)
(* it is watched and enabled, or has just been put under watch, stays owed *)
(* a look until it is reported or found with nothing of interest, whether  *)
(* the wake-up came before, during or after a scan, an insertion or its    *)
(* undoing; and nothing is reported that is not owed and enabled.          *)
THEOREM PollImplementsEventSet == Spec => ImplementsEventSet
<1>1. Init => Events!EventInit
  BY BeginsAsEventSet
<1>2. PollInv /\ PollInv' /\ [Next]_vars => [Events!EventNext]_Events!eventVars
  BY StepsAsEventSet
<1> QED
  BY <1>1, <1>2, PollInvariant, PTL DEF Spec, ImplementsEventSet, Events!EventSpec
================================================================================
