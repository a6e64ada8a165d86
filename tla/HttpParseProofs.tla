----------------------------- MODULE HttpParseProofs -----------------------------
(***************************************************************************)
(* The parser of http_conn, for every stream, every way it is cut into     *)
(* pieces and every size of the buffer: its verdict is the meaning of the  *)
(* input read as a whole.                                                  *)
(***************************************************************************)
EXTENDS HttpParse, SequenceTheorems, WellFoundedInduction, TLAPS

(* A set of naturals that is not empty has a least member.                 *)
LEMMA Least == ASSUME NEW S \in SUBSET Nat, S # {} PROVE \E m \in S : \A k \in S : m =< k
<1> DEFINE Less == {ss \in Nat \X Nat : ss[1] < ss[2]}
<1>1. IsWellFoundedOn(Less, Nat)
  BY NatLessThanWellFounded, Zenon DEF OpToRel
<1> HIDE DEF Less
<1>2. PICK m \in S : \A y \in S : ~ (<<y, m>> \in Less)
  BY <1>1, WFMin
<1>3. ASSUME NEW k \in S PROVE m =< k
  <2>1. k \in Nat /\ m \in Nat
    OBVIOUS
  <2>2. k < m => <<k, m>> \in Less
    BY <2>1 DEF Less
  <2> QED
    BY <1>2, <2>1, <2>2
<1> QED
  BY <1>3

(* Two sequences that agree from m to n have the same piece there.         *)
LEMMA SamePiece ==
  ASSUME NEW S, NEW s \in Seq(S), NEW t \in Seq(S), NEW m \in Nat \ {0}, NEW n \in Nat,
         n =< Len(s), n =< Len(t), \A i \in m .. n : s[i] = t[i]
  PROVE  SubSeq(s, m, n) = SubSeq(t, m, n)
<1> DEFINE u == SubSeq(s, m, n)
           v == SubSeq(t, m, n)
<1>1. CASE n < m
  BY <1>1
<1>2. CASE m =< n
  <2>1. /\ u \in Seq(S) /\ Len(u) = n - m + 1 /\ \A i \in 1 .. n - m + 1 : u[i] = s[m + i - 1]
        /\ v \in Seq(S) /\ Len(v) = n - m + 1 /\ \A i \in 1 .. n - m + 1 : v[i] = t[m + i - 1]
    BY <1>2
  <2>2. \A i \in 1 .. n - m + 1 : m + i - 1 \in m .. n
    BY <1>2
  <2>3. \A i \in 1 .. n - m + 1 : u[i] = v[i]
    BY <2>1, <2>2
  <2> HIDE DEF u, v
  <2>4. u = v
    BY <2>1, <2>3, SeqEqual
  <2> QED
    BY <2>4 DEF u, v
<1> QED
  BY <1>1, <1>2

-------------------------------------------------------------------------------
(* Input that consists of whole lines.                                     *)
Whole(p) ==
  /\ \A i \in 1 .. Len(p) : /\ p[i] = "CR" => i < Len(p) /\ p[i + 1] = "LF"
                            /\ p[i] = "LF" => i > 1 /\ p[i - 1] = "CR"
  /\ p # << >> => p[Len(p)] = "LF"

(* What comes after whole lines does not change what they are.             *)
LEMMA WholeLines ==
  ASSUME NEW p \in Seq(Unit), NEW q \in Seq(Unit), Whole(p), Len(p) =< Len(q),
         \A i \in 1 .. Len(p) : q[i] = p[i]
  PROVE  /\ GoodEnds(p) = {e \in GoodEnds(q) : e < Len(p)}
         /\ \A e \in GoodEnds(p) : /\ LineAt(q, e) = LineAt(p, e)
                                   /\ IsFirst(q, e) <=> IsFirst(p, e)
         /\ GoodEnds(p) # {} => \A e \in GoodEnds(q) \ GoodEnds(p) : ~IsFirst(q, e)
         /\ p # << >> => Len(p) - 1 \in GoodEnds(p)
<1>n. Len(p) \in Nat /\ Len(q) \in Nat
  OBVIOUS
<1>1. Stray(p) = {} /\ \A i \in Stray(q) : i > Len(p)
  BY <1>n DEF Stray, Whole
<1>2. GoodEnds(p) = LineEnds(p)
  BY <1>1 DEF GoodEnds
<1>3. LineEnds(p) = {e \in LineEnds(q) : e < Len(p)}
  BY <1>n DEF LineEnds
<1>4. \A e \in LineEnds(q) : e < Len(p) => e \in GoodEnds(q)
  BY <1>1, <1>n DEF GoodEnds, LineEnds, Stray
<1>5. GoodEnds(p) = {e \in GoodEnds(q) : e < Len(p)}
  BY <1>2, <1>3, <1>4 DEF GoodEnds
<1>6. GoodEnds(p) \subseteq 1 .. Len(p) - 1 /\ GoodEnds(q) \subseteq 1 .. Len(q) - 1
  BY DEF GoodEnds, LineEnds
<1>7. ASSUME NEW e \in GoodEnds(p) PROVE LineAt(q, e) = LineAt(p, e)
  <2> DEFINE Start(E) == IF E = {} THEN 1 ELSE 2 + CHOOSE d \in E : \A c \in E : c =< d
             earlier == {d \in GoodEnds(p) : d < e}
             start == Start(earlier)
  <2>1. /\ LineAt(p, e) = SubSeq(p, Start({d \in GoodEnds(p) : d < e}), e - 1)
        /\ LineAt(q, e) = SubSeq(q, Start({d \in GoodEnds(q) : d < e}), e - 1)
    BY DEF LineAt
  <2>2. start \in Nat \ {0}
    <3>1. CASE earlier = {}
      BY <3>1
    <3>2. CASE earlier # {}
      <4> DEFINE S == {e - d : d \in earlier}
      <4>1. S \in SUBSET Nat /\ S # {}
        BY <1>6, <1>n, <3>2
      <4>2. PICK m \in S : \A k \in S : m =< k
        BY <4>1, Least
      <4>3. PICK d \in earlier : m = e - d
        BY <4>2
      <4>4. ASSUME NEW c \in earlier PROVE c =< d
        <5>1. e - c \in S
          OBVIOUS
        <5>2. e - d =< e - c
          BY <4>2, <4>3, <5>1
        <5>3. c \in Int /\ d \in Int /\ e \in Int
          BY <1>6, <1>n
        <5> QED
          BY <5>2, <5>3
      <4> DEFINE last == CHOOSE x \in earlier : \A c \in earlier : c =< x
      <4>5. last \in earlier
        BY <4>4
      <4>6. \A x \in earlier : x \in Nat
        BY <1>6, <1>n
      <4>7. start = 2 + last
        BY <3>2
      <4> HIDE DEF last, start
      <4>8. last \in Nat
        BY <4>5, <4>6
      <4> QED
        BY <4>7, <4>8
    <3> QED
      BY <3>1, <3>2
  <2> HIDE DEF Start
  <2>3. {d \in GoodEnds(p) : d < e} = {d \in GoodEnds(q) : d < e}
    BY <1>n, <1>5, <1>6
  <2>4. LineAt(p, e) = SubSeq(p, start, e - 1) /\ LineAt(q, e) = SubSeq(q, start, e - 1)
    BY <2>1, <2>3
  <2> HIDE DEF start
  <2>5. /\ e - 1 \in Nat /\ e - 1 =< Len(p) /\ e - 1 =< Len(q)
        /\ \A i \in start .. e - 1 : i \in 1 .. Len(p)
    BY <1>6, <1>n, <2>2
  <2> QED
    BY <2>2, <2>4, <2>5, SamePiece
<1>8. ASSUME NEW e \in GoodEnds(p) PROVE IsFirst(q, e) <=> IsFirst(p, e)
  BY <1>5, <1>6, <1>n DEF IsFirst
<1>9. ASSUME NEW d \in GoodEnds(p), NEW e \in GoodEnds(q) \ GoodEnds(p) PROVE ~IsFirst(q, e)
  BY <1>5, <1>6, <1>n DEF IsFirst
<1>10. ASSUME p # << >> PROVE Len(p) - 1 \in GoodEnds(p)
  <2>1. Len(p) \in 1 .. Len(p) /\ p[Len(p)] = "LF"
    BY <1>10, <1>n DEF Whole
  <2>2. Len(p) > 1 /\ p[Len(p) - 1] = "CR"
    BY <2>1 DEF Whole
  <2>3. Len(p) - 1 \in 1 .. Len(p) - 1 /\ (Len(p) - 1) + 1 = Len(p)
    BY <1>n, <2>2
  <2> QED
    BY <1>2, <2>1, <2>2, <2>3 DEF LineEnds
<1> QED
  BY <1>5, <1>7, <1>8, <1>9, <1>10

(* One more line: k units without CR or LF, then CR and LF.                *)
LEMMA NewLine ==
  ASSUME NEW p \in Seq(Unit), NEW q \in Seq(Unit), Whole(p), NEW k \in Nat,
         Len(q) = Len(p) + k + 2,
         \A i \in 1 .. Len(p) : q[i] = p[i],
         \A i \in Len(p) + 1 .. Len(p) + k : q[i] \notin {"CR", "LF"},
         q[Len(p) + k + 1] = "CR", q[Len(p) + k + 2] = "LF"
  PROVE  /\ Whole(q) /\ q # << >>
         /\ GoodEnds(q) = GoodEnds(p) \cup {Len(q) - 1} /\ Len(q) - 1 \notin GoodEnds(p)
         /\ LineAt(q, Len(q) - 1) = SubSeq(q, Len(p) + 1, Len(p) + k)
         /\ IsFirst(q, Len(q) - 1) <=> p = << >>
         /\ \A e \in GoodEnds(p) : /\ LineAt(q, e) = LineAt(p, e)
                                   /\ IsFirst(q, e) <=> IsFirst(p, e)
<1> DEFINE n == Len(p)
<1>n. n \in Nat /\ Len(q) \in Nat /\ n + k + 1 \in Nat /\ Len(q) = n + k + 2
  OBVIOUS
<1>1. \A i \in 1 .. Len(q) : i \in 1 .. n \/ i \in n + 1 .. n + k \/ i = n + k + 1 \/ i = n + k + 2
  BY <1>n
<1>2. ASSUME NEW i \in 1 .. Len(q)
      PROVE  /\ q[i] = "CR" => i < Len(q) /\ q[i + 1] = "LF"
             /\ q[i] = "LF" => i > 1 /\ q[i - 1] = "CR"
  <2>1. CASE i \in 1 .. n
    <3>1. q[i] = p[i] /\ (p[i] = "CR" => i < n /\ p[i + 1] = "LF") /\ (p[i] = "LF" => i > 1 /\ p[i - 1] = "CR")
      BY <2>1 DEF Whole
    <3>2. i < n => q[i + 1] = p[i + 1]
      BY <1>n, <2>1
    <3>3. i > 1 => q[i - 1] = p[i - 1]
      BY <1>n, <2>1
    <3> QED
      BY <1>n, <2>1, <3>1, <3>2, <3>3
  <2>2. CASE i \in n + 1 .. n + k
    BY <2>2
  <2>3. CASE i = n + k + 1
    BY <1>n, <2>3
  <2>4. CASE i = n + k + 2
    BY <1>n, <2>4
  <2> QED
    BY <1>1, <2>1, <2>2, <2>3, <2>4
<1>3. Whole(q) /\ q # << >>
  BY <1>2, <1>n DEF Whole
<1>4. /\ GoodEnds(p) = {e \in GoodEnds(q) : e < n}
      /\ \A e \in GoodEnds(p) : LineAt(q, e) = LineAt(p, e) /\ (IsFirst(q, e) <=> IsFirst(p, e))
      /\ GoodEnds(p) # {} => \A e \in GoodEnds(q) \ GoodEnds(p) : ~IsFirst(q, e)
      /\ p # << >> => n - 1 \in GoodEnds(p)
  BY <1>n, WholeLines
<1>5. Len(q) - 1 \in GoodEnds(q)
  BY <1>3, WholeLines
<1>6. GoodEnds(q) \subseteq 1 .. Len(q) - 1 /\ \A e \in GoodEnds(q) : q[e] = "CR"
  BY DEF GoodEnds, LineEnds
<1>7. ASSUME NEW e \in GoodEnds(q) PROVE e < n \/ e = Len(q) - 1
  <2>1. e \in 1 .. Len(q) /\ q[e] = "CR"
    BY <1>6, <1>n
  <2>2. CASE e \in 1 .. n
    <3>1. p[e] = "CR" => e < n
      BY <2>2 DEF Whole
    <3> QED
      BY <2>1, <2>2, <3>1
  <2>3. CASE e \in n + 1 .. n + k
    BY <2>1, <2>3
  <2>4. CASE e = n + k + 2
    BY <2>1, <2>4
  <2> QED
    BY <1>1, <1>n, <2>1, <2>2, <2>3, <2>4
<1>8. GoodEnds(q) = GoodEnds(p) \cup {Len(q) - 1} /\ Len(q) - 1 \notin GoodEnds(p)
  BY <1>4, <1>5, <1>7, <1>n
<1>9. LineAt(q, Len(q) - 1) = SubSeq(q, n + 1, n + k)
  <2> DEFINE earlier == {d \in GoodEnds(q) : d < Len(q) - 1}
             last == CHOOSE d \in earlier : \A c \in earlier : c =< d
             start == IF earlier = {} THEN 1 ELSE 2 + last
  <2>1. earlier = GoodEnds(p)
    BY <1>4, <1>6, <1>8, <1>n
  <2>2. start = n + 1
    <3>1. CASE p = << >>
      BY <1>4, <1>6, <1>n, <2>1, <3>1
    <3>2. CASE p # << >>
      <4>1. n - 1 \in earlier /\ \A c \in earlier : c =< n - 1 /\ c \in Int
        BY <1>4, <1>6, <1>n, <2>1, <3>2
      <4> HIDE DEF earlier
      <4>2. \A d \in earlier : (\A c \in earlier : c =< d) => d = n - 1
        BY <1>n, <4>1
      <4>3. last \in earlier /\ \A c \in earlier : c =< last
        BY <4>1
      <4>4. last = n - 1
        BY <4>2, <4>3
      <4> HIDE DEF last
      <4> QED
        BY <1>n, <4>1, <4>4
    <3> QED
      BY <3>1, <3>2
  <2>3. LineAt(q, Len(q) - 1) = SubSeq(q, start, (Len(q) - 1) - 1)
    BY DEF LineAt
  <2>4. (Len(q) - 1) - 1 = n + k
    BY <1>n
  <2> QED
    BY <2>2, <2>3, <2>4
<1>10. IsFirst(q, Len(q) - 1) <=> p = << >>
  <2>1. CASE p = << >>
    <3>1. n = 0
      BY <2>1
    <3>2. GoodEnds(q) = {Len(q) - 1}
      BY <1>4, <1>6, <1>7, <1>8, <1>n, <3>1
    <3> QED
      BY <1>n, <2>1, <3>2 DEF IsFirst
  <2>2. CASE p # << >>
    BY <1>4, <1>8, <2>2
  <2> QED
    BY <2>1, <2>2
<1> QED
  BY <1>3, <1>4, <1>8, <1>9, <1>10

-------------------------------------------------------------------------------
(* What the whole lines of an input decide.                                *)
StartsWell(p) == \E e \in GoodEnds(p) : IsFirst(p, e) /\ LineAt(p, e) = <<"get">>
StartsBadly(p) == \E e \in GoodEnds(p) : IsFirst(p, e) /\ LineAt(p, e) # <<"get">>
Keeps(p) == \E e \in GoodEnds(p) : ~IsFirst(p, e) /\ LineAt(p, e) = <<"keep">>

LEMMA OneFirst ==
  ASSUME NEW p, NEW d \in GoodEnds(p), NEW e \in GoodEnds(p), IsFirst(p, d), IsFirst(p, e)
  PROVE  d = e
<1>1. d \in Int /\ e \in Int /\ d =< e /\ e =< d
  BY DEF IsFirst, GoodEnds, LineEnds
<1> QED
  BY <1>1

LEMMA Decided ==
  ASSUME NEW p \in Seq(Unit), NEW q \in Seq(Unit), Whole(p), Len(p) =< Len(q),
         \A i \in 1 .. Len(p) : q[i] = p[i]
  PROVE  /\ StartsBadly(p) => Meaning(q) = "BAD_REQUEST"
         /\ StartsWell(p) /\ Blank(p) # {} => Meaning(q) = "GET_REQUEST"
         /\ GoodEnds(q) \subseteq GoodEnds(p) /\ Blank(p) = {} /\ (p = << >> \/ StartsWell(p))
              => Meaning(q) = "NO_REQUEST"
         /\ StartsWell(p) /\ Blank(p) = {Len(p) - 1} => (HasHeader(q, "keep") <=> Keeps(p))
<1>1. /\ GoodEnds(p) = {e \in GoodEnds(q) : e < Len(p)}
      /\ \A e \in GoodEnds(p) : LineAt(q, e) = LineAt(p, e) /\ (IsFirst(q, e) <=> IsFirst(p, e))
      /\ GoodEnds(p) # {} => \A e \in GoodEnds(q) \ GoodEnds(p) : ~IsFirst(q, e)
  BY WholeLines
<1>n. /\ Len(p) \in Nat /\ GoodEnds(q) \subseteq Int /\ GoodEnds(p) \subseteq GoodEnds(q)
      /\ \A e \in GoodEnds(q) : e > 0
  BY <1>1 DEF GoodEnds, LineEnds
<1>2. ASSUME StartsBadly(p) PROVE Meaning(q) = "BAD_REQUEST"
  <2>1. \E e \in GoodEnds(q) : IsFirst(q, e) /\ LineAt(q, e) # <<"get">>
    BY <1>1, <1>2, <1>n DEF StartsBadly
  <2> QED
    BY <2>1 DEF Meaning
<1>3. ASSUME StartsWell(p) PROVE ~ \E e \in GoodEnds(q) : IsFirst(q, e) /\ LineAt(q, e) # <<"get">>
  <2>1. PICK d \in GoodEnds(p) : IsFirst(p, d) /\ LineAt(p, d) = <<"get">>
    BY <1>3 DEF StartsWell
  <2>2. ASSUME NEW e \in GoodEnds(q), IsFirst(q, e) PROVE LineAt(q, e) = <<"get">>
    <3>1. e \in GoodEnds(p)
      BY <1>1, <2>1, <2>2
    <3>2. d = e
      BY <1>1, <2>1, <2>2, <3>1, OneFirst
    <3> QED
      BY <1>1, <2>1, <3>2
  <2> QED
    BY <2>2
<1>4. Blank(p) = {e \in Blank(q) : e < Len(p)}
  BY <1>1 DEF Blank
<1>5. ASSUME StartsWell(p), Blank(p) # {} PROVE Meaning(q) = "GET_REQUEST"
  <2>1. GoodEnds(q) # {} /\ Blank(q) # {}
    BY <1>4, <1>5 DEF Blank
  <2> QED
    BY <1>3, <1>5, <2>1 DEF Meaning
<1>6. ASSUME GoodEnds(q) \subseteq GoodEnds(p), Blank(p) = {}, p = << >> \/ StartsWell(p)
      PROVE  Meaning(q) = "NO_REQUEST"
  <2>1. Blank(q) = {}
    BY <1>1, <1>4, <1>6 DEF Blank
  <2>2. CASE p = << >>
    <3>1. Len(p) = 0
      BY <2>2
    <3>2. GoodEnds(q) = {}
      BY <1>1, <1>6, <1>n, <3>1
    <3> QED
      BY <3>2 DEF Meaning
  <2>3. CASE StartsWell(p)
    BY <1>3, <2>1, <2>3 DEF Meaning
  <2> QED
    BY <1>6, <2>2, <2>3
<1>7. ASSUME StartsWell(p), Blank(p) = {Len(p) - 1} PROVE HasHeader(q, "keep") <=> Keeps(p)
  <2>1. /\ Len(p) - 1 \in Blank(q) /\ Blank(q) \subseteq GoodEnds(q)
        /\ \A e \in Blank(q) : Len(p) - 1 =< e
    BY <1>4, <1>7, <1>n DEF Blank
  <2>2. HeadersEnd(q) = Len(p) - 1
    <3>1. \A e \in Blank(q) : (\A d \in Blank(q) : e =< d) => e = Len(p) - 1
      BY <1>n, <2>1
    <3> QED
      BY <2>1, <3>1 DEF HeadersEnd
  <2>3. ASSUME Keeps(p) PROVE HasHeader(q, "keep")
    <3>1. PICK e \in GoodEnds(p) : ~IsFirst(p, e) /\ LineAt(p, e) = <<"keep">>
      BY <2>3 DEF Keeps
    <3>2. e # Len(p) - 1
      <4>1. LineAt(p, Len(p) - 1) = << >>
        BY <1>7 DEF Blank
      <4>2. <<"keep">> # << >>
        OBVIOUS
      <4> QED
        BY <3>1, <4>1, <4>2
    <3>3. e < Len(p) - 1
      BY <1>1, <1>n, <3>2
    <3> QED
      BY <1>1, <1>n, <2>2, <3>1, <3>3 DEF HasHeader
  <2>4. ASSUME HasHeader(q, "keep") PROVE Keeps(p)
    <3>1. PICK e \in GoodEnds(q) : ~IsFirst(q, e) /\ e < HeadersEnd(q) /\ LineAt(q, e) = <<"keep">>
      BY <2>4 DEF HasHeader
    <3>2. e \in GoodEnds(p)
      BY <1>1, <1>n, <2>2, <3>1
    <3> QED
      BY <1>1, <3>1, <3>2 DEF Keeps
  <2> QED
    BY <2>3, <2>4
<1> QED
  BY <1>2, <1>5, <1>6, <1>7

-------------------------------------------------------------------------------
(* The invariant: the lines taken so far are whole, what has been scanned  *)
(* after them has no CR or LF, and the state of the parser is what these   *)
(* lines decide.                                                           *)
Consumed == SubSeq(m_read_buf, 1, m_start_line)

Scanned ==
  /\ Whole(Consumed)
  /\ \A i \in m_start_line + 1 .. m_checked_idx : m_read_buf[i] \notin {"CR", "LF"}

StateIsConsumed ==
  IF m_check_state = "requestline" THEN m_start_line = 0 /\ ~m_linger
  ELSE StartsWell(Consumed) /\ Blank(Consumed) = {} /\ (m_linger <=> Keeps(Consumed))

NothingUnread == GoodEnds(m_read_buf) \subseteq GoodEnds(Consumed)

ResultIsConsumed ==
  \/ result = "BAD_REQUEST" /\ StartsBadly(Consumed)
  \/ /\ result = "GET_REQUEST" /\ StartsWell(Consumed)
     /\ Blank(Consumed) = {Len(Consumed) - 1} /\ (m_linger <=> Keeps(Consumed))

ParseInv ==
  /\ TypeOK /\ m_content_length = 0 /\ m_check_state # "content"
  /\ m_read_idx =< arrived /\ m_read_buf = Input
  /\ Scanned
  /\ phase \in {"read", "parse"} => StateIsConsumed
  /\ phase = "read" => NothingUnread
  /\ phase = "reply" => ResultIsConsumed

LEMMA ConsumedIs ==
  ASSUME TypeOK
  PROVE  /\ Consumed \in Seq(Unit) /\ Len(Consumed) = m_start_line
         /\ m_start_line \in Nat /\ m_checked_idx \in Nat /\ Len(m_read_buf) \in Nat
         /\ m_start_line =< m_checked_idx /\ m_checked_idx =< Len(m_read_buf)
         /\ \A i \in 1 .. m_start_line : m_read_buf[i] = Consumed[i]
  BY DEF TypeOK, Consumed, m_read_idx

(* Where parse_line() stops.                                               *)
LEMMA TheBreak ==
  ASSUME TypeOK, Scanned, Breaks # {}
  PROVE  /\ FirstBreak \in m_checked_idx .. Len(m_read_buf) - 1
         /\ m_read_buf[FirstBreak + 1] \in {"CR", "LF"}
         /\ \A i \in m_start_line + 1 .. FirstBreak : m_read_buf[i] \notin {"CR", "LF"}
         /\ FirstBreak > 0 => m_read_buf[FirstBreak] # "CR"
<1>1. Breaks \in SUBSET Nat
  BY ConsumedIs DEF Breaks, m_read_idx
<1>2. PICK m \in Breaks : \A j \in Breaks : m =< j
  BY <1>1, Least
<1>3. FirstBreak \in Breaks /\ \A j \in Breaks : FirstBreak =< j
  BY <1>2 DEF FirstBreak
<1> DEFINE f == FirstBreak
<1>4. f \in m_checked_idx .. Len(m_read_buf) - 1 /\ m_read_buf[f + 1] \in {"CR", "LF"}
  BY <1>3 DEF Breaks, Byte, m_read_idx
<1>5. ASSUME NEW i \in m_start_line + 1 .. f PROVE m_read_buf[i] \notin {"CR", "LF"}
  <2>1. CASE i =< m_checked_idx
    BY <1>5, <2>1, ConsumedIs DEF Scanned
  <2>2. CASE i > m_checked_idx
    <3>1. i - 1 \in m_checked_idx .. m_read_idx - 1 /\ ~(f =< i - 1) /\ (i - 1) + 1 = i
      BY <1>4, <1>5, <2>2, ConsumedIs DEF m_read_idx
    <3>2. i - 1 \notin Breaks
      BY <1>3, <3>1
    <3> QED
      BY <3>1, <3>2 DEF Breaks, Byte
  <2> QED
    BY <1>5, <2>1, <2>2, ConsumedIs
<1>6. ASSUME f > 0 PROVE m_read_buf[f] # "CR"
  <2>1. CASE f > m_start_line
    BY <1>4, <1>5, <2>1, ConsumedIs
  <2>2. CASE f = m_start_line
    <3>1. Consumed # << >> /\ Consumed[f] = m_read_buf[f] /\ Consumed[f] = "LF"
      BY <1>4, <1>6, <2>2, ConsumedIs DEF Scanned, Whole
    <3> QED
      BY <3>1
  <2> QED
    BY <1>4, <2>1, <2>2, ConsumedIs
<1> QED
  BY <1>4, <1>5, <1>6

(* A line that is not there yet, or never will be: nothing more is good.   *)
LEMMA Unfinished ==
  ASSUME TypeOK, Scanned, LineStatus # "LINE_OK"
  PROVE  /\ NothingUnread
         /\ CheckedAfter \in m_checked_idx .. Len(m_read_buf)
         /\ \A i \in m_start_line + 1 .. CheckedAfter : m_read_buf[i] \notin {"CR", "LF"}
<1> DEFINE b == m_read_buf
           n == Len(m_read_buf)
           s == m_start_line
<1>t. /\ Consumed \in Seq(Unit) /\ b \in Seq(Unit) /\ Len(Consumed) = s
      /\ s \in Nat /\ m_checked_idx \in Nat /\ n \in Nat /\ s =< m_checked_idx /\ m_checked_idx =< n
      /\ \A i \in 1 .. s : b[i] = Consumed[i]
  BY ConsumedIs DEF TypeOK
<1>w. GoodEnds(Consumed) = {e \in GoodEnds(b) : e < s}
  BY <1>t, WholeLines DEF Scanned
<1>g. \A e \in GoodEnds(b) : e \in 1 .. n - 1 /\ b[e] = "CR" /\ b[e + 1] = "LF" /\ \A i \in Stray(b) : e < i
  BY DEF GoodEnds, LineEnds
<1>s. \A e \in GoodEnds(b) : e # s
  <2>1. s > 0 => b[s] = "LF"
    BY <1>t DEF Scanned, Whole
  <2> QED
    BY <1>g, <1>t, <2>1
<1>1. CASE Breaks = {}
  <2>1. CheckedAfter = n
    BY <1>1 DEF CheckedAfter, m_read_idx
  <2>2. ASSUME NEW i \in s + 1 .. n PROVE b[i] \notin {"CR", "LF"}
    <3>1. CASE i =< m_checked_idx
      BY <3>1, <1>t DEF Scanned
    <3>2. CASE i > m_checked_idx
      <4>1. i - 1 \in m_checked_idx .. m_read_idx - 1 /\ (i - 1) + 1 = i
        BY <3>2, <1>t DEF m_read_idx
      <4> QED
        BY <1>1, <4>1 DEF Breaks, Byte
    <3> QED
      BY <3>1, <3>2, <1>t
  <2>3. NothingUnread
    <3>1. \A e \in GoodEnds(b) : e < s
      BY <1>g, <1>s, <1>t, <2>2
    <3> QED
      BY <1>w, <3>1 DEF NothingUnread
  <2> QED
    BY <1>t, <2>1, <2>2, <2>3
<1>2. CASE Breaks # {}
  <2> DEFINE p == FirstBreak + 1
  <2>1. /\ FirstBreak \in m_checked_idx .. n - 1 /\ b[p] \in {"CR", "LF"}
        /\ \A i \in s + 1 .. FirstBreak : b[i] \notin {"CR", "LF"}
        /\ FirstBreak > 0 => b[FirstBreak] # "CR"
    BY <1>2, TheBreak
  <2>2. CheckedAfter = FirstBreak
    BY <1>2 DEF CheckedAfter
  <2>n. p \in 1 .. n /\ FirstBreak \in Nat /\ p - 1 = FirstBreak
    BY <1>t, <2>1
  <2>3. p \in Stray(b) \/ p = n
    <3>1. CASE b[p] = "LF"
      <4>1. p = 1 \/ b[p - 1] # "CR"
        BY <2>1, <2>n
      <4> QED
        BY <2>n, <3>1, <4>1 DEF Stray
    <3>2. CASE b[p] = "CR" /\ p # n
      <4>1. b[p + 1] # "LF"
        BY <1>2, <2>1, <2>n, <3>2 DEF LineStatus, Byte, m_read_idx
      <4> QED
        BY <1>t, <2>n, <3>2, <4>1 DEF Stray
    <3> QED
      BY <2>1, <3>1, <3>2
  <2>4. ASSUME NEW e \in GoodEnds(b) PROVE e < s
    <3>1. e < p
      BY <1>g, <1>t, <2>3, <2>n
    <3>2. ~(e \in s + 1 .. FirstBreak)
      BY <1>g, <2>1
    <3> QED
      BY <1>g, <1>s, <1>t, <2>n, <3>1, <3>2
  <2>5. NothingUnread
    BY <1>w, <2>4 DEF NothingUnread
  <2> QED
    BY <1>t, <2>1, <2>2, <2>5
<1> QED
  BY <1>1, <1>2

(* A line that is complete.                                                *)
LEMMA Finished ==
  ASSUME TypeOK, Scanned, LineStatus = "LINE_OK"
  PROVE  /\ LineEnd \in m_start_line .. Len(m_read_buf) - 2 /\ CheckedAfter = LineEnd + 2
         /\ m_read_buf[LineEnd + 1] = "CR" /\ m_read_buf[LineEnd + 2] = "LF"
         /\ \A i \in m_start_line + 1 .. LineEnd : m_read_buf[i] \notin {"CR", "LF"}
<1>1. Breaks # {}
  BY DEF LineStatus
<1>2. /\ FirstBreak \in m_checked_idx .. Len(m_read_buf) - 1
      /\ m_read_buf[FirstBreak + 1] \in {"CR", "LF"}
      /\ \A i \in m_start_line + 1 .. FirstBreak : m_read_buf[i] \notin {"CR", "LF"}
      /\ FirstBreak > 0 => m_read_buf[FirstBreak] # "CR"
  BY <1>1, TheBreak
<1>n. FirstBreak \in Nat /\ m_start_line \in Nat /\ m_start_line =< FirstBreak /\ Len(m_read_buf) \in Nat
  BY <1>2, ConsumedIs
<1>3. m_read_buf[FirstBreak + 1] = "CR"
  <2>1. FirstBreak > 1 => FirstBreak - 1 + 1 = FirstBreak /\ FirstBreak > 0
    BY <1>n
  <2>2. ~(FirstBreak > 1 /\ m_read_buf[FirstBreak - 1 + 1] = "CR")
    BY <1>2, <2>1
  <2> QED
    BY <1>1, <1>2, <2>2 DEF LineStatus, Byte
<1>4. FirstBreak + 1 # m_read_idx /\ m_read_buf[FirstBreak + 1 + 1] = "LF"
  BY <1>1, <1>3 DEF LineStatus, Byte
<1>5. LineEnd = FirstBreak
  BY <1>3 DEF LineEnd, Byte
<1>6. FirstBreak + 1 + 1 = FirstBreak + 2 /\ FirstBreak \in m_start_line .. Len(m_read_buf) - 2
  BY <1>2, <1>4, <1>n DEF m_read_idx
<1> QED
  BY <1>1, <1>2, <1>3, <1>4, <1>5, <1>6 DEF CheckedAfter

(* Taking it adds one line to the whole lines.                             *)
Taken == SubSeq(m_read_buf, 1, CheckedAfter)

LEMMA LineTaken ==
  ASSUME TypeOK, Scanned, LineStatus = "LINE_OK"
  PROVE  /\ CheckedAfter \in 1 .. Len(m_read_buf) /\ m_start_line =< CheckedAfter
         /\ Whole(Taken) /\ Taken # << >> /\ Taken \in Seq(Unit) /\ Len(Taken) = CheckedAfter
         /\ GoodEnds(Taken) = GoodEnds(Consumed) \cup {Len(Taken) - 1}
         /\ Len(Taken) - 1 \notin GoodEnds(Consumed)
         /\ LineAt(Taken, Len(Taken) - 1) = Line
         /\ IsFirst(Taken, Len(Taken) - 1) <=> m_start_line = 0
         /\ \A e \in GoodEnds(Consumed) : /\ LineAt(Taken, e) = LineAt(Consumed, e)
                                          /\ IsFirst(Taken, e) <=> IsFirst(Consumed, e)
<1> DEFINE b == m_read_buf
           s == m_start_line
           k == LineEnd - s
<1>1. /\ LineEnd \in s .. Len(b) - 2 /\ CheckedAfter = LineEnd + 2
      /\ b[LineEnd + 1] = "CR" /\ b[LineEnd + 2] = "LF"
      /\ \A i \in s + 1 .. LineEnd : b[i] \notin {"CR", "LF"}
  BY Finished
<1>2. /\ Consumed \in Seq(Unit) /\ b \in Seq(Unit) /\ Len(Consumed) = s
      /\ s \in Nat /\ Len(b) \in Nat
      /\ \A i \in 1 .. s : b[i] = Consumed[i]
  BY ConsumedIs DEF TypeOK
<1>3. CheckedAfter \in 1 .. Len(b) /\ s =< CheckedAfter /\ k \in Nat /\ LineEnd \in Nat
  BY <1>1, <1>2
<1>4. /\ Taken \in Seq(Unit) /\ Len(Taken) = CheckedAfter
      /\ \A i \in 1 .. CheckedAfter : Taken[i] = b[i]
  BY <1>2, <1>3 DEF Taken
<1>5. /\ s + k = LineEnd /\ s + k + 1 = LineEnd + 1 /\ s + k + 2 = LineEnd + 2
      /\ LineEnd + 1 \in 1 .. CheckedAfter /\ LineEnd + 2 \in 1 .. CheckedAfter
      /\ \A i \in s + 1 .. LineEnd : i \in 1 .. CheckedAfter
      /\ \A i \in 1 .. s : i \in 1 .. CheckedAfter
  BY <1>1, <1>2, <1>3
<1> HIDE DEF k
<1>6. /\ Len(Taken) = Len(Consumed) + k + 2
      /\ \A i \in 1 .. Len(Consumed) : Taken[i] = Consumed[i]
      /\ \A i \in Len(Consumed) + 1 .. Len(Consumed) + k : Taken[i] \notin {"CR", "LF"}
      /\ Taken[Len(Consumed) + k + 1] = "CR" /\ Taken[Len(Consumed) + k + 2] = "LF"
  BY <1>1, <1>2, <1>4, <1>5
<1>7. /\ Whole(Taken) /\ Taken # << >>
      /\ GoodEnds(Taken) = GoodEnds(Consumed) \cup {Len(Taken) - 1}
      /\ Len(Taken) - 1 \notin GoodEnds(Consumed)
      /\ LineAt(Taken, Len(Taken) - 1) = SubSeq(Taken, Len(Consumed) + 1, Len(Consumed) + k)
      /\ IsFirst(Taken, Len(Taken) - 1) <=> Consumed = << >>
      /\ \A e \in GoodEnds(Consumed) : /\ LineAt(Taken, e) = LineAt(Consumed, e)
                                       /\ IsFirst(Taken, e) <=> IsFirst(Consumed, e)
  <2>1. Whole(Consumed) /\ k \in Nat /\ Consumed \in Seq(Unit) /\ Taken \in Seq(Unit)
    BY <1>2, <1>3, <1>4 DEF Scanned
  <2> QED
    BY <1>6, <2>1, NewLine, Zenon
<1>8. SubSeq(Taken, s + 1, LineEnd) = Line
  <2>1. /\ s + 1 \in Nat \ {0} /\ LineEnd =< Len(Taken) /\ LineEnd =< Len(b)
        /\ \A i \in s + 1 .. LineEnd : Taken[i] = b[i]
    BY <1>1, <1>2, <1>3, <1>4, <1>5
  <2> QED
    BY <1>2, <1>3, <1>4, <2>1, SamePiece DEF Line
<1>9. Consumed = << >> <=> s = 0
  BY <1>2
<1> QED
  BY <1>2, <1>3, <1>4, <1>5, <1>7, <1>8, <1>9

-------------------------------------------------------------------------------
LEMMA ParseInit == Init => ParseInv
<1> SUFFICES ASSUME Init PROVE ParseInv
  OBVIOUS
<1>1. /\ stream \in Seq(Unit) /\ m_read_buf = << >> /\ Len(m_read_buf) = 0 /\ arrived = 0
      /\ m_checked_idx = 0 /\ m_start_line = 0 /\ m_check_state = "requestline"
      /\ phase = "read" /\ m_linger = FALSE
  BY ParseAssumption DEF Init
<1>2. TypeOK
  <2>1. m_read_buf \in Seq(Unit) /\ Len(stream) \in Nat /\ BufferSize \in Nat
    BY <1>1, ParseAssumption
  <2>2. /\ arrived \in 0 .. Len(stream) /\ m_read_idx = 0 /\ m_read_idx =< BufferSize
        /\ m_start_line \in 0 .. m_checked_idx /\ m_checked_idx \in 0 .. m_read_idx
    BY <1>1, <2>1 DEF m_read_idx
  <2>3. stream \in Streams /\ m_linger \in BOOLEAN /\ m_content_length \in Nat /\ result = "NO_REQUEST"
    BY <1>1 DEF Init
  <2> QED
    BY <1>1, <2>1, <2>2, <2>3 DEF TypeOK
<1>3. Input = << >> /\ Consumed = << >>
  BY <1>1 DEF Input, Consumed, m_read_idx
<1>4. Scanned
  BY <1>1, <1>3 DEF Scanned, Whole
<1>5. GoodEnds(m_read_buf) = {}
  BY <1>1 DEF GoodEnds, LineEnds
<1> QED
  BY <1>1, <1>2, <1>3, <1>4, <1>5 DEF Init, ParseInv, StateIsConsumed, NothingUnread, m_read_idx

(* A read leaves the lines that were taken, and what was scanned, alone.   *)
LEMMA ReadKeeps == ASSUME ParseInv, NEW n \in 1 .. BufferSize, Read(n) PROVE ParseInv'
<1>1. /\ phase = "read" /\ phase' = "parse" /\ arrived' = arrived + n
      /\ n =< Len(stream) - arrived /\ n =< BufferSize - Len(m_read_buf)
      /\ m_read_buf' = m_read_buf \o SubSeq(stream, arrived + 1, arrived + n)
      /\ UNCHANGED <<stream, m_checked_idx, m_start_line, m_check_state, m_content_length, m_linger, result>>
  BY DEF Read, parser, m_read_idx
<1>2. /\ stream \in Seq(Unit) /\ arrived \in Nat /\ arrived =< Len(stream) /\ Len(stream) \in Nat
      /\ n \in Nat /\ m_read_buf \in Seq(Unit) /\ Len(m_read_buf) \in Nat
      /\ BufferSize \in Nat /\ Len(m_read_buf) =< arrived
      /\ m_read_buf = SubSeq(stream, arrived - Len(m_read_buf) + 1, arrived)
  BY ParseAssumption DEF ParseInv, TypeOK, Input, m_read_idx
<1>3. /\ m_read_buf' \in Seq(Unit) /\ Len(m_read_buf') = Len(m_read_buf) + n
      /\ \A i \in 1 .. Len(m_read_buf) : m_read_buf'[i] = m_read_buf[i]
      /\ \A i \in Len(m_read_buf) + 1 .. Len(m_read_buf) + n :
           m_read_buf'[i] = stream[arrived + i - Len(m_read_buf)]
  <2> DEFINE t == SubSeq(stream, arrived + 1, arrived + n)
  <2>0. t \in Seq(Unit)
    BY <1>1, <1>2
  <2>1. t \in Seq(Unit) /\ Len(t) = n /\ \A i \in 1 .. n : t[i] = stream[arrived + i]
    <3>1. /\ arrived + 1 \in 1 .. Len(stream) /\ arrived + n \in 1 .. Len(stream)
          /\ (arrived + n) - (arrived + 1) + 1 = n
          /\ \A i \in 1 .. n : arrived + 1 + i - 1 = arrived + i
      BY <1>1, <1>2
    <3>2. arrived + 1 =< arrived + n
      BY <1>2
    <3>3. Len(t) = n
      BY <1>2, <3>1, <3>2
    <3>4. \A i \in 1 .. n : t[i] = stream[arrived + 1 + i - 1]
      BY <1>2, <3>1, <3>2
    <3> QED
      BY <2>0, <3>1, <3>3, <3>4
  <2> HIDE DEF t
  <2>2. \A i \in Len(m_read_buf) + 1 .. Len(m_read_buf) + n :
          /\ (m_read_buf \o t)[i] = t[i - Len(m_read_buf)] /\ i - Len(m_read_buf) \in 1 .. n
          /\ arrived + (i - Len(m_read_buf)) = arrived + i - Len(m_read_buf)
    BY <1>2, <2>1
  <2>3. m_read_buf' = m_read_buf \o t
    BY <1>1 DEF t
  <2>4. /\ m_read_buf \o t \in Seq(Unit) /\ Len(m_read_buf \o t) = Len(m_read_buf) + n
        /\ \A i \in 1 .. Len(m_read_buf) : (m_read_buf \o t)[i] = m_read_buf[i]
    <3>1. m_read_buf \in Seq(Unit) /\ Len(m_read_buf) \in Nat /\ n \in Nat
      BY <1>2
    <3>2. \A i \in 1 .. Len(m_read_buf) : i \in 1 .. Len(m_read_buf) + n /\ i =< Len(m_read_buf)
      BY <3>1
    <3> HIDE DEF t
    <3>3. /\ m_read_buf \o t \in Seq(Unit) /\ Len(m_read_buf \o t) = Len(m_read_buf) + n
          /\ \A i \in 1 .. Len(m_read_buf) + n :
               (m_read_buf \o t)[i] = IF i =< Len(m_read_buf) THEN m_read_buf[i] ELSE t[i - Len(m_read_buf)]
      BY <2>1, <3>1, ConcatProperties, Zenon
    <3> QED
      BY <3>2, <3>3
  <2>5. \A i \in Len(m_read_buf) + 1 .. Len(m_read_buf) + n :
           (m_read_buf \o t)[i] = stream[arrived + i - Len(m_read_buf)]
    BY <2>1, <2>2
  <2> HIDE DEF t
  <2> QED
    BY <2>3, <2>4, <2>5
<1>4. TypeOK'
  BY <1>1, <1>2, <1>3 DEF ParseInv, TypeOK, m_read_idx
<1>5. m_read_buf' = Input'
  <2> DEFINE w == Input'
             l == Len(m_read_buf) + n
  <2>1. w = SubSeq(stream, arrived + n - l + 1, arrived + n)
    <3>1. Len(m_read_buf') = l /\ stream' = stream /\ arrived' = arrived + n
      BY <1>1, <1>3
    <3>2. w = SubSeq(stream', arrived' - Len(m_read_buf') + 1, arrived')
      BY DEF Input, m_read_idx
    <3>3. arrived' - Len(m_read_buf') + 1 = arrived + n - l + 1
      <4>1. l \in Nat /\ arrived \in Nat /\ n \in Nat
        BY <1>2
      <4> QED
        BY <3>1, <4>1
    <3> QED
      BY <3>1, <3>2, <3>3
  <2>2. arrived + n - l + 1 = arrived - Len(m_read_buf) + 1 /\ arrived - Len(m_read_buf) \in Nat
    BY <1>2
  <2>3. /\ w \in Seq(Unit) /\ Len(w) = l
        /\ \A i \in 1 .. l : w[i] = stream[arrived - Len(m_read_buf) + i]
    BY <1>1, <1>2, <2>1, <2>2
  <2>4. \A i \in 1 .. Len(m_read_buf) : m_read_buf[i] = stream[arrived - Len(m_read_buf) + i]
    BY <1>2, <2>2
  <2>5. ASSUME NEW i \in 1 .. l PROVE m_read_buf'[i] = w[i]
    <3>w. w[i] = stream[arrived - Len(m_read_buf) + i]
      BY <2>3
    <3>1. CASE i =< Len(m_read_buf)
      <4>1. i \in 1 .. Len(m_read_buf)
        BY <1>2, <3>1
      <4> QED
        BY <1>3, <2>4, <3>w, <4>1
    <3>2. CASE i > Len(m_read_buf)
      <4>1. arrived + i - Len(m_read_buf) = arrived - Len(m_read_buf) + i
        BY <1>2
      <4>2. i \in Len(m_read_buf) + 1 .. Len(m_read_buf) + n
        BY <1>2, <3>2
      <4> QED
        BY <1>3, <3>w, <4>1, <4>2
    <3> QED
      BY <1>2, <3>1, <3>2
  <2> HIDE DEF w
  <2>6. Len(m_read_buf') = Len(w)
    BY <1>3, <2>3
  <2>7. m_read_buf' = w
    BY <1>3, <2>3, <2>5, <2>6, SeqEqual
  <2> QED
    BY <2>7 DEF w
<1>6. m_start_line \in Nat /\ m_checked_idx \in Nat /\ m_start_line =< m_checked_idx /\ m_checked_idx =< Len(m_read_buf)
  BY ConsumedIs DEF ParseInv
<1>7. Consumed' = Consumed
  <2>1. /\ m_start_line =< Len(m_read_buf) /\ m_start_line =< Len(m_read_buf')
        /\ \A i \in 1 .. m_start_line : m_read_buf'[i] = m_read_buf[i]
    BY <1>2, <1>3, <1>6
  <2>2. SubSeq(m_read_buf', 1, m_start_line) = SubSeq(m_read_buf, 1, m_start_line)
    BY <1>2, <1>3, <1>6, <2>1, SamePiece
  <2> QED
    BY <1>1, <2>2 DEF Consumed
<1>8. Scanned'
  BY <1>1, <1>2, <1>3, <1>6, <1>7 DEF ParseInv, Scanned
<1>9. StateIsConsumed'
  BY <1>1, <1>7 DEF ParseInv, StateIsConsumed
<1> QED
  <2>1. Len(m_read_buf') =< arrived'
    BY <1>1, <1>2, <1>3
  <2> QED
    BY <1>1, <1>4, <1>5, <1>8, <1>9, <2>1 DEF ParseInv, m_read_idx

LEMMA LastTurnKeeps == ASSUME ParseInv, LastTurn PROVE ParseInv'
<1>1. /\ phase = "parse" /\ LineStatus # "LINE_OK" /\ m_checked_idx' = CheckedAfter
      /\ result' = "NO_REQUEST" /\ phase' = "read"
      /\ UNCHANGED <<stream, arrived, m_read_buf, m_start_line, m_check_state, m_content_length, m_linger>>
  BY DEF ParseInv, LastTurn, Return
<1>2. /\ NothingUnread
      /\ CheckedAfter \in m_checked_idx .. Len(m_read_buf)
      /\ \A i \in m_start_line + 1 .. CheckedAfter : m_read_buf[i] \notin {"CR", "LF"}
  BY <1>1, Unfinished DEF ParseInv
<1>3. TypeOK'
  BY <1>1, <1>2 DEF ParseInv, TypeOK, m_read_idx
<1>4. Consumed' = Consumed /\ Input' = Input
  BY <1>1 DEF Consumed, Input, m_read_idx
<1>5. Scanned' /\ StateIsConsumed' /\ NothingUnread'
  BY <1>1, <1>2, <1>4 DEF ParseInv, Scanned, StateIsConsumed, NothingUnread
<1> QED
  BY <1>1, <1>3, <1>4, <1>5 DEF ParseInv, m_read_idx

(* What the three turns that take a line have in common.                   *)
LEMMA TurnTakes ==
  ASSUME ParseInv, LineStatus = "LINE_OK", TakeLine, UNCHANGED <<stream, arrived, m_read_buf>>
  PROVE  /\ Consumed' = Taken /\ Scanned' /\ Input' = Input
         /\ m_start_line' \in 0 .. m_checked_idx' /\ m_checked_idx' \in 0 .. Len(m_read_buf)
<1>1. m_start_line' = CheckedAfter /\ m_checked_idx' = CheckedAfter
  BY DEF TakeLine
<1>2. Consumed' = Taken /\ Input' = Input
  BY <1>1 DEF Consumed, Taken, Input, m_read_idx
<1>3. Whole(Taken) /\ CheckedAfter \in 1 .. Len(m_read_buf) /\ Len(m_read_buf) \in Nat
  BY LineTaken, ConsumedIs DEF ParseInv
<1>4. Scanned'
  BY <1>1, <1>2, <1>3 DEF Scanned
<1> QED
  BY <1>1, <1>2, <1>3, <1>4

LEMMA RequestLineKeeps == ASSUME ParseInv, RequestLine PROVE ParseInv'
<1>1. /\ phase = "parse" /\ m_check_state = "requestline" /\ LineStatus = "LINE_OK" /\ TakeLine
      /\ UNCHANGED <<stream, arrived, m_read_buf, m_content_length, m_linger>>
      /\ IF Line = <<"get">>
         THEN m_check_state' = "header" /\ UNCHANGED <<phase, result>>
         ELSE UNCHANGED m_check_state /\ result' = "BAD_REQUEST" /\ phase' = "reply"
  BY DEF RequestLine, Return, GoodRequestLine
<1>2. /\ Consumed' = Taken /\ Scanned' /\ Input' = Input
      /\ m_start_line' \in 0 .. m_checked_idx' /\ m_checked_idx' \in 0 .. Len(m_read_buf)
  BY <1>1, TurnTakes
<1>3. TypeOK'
  BY <1>1, <1>2 DEF ParseInv, TypeOK, m_read_idx
<1>4. m_start_line = 0 /\ ~m_linger
  BY <1>1 DEF ParseInv, StateIsConsumed
<1>5. GoodEnds(Consumed) = {}
  BY <1>4, ConsumedIs DEF ParseInv, GoodEnds, LineEnds
<1> DEFINE e == Len(Taken) - 1
<1>6. GoodEnds(Taken) = {e} /\ LineAt(Taken, e) = Line /\ IsFirst(Taken, e)
  BY <1>1, <1>4, <1>5, LineTaken DEF ParseInv
<1> HIDE DEF e
<1>7. CASE Line = <<"get">>
  <2>1. StartsWell(Taken)
    BY <1>6, <1>7 DEF StartsWell
  <2>2. Blank(Taken) = {} /\ ~Keeps(Taken)
    BY <1>6 DEF Blank, Keeps
  <2>3. StateIsConsumed'
    BY <1>1, <1>2, <1>4, <1>7, <2>1, <2>2 DEF StateIsConsumed
  <2> QED
    BY <1>1, <1>2, <1>3, <1>7, <2>3 DEF ParseInv, m_read_idx
<1>8. CASE Line # <<"get">>
  <2>1. StartsBadly(Taken)
    BY <1>6, <1>8 DEF StartsBadly
  <2>2. ResultIsConsumed'
    BY <1>1, <1>2, <1>8, <2>1 DEF ResultIsConsumed
  <2> QED
    BY <1>1, <1>2, <1>3, <1>8, <2>2 DEF ParseInv, m_read_idx
<1> QED
  BY <1>7, <1>8

(* A line after the first: what the lines decide changes by what it says.  *)
LEMMA LaterLine ==
  ASSUME ParseInv, phase = "parse", m_check_state = "header", LineStatus = "LINE_OK"
  PROVE  /\ StartsWell(Taken)
         /\ Blank(Taken) = IF Line = << >> THEN {Len(Taken) - 1} ELSE {}
         /\ Keeps(Taken) <=> (m_linger \/ Line = <<"keep">>)
<1> DEFINE e == Len(Taken) - 1
<1>1. /\ GoodEnds(Taken) = GoodEnds(Consumed) \cup {e} /\ e \notin GoodEnds(Consumed)
      /\ LineAt(Taken, e) = Line
      /\ IsFirst(Taken, e) <=> m_start_line = 0
      /\ \A d \in GoodEnds(Consumed) : /\ LineAt(Taken, d) = LineAt(Consumed, d)
                                       /\ IsFirst(Taken, d) <=> IsFirst(Consumed, d)
  BY LineTaken DEF ParseInv
<1> HIDE DEF e
<1>2. StartsWell(Consumed) /\ Blank(Consumed) = {} /\ (m_linger <=> Keeps(Consumed))
  BY DEF ParseInv, StateIsConsumed
<1>3. m_start_line # 0
  <2>1. GoodEnds(Consumed) # {}
    BY <1>2 DEF StartsWell
  <2> QED
    BY <2>1, ConsumedIs DEF ParseInv, GoodEnds, LineEnds
<1>4. StartsWell(Taken)
  BY <1>1, <1>2 DEF StartsWell
<1>5. Blank(Taken) = IF Line = << >> THEN {e} ELSE {}
  <2>1. \A d \in GoodEnds(Consumed) : d \notin Blank(Taken)
    BY <1>1, <1>2 DEF Blank
  <2>2. e \in Blank(Taken) <=> Line = << >>
    BY <1>1, <1>3 DEF Blank
  <2>3. Blank(Taken) \subseteq GoodEnds(Consumed) \cup {e}
    BY <1>1 DEF Blank
  <2> QED
    BY <2>1, <2>2, <2>3
<1>6. Keeps(Taken) <=> (m_linger \/ Line = <<"keep">>)
  BY <1>1, <1>2, <1>3 DEF Keeps
<1> QED
  BY <1>4, <1>5, <1>6 DEF e

LEMMA HeaderKeeps == ASSUME ParseInv, Header PROVE ParseInv'
<1>1. /\ phase = "parse" /\ m_check_state = "header" /\ LineStatus = "LINE_OK" /\ TakeLine
      /\ Line # << >> /\ m_linger' = (m_linger \/ Line = <<"keep">>)
      /\ m_content_length' = m_content_length
      /\ UNCHANGED <<stream, arrived, m_read_buf, m_check_state, phase, result>>
  BY DEF Header, ContentLength
<1>2. /\ Consumed' = Taken /\ Scanned' /\ Input' = Input
      /\ m_start_line' \in 0 .. m_checked_idx' /\ m_checked_idx' \in 0 .. Len(m_read_buf)
  BY <1>1, TurnTakes
<1>3. TypeOK'
  BY <1>1, <1>2 DEF ParseInv, TypeOK, m_read_idx
<1>4. StateIsConsumed'
  BY <1>1, <1>2, LaterLine DEF StateIsConsumed
<1> QED
  BY <1>1, <1>2, <1>3, <1>4 DEF ParseInv, m_read_idx

LEMMA EndOfHeadersKeeps == ASSUME ParseInv, EndOfHeaders PROVE ParseInv'
<1>1. /\ phase = "parse" /\ m_check_state = "header" /\ LineStatus = "LINE_OK" /\ TakeLine
      /\ Line = << >> /\ result' = "GET_REQUEST" /\ phase' = "reply"
      /\ UNCHANGED <<stream, arrived, m_read_buf, m_check_state, m_content_length, m_linger>>
  BY DEF ParseInv, EndOfHeaders, Return
<1>2. /\ Consumed' = Taken /\ Scanned' /\ Input' = Input
      /\ m_start_line' \in 0 .. m_checked_idx' /\ m_checked_idx' \in 0 .. Len(m_read_buf)
  BY <1>1, TurnTakes
<1>3. TypeOK'
  BY <1>1, <1>2 DEF ParseInv, TypeOK, m_read_idx
<1>4. ResultIsConsumed'
  <2>1. << >> # <<"keep">>
    OBVIOUS
  <2> QED
    BY <1>1, <1>2, <2>1, LaterLine DEF ResultIsConsumed
<1> QED
  BY <1>1, <1>2, <1>3, <1>4 DEF ParseInv, m_read_idx

LEMMA ReplySentKeeps == ASSUME ParseInv, ReplySent PROVE ParseInv'
<1>1. CASE m_linger
  <2>1. /\ phase' = "read" /\ m_check_state' = "requestline" /\ m_start_line' = 0 /\ m_checked_idx' = 0
        /\ m_content_length' = 0 /\ m_linger' = FALSE /\ m_read_buf' = << >>
        /\ UNCHANGED <<stream, arrived, result>>
    BY <1>1 DEF ReplySent, Reset
  <2>2. stream \in Seq(Unit) /\ arrived \in Nat /\ Len(m_read_buf') = 0
    BY <2>1, ParseAssumption DEF ParseInv, TypeOK
  <2>3. TypeOK'
    <3>1. m_read_buf' \in Seq(Unit) /\ BufferSize \in Nat
      BY <2>1, ParseAssumption
    <3>2. /\ stream' \in Streams /\ arrived' \in 0 .. Len(stream') /\ phase' = "read"
          /\ result' \in {"NO_REQUEST", "BAD_REQUEST", "GET_REQUEST"} /\ m_linger' \in BOOLEAN
      BY <2>1 DEF ParseInv, TypeOK
    <3>3. m_read_idx' = 0
      BY <2>2 DEF m_read_idx
    <3>4. /\ m_read_idx' =< BufferSize /\ m_content_length' \in Nat
          /\ m_start_line' \in 0 .. m_checked_idx' /\ m_checked_idx' \in 0 .. m_read_idx'
      BY <2>1, <3>1, <3>3
    <3>5. m_check_state' = "requestline"
      BY <2>1
    <3> QED
      BY <3>1, <3>2, <3>4, <3>5 DEF TypeOK
  <2>4. Input' = << >>
    BY <2>1, <2>2 DEF Input, m_read_idx
  <2>5. Consumed' = << >>
    BY <2>1 DEF Consumed
  <2>6. Scanned'
    BY <2>1, <2>5 DEF Scanned, Whole
  <2>7. NothingUnread'
    BY <2>1 DEF NothingUnread, GoodEnds, LineEnds
  <2> QED
    BY <2>1, <2>2, <2>3, <2>4, <2>6, <2>7 DEF ParseInv, StateIsConsumed, m_read_idx
<1>2. CASE ~m_linger
  <2>1. phase' = "closed" /\ UNCHANGED <<stream, arrived, result, m_read_buf, parser>>
    BY <1>2 DEF ReplySent
  <2>2. TypeOK' /\ Consumed' = Consumed /\ Input' = Input
    BY <2>1 DEF ParseInv, TypeOK, Consumed, Input, parser, m_read_idx
  <2>3. Scanned'
    BY <2>1, <2>2 DEF ParseInv, Scanned, parser
  <2> QED
    BY <2>1, <2>2, <2>3 DEF ParseInv, parser, m_read_idx
<1> QED
  BY <1>1, <1>2

LEMMA ParseStep == ParseInv /\ [Next]_vars => ParseInv'
<1> SUFFICES ASSUME ParseInv, [Next]_vars PROVE ParseInv'
  OBVIOUS
<1>1. ASSUME NEW n \in 1 .. BufferSize, Read(n) PROVE ParseInv'
  BY <1>1, ReadKeeps
<1>2. CASE ReadOverflow
  <2>1. phase' = "closed" /\ UNCHANGED <<stream, arrived, result, m_read_buf, parser>>
    BY <1>2 DEF ReadOverflow
  <2>2. TypeOK' /\ Consumed' = Consumed /\ Input' = Input
    BY <2>1 DEF ParseInv, TypeOK, Consumed, Input, parser, m_read_idx
  <2>3. Scanned'
    BY <2>1, <2>2 DEF ParseInv, Scanned, parser
  <2> QED
    BY <2>1, <2>2, <2>3 DEF ParseInv, parser, m_read_idx
<1>3. CASE UNCHANGED vars
  <2>1. UNCHANGED <<stream, arrived, result, m_read_buf, phase>> /\ UNCHANGED parser
    BY <1>3 DEF vars, parser
  <2>2. TypeOK' /\ Consumed' = Consumed /\ Input' = Input
    BY <2>1 DEF ParseInv, TypeOK, Consumed, Input, parser, m_read_idx
  <2>3. Scanned'
    BY <2>1, <2>2 DEF ParseInv, Scanned, parser
  <2>4. /\ StateIsConsumed => StateIsConsumed'
        /\ NothingUnread => NothingUnread'
        /\ ResultIsConsumed => ResultIsConsumed'
    BY <2>1, <2>2 DEF StateIsConsumed, NothingUnread, ResultIsConsumed, parser
  <2> QED
    BY <2>1, <2>2, <2>3, <2>4 DEF ParseInv, parser, m_read_idx
<1> QED
  BY <1>1, <1>2, <1>3, LastTurnKeeps, RequestLineKeeps, HeaderKeeps, EndOfHeadersKeeps, ReplySentKeeps
  DEF Next

(* The verdict and m_linger follow from what the taken lines decide.       *)
LEMMA ParseMeans == ParseInv => VerdictIsMeaning /\ LingerIsAsked
<1> SUFFICES ASSUME ParseInv PROVE VerdictIsMeaning /\ LingerIsAsked
  OBVIOUS
<1> DEFINE p == Consumed
           q == m_read_buf
<1>1. /\ p \in Seq(Unit) /\ q \in Seq(Unit) /\ Whole(p) /\ Len(p) =< Len(q)
      /\ \A i \in 1 .. Len(p) : q[i] = p[i]
      /\ m_start_line = 0 => p = << >>
  <2>1. /\ p \in Seq(Unit) /\ Len(p) = m_start_line /\ m_start_line \in Nat /\ Len(q) \in Nat
        /\ m_start_line =< m_checked_idx /\ m_checked_idx \in Nat /\ m_checked_idx =< Len(q)
        /\ \A i \in 1 .. m_start_line : q[i] = p[i]
    BY ConsumedIs DEF ParseInv
  <2> QED
    BY <2>1 DEF ParseInv, TypeOK, Scanned
<1> HIDE DEF p
<1>2. /\ StartsBadly(p) => Meaning(q) = "BAD_REQUEST"
      /\ StartsWell(p) /\ Blank(p) # {} => Meaning(q) = "GET_REQUEST"
      /\ GoodEnds(q) \subseteq GoodEnds(p) /\ Blank(p) = {} /\ (p = << >> \/ StartsWell(p))
           => Meaning(q) = "NO_REQUEST"
      /\ StartsWell(p) /\ Blank(p) = {Len(p) - 1} => (HasHeader(q, "keep") <=> Keeps(p))
  BY <1>1, Decided
<1>3. Input = q
  BY DEF ParseInv
<1>4. ASSUME phase = "read" PROVE Meaning(q) = "NO_REQUEST"
  <2>1. GoodEnds(q) \subseteq GoodEnds(p)
    BY <1>4 DEF ParseInv, NothingUnread, p
  <2>2. Blank(p) = {} /\ (p = << >> \/ StartsWell(p))
    <3>1. p = << >> => Blank(p) = {}
      BY DEF Blank, GoodEnds, LineEnds
    <3> QED
      BY <1>1, <1>4, <3>1 DEF ParseInv, StateIsConsumed, p
  <2> QED
    BY <1>2, <2>1, <2>2
<1>5. ASSUME phase = "reply"
      PROVE  /\ Meaning(q) = result
             /\ result = "GET_REQUEST" => (m_linger <=> HasHeader(q, "keep"))
  <2>1. \/ result = "BAD_REQUEST" /\ StartsBadly(p)
        \/ /\ result = "GET_REQUEST" /\ StartsWell(p)
           /\ Blank(p) = {Len(p) - 1} /\ (m_linger <=> Keeps(p))
    BY <1>5 DEF ParseInv, ResultIsConsumed, p
  <2> QED
    BY <1>2, <2>1
<1>6. TypeOK
  BY DEF ParseInv
<1> QED
  BY <1>3, <1>4, <1>5, <1>6 DEF VerdictIsMeaning, LingerIsAsked

(* For every stream, every way it is cut into pieces, every size of the    *)
(* buffer and every number of requests on one connection, the verdict of   *)
(* process_read is the one that the input read as a whole deserves.        *)
THEOREM ParseVerdictIsMeaning == Spec => []VerdictIsMeaning
<1>1. ParseInv => VerdictIsMeaning
  BY ParseMeans
<1> QED
  BY ParseInit, ParseStep, <1>1, PTL DEF Spec

(* For every such stream, an accepted request leaves m_linger set exactly  *)
(* if one of its own headers asked for it, not one of an earlier request.  *)
THEOREM ParseLingerIsAsked == Spec => []LingerIsAsked
<1>1. ParseInv => LingerIsAsked
  BY ParseMeans
<1> QED
  BY ParseInit, ParseStep, <1>1, PTL DEF Spec
===============================================================================
