------------------------------ MODULE HttpParse -------------------------------
(***************************************************************************)
(* How http_conn (HTTP_server_learning/http_conn.cpp) makes requests of a  *)
(* byte stream that arrives in arbitrary pieces: read() fills m_read_buf,  *)
(* process_read() cuts lines with parse_line() and feeds them to the main  *)
(* state machine, init() prepares the next request.                        *)
(*                                                                         *)
(* A stream is a sequence of units: "CR", "LF", and runs of other bytes    *)
(* named for what the parser sees in them: "get" is a request line it      *)
(* accepts, "keep" is `Connection: keep-alive', "length" is a              *)
(* `Content-Length: 1' header, "text" anything else.  A run that arrives   *)
(* in two pieces is parsed no differently from one that arrives whole.     *)
(***************************************************************************)
EXTENDS Integers, Sequences, FiniteSets

CONSTANTS
  Streams,        \* what the client may send on the connection
  BufferSize      \* READ_BUFFER_SIZE, in units

Unit == {"CR", "LF", "get", "keep", "length", "text"}

ASSUME ParseAssumption ==
  /\ Streams \subseteq Seq(Unit)
  /\ BufferSize \in Nat \ {0}

VARIABLES
  stream, arrived,          \* the client's stream; how much of it recv returned
  m_read_buf, m_checked_idx, m_start_line,
  m_check_state, m_content_length, m_linger,
  phase,          \* "read", "parse", "reply", "closed"
  result          \* what process_read returned last

vars == <<stream, arrived, m_read_buf, m_checked_idx, m_start_line,
          m_check_state, m_content_length, m_linger, phase, result>>
parser == <<m_checked_idx, m_start_line, m_check_state, m_content_length, m_linger>>

m_read_idx == Len(m_read_buf)

TypeOK ==
  /\ stream \in Streams
  /\ arrived \in 0 .. Len(stream)
  /\ m_read_buf \in Seq(Unit) /\ m_read_idx =< BufferSize
  /\ m_start_line \in 0 .. m_checked_idx /\ m_checked_idx \in 0 .. m_read_idx
  /\ m_check_state \in {"requestline", "header", "content"}
  /\ m_content_length \in Nat
  /\ m_linger \in BOOLEAN
  /\ phase \in {"read", "parse", "reply", "closed"}
  /\ result \in {"NO_REQUEST", "BAD_REQUEST", "GET_REQUEST"}

Init ==
  /\ stream \in Streams
  /\ arrived = 0
  /\ m_read_buf = << >>
  /\ m_checked_idx = 0 /\ m_start_line = 0
  /\ m_check_state = "requestline"
  /\ m_content_length = 0
  /\ m_linger = FALSE
  /\ phase = "read"
  /\ result = "NO_REQUEST"

-------------------------------------------------------------------------------
(* read(): one or more recvs that append what has arrived to the buffer.   *)
Read(n) ==
  /\ phase = "read"
  /\ n =< Len(stream) - arrived /\ n =< BufferSize - m_read_idx
  /\ m_read_buf' = m_read_buf \o SubSeq(stream, arrived + 1, arrived + n)
  /\ arrived' = arrived + n
  /\ phase' = "parse"
  /\ UNCHANGED <<stream, parser, result>>

(* read() fails: the buffer is full, or fills up before the input ends.    *)
ReadOverflow ==
  /\ phase = "read"
  /\ Len(stream) - arrived > BufferSize - m_read_idx
  /\ phase' = "closed"
  /\ UNCHANGED <<stream, arrived, m_read_buf, parser, result>>

-------------------------------------------------------------------------------
(* parse_line(): the index of the first CR or LF not yet passed decides.   *)
Byte(i) == m_read_buf[i + 1]                 \* C's m_read_buf[i]

Breaks == {i \in m_checked_idx .. m_read_idx - 1 : Byte(i) \in {"CR", "LF"}}
FirstBreak == CHOOSE i \in Breaks : \A j \in Breaks : i =< j

(* A CR at the end of the buffer waits for its LF; a CR not followed by LF *)
(* and an LF not preceded by CR are bad.                                   *)
LineStatus ==
  IF Breaks = {} THEN "LINE_OPEN"
  ELSE IF Byte(FirstBreak) = "LF"
       THEN IF FirstBreak > 1 /\ Byte(FirstBreak - 1) = "CR"
            THEN "LINE_OK" ELSE "LINE_BAD"
  ELSE IF FirstBreak + 1 = m_read_idx THEN "LINE_OPEN"
  ELSE IF Byte(FirstBreak + 1) = "LF" THEN "LINE_OK" ELSE "LINE_BAD"

LineEnd == IF Byte(FirstBreak) = "CR" THEN FirstBreak ELSE FirstBreak - 1

(* Where m_checked_idx is left: after the CRLF, or at the byte that        *)
(* stopped the scan.                                                       *)
CheckedAfter ==
  IF Breaks = {} THEN m_read_idx
  ELSE IF LineStatus = "LINE_OK" THEN LineEnd + 2 ELSE FirstBreak

Line == SubSeq(m_read_buf, m_start_line + 1, LineEnd)

(* parse_request_line(): only `GET url HTTP/1.1' is accepted.              *)
GoodRequestLine(line) == line = <<"get">>

(* `strncasecmp(text, "Content-Length", 15)' compares the terminator too:  *)
(* it accepts only a line that ends there, and atol then reads 0.          *)
ContentLength(line) == m_content_length

(* parse_content(): all of the body is in the buffer.                      *)
BodyComplete == m_read_idx >= m_content_length + m_checked_idx

ResetKeepingState ==                                    \* mutant
  /\ UNCHANGED m_check_state /\ m_start_line' = 0
  /\ m_checked_idx' = 0 /\ m_content_length' = 0
  /\ m_linger' = FALSE /\ m_read_buf' = << >>

ResetKeepingLinger ==                                   \* mutant
  /\ m_check_state' = "requestline" /\ m_start_line' = 0
  /\ m_checked_idx' = 0 /\ m_content_length' = 0
  /\ UNCHANGED m_linger /\ m_read_buf' = << >>

(* init(): what is left in the buffer goes with the finished request.      *)
Reset ==
  /\ m_check_state' = "requestline" /\ m_start_line' = 0
  /\ m_checked_idx' = 0 /\ m_content_length' = 0
  /\ m_linger' = FALSE /\ m_read_buf' = << >>

ReturnBadAsUnfinished(code) ==                          \* mutant
  /\ result' = code
  /\ phase' = IF code = "GET_REQUEST" THEN "reply" ELSE "read"

Return(code) ==
  /\ result' = code
  /\ phase' = IF code = "NO_REQUEST" THEN "read" ELSE "reply"

-------------------------------------------------------------------------------
(* process_read(), one turn of its loop at a time *)

(* The turn that leaves the loop: no complete line, or, after the headers, *)
(* the body.  A bad line ends like an unfinished one.                      *)
LastTurn ==
  /\ phase = "parse"
  /\ IF m_check_state = "content"
     THEN /\ Return(IF BodyComplete THEN "GET_REQUEST" ELSE "NO_REQUEST")
          /\ UNCHANGED m_checked_idx
     ELSE /\ LineStatus # "LINE_OK"
          /\ m_checked_idx' = CheckedAfter
          /\ Return("NO_REQUEST")
  /\ UNCHANGED <<stream, arrived, m_read_buf, m_start_line, m_check_state,
                 m_content_length, m_linger>>

TakeLine == m_checked_idx' = CheckedAfter /\ m_start_line' = CheckedAfter

RequestLine ==
  /\ phase = "parse" /\ m_check_state = "requestline"
  /\ LineStatus = "LINE_OK"
  /\ TakeLine
  /\ IF GoodRequestLine(Line)
     THEN m_check_state' = "header" /\ UNCHANGED <<phase, result>>
     ELSE UNCHANGED m_check_state /\ Return("BAD_REQUEST")
  /\ UNCHANGED <<stream, arrived, m_read_buf, m_content_length, m_linger>>

Header ==
  /\ phase = "parse" /\ m_check_state = "header"
  /\ LineStatus = "LINE_OK" /\ Line # << >>
  /\ TakeLine
  /\ m_linger' = (m_linger \/ Line = <<"keep">>)
  /\ m_content_length' = ContentLength(Line)
  /\ UNCHANGED <<stream, arrived, m_read_buf, m_check_state, phase, result>>

(* The empty line: on to the body if one was announced.                    *)
EndOfHeaders ==
  /\ phase = "parse" /\ m_check_state = "header"
  /\ LineStatus = "LINE_OK" /\ Line = << >>
  /\ TakeLine
  /\ IF m_content_length # 0
     THEN m_check_state' = "content" /\ UNCHANGED <<phase, result>>
     ELSE UNCHANGED m_check_state /\ Return("GET_REQUEST")
  /\ UNCHANGED <<stream, arrived, m_read_buf, m_content_length, m_linger>>

(* The response is written (write()): the connection is kept or closed.    *)
ReplySent ==
  /\ phase = "reply"
  /\ IF m_linger
     THEN Reset /\ phase' = "read"
     ELSE phase' = "closed" /\ UNCHANGED <<m_read_buf, parser>>
  /\ UNCHANGED <<stream, arrived, result>>

Next ==
  \/ \E n \in 1 .. BufferSize : Read(n)
  \/ ReadOverflow
  \/ LastTurn \/ RequestLine \/ Header \/ EndOfHeaders
  \/ ReplySent

Spec == Init /\ [][Next]_vars

(* recv and the worker go on while there is input or a buffer to parse.    *)
FairSpec == Spec /\ WF_vars(Next)

-------------------------------------------------------------------------------
(* What a stretch of input means, read as a whole *)

LineEnds(s) == {i \in 1 .. Len(s) - 1 : s[i] = "CR" /\ s[i + 1] = "LF"}

(* A CR without its LF, or an LF without its CR: nothing after it counts.  *)
Stray(s) ==
  {i \in 1 .. Len(s) : \/ s[i] = "CR" /\ i < Len(s) /\ s[i + 1] # "LF"
                       \/ s[i] = "LF" /\ (i = 1 \/ s[i - 1] # "CR")}

GoodEnds(s) == {e \in LineEnds(s) : \A i \in Stray(s) : e < i}

(* The line that ends at e.                                                *)
LineAt(s, e) ==
  LET earlier == {d \in GoodEnds(s) : d < e}
      start   == IF earlier = {} THEN 1
                 ELSE 2 + CHOOSE d \in earlier : \A c \in earlier : c =< d
  IN  SubSeq(s, start, e - 1)

IsFirst(s, e) == \A d \in GoodEnds(s) : e =< d
Blank(s) == {e \in GoodEnds(s) : ~ IsFirst(s, e) /\ LineAt(s, e) = << >>}
HeadersEnd(s) == CHOOSE e \in Blank(s) : \A d \in Blank(s) : e =< d

Meaning(s) ==
  CASE GoodEnds(s) = {} -> "NO_REQUEST"
    [] \E e \in GoodEnds(s) : IsFirst(s, e) /\ LineAt(s, e) # <<"get">> -> "BAD_REQUEST"
    [] OTHER -> IF Blank(s) = {} THEN "NO_REQUEST" ELSE "GET_REQUEST"

HasHeader(s, h) ==
  \E e \in GoodEnds(s) : ~ IsFirst(s, e) /\ e < HeadersEnd(s) /\ LineAt(s, e) = <<h>>

-------------------------------------------------------------------------------
(* Properties *)

(* The input of the current request: what arrived since the last reset.    *)
Input == SubSeq(stream, arrived - m_read_idx + 1, arrived)

(* Whatever pieces the input came in, and whatever requests went before on *)
(* the connection, process_read's verdict is the one that the input read   *)
(* as a whole deserves: no verdict too early, none missed; and the indices *)
(* stay in order and within the buffer (TypeOK).                           *)
VerdictIsMeaning ==
  /\ TypeOK
  /\ phase \in {"read", "reply"} =>
       Meaning(Input) = IF phase = "read" THEN "NO_REQUEST" ELSE result

(* The connection is kept after a request exactly if that request asked.   *)
LingerIsAsked ==
  phase = "reply" /\ result = "GET_REQUEST" => (m_linger <=> HasHeader(Input, "keep"))

(* A request that is complete in the stream, within the room of the        *)
(* buffer, is answered.                                                    *)
FirstRequestAnswered ==
  (Meaning(stream) # "NO_REQUEST" /\ Len(stream) =< BufferSize)
    => <>(phase = "reply")
===============================================================================
