------------------------------ MODULE HttpWrite -------------------------------
(***************************************************************************)
(* How http_conn (HTTP_server_learning/http_conn.cpp) answers: do_request  *)
(* maps the file, process_write fills m_write_buf and the iovec, write()   *)
(* calls writev until it thinks that everything is sent.  One connection,  *)
(* request after request; the peer stays.                                  *)
(*                                                                         *)
(* Bytes are units <<part, i>>: the i-th of the status line and headers    *)
(* ("head"), of an error page ("form"), of the page for an empty file      *)
(* ("page") or of the file.  Everything fits in m_write_buf: the longest   *)
(* head and form take under 200 of its 1024 bytes.                         *)
(***************************************************************************)
EXTENDS Integers, Sequences

CONSTANTS
  HeadUnits, FormUnits, PageUnits,
  FileSizes,      \* of the files and directories on disk
  PartialWrites   \* may writev take less than it is given?

ASSUME WriteAssumption ==
  /\ HeadUnits \in Nat \ {0} /\ FormUnits \in Nat \ {0} /\ PageUnits \in Nat \ {0}
  /\ FileSizes \subseteq Nat
  /\ PartialWrites \in BOOLEAN

Codes == {"BAD_REQUEST", "NO_RESOURCE", "FORBIDDEN_REQUEST", "FILE_REQUEST"}

VARIABLES
  m_write_buf,    \* its first m_write_idx units
  m_iv,           \* the iovec, as the units it points to
  m_linger,
  m_file_address, \* the size of the mapping, or NotMapped
  m_file_stat,    \* st_size of the last stat
  bytes_to_send, bytes_have_sent,
  phase,          \* "idle", "armed" for EPOLLOUT, "write", "closed"
  code, wire,     \* the request's result; what the peer got since
  report          \* what write() made of it: "none", "sent", "failed"

vars == <<m_write_buf, m_iv, m_linger, m_file_address, m_file_stat,
          bytes_to_send, bytes_have_sent, phase, code, wire, report>>

NotMapped == -1
m_write_idx == Len(m_write_buf)
Part(name, n) == [i \in 1 .. n |-> <<name, i>>]
Gathered == IF Len(m_iv) = 2 THEN m_iv[1] \o m_iv[2] ELSE m_iv[1]

TypeOK ==
  /\ m_write_idx \in 0 .. HeadUnits + FormUnits + PageUnits
  /\ Len(m_iv) \in 0 .. 2
  /\ m_linger \in BOOLEAN
  /\ m_file_address \in FileSizes \cup {NotMapped}
  /\ m_file_stat \in FileSizes
  /\ bytes_to_send \in Int /\ bytes_have_sent \in Nat
  /\ phase \in {"idle", "armed", "write", "closed"}
  /\ code \in Codes
  /\ report \in {"none", "sent", "failed"}

Init ==
  /\ m_write_buf = << >> /\ m_iv = << >>
  /\ m_linger = FALSE
  /\ m_file_address = NotMapped /\ m_file_stat \in FileSizes
  /\ bytes_to_send = 0 /\ bytes_have_sent = 0
  /\ phase = "idle"
  /\ code = "NO_RESOURCE" /\ wire = << >> /\ report = "none"

-------------------------------------------------------------------------------
(* do_request(): stat fails, or says that the file may not be read, or is  *)
(* a directory, or the file is mapped.  process_read may also say          *)
(* BAD_REQUEST without a stat.                                             *)
DoRequest(c, size) ==
  /\ m_file_stat' = IF c = "NO_RESOURCE" THEN m_file_stat ELSE size
  /\ m_file_address' = IF c = "FILE_REQUEST" THEN size ELSE m_file_address

ErrorBody(c) == Part("form", FormUnits)

(* process_write(): what m_write_buf and the iovec hold afterwards.  The   *)
(* branch of the empty file has no break: its page is written and then     *)
(* `default' returns false.                                                *)
ProcessWriteResult(c, size) == ~ (c = "FILE_REQUEST" /\ size = 0)

WriteBuf(c, size) ==
  m_write_buf \o Part("head", HeadUnits) \o
    (IF c # "FILE_REQUEST" THEN ErrorBody(c)
     ELSE IF size = 0 THEN Part("page", PageUnits) ELSE << >>)

IovecWithoutFile(c, size) == <<WriteBuf(c, size)>>      \* mutant

Iovec(c, size) ==
  IF c = "FILE_REQUEST" /\ size # 0
  THEN <<WriteBuf(c, size), Part("file", size)>>
  ELSE <<WriteBuf(c, size)>>

(* process(), from a complete request to the modfd or the close.           *)
Process(c, size, linger) ==
  /\ phase = "idle"
  /\ code' = c /\ m_linger' = linger
  /\ DoRequest(c, size)
  /\ m_write_buf' = WriteBuf(c, size)
  /\ IF ProcessWriteResult(c, size)
     THEN m_iv' = Iovec(c, size) /\ phase' = "armed"
     ELSE UNCHANGED m_iv /\ phase' = "closed"
  /\ wire' = << >> /\ report' = "none"
  /\ UNCHANGED <<bytes_to_send, bytes_have_sent>>

-------------------------------------------------------------------------------
(* write() *)

StayMapped == UNCHANGED m_file_address                  \* mutant

Unmap == m_file_address' = NotMapped

WriteBegin ==
  /\ phase = "armed"
  /\ bytes_to_send' = m_write_idx /\ bytes_have_sent' = 0
  /\ phase' = "write"
  /\ UNCHANGED <<m_write_buf, m_iv, m_linger, m_file_address, m_file_stat,
                 code, wire, report>>

(* init(), as far as the response goes.                                    *)
InitConn == m_write_buf' = << >> /\ m_linger' = FALSE

(* The loop's exit test, after a writev of n units.                        *)
Finished(n) == bytes_to_send - n =< bytes_have_sent + n

(* writev takes the first n units of the iovec, whose bases are never      *)
(* advanced.                                                               *)
Writev(n) ==
  /\ phase = "write"
  /\ n =< Len(Gathered) /\ (PartialWrites \/ n = Len(Gathered))
  /\ wire' = wire \o SubSeq(Gathered, 1, n)
  /\ bytes_to_send' = bytes_to_send - n
  /\ bytes_have_sent' = bytes_have_sent + n
  /\ IF Finished(n)
     THEN /\ Unmap
          /\ report' = "sent"
          /\ IF m_linger
             THEN phase' = "idle" /\ InitConn
             ELSE phase' = "closed" /\ UNCHANGED <<m_write_buf, m_linger>>
     ELSE UNCHANGED <<m_file_address, report, phase, m_write_buf, m_linger>>
  /\ UNCHANGED <<m_iv, m_file_stat, code>>

(* No room: write() returns, to be called again from the start.            *)
WritevAgain ==
  /\ phase = "write"
  /\ phase' = "armed"
  /\ UNCHANGED <<m_write_buf, m_iv, m_linger, m_file_address, m_file_stat,
                 bytes_to_send, bytes_have_sent, code, wire, report>>

WritevFails ==
  /\ phase = "write"
  /\ Unmap
  /\ phase' = "closed" /\ report' = "failed"
  /\ UNCHANGED <<m_write_buf, m_iv, m_linger, m_file_stat,
                 bytes_to_send, bytes_have_sent, code, wire>>

MaxUnits == HeadUnits + FormUnits + PageUnits
              + (CHOOSE n \in FileSizes : \A m \in FileSizes : m =< n)

Next ==
  \/ \E c \in Codes, size \in FileSizes, linger \in BOOLEAN : Process(c, size, linger)
  \/ WriteBegin
  \/ \E n \in 1 .. MaxUnits : Writev(n)
  \/ WritevAgain \/ WritevFails

Spec == Init /\ [][Next]_vars

-------------------------------------------------------------------------------
(* Properties *)

(* The response a result calls for.                                        *)
Response ==
  Part("head", HeadUnits) \o
    (IF code # "FILE_REQUEST" THEN Part("form", FormUnits)
     ELSE IF m_file_stat = 0 THEN Part("page", PageUnits)
     ELSE Part("file", m_file_stat))

(* http_conn.cpp:343 says that the response is sent successfully: the peer *)
(* then has all of it, and nothing else.                                   *)
SentIsWhole == report = "sent" => wire = Response

(* A mapping is released by the end of its response, and released with the *)
(* length it was made with although m_file_stat is overwritten by the next *)
(* request; and the state has its type.                                    *)
MappingReleased ==
  /\ TypeOK
  /\ phase = "idle" \/ report # "none" => m_file_address = NotMapped
  /\ m_file_address # NotMapped => m_file_address = m_file_stat
===============================================================================
