----------------------------- MODULE MCConnections -----------------------------
(***************************************************************************)
(* A program that is the response writer of http_conn, the chat room or    *)
(* the one-shot server: three state machines that share nothing, each with *)
(* safety properties only.                                                 *)
(***************************************************************************)
EXTENDS HttpWrite, Chatroom, OneShotServer

VARIABLE program

connectionsVars == <<program, vars, roomVars, oneShotVars>>

ConnectionsInit ==
  /\ Init /\ RoomInit /\ OneShotInit
  /\ \/ program = "write"
     \/ program \in {"room", "oneshot"} /\ m_file_stat = 0

ConnectionsNext ==
  /\ \/ program = "write" /\ Next /\ UNCHANGED <<roomVars, oneShotVars>>
     \/ program = "room" /\ RoomNext /\ UNCHANGED <<vars, oneShotVars>>
     \/ program = "oneshot" /\ OneShotNext /\ UNCHANGED <<vars, roomVars>>
  /\ UNCHANGED program

ConnectionsSpec == ConnectionsInit /\ [][ConnectionsNext]_connectionsVars
===============================================================================
