----------------------------- MODULE MCProcessPool -----------------------------
(***************************************************************************)
(* Two children and two clients.  The parent's signal pipe holds two bytes *)
(* and a child's one, so that pipes do fill.                               *)
(***************************************************************************)
EXTENDS ProcessPool, TLC

ThePipes == (0 :> 2) @@ (1 :> 1) @@ (2 :> 1)
===============================================================================
