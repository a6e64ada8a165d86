----------------------------- MODULE MCHttpServer -----------------------------
(* Small servers for TLC. *)
EXTENDS HttpServer, TLC

(* Connections, and workers, only differ by name; descriptors do not: the  *)
(* lowest free one is allocated.                                           *)
Symmetry == Permutations(Conns) \cup Permutations(Workers)
===============================================================================
