------------------------------ MODULE MCEventPoll ------------------------------
(* Instances of EventPoll for TLC.                                         *)
EXTENDS EventPoll, TLC

CONSTANTS f1, f2, t1, t2

TheFds == {f1, f2}

(* A file watched level-triggered, with and without interest in input,     *)
(* whose wake-ups say what they are for, and one watched one-shot or       *)
(* edge-triggered whose wake-ups do not.                                   *)
Asked(bits, m) == [bits |-> bits, mode |-> m]

TheInterests ==
  (f1 :> {Asked({"in"}, "LT"), Asked({}, "LT")})
  @@ (f2 :> {Asked({"in"}, "ONESHOT"), Asked({"in"}, "ET")})

TheTimeouts == (t1 :> {"finite"}) @@ (t2 :> {"forever"})

TheKeys == (f1 :> {"in"}) @@ (f2 :> {NoKey})
===============================================================================
