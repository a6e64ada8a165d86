------------------------------- MODULE EventSet -------------------------------
(***************************************************************************)
(* What epoll promises to a program, with its lists, locks and sleeping    *)
(* threads left out.  Files acquire conditions and notify whoever watches  *)
(* them; a watched file that notified, or that was just put under watch,   *)
(* is owed a look; and what is owed leaves only by being reported or by    *)
(* being found without any condition of interest.                          *)
(***************************************************************************)
EXTENDS FiniteSets

CONSTANTS
  Files,      \* the files a program may watch
  Conditions  \* what poll can say of a file

VARIABLES
  condition,  \* condition[f]: what poll(f) would say now
  coming,     \* coming[f]: the keys of f's wake-ups under way
  interest,   \* interest[f]: the conditions f is watched for
  how,        \* how[f]: "LT", "ET" or "ONESHOT", "none" if not watched
  owed        \* the files that are owed a look

eventVars == <<condition, coming, interest, how, owed>>

NoKey == "nokey"                \* a wake-up that does not say what it is for
Keys == Conditions \cup {NoKey}

EventInit ==
  /\ condition = [f \in Files |-> {}]
  /\ coming = [f \in Files |-> {}]
  /\ interest = [f \in Files |-> {}]
  /\ how = [f \in Files |-> "none"]
  /\ owed = {}

(* A file gains a condition, and its wait queue is to be woken; it loses   *)
(* one when the program has read or written enough.                        *)
Arrive(f, c, key) ==
  /\ coming[f] = {}
  /\ key \in {c, NoKey}
  /\ condition' = [condition EXCEPT ![f] = @ \cup {c}]
  /\ coming' = [coming EXCEPT ![f] = {key}]
  /\ UNCHANGED <<interest, how, owed>>

Clear(f, c) ==
  /\ c \in condition[f]
  /\ condition' = [condition EXCEPT ![f] = @ \ {c}]
  /\ UNCHANGED <<coming, interest, how, owed>>

(* The wake-up counts when the file is watched, enabled, and the key, if   *)
(* there is one, is of interest.                                           *)
Counts(f) ==
  /\ interest[f] # {}
  /\ coming[f] \cap (interest[f] \cup {NoKey}) # {}

Notify(f) ==
  /\ coming[f] # {}
  /\ coming' = [coming EXCEPT ![f] = {}]
  /\ owed' = IF Counts(f) THEN owed \cup {f} ELSE owed
  /\ UNCHANGED <<condition, interest, how>>

(* Putting a file under watch, or changing what it is watched for, owes it *)
(* a look: it may be ready already.                                        *)
Watch(f) ==
  /\ interest' \in [Files -> SUBSET Conditions]
  /\ how' \in [Files -> {"none", "LT", "ET", "ONESHOT"}]
  /\ how'[f] # "none"
  /\ \A g \in Files \ {f} : interest'[g] = interest[g] /\ how'[g] = how[g]
  /\ owed' = owed \cup {f}
  /\ UNCHANGED <<condition, coming>>

Unwatch(F) ==
  /\ interest' = [f \in Files |-> IF f \in F THEN {} ELSE interest[f]]
  /\ how' = [f \in Files |-> IF f \in F THEN "none" ELSE how[f]]
  /\ owed' = owed \ F
  /\ UNCHANGED <<condition, coming>>

(* A report: level-triggered files stay owed, one-shot files are disabled. *)
(* A file notified again while it is being reported stays owed too.        *)
Report(f) ==
  /\ f \in owed
  /\ interest[f] # {}
  /\ interest' = IF how[f] = "ONESHOT" THEN [interest EXCEPT ![f] = {}]
                 ELSE interest
  /\ owed' \in {owed, owed \ {f}}
  /\ how[f] = "LT" => owed' = owed
  /\ UNCHANGED <<condition, coming, how>>

Dismiss(f) ==
  /\ f \in owed
  /\ condition[f] \cap interest[f] = {}
  /\ owed' = owed \ {f}
  /\ UNCHANGED <<condition, coming, interest, how>>

EventNext ==
  \/ \E f \in Files :
       \/ \E c \in Conditions, key \in Keys : Arrive(f, c, key)
       \/ \E c \in Conditions : Clear(f, c)
       \/ Notify(f) \/ Watch(f) \/ Report(f) \/ Dismiss(f)
  \/ \E F \in SUBSET Files : Unwatch(F)

EventSpec == EventInit /\ [][EventNext]_eventVars
===============================================================================
