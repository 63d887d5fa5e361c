----------------------------- MODULE RequestReply -----------------------------
(***************************************************************************)
(* What a relay promises its callers: a call ends once, in its own answer  *)
(* or in a failure, and only a call that was carried out is answered.  A   *)
(* call that failed may have been carried out, or may be later.            *)
(***************************************************************************)
CONSTANT Call

VARIABLES outcome, carried

TypeOK ==
  /\ outcome \in [Call -> {"none", "open", "answered", "failed"}]
  /\ carried \subseteq Call

Init ==
  /\ outcome = [c \in Call |-> "none"]
  /\ carried = {}

Ask(c) ==
  /\ outcome[c] = "none"
  /\ outcome' = [outcome EXCEPT ![c] = "open"]
  /\ UNCHANGED carried

CarryOut(c) ==
  /\ outcome[c] \in {"open", "failed"}
  /\ carried' = carried \cup {c}
  /\ UNCHANGED outcome

Answer(c) ==
  /\ outcome[c] = "open"
  /\ c \in carried
  /\ outcome' = [outcome EXCEPT ![c] = "answered"]
  /\ UNCHANGED carried

\* refused at once, or given up; several may fail together
Fail(C) ==
  /\ \A c \in C : outcome[c] \in {"none", "open"}
  /\ outcome' = [c \in Call |-> IF c \in C THEN "failed" ELSE outcome[c]]
  /\ UNCHANGED carried

Next ==
  \/ \E c \in Call : Ask(c) \/ CarryOut(c) \/ Answer(c)
  \/ \E C \in SUBSET Call : Fail(C)

vars == <<outcome, carried>>

Spec == Init /\ [][Next]_vars
=============================================================================
