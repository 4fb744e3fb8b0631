-------------------------- MODULE OperationOutcome --------------------------
(***************************************************************************)
(* What a durable operation promises whoever asks for it, seen from        *)
(* outside: it takes effect at most once, never unasked, an effect is      *)
(* never taken back, and the answer is final: "done" only about an effect  *)
(* that has been taken.  "failed" promises no more than that the operation *)
(* will not be reported done: the effect may be there, or may still come   *)
(* from a worker that did not hear.                                        *)
(***************************************************************************)
CONSTANT Operations

VARIABLES outcome, effect

Init ==
  /\ outcome = [o \in Operations |-> "absent"]
  /\ effect = {}

Ask(o) ==
  /\ outcome[o] = "absent"
  /\ outcome' = [outcome EXCEPT ![o] = "pending"]
  /\ UNCHANGED effect

TakeEffect(o) ==
  /\ outcome[o] \in {"pending", "failed"} /\ o \notin effect
  /\ effect' = effect \cup {o}
  /\ UNCHANGED outcome

Succeed(o) ==
  /\ outcome[o] = "pending" /\ o \in effect
  /\ outcome' = [outcome EXCEPT ![o] = "done"]
  /\ UNCHANGED effect

(* Several at once when a whole queue is discarded.                        *)
GiveUp(ops) ==
  /\ \A o \in ops : outcome[o] = "pending"
  /\ outcome' = [o \in Operations |-> IF o \in ops THEN "failed" ELSE outcome[o]]
  /\ UNCHANGED effect

Next ==
  \/ \E o \in Operations : Ask(o) \/ TakeEffect(o) \/ Succeed(o)
  \/ \E ops \in SUBSET Operations : GiveUp(ops)

Spec == Init /\ [][Next]_<<outcome, effect>>
=============================================================================
