------------------------------- MODULE Await --------------------------------
(***************************************************************************)
(* What waiting for an operation promises, with nothing said of polls,     *)
(* statuses or sentinels: one verdict, which says "done" only when the     *)
(* operation has succeeded and which, of an operation that can be waited   *)
(* for, speaks of its outcome only when it has one.                        *)
(***************************************************************************)
VARIABLES
  op,       \* the operation
  patient,  \* a running operation is told from one that has ended
  verdict   \* "none", "done", "notDone" for what the operation reports, "failed"

vars == <<op, patient, verdict>>

Init ==
  /\ op = "running"
  /\ patient \in BOOLEAN
  /\ verdict = "none"

Finish ==
  /\ op = "running"
  /\ op' \in {"succeeded", "failed"}
  /\ UNCHANGED <<patient, verdict>>

Done == op = "succeeded" /\ verdict' = "done"

NotDone == (patient => op # "running") /\ verdict' = "notDone"

(* The waiting itself fails, at any time. *)
Fail == verdict' = "failed"

Return ==
  /\ verdict = "none"
  /\ Done \/ NotDone \/ Fail
  /\ UNCHANGED <<op, patient>>

Next == Finish \/ Return

Spec == Init /\ [][Next]_vars
=============================================================================
