----------------------------- MODULE MCPolling ------------------------------
(***************************************************************************)
(* Instances of Polling: an operation whose status is a field of the body, *)
(* missing at first; a deletion that is polled by the status code; and an  *)
(* API check of a precheck.                                                *)
(***************************************************************************)
EXTENDS Polling

(* The field appears when the operation ends, or a little before. *)
FieldReports ==
  [s \in ServerStates |->
     CASE s = "running" -> {Missing, "InProgress"} [] s = "succeeded" -> {"Succeeded"} [] OTHER -> {"Failed"}]

(* The object answers 200 until it is gone. *)
CodeReports ==
  [s \in ServerStates |-> CASE s = "succeeded" -> {"404"} [] s = "running" -> {"200", "202"} [] OTHER -> {"409"}]

ThreeOptions ==
  {[codeLocator |-> FALSE, success |-> {"Succeeded"}, pending |-> {"InProgress"}, precheck |-> FALSE,
    reports |-> FieldReports, refusals |-> {}],
   [codeLocator |-> TRUE, success |-> {"404"}, pending |-> {"200", "202"}, precheck |-> FALSE,
    reports |-> CodeReports, refusals |-> {"409", "503"}],
   [codeLocator |-> FALSE, success |-> {"Succeeded"}, pending |-> {}, precheck |-> TRUE,
    reports |-> FieldReports, refusals |-> {}]}
=============================================================================
