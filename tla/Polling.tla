------------------------------ MODULE Polling -------------------------------
(***************************************************************************)
(* Polling a long-running operation of the API: NewPollableForPoll,        *)
(* NewPollableForPrecheck and PollUntilDone (internal/client/async.go),    *)
(* against an operation that runs on the server and ends in its own time.  *)
(*                                                                         *)
(* A status is what the status locator finds in an answer: with the code   *)
(* locator the status code itself, otherwise a header or a part of the     *)
(* body, which may be missing.  Delays are told apart by their origin.     *)
(***************************************************************************)
EXTENDS Naturals

CONSTANTS
  Statuses,     \* status values
  Missing,      \* no value where the status locator looks
  Options,      \* the poll options and the servers they are for, see OptionType
  Faults        \* "geterror": a GET fails or answers an error; "cancel"

ServerStates == {"running", "succeeded", "failed"}

(* A poll option: whether the status locator is "code", status.success,     *)
(* status.pending, and whether it is that of a precheck; and the statuses   *)
(* that the server reports in each state of the operation, and the codes    *)
(* with which it refuses a GET.                                             *)
OptionType ==
  [codeLocator : BOOLEAN, success : SUBSET Statuses, pending : SUBSET Statuses, precheck : BOOLEAN,
   reports : [ServerStates -> SUBSET (Statuses \cup {Missing})], refusals : SUBSET Statuses]

ASSUME MissingAssumption == Missing \notin Statuses
ASSUME OptionsAssumption == Options \subseteq OptionType /\ \A opt \in Options : opt.success # {}
(* An answer always has a status code. *)
ASSUME CodeAssumption ==
  \A opt \in Options : opt.codeLocator => \A s \in ServerStates : Missing \notin opt.reports[s]
(* The server reports a success status only of an operation that succeeded. *)
ASSUME HonestAssumption ==
  \A opt \in Options : \A s \in {"running", "failed"} : opt.reports[s] \cap opt.success = {}
ASSUME RefusalsAssumption == \A opt \in Options : opt.refusals \cap opt.success = {}
ASSUME FaultsAssumption == Faults \subseteq {"geterror", "cancel"}

VARIABLES
  option,  \* the Pollable
  op,      \* the operation on the server
  pc,      \* "sleep", "get", "handle" or "end"
  delay,   \* the delay of the last sleep: "none", "default" or "retryAfter"
  resp,    \* the answer of the last GET
  result,  \* what PollUntilDone has returned
  ctxDone  \* the context of the RPC has ended

CodeLocator == option.codeLocator
Success == option.success
Pending == option.pending

vars == <<option, op, pc, delay, resp, result, ctxDone>>

Response == [ok : BOOLEAN, status : Statuses \cup {Missing}, retryAfter : BOOLEAN]

Results == {"none", "done", "getError", "httpError", "noStatus", "unexpected"}

TypeOK ==
  /\ option \in Options
  /\ op \in ServerStates
  /\ pc \in {"sleep", "get", "handle", "end"}
  /\ delay \in {"none", "default", "retryAfter"}
  /\ resp \in Response
  /\ result \in Results
  /\ ctxDone \in BOOLEAN

(* Mutant of DelayOf: the header is taken as it is. *)
DelayUnparsed(r) == IF r.retryAfter THEN "header" ELSE "default"

DelayOf(r) == IF r.retryAfter THEN "retryAfter" ELSE "default"

(* NewPollableForPoll takes InitDelay from the answer to the call that      *)
(* started the operation; NewPollableForPrecheck leaves it zero.            *)
Init ==
  /\ option \in Options
  /\ op = "running"
  /\ resp \in {r \in Response : r.ok /\ r.status = Missing}
  /\ delay = IF option.precheck THEN "none" ELSE DelayOf(resp)
  /\ pc = "sleep"
  /\ result = "none"
  /\ ctxDone = FALSE

(* The operation ends on the server. *)
Finish ==
  /\ op = "running"
  /\ op' \in {"succeeded", "failed"}
  /\ UNCHANGED <<option, pc, delay, resp, result, ctxDone>>

Cancel ==
  /\ "cancel" \in Faults
  /\ pc # "end"
  /\ ~ctxDone
  /\ ctxDone' = TRUE
  /\ UNCHANGED <<option, op, pc, delay, resp, result>>

Return(res) == pc' = "end" /\ result' = res

(* time.Sleep does not look at the context. *)
Wake ==
  /\ pc = "sleep"
  /\ pc' = "get"
  /\ UNCHANGED <<option, op, delay, resp, result, ctxDone>>

(* The server answers with the state that the operation has at that moment. *)
Get ==
  /\ pc = "get"
  /\ ~ctxDone
  /\ resp' \in {r \in Response : (r.ok \/ CodeLocator) /\ r.status \in option.reports[op]}
  /\ pc' = "handle"
  /\ UNCHANGED <<option, op, delay, result, ctxDone>>

(* An answer other than 2xx, whatever it has where the locator looks; with  *)
(* the code locator its code is its status.                                 *)
GetRefused ==
  /\ pc = "get"
  /\ "geterror" \in Faults
  /\ ~ctxDone
  /\ resp' \in {r \in Response : ~r.ok /\ (CodeLocator => r.status \in option.refusals)}
  /\ pc' = "handle"
  /\ UNCHANGED <<option, op, delay, result, ctxDone>>

(* Mutant of GetFails: a GET that cannot be sent is tried again. *)
GetFailsAgain ==
  /\ pc = "get"
  /\ ctxDone \/ "geterror" \in Faults
  /\ pc' = "sleep"
  /\ UNCHANGED <<option, op, delay, result, resp, ctxDone>>

GetFails ==
  /\ pc = "get"
  /\ ctxDone \/ "geterror" \in Faults
  /\ Return("getError")
  /\ UNCHANGED <<option, op, delay, resp, ctxDone>>

Handling == pc = "handle" /\ UNCHANGED <<option, op, resp, ctxDone>>

(* Without a code locator the GET must have succeeded before its status is  *)
(* looked for.                                                              *)
Readable == CodeLocator \/ resp.ok

HttpError ==
  /\ Handling
  /\ ~Readable
  /\ Return("httpError")
  /\ UNCHANGED delay

StatusMissing ==
  /\ Handling
  /\ Readable
  /\ resp.status = Missing
  /\ Pending = {}
  /\ Return("noStatus")
  /\ UNCHANGED delay

(* A status that is not there yet counts as pending, if pending is defined. *)
NotThereYet ==
  /\ Handling
  /\ Readable
  /\ resp.status = Missing
  /\ Pending # {}
  /\ delay' = "default"
  /\ pc' = "sleep"
  /\ UNCHANGED result

(* Mutant of Done: the status is looked for in every answer. *)
DoneUnread ==
  /\ Handling
  /\ resp.status \in Success
  /\ Return("done")
  /\ UNCHANGED delay

(* The success sentinels come first, then the pending ones. *)
Done ==
  /\ Handling
  /\ Readable
  /\ resp.status \in Success
  /\ Return("done")
  /\ UNCHANGED delay

StillPending ==
  /\ Handling
  /\ Readable
  /\ resp.status \in Pending \ Success
  /\ delay' = DelayOf(resp)
  /\ pc' = "sleep"
  /\ UNCHANGED result

(* Mutant of Unexpected: an unknown status is polled again. *)
UnexpectedIgnored ==
  /\ Handling
  /\ Readable
  /\ resp.status \in Statuses \ (Success \cup Pending)
  /\ delay' = DelayOf(resp)
  /\ pc' = "sleep"
  /\ UNCHANGED result

Unexpected ==
  /\ Handling
  /\ Readable
  /\ resp.status \in Statuses \ (Success \cup Pending)
  /\ Return("unexpected")
  /\ UNCHANGED delay

Handle == HttpError \/ StatusMissing \/ NotThereYet \/ Done \/ StillPending \/ Unexpected

Poll == Wake \/ Get \/ GetRefused \/ GetFails \/ Handle

Next == Finish \/ Cancel \/ Poll

Spec == Init /\ [][Next]_vars

(* The provider goes on polling; the operation may run for ever. *)
FairSpec == Spec /\ WF_vars(Poll)
-----------------------------------------------------------------------------
(* PollUntilDone returns nil only when the operation has succeeded, whatever *)
(* the order in which the server moves on and answers, and whatever is       *)
(* configured as pending.                                                    *)
SuccessMeansDone == result = "done" => op = "succeeded"

(* All that a running operation reports is pending, or not there yet. *)
RunningIsPending ==
  ~CodeLocator /\ Pending # {} /\ option.reports["running"] \subseteq (Pending \ Success) \cup {Missing}

(* An operation that is still running is not given up for its status, if     *)
(* all that a running operation reports is pending: an answer that failed is *)
(* told as such, never by the status it happens to have.                     *)
NotGivenUp == RunningIsPending /\ result \in {"noStatus", "unexpected"} => op # "running"

(* What PollUntilDone has returned, as far as the operation is concerned. *)
Verdict ==
  CASE result \in {"none", "done"} -> result
    [] result \in {"noStatus", "unexpected"} -> "notDone"
    [] OTHER -> "failed"

(* All of this of every step: PollUntilDone is a way of awaiting the         *)
(* operation.  It returns once, whatever it has slept, received and failed   *)
(* to receive before, and what it returns is true of the operation when it   *)
(* returns it, not only of an answer received earlier.                       *)
Awaiting == INSTANCE Await WITH patient <- RunningIsPending, verdict <- Verdict

ImplementsAwait == Awaiting!Spec

(* The polling ends once the operation does, if neither what a finished      *)
(* operation reports nor the code of a refusal is configured as pending.     *)
PollingEnds == op # "running" ~> pc = "end"

(* The end of the context ends the polling although the sleeps ignore it,    *)
(* and although the operation may go on for ever.                            *)
CancelEndsPolling == ctxDone ~> pc = "end"
=============================================================================
