--------------------------- MODULE PollingProofs ----------------------------
(***************************************************************************)
(* What PollUntilDone's verdicts mean, for any statuses, any sentinels and *)
(* any reports of an honest server.                                        *)
(***************************************************************************)
EXTENDS Polling, TLAPS

USE MissingAssumption, OptionsAssumption, CodeAssumption, HonestAssumption,
    RefusalsAssumption, FaultsAssumption

(* An answer that has been received, and that would be taken for success,   *)
(* comes from an operation that has succeeded; and so did the verdict.      *)
SuccessInv ==
  /\ TypeOK
  /\ pc = "handle" /\ Readable /\ resp.status \in Success => op = "succeeded"
  /\ SuccessMeansDone

(* The steps of the polling that end in a verdict or in another sleep have  *)
(* handled the last answer and leave it and the operation as they are.      *)
LEMMA HandleFrame == Handle => pc = "handle" /\ UNCHANGED <<option, op, resp, ctxDone>>
BY DEF Handle, HttpError, StatusMissing, NotThereYet, Done, StillPending, Unexpected, Handling

(* The poll option never changes, and has its type. *)
LEMMA OptionKept == [Next]_vars => UNCHANGED <<option, CodeLocator, Success, Pending>>
BY HandleFrame DEF Next, vars, Finish, Cancel, Poll, Wake, Get, GetRefused, GetFails, CodeLocator, Success, Pending

LEMMA OptionFacts ==
  ASSUME option \in Options
  PROVE  /\ CodeLocator \in BOOLEAN /\ Success \subseteq Statuses /\ Pending \subseteq Statuses
         /\ option.reports \in [ServerStates -> SUBSET (Statuses \cup {Missing})]
         /\ CodeLocator => \A s \in ServerStates : Missing \notin option.reports[s]
         /\ \A s \in {"running", "failed"} : option.reports[s] \cap Success = {}
BY DEF OptionType, CodeLocator, Success, Pending

LEMMA TypeStep == TypeOK /\ [Next]_vars => TypeOK'
<1> SUFFICES ASSUME TypeOK, [Next]_vars PROVE TypeOK'
  OBVIOUS
<1> USE DEF TypeOK
<1>1. CASE UNCHANGED vars
  BY <1>1 DEF vars
<1>2. CASE Finish
  BY <1>2 DEF Finish, ServerStates
<1>3. CASE Cancel
  BY <1>3 DEF Cancel
<1>4. CASE Wake
  BY <1>4 DEF Wake
<1>5. CASE Get \/ GetRefused
  BY <1>5, OptionFacts DEF Get, GetRefused
<1>6. CASE GetFails
  BY <1>6 DEF GetFails, Return, Results
<1>7. CASE Handle
  BY <1>7 DEF Handle, HttpError, StatusMissing, NotThereYet, Done, StillPending, Unexpected,
              Handling, Return, Results, DelayOf
<1>8. QED
  BY <1>1, <1>2, <1>3, <1>4, <1>5, <1>6, <1>7 DEF Next, Poll

LEMMA TypeInit == Init => TypeOK
BY DEF Init, TypeOK, ServerStates, Results, DelayOf

LEMMA SuccessStep == SuccessInv /\ [Next]_vars => SuccessInv'
<1> SUFFICES ASSUME SuccessInv, [Next]_vars PROVE SuccessInv'
  OBVIOUS
<1>1. TypeOK' /\ UNCHANGED <<option, CodeLocator, Success, Pending>> /\ option \in Options
  BY TypeStep, OptionKept DEF SuccessInv, TypeOK
<1> USE DEF SuccessInv, SuccessMeansDone
<1>2. CASE UNCHANGED vars
  BY <1>1, <1>2 DEF vars, Readable
<1>3. CASE Finish
  BY <1>1, <1>3 DEF Finish, Readable
<1>4. CASE Cancel
  BY <1>1, <1>4 DEF Cancel, Readable
<1>5. CASE Wake
  BY <1>1, <1>5 DEF Wake
<1>6. CASE Get
  <2>1. resp'.status \in option.reports[op] /\ op' = op /\ result' = result
    BY <1>6 DEF Get
  <2>2. resp'.status \in Success => op = "succeeded"
    BY <1>1, <2>1, OptionFacts DEF TypeOK, ServerStates
  <2>3. QED
    BY <1>1, <2>1, <2>2
<1>7. CASE GetRefused
  <2>1. ~resp'.ok /\ (CodeLocator => resp'.status \notin Success) /\ op' = op /\ result' = result
    BY <1>1, <1>7 DEF GetRefused, Success
  <2>2. QED
    BY <1>1, <2>1 DEF Readable
<1>8. CASE GetFails
  BY <1>1, <1>8 DEF GetFails, Return
<1>9. CASE Handle
  <2>1. pc = "handle" /\ pc' # "handle" /\ op' = op
    BY <1>9, HandleFrame
       DEF Handle, HttpError, StatusMissing, NotThereYet, Done, StillPending, Unexpected, Return
  <2>2. result' = "done" => op = "succeeded"
    BY <1>9, <2>1 DEF Handle, HttpError, StatusMissing, NotThereYet, Done, StillPending, Unexpected, Return
  <2>3. QED
    BY <1>1, <2>1, <2>2
<1>10. QED
  BY <1>2, <1>3, <1>4, <1>5, <1>6, <1>7, <1>8, <1>9 DEF Next, Poll

(* Type correctness of the poller. *)
THEOREM PollingTypes == Spec => []TypeOK
BY TypeInit, TypeStep, PTL DEF Spec

(* PollUntilDone returns nil only for an operation that has succeeded,      *)
(* whatever sentinels are configured and whichever way the status is found. *)
THEOREM PollingSuccess == Spec => []SuccessMeansDone
<1>1. Init => SuccessInv
  BY TypeInit DEF Init, SuccessInv, SuccessMeansDone
<1>2. SuccessInv => SuccessMeansDone
  BY DEF SuccessInv
<1>3. QED
  BY <1>1, <1>2, SuccessStep, PTL DEF Spec
-----------------------------------------------------------------------------
(* An answer whose status may end the polling comes from an operation that  *)
(* has ended.                                                               *)
VerdictInv ==
  /\ TypeOK
  /\ RunningIsPending /\ pc = "handle" /\ Readable /\ resp.status \notin Pending \cup {Missing} =>
       op # "running"
  /\ NotGivenUp

LEMMA VerdictStep == VerdictInv /\ [Next]_vars => VerdictInv'
<1> SUFFICES ASSUME VerdictInv, [Next]_vars PROVE VerdictInv'
  OBVIOUS
<1>1. /\ TypeOK' /\ UNCHANGED <<option, CodeLocator, Success, Pending>>
      /\ RunningIsPending' = RunningIsPending
  BY TypeStep, OptionKept DEF VerdictInv, RunningIsPending
<1> USE DEF VerdictInv, NotGivenUp
<1>2. CASE UNCHANGED vars
  BY <1>1, <1>2 DEF vars, Readable
<1>3. CASE Finish
  BY <1>1, <1>3 DEF Finish, Readable
<1>4. CASE Cancel
  BY <1>1, <1>4 DEF Cancel, Readable
<1>5. CASE Wake \/ GetFails
  BY <1>1, <1>5 DEF Wake, GetFails, Return
<1>6. CASE Get
  <2>1. resp'.status \in option.reports[op] /\ op' = op /\ result' = result
    BY <1>6 DEF Get
  <2>2. QED
    BY <1>1, <2>1 DEF RunningIsPending
<1>7. CASE GetRefused
  <2>1. ~resp'.ok /\ op' = op /\ result' = result
    BY <1>7 DEF GetRefused
  <2>2. RunningIsPending => ~CodeLocator
    BY DEF RunningIsPending
  <2>3. QED
    BY <1>1, <2>1, <2>2 DEF Readable
<1>8. CASE Handle
  <2>1. pc = "handle" /\ pc' # "handle" /\ op' = op
    BY <1>8, HandleFrame
       DEF Handle, HttpError, StatusMissing, NotThereYet, Done, StillPending, Unexpected, Return
  <2>2. RunningIsPending /\ result' \in {"noStatus", "unexpected"} => op # "running"
    BY <1>8, <2>1
       DEF Handle, HttpError, StatusMissing, NotThereYet, Done, StillPending, Unexpected, Return,
           RunningIsPending
  <2>3. QED
    BY <1>1, <2>1, <2>2
<1>9. QED
  BY <1>2, <1>3, <1>4, <1>5, <1>6, <1>7, <1>8 DEF Next, Poll

(* An operation that is still running is not given up for its status: a GET *)
(* that fails is told as such.                                              *)
THEOREM PollingVerdict == Spec => []NotGivenUp
<1>1. Init => VerdictInv
  BY TypeInit DEF Init, VerdictInv, NotGivenUp
<1>2. VerdictInv => NotGivenUp
  BY DEF VerdictInv
<1>3. QED
  BY <1>1, <1>2, VerdictStep, PTL DEF Spec
-----------------------------------------------------------------------------
(* The poller ends with a result, and only once. *)
OnceInv == pc = "end" <=> result # "none"

LEMMA OnceStep == OnceInv /\ [Next]_vars => OnceInv'
BY DEF OnceInv, Next, vars, Finish, Cancel, Poll, Wake, Get, GetRefused, GetFails, Return,
       Handle, HttpError, StatusMissing, NotThereYet, Done, StillPending, Unexpected, Handling

(* What the abstract level sees of a step that returns nothing. *)
LEMMA AwaitsOn ==
  ASSUME UNCHANGED <<op, result>>, RunningIsPending' = RunningIsPending
  PROVE  UNCHANGED Awaiting!vars
BY DEF Awaiting!vars, Verdict

(* What it sees of one that does: the three verdicts. *)
LEMMA Verdicts ==
  ASSUME result = "none", RunningIsPending' = RunningIsPending, op' = op,
         \/ result' = "done" /\ op = "succeeded"
         \/ result' \in {"noStatus", "unexpected"} /\ (RunningIsPending => op # "running")
         \/ result' \in {"getError", "httpError"}
  PROVE  Awaiting!Return
<1>1. Verdict = "none"
  BY DEF Verdict
<1>2. CASE result' = "done" /\ op = "succeeded"
  BY <1>1, <1>2 DEF Awaiting!Return, Awaiting!Done, Verdict
<1>3. CASE result' \in {"noStatus", "unexpected"} /\ (RunningIsPending => op # "running")
  <2>1. Verdict' = "notDone"
    BY <1>3 DEF Verdict
  <2>2. QED
    BY <1>1, <1>3, <2>1 DEF Awaiting!Return, Awaiting!NotDone
<1>4. CASE result' \in {"getError", "httpError"}
  <2>1. Verdict' = "failed"
    BY <1>4 DEF Verdict
  <2>2. QED
    BY <1>1, <2>1 DEF Awaiting!Return, Awaiting!Fail
<1>5. QED
  BY <1>2, <1>3, <1>4

LEMMA AwaitStep ==
  ASSUME SuccessInv, VerdictInv, OnceInv, [Next]_vars
  PROVE  [Awaiting!Next]_(Awaiting!vars)
<1>1. RunningIsPending' = RunningIsPending
  BY OptionKept DEF RunningIsPending
<1>2. CASE UNCHANGED vars \/ Cancel \/ Wake \/ Get \/ GetRefused
  BY <1>1, <1>2, AwaitsOn DEF vars, Cancel, Wake, Get, GetRefused
<1>3. CASE Finish
  BY <1>1, <1>3 DEF Finish, Awaiting!Next, Awaiting!Finish, Verdict
<1>4. CASE GetFails
  <2>1. result = "none" /\ op' = op /\ result' = "getError"
    BY <1>4 DEF GetFails, Return, OnceInv
  <2>2. QED
    BY <1>1, <2>1, Verdicts DEF Awaiting!Next
<1>5. CASE Handle
  <2>1. pc = "handle" /\ op' = op /\ result = "none"
    BY <1>5, HandleFrame DEF OnceInv
  <2>2. CASE NotThereYet \/ StillPending
    BY <1>1, <2>1, <2>2, AwaitsOn DEF NotThereYet, StillPending
  <2>3. CASE HttpError
    BY <1>1, <2>1, <2>3, Verdicts DEF HttpError, Return, Awaiting!Next
  <2>4. CASE StatusMissing
    <3>1. ~RunningIsPending
      BY <2>4 DEF StatusMissing, RunningIsPending
    <3>2. QED
      BY <1>1, <2>1, <2>4, <3>1, Verdicts DEF StatusMissing, Return, Awaiting!Next
  <2>5. CASE Done
    <3>1. op = "succeeded"
      BY <2>1, <2>5 DEF Done, SuccessInv
    <3>2. QED
      BY <1>1, <2>1, <2>5, <3>1, Verdicts DEF Done, Return, Awaiting!Next
  <2>6. CASE Unexpected
    <3>1. RunningIsPending => op # "running"
      BY <2>1, <2>6 DEF Unexpected, VerdictInv
    <3>2. QED
      BY <1>1, <2>1, <2>6, <3>1, Verdicts DEF Unexpected, Return, Awaiting!Next
  <2>7. QED
    BY <1>5, <2>2, <2>3, <2>4, <2>5, <2>6 DEF Handle
<1>6. QED
  BY <1>2, <1>3, <1>4, <1>5 DEF Next, Poll

(* ImplementsAwait: every step of PollUntilDone is a step of awaiting the   *)
(* operation, or is not seen; it returns one verdict, and a true one.       *)
THEOREM PollingImplementsAwait == Spec => ImplementsAwait
<1>1. Init => Awaiting!Init
  <2> SUFFICES ASSUME Init PROVE Awaiting!Init
    OBVIOUS
  <2>1. op = "running" /\ Verdict = "none"
    BY DEF Init, Verdict
  <2>2. RunningIsPending \in BOOLEAN
    BY DEF RunningIsPending
  <2>3. QED
    BY <2>1, <2>2 DEF Awaiting!Init
<1>2. Init => SuccessInv /\ VerdictInv /\ OnceInv
  BY TypeInit DEF Init, SuccessInv, SuccessMeansDone, VerdictInv, NotGivenUp, OnceInv
<1>3. SuccessInv /\ VerdictInv /\ OnceInv /\ [Next]_vars => (SuccessInv /\ VerdictInv /\ OnceInv)'
  BY SuccessStep, VerdictStep, OnceStep
<1>4. SuccessInv /\ VerdictInv /\ OnceInv /\ [Next]_vars => [Awaiting!Next]_(Awaiting!vars)
  BY AwaitStep
<1>5. QED
  BY <1>1, <1>2, <1>3, <1>4, PTL DEF Spec, ImplementsAwait, Awaiting!Spec
=============================================================================
