---------------------------- MODULE RestResource ----------------------------
(***************************************************************************)
(* The life of one restful_resource instance (internal/provider/           *)
(* resource.go): ModifyPlan, Create, Read, Update and Delete as sequences  *)
(* of API calls with a failure possible at each, the state and the private *)
(* state that each leaves behind, and the API's objects they act on.       *)
(*                                                                         *)
(* A body is one attribute; the ephemeral body and the update body patch   *)
(* are attributes beside it.  Terraform core and the plugin framework are  *)
(* external: they run one RPC at a time for the instance, save what it     *)
(* answers and decide from ModifyPlan's answer what to apply next.         *)
(***************************************************************************)
EXTENDS Naturals

CONSTANTS
  Bodies,         \* values of `body`
  Ephs,           \* values of `ephemeral_body`
  Patches,        \* values of `update_body_patches`
  None,           \* an attribute that is null, an object that does not exist
  Configs,        \* the configurations the user writes, see ConfigType
  Faults,         \* faults that happen: "error", "lost", "crash", "drift", "foreign", "busy"
  MaxIds,         \* bound: objects the API can name
  MaxTries,       \* bound: attempts of one call (client retry and `retry`)
  MaxChanges,     \* bound: changes of the configuration
  MaxFaults       \* bound: faults that happen

(* How the resource uses its API: `create_method` ("PUT": the object is at  *)
(* `path`; "POST": the API names it), `update_method` ("PATCH" sends a      *)
(* merge patch), `check_existance`, and `poll_delete`, with which deleting  *)
(* is a long-running operation.                                             *)
MethodsType ==
  [create : {"PUT", "POST"}, update : {"PUT", "PATCH"}, check : BOOLEAN, pollDelete : BOOLEAN]

(* A configuration: whether the resource block is there, and in it `body`,  *)
(* `ephemeral_body`, `update_body_patches`, whether `force_new_attrs` names *)
(* the attribute of the body, and the methods.                              *)
ConfigType ==
  [present : BOOLEAN, body : Bodies, eph : Ephs \cup {None}, patch : Patches \cup {None},
   force : BOOLEAN, methods : MethodsType]

ASSUME NoneAssumption == None \notin Bodies \cup Ephs \cup Patches
ASSUME ConfigsAssumption == Configs \subseteq ConfigType /\ Configs # {}
(* With check_existance the object's URL is known before it exists. *)
ASSUME CheckAssumption == \A c \in Configs : c.methods.check => c.methods.create = "PUT"
ASSUME BoundsAssumption == {MaxIds, MaxTries} \subseteq Nat \ {0} /\ {MaxChanges, MaxFaults} \subseteq Nat
ASSUME FaultsAssumption == Faults \subseteq {"error", "lost", "crash", "drift", "foreign", "busy"}

VARIABLES
  config,   \* the configuration
  state,    \* the instance in the state file, NoState when it is not there
  private,  \* the `ephemeral_body` key of the private state: the hash's origin
  remote,   \* the API's objects, by id
  deleting, \* objects the API has accepted to delete and has not deleted yet
  rpc,      \* the RPC in progress
  made,     \* number of objects the API has named
  changes,  \* number of changes of the configuration
  faults,   \* number of faults so far
  excused,  \* history: objects that an error, or a lost answer, accounts for
  dirty     \* history: the object was changed by something that the state does
            \* not tell of, since the provider made or found it

vars == <<config, state, private, remote, deleting, rpc, made, changes, faults, excused, dirty>>

Ids == 1 .. MaxIds

Object == [body : Bodies, patch : Patches \cup {None}, eph : Ephs \cup {None}]

ASSUME ObjectAssumption == None \notin Object

NoState == [id |-> 0, body |-> None, patch |-> None, out |-> None,
            force |-> FALSE, tainted |-> FALSE]

StateType ==
  [id : 0 .. MaxIds, body : Bodies \cup {None}, patch : Patches \cup {None},
   out : Ephs \cup {None}, force : BOOLEAN, tainted : BOOLEAN]

(* An RPC: its kind, where it is, the id of the object it made, the number  *)
(* of its call's attempts, whether it adopts an existing object, and the    *)
(* state and the private state of its answer so far.                        *)
RpcType ==
  [op : {"none", "create", "read", "update", "delete", "import"},
   at : {"idle", "check", "call", "poll", "store", "readback"},
   id : 0 .. MaxIds, tries : 0 .. MaxTries, adopt : BOOLEAN,
   new : StateType, pv : Ephs \cup {None}]

Idle ==
  [op |-> "none", at |-> "idle", id |-> 0, tries |-> 0, adopt |-> FALSE,
   new |-> NoState, pv |-> None]

TypeOK ==
  /\ config \in Configs
  /\ state \in StateType
  /\ private \in Ephs \cup {None}
  /\ remote \in [Ids -> Object \cup {None}]
  /\ deleting \in SUBSET Ids
  /\ rpc \in RpcType
  /\ made \in 0 .. MaxIds
  /\ changes \in 0 .. MaxChanges
  /\ faults \in 0 .. MaxFaults
  /\ excused \in SUBSET Ids
  /\ dirty \in BOOLEAN

Init ==
  /\ config \in Configs
  /\ state = NoState
  /\ private = None
  /\ remote = [i \in Ids |-> None]
  /\ deleting = {}
  /\ rpc = Idle
  /\ made = 0
  /\ changes = 0
  /\ faults = 0
  /\ excused = {}
  /\ dirty = FALSE

(* The methods stay what they are for the life of the instance. *)
CreateMethod == config.methods.create
UpdateMethod == config.methods.update
CheckExistance == config.methods.check
PollDelete == config.methods.pollDelete

Alternatives == {c \in Configs : c.methods = config.methods}

Live == {i \in Ids : remote[i] # None}

Doing(op, place) == rpc.op = op /\ rpc.at = place

NoFault == UNCHANGED faults

Fault(kind) == kind \in Faults /\ faults < MaxFaults /\ faults' = faults + 1

(* The call has another attempt left. *)
MayRetry == rpc.tries + 1 < MaxTries
-----------------------------------------------------------------------------
(* ModifyPlan, and what core plans from its answer.                         *)

(* ephemeral.Diff: the hash in the private state is not the configuration's. *)
EphemeralDiff == private # config.eph

MustReplace == state.tainted \/ (config.force /\ state.body # config.body)

(* What the plan takes from the configuration into the state. *)
Planned(s) == [s EXCEPT !.body = config.body, !.patch = config.patch, !.force = config.force]

Differs == Planned(state) # state

MustDelete == state # NoState /\ (~config.present \/ MustReplace)

MustCreate == state = NoState /\ config.present

(* Mutant of MustUpdate: the output is not marked as unknown for the diff. *)
MustUpdateUnmarked ==
  /\ state # NoState /\ config.present /\ ~MustReplace
  /\ Differs

MustUpdate ==
  /\ state # NoState /\ config.present /\ ~MustReplace
  /\ Differs \/ EphemeralDiff

NothingToPlan == ~MustDelete /\ ~MustCreate /\ ~MustUpdate
-----------------------------------------------------------------------------
(* How an RPC ends: the framework checks its answer, core saves it.         *)

Save(new, pv) ==
  /\ state' = new
  /\ private' = IF new = NoState THEN None ELSE pv
  /\ rpc' = Idle

KeepState == rpc' = Idle /\ UNCHANGED <<state, private>>

(* Create answers: a state with an error, or with another body than the     *)
(* planned one, is saved as tainted; no state at all is an error too.       *)
CreateEnds(new, failed) ==
  /\ Save(IF new = NoState THEN NoState
          ELSE [new EXCEPT !.tainted = failed \/ new.body # config.body], rpc.pv)
  /\ excused' = (IF new = NoState THEN excused \cup {rpc.id} ELSE excused) \ {new.id}
  /\ UNCHANGED dirty

(* Update answers: without a state, core keeps the one it has. *)
UpdateEnds(new) ==
  /\ IF new = NoState THEN KeepState ELSE Save(new, rpc.pv)
  /\ UNCHANGED <<excused, dirty>>

ReadEnds(new) ==
  /\ Save(new, private)
  /\ UNCHANGED <<excused, dirty>>

(* Import answers: an object that is not there is not imported. *)
ImportEnds(new) ==
  /\ IF new = NoState THEN KeepState ELSE Save(new, None)
  /\ excused' = excused \ {new.id}
  /\ UNCHANGED dirty

(* An error before the answer has a state.  Unless this is the call's first *)
(* attempt, the API may have carried out what the state does not tell.      *)
Fails ==
  \/ rpc.op = "create" /\ CreateEnds(NoState, TRUE)
  \/ /\ rpc.op \in {"update", "delete"}
     /\ KeepState
     /\ dirty' = (dirty \/ rpc.at = "poll" \/ rpc.tries > 0)
     /\ UNCHANGED excused
-----------------------------------------------------------------------------
(* The user, and the world outside the provider.                            *)

ChangeConfig ==
  /\ rpc = Idle
  /\ changes < MaxChanges
  /\ changes' = changes + 1
  /\ config' \in Alternatives \ {config}
  /\ UNCHANGED <<state, private, remote, deleting, rpc, made, faults, excused, dirty>>

(* The object is changed or deleted behind the provider's back ... *)
Drift ==
  /\ Fault("drift")
  /\ \E i \in Live :
       \/ /\ \E b \in Bodies \ {remote[i].body} : remote' = [remote EXCEPT ![i].body = b]
          /\ UNCHANGED deleting
       \/ remote' = [remote EXCEPT ![i] = None] /\ deleting' = deleting \ {i}
  /\ dirty' = TRUE
  /\ UNCHANGED <<config, state, private, rpc, made, changes, excused>>

(* ... or someone else creates one at the path. *)
Foreign ==
  /\ Fault("foreign")
  /\ CreateMethod = "PUT"
  /\ remote[1] = None
  /\ \E o \in Object : o.patch = None /\ remote' = [remote EXCEPT ![1] = o]
  /\ excused' = excused \cup {1}
  /\ dirty' = (dirty \/ state # NoState)
  /\ UNCHANGED <<config, state, private, deleting, rpc, made, changes>>

(* The API finishes a deletion it has accepted. *)
Vanish ==
  /\ \E i \in deleting :
       /\ remote' = [remote EXCEPT ![i] = None]
       /\ deleting' = deleting \ {i}
  /\ UNCHANGED <<config, state, private, rpc, made, changes, faults, excused, dirty>>

(* The provider or core dies in the middle of an RPC: nothing is saved. *)
Crash ==
  /\ Fault("crash")
  /\ rpc.op \in {"create", "update", "delete"}
  /\ KeepState
  /\ excused' = (excused \cup {rpc.id}) \ {0}
  /\ dirty' = (dirty \/ rpc.op # "create")
  /\ UNCHANGED <<config, remote, deleting, made, changes>>
-----------------------------------------------------------------------------
(* An RPC starts.                                                           *)

Start(op, place) ==
  /\ rpc = Idle
  /\ rpc' = [Idle EXCEPT !.op = op, !.at = place, !.new = state, !.pv = private]
  /\ UNCHANGED <<config, state, private, remote, deleting, made, changes, faults, excused, dirty>>

(* Refresh *)
StartRead == state # NoState /\ Start("read", "readback")

StartCreate == MustCreate /\ Start("create", IF CheckExistance THEN "check" ELSE "call")

StartDelete == MustDelete /\ Start("delete", "call")

(* Mutant of CallsUpdateAPI: the ephemeral body alone does not cause a call. *)
CallsForBodyOnly == state.body # config.body \/ config.patch # None

(* The body, patched and merged, differs from the state's, or ephemeralDiff. *)
CallsUpdateAPI == state.body # config.body \/ config.patch # None \/ EphemeralDiff

StartUpdate == MustUpdate /\ Start("update", IF CallsUpdateAPI THEN "call" ELSE "store")

(* Someone imports an object that is not tracked: ImportState, then Read. *)
StartImport ==
  /\ MustCreate
  /\ rpc = Idle
  /\ \E i \in Live : rpc' = [Idle EXCEPT !.op = "import", !.at = "readback", !.new.id = i]
  /\ dirty' = FALSE
  /\ UNCHANGED <<config, state, private, remote, deleting, made, changes, faults, excused>>

(* core applies what was planned; a replacement deletes and then creates. *)
Apply == StartCreate \/ StartUpdate \/ StartDelete
-----------------------------------------------------------------------------
(* Steps common to the RPCs.                                                *)

Go(place) == rpc' = [rpc EXCEPT !.at = place]

Quiet == UNCHANGED <<config, state, private, deleting, made, changes>>

(* The API refuses a call for a reason that the client, or `retry`, retries. *)
RefusedOnce ==
  /\ Fault("error")
  /\ rpc.at = "call"
  /\ MayRetry
  /\ rpc' = [rpc EXCEPT !.tries = @ + 1]
  /\ Quiet /\ UNCHANGED <<remote, excused, dirty>>

(* The API refuses a call for good, or a call is not made at all: the       *)
(* existence check, a precheck or the building of the request fails.        *)
Refused ==
  /\ Fault("error")
  /\ rpc.at \in {"check", "call"}
  /\ Fails
  /\ UNCHANGED <<config, remote, deleting, made, changes>>

(* The long-running operation, or what follows it before the state is set,  *)
(* fails.                                                                   *)
PollFails ==
  /\ Fault("error")
  /\ rpc.at = "poll"
  /\ Fails
  /\ UNCHANGED <<config, remote, deleting, made, changes>>

(* Mutant of AnswerLost: the attempts are not counted against the limit. *)
AnswerLostRetriesOn ==
  rpc' = [rpc EXCEPT !.tries = @ + 1] /\ UNCHANGED <<state, private, dirty>>

(* The answer to a call that the API has carried out gets lost: the client  *)
(* sends the call again, or the RPC fails.                                  *)
AnswerLost ==
  IF MayRetry
    THEN rpc' = [rpc EXCEPT !.tries = @ + 1] /\ UNCHANGED <<state, private, dirty>>
    ELSE rpc' = Idle /\ UNCHANGED <<state, private>> /\ dirty' = TRUE
-----------------------------------------------------------------------------
(* Create                                                                   *)

CheckNotFound ==
  /\ Doing("create", "check")
  /\ NoFault
  /\ remote[1] = None
  /\ Go("call")
  /\ Quiet /\ UNCHANGED <<remote, excused, dirty>>

(* Any answer other than 404 means that the object exists: it is adopted. *)
CheckAdopts ==
  /\ Doing("create", "check")
  /\ (remote[1] # None /\ NoFault) \/ Fault("error")
  /\ rpc' = [rpc EXCEPT !.at = "readback", !.adopt = TRUE,
               !.new = Planned([NoState EXCEPT !.id = 1])]
  /\ dirty' = FALSE
  /\ Quiet /\ UNCHANGED <<remote, excused>>

(* The API makes, or with PUT replaces, the object. *)
NewId == IF CreateMethod = "PUT" THEN 1 ELSE made + 1

CreateBody == [body |-> config.body, patch |-> None, eph |-> config.eph]

CreateLands ==
  /\ Doing("create", "call")
  /\ NewId \in Ids
  /\ remote' = [remote EXCEPT ![NewId] = CreateBody]
  /\ deleting' = deleting \ {NewId}
  /\ made' = NewId
  /\ UNCHANGED <<config, changes>>

(* Mutant of CreateAccepted: the hash is not recorded. *)
CreateAcceptedUnrecorded ==
  /\ CreateLands
  /\ NoFault
  /\ rpc' = [rpc EXCEPT !.at = "poll", !.id = NewId]
  /\ dirty' = FALSE
  /\ UNCHANGED <<state, private, excused>>

(* ephemeral.Set records the hash in resp.Private. *)
CreateAccepted ==
  /\ CreateLands
  /\ NoFault
  /\ rpc' = [rpc EXCEPT !.at = "poll", !.id = NewId, !.pv = config.eph]
  /\ dirty' = FALSE
  /\ UNCHANGED <<state, private, excused>>

CreateLost ==
  /\ Fault("lost")
  /\ CreateLands
  /\ AnswerLost
  /\ excused' = excused \cup {NewId}

(* The operation is done: the ID, the outputs and the plan go to the state. *)
CreatePolled ==
  /\ Doing("create", "poll")
  /\ NoFault
  /\ rpc' = [rpc EXCEPT !.at = "readback",
               !.new = Planned([NoState EXCEPT !.id = rpc.id])]
  /\ Quiet /\ UNCHANGED <<remote, excused, dirty>>
-----------------------------------------------------------------------------
(* Update                                                                   *)

(* What the API has after the request: PUT sends everything, the merge      *)
(* patch what differs from the state's body.  The ephemeral body is merged  *)
(* only when ephemeralDiff.                                                 *)
Updated(o) ==
  LET eb == IF EphemeralDiff THEN config.eph ELSE None
  IN  IF UpdateMethod = "PUT"
        THEN [body |-> config.body, patch |-> config.patch, eph |-> eb]
        ELSE [body  |-> IF config.body # state.body THEN config.body ELSE o.body,
              patch |-> IF config.patch # None THEN config.patch ELSE o.patch,
              eph   |-> IF eb # None THEN eb ELSE o.eph]

UpdateLands ==
  /\ Doing("update", "call")
  /\ remote[state.id] # None
  /\ remote' = [remote EXCEPT ![state.id] = Updated(@)]
  /\ UNCHANGED <<config, deleting, made, changes, excused>>

UpdateAccepted == UpdateLands /\ Go("poll") /\ UNCHANGED <<state, private, dirty>> /\ NoFault

UpdateLost == Fault("lost") /\ UpdateLands /\ AnswerLost

UpdateNotFound ==
  /\ Doing("update", "call")
  /\ NoFault
  /\ remote[state.id] = None
  /\ Fails
  /\ UNCHANGED <<config, remote, deleting, made, changes>>

UpdatePolled ==
  /\ Doing("update", "poll")
  /\ NoFault
  /\ Go("store")
  /\ Quiet /\ UNCHANGED <<remote, excused, dirty>>

(* Mutant of UpdateStored: the hash is recorded whether merged or not. *)
UpdateStoredRecorded ==
  /\ Doing("update", "store")
  /\ NoFault
  /\ rpc' = [rpc EXCEPT !.at = "readback",
               !.new = Planned(state),
               !.pv = config.eph]
  /\ Quiet /\ UNCHANGED <<remote, excused, dirty>>

(* The plan goes to the state with the old output; ephemeral.Set records    *)
(* the hash of what was merged: nothing, when nothing was.                  *)
UpdateStored ==
  /\ Doing("update", "store")
  /\ NoFault
  /\ rpc' = [rpc EXCEPT !.at = "readback",
               !.new = Planned(state),
               !.pv = IF EphemeralDiff THEN config.eph ELSE None]
  /\ Quiet /\ UNCHANGED <<remote, excused, dirty>>
-----------------------------------------------------------------------------
(* Delete                                                                   *)

DeleteSucceeds == Save(NoState, None) /\ UNCHANGED <<excused, dirty>>

DeleteLands ==
  /\ Doing("delete", "call")
  /\ remote[state.id] # None
  /\ IF PollDelete
       THEN deleting' = deleting \cup {state.id} /\ UNCHANGED remote
       ELSE remote' = [remote EXCEPT ![state.id] = None] /\ UNCHANGED deleting
  /\ UNCHANGED <<config, made, changes, excused>>

DeleteAccepted ==
  /\ DeleteLands
  /\ NoFault
  /\ IF PollDelete THEN Go("poll") /\ UNCHANGED <<state, private>> ELSE Save(NoState, None)
  /\ UNCHANGED dirty

DeleteLost == Fault("lost") /\ DeleteLands /\ AnswerLost

(* 404 answers DELETE: there is nothing to delete. *)
DeleteNotFound ==
  /\ Doing("delete", "call")
  /\ NoFault
  /\ remote[state.id] = None
  /\ DeleteSucceeds
  /\ UNCHANGED <<config, remote, deleting, made, changes>>

(* The API is busy and has not accepted to delete, with a status code that  *)
(* poll_delete lists as pending: the answer is polled like any other.       *)
DeleteBusy ==
  /\ Fault("busy")
  /\ PollDelete
  /\ Doing("delete", "call")
  /\ Go("poll")
  /\ Quiet /\ UNCHANGED <<remote, excused, dirty>>

(* Mutant of DeletePolled: the first answer ends the polling. *)
DeletePolledEarly ==
  /\ Doing("delete", "poll")
  /\ NoFault
  /\ DeleteSucceeds
  /\ UNCHANGED <<config, remote, deleting, made, changes>>

(* The polling ends when the object is not found. *)
DeletePolled ==
  /\ Doing("delete", "poll")
  /\ NoFault
  /\ remote[state.id] = None
  /\ DeleteSucceeds
  /\ UNCHANGED <<config, remote, deleting, made, changes>>
-----------------------------------------------------------------------------
(* read                                                                     *)

Ends(new, failed) ==
  \/ rpc.op = "create" /\ CreateEnds(new, failed)
  \/ rpc.op = "update" /\ UpdateEnds(new)
  \/ rpc.op = "read" /\ ReadEnds(new)
  \/ rpc.op = "import" /\ ImportEnds(IF failed THEN NoState ELSE new)

ReadNotFound ==
  /\ rpc.at = "readback"
  /\ NoFault
  /\ remote[rpc.new.id] = None
  /\ Ends(NoState, FALSE)
  /\ UNCHANGED <<config, remote, deleting, made, changes>>

ReadFails ==
  /\ Fault("error")
  /\ rpc.at = "readback"
  /\ Ends(rpc.new, TRUE)
  /\ UNCHANGED <<config, remote, deleting, made, changes>>

(* What Read puts into the state: the body that the API has, except after   *)
(* Create and Update; the output without the ephemeral body that the        *)
(* private state has a record of.                                           *)
ReadState ==
  LET o == remote[rpc.new.id]
      updateBody == rpc.adopt \/ rpc.op \in {"read", "import"}
  IN  [rpc.new EXCEPT !.body = IF updateBody THEN o.body ELSE @,
                      !.out = IF rpc.pv = None THEN o.eph ELSE None]

ReadOk ==
  /\ rpc.at = "readback"
  /\ NoFault
  /\ remote[rpc.new.id] # None
  /\ Ends(ReadState, FALSE)
  /\ UNCHANGED <<config, remote, deleting, made, changes>>
-----------------------------------------------------------------------------
CreateStep == CheckNotFound \/ CheckAdopts \/ CreateAccepted \/ CreateLost \/ CreatePolled

UpdateStep == UpdateAccepted \/ UpdateLost \/ UpdateNotFound \/ UpdatePolled \/ UpdateStored

DeleteStep == DeleteAccepted \/ DeleteLost \/ DeleteNotFound \/ DeleteBusy \/ DeletePolled

ReadStep == ReadNotFound \/ ReadFails \/ ReadOk

RpcStep ==
  CreateStep \/ UpdateStep \/ DeleteStep \/ ReadStep \/ RefusedOnce \/ Refused \/ PollFails

Environment == ChangeConfig \/ Drift \/ Foreign \/ Vanish \/ Crash

Next == Environment \/ Apply \/ StartRead \/ StartImport \/ RpcStep

Spec == Init /\ [][Next]_vars

(* Every RPC goes on until it ends, the API finishes the deletions that it  *)
(* has accepted, and the user applies again and again, between refreshes.   *)
Fairness == WF_vars(RpcStep) /\ WF_vars(Vanish) /\ SF_vars(Apply) /\ SF_vars(StartRead)

FairSpec == Spec /\ Fairness
-----------------------------------------------------------------------------
(* Every object that the provider has created is in the state, or an error  *)
(* (or a lost answer) has told of it: no RPC ends well and forgets one.     *)
NoUnreportedOrphan == rpc = Idle => Live \subseteq {state.id} \cup excused

(* The same of every step: the resource keeps the account of Ledger.  What  *)
(* Create has made is in its hand until it answers; an object leaves the    *)
(* state only when it does not exist any more, and what an error has told   *)
(* of is not taken back until it is in a state.                             *)
Books == INSTANCE Ledger WITH
  Things <- Ids, there <- Live, booked <- {state.id} \ {0}, hand <- {rpc.id} \ {0}, told <- excused

KeepsLedger == Books!Spec

(* The record of the ephemeral body never runs ahead of the API: what the   *)
(* private state has the hash of is what the object was last given.         *)
RecordMatchesRemote ==
  rpc = Idle /\ ~dirty /\ private # None =>
    state.id \in Live /\ remote[state.id].eph = private

(* An empty plan can be trusted: the object exists with the body and the    *)
(* ephemeral body of the configuration.                                     *)
InPlace == state.id \in Live /\ remote[state.id].body = config.body
           /\ (config.eph # None => remote[state.id].eph = config.eph)

EmptyPlanMeansInPlace ==
  rpc = Idle /\ ~dirty /\ config.present /\ NothingToPlan => InPlace

(* What has been applied without an error need not be applied again: the    *)
(* plan after a Create or an Update that succeeds is empty.  The ephemeral  *)
(* body is excepted when the RPC has not sent it, having adopted the object *)
(* or found the hash unchanged: the answer then has no record of it.        *)
Applied ==
  /\ rpc.op \in {"create", "update"} /\ rpc.at = "readback" /\ rpc' = Idle
  /\ state' # NoState /\ ~state'.tainted /\ faults' = faults /\ ~ReadNotFound

NotSent == config.eph # None /\ (rpc.adopt \/ (rpc.op = "update" /\ ~EphemeralDiff))

AppliedIsSettled == [][Applied /\ ~NotSent => NothingToPlan']_vars

(* The ephemeral body of the configuration never changes. *)
SameEphemeral == \A c \in Alternatives : c.present => c.eph = config.eph

(* When the configuration does not change any more, applying it again and   *)
(* again repairs whatever refused calls, lost answers, crashes and drift    *)
(* have left, once these have come to an end: the plan is empty and the     *)
(* object in place, or gone.  The ephemeral body is excepted when it has    *)
(* changed and something has failed; nothing is, as long as nothing fails.  *)
Converges ==
  <>[](IF config.present
         THEN /\ NothingToPlan
              /\ state.id \in Live /\ remote[state.id].body = config.body
              /\ faults = 0 \/ SameEphemeral => InPlace
         ELSE state = NoState /\ (faults = 0 => Live = {}))

(* docs/resources/resource.md: an ephemeral body that the API returns is    *)
(* removed from the output.                                                 *)
OutputHidesEphemeral ==
  [][rpc.op = "update" /\ ReadOk /\ config.eph # None => state'.out # config.eph]_vars
-----------------------------------------------------------------------------
(* The strengthening that makes NoUnreportedOrphan inductive.               *)

(* In the middle of an RPC an object may also be the one it has just made. *)
Accounted == Live \subseteq {state.id, rpc.id} \cup excused

(* What an RPC finds in the state when it starts stays there until it ends, *)
(* and its answer speaks of that object, of the one it made, or adopts.     *)
RpcInv ==
  /\ state # NoState => state.id \in Ids
  /\ rpc.op \in {"create", "import"} => state = NoState
  /\ rpc.op \in {"read", "update", "delete"} => state # NoState
  /\ rpc.op \in {"read", "update"} => rpc.new.id = state.id
  /\ rpc.op = "delete" => rpc.at \in {"call", "poll"}
  /\ rpc.op # "create" => rpc.id = 0
  /\ rpc.op = "create" /\ rpc.at = "poll" => rpc.id \in Ids
  /\ rpc.op = "create" /\ rpc.at \in {"check", "call"} => rpc.id = 0 /\ ~rpc.adopt
  /\ rpc.op = "create" /\ rpc.at = "readback" =>
       rpc.new.id = IF rpc.adopt THEN 1 ELSE rpc.id
  /\ rpc.op = "create" /\ rpc.adopt => rpc.id = 0
  /\ rpc.at = "readback" => rpc.new.id \in Ids

IInv == TypeOK /\ RpcInv /\ Accounted
-----------------------------------------------------------------------------
(* The strengthening behind RecordMatchesRemote and EmptyPlanMeansInPlace.  *)

(* The answer in the making is what the plan gives, and the record in it    *)
(* that of the ephemeral body that was sent.                                *)
AnswerInv ==
  /\ state = NoState => private = None
  /\ rpc.op = "create" => rpc.at \in {"check", "call", "poll", "readback"}
  /\ rpc.op = "create" /\ rpc.at \in {"check", "call"} => rpc.pv = None
  /\ rpc.op = "create" /\ rpc.at \in {"poll", "readback"} =>
       rpc.pv = IF rpc.adopt THEN None ELSE config.eph
  /\ rpc.op = "create" /\ rpc.at = "readback" => rpc.new.body = config.body
  /\ rpc.op = "read" => rpc.at = "readback" /\ rpc.new = state
  /\ rpc.op = "import" => rpc.at = "readback"
  /\ rpc.op = "update" => rpc.at \in {"call", "poll", "store", "readback"} /\ ~state.tainted
  /\ rpc.op = "update" /\ rpc.at = "readback" =>
       /\ rpc.new = Planned(state)
       /\ rpc.pv = IF EphemeralDiff THEN config.eph ELSE None

(* Only the object in the state is being deleted, with poll_delete, in a    *)
(* Delete that has been sent, or after one that has failed.                 *)
DeletingInv ==
  /\ deleting \subseteq {state.id} \cap Live
  /\ deleting # {} => PollDelete
  /\ deleting # {} => dirty \/ (rpc.op = "delete" /\ (rpc.at = "poll" \/ rpc.tries > 0))

(* The object was last given this body, and this ephemeral body if any.     *)
Has(i, body, eph) ==
  /\ remote[i] # None
  /\ remote[i].body = body
  /\ eph # None => remote[i].eph = eph

(* The state speaks true of its object; of one that is tainted, only the    *)
(* record of the ephemeral body does.                                       *)
Tells ==
  state # NoState =>
    /\ private # None => remote[state.id] # None /\ remote[state.id].eph = private
    /\ ~state.tainted => remote[state.id] # None /\ remote[state.id].body = state.body

(* The RPC has not made the object differ from the state on purpose yet.    *)
Untouched == rpc.op \in {"update", "delete"} => rpc.at = "call" /\ rpc.tries = 0

(* Unless something has happened that the state does not tell: it speaks    *)
(* true until an RPC begins to change the object, and then the object has   *)
(* what the RPC's answer will say.                                          *)
TruthInv ==
  ~dirty =>
    /\ Untouched => Tells
    /\ rpc.op = "update" /\ rpc.at = "call" =>
         remote[state.id] # None /\ remote[state.id].body \in {state.body, config.body}
    /\ rpc.op = "update" /\ rpc.at \in {"poll", "store", "readback"} =>
         Has(state.id, config.body, IF EphemeralDiff THEN config.eph ELSE None)
    /\ rpc.op = "create" /\ rpc.at \in {"poll", "readback"} /\ ~rpc.adopt =>
         Has(rpc.id, config.body, config.eph)

TInv == IInv /\ AnswerInv /\ DeletingInv /\ TruthInv
-----------------------------------------------------------------------------
(* The strengthening behind AppliedIsSettled: the RPC answers what core has *)
(* planned with the configuration that is still there.                      *)
PlanInv ==
  /\ rpc.op \in {"create", "update"} => config.present
  /\ rpc.adopt => rpc.op = "create"
  /\ rpc.op = "create" /\ rpc.at = "readback" =>
       rpc.new = Planned([NoState EXCEPT !.id = rpc.new.id])
=============================================================================
