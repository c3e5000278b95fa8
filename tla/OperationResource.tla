------------------------- MODULE OperationResource -------------------------
(***************************************************************************)
(* The life of one rest_operation instance (internal/provider/             *)
(* operation_resource.go): ModifyPlan, createOrUpdate and Delete.  An      *)
(* operation is an API call with an effect; the state and the private      *)
(* state are all that is known of it later, as Read does not ask the API.  *)
(*                                                                         *)
(* Terraform core and the API are external.  Core runs one RPC at a time,  *)
(* and compares the answer of an apply with what was planned: a known      *)
(* value that has changed is an error, and the answer is saved all the     *)
(* same.                                                                   *)
(***************************************************************************)
EXTENDS Naturals

CONSTANTS
  Bodies,         \* values of `body`
  Ephs,           \* values of `ephemeral_body`
  None,           \* an attribute that is null, an effect that is not there
  Configs,        \* the configurations the user writes, see ConfigType
  Faults,         \* faults that happen: "error", "lost", "crash"
  MaxIds,         \* bound: effects the API can name
  MaxTries,       \* bound: attempts of one call (the client's retry)
  MaxChanges,     \* bound: changes of the configuration
  MaxFaults       \* bound: faults that happen

(* Whether `id_builder` takes the ID from the answer (the API may name a    *)
(* new effect for each call; without it the effect is at the path), and     *)
(* whether there is a `delete_method`, alone or with a `poll_delete`.       *)
MethodsType == [builder : BOOLEAN, delete : {"none", "call", "poll"}]

ConfigType ==
  [present : BOOLEAN, body : Bodies, eph : Ephs \cup {None}, methods : MethodsType]

ASSUME NoneAssumption ==
  None \notin Bodies \cup Ephs \cup [body : Bodies, eph : Ephs \cup {None}]
ASSUME ConfigsAssumption == Configs \subseteq ConfigType
ASSUME BoundsAssumption == {MaxIds, MaxTries} \subseteq Nat \ {0} /\ {MaxChanges, MaxFaults} \subseteq Nat

VARIABLES
  config,   \* the configuration
  state,    \* the instance in the state file, NoState when it is not there
  private,  \* `ephemeral_body` of the private state: the hash's origin
  remote,   \* the effects that are in place at the API, by id
  made,     \* number of effects the API has named
  rpc,      \* the RPC in progress
  changes,  \* number of changes of the configuration
  faults,   \* number of faults so far
  told,     \* history: effects that an error, or a lost answer, accounts for
  dirty,    \* history: a failed call has done to the effect what the state does not tell
  due       \* history: the configuration has changed, or an attempt failed, since
            \* the operation was last carried out with success

vars == <<config, state, private, remote, made, rpc, changes, faults, told, dirty, due>>

Ids == 1 .. MaxIds

Effect == [body : Bodies, eph : Ephs \cup {None}]

NoState == [id |-> 0, body |-> None]

StateType == [id : 0 .. MaxIds, body : Bodies \cup {None}]

(* An RPC: its kind, where it is, the effect of its answer, and attempts of *)
(* its call that went before.                                               *)
RpcType ==
  [op : {"none", "create", "update", "delete"}, at : {"idle", "call", "poll"},
   id : 0 .. MaxIds, tries : 0 .. MaxTries - 1]

Idle == [op |-> "none", at |-> "idle", id |-> 0, tries |-> 0]

TypeOK ==
  /\ config \in Configs
  /\ state \in StateType
  /\ private \in Ephs \cup {None}
  /\ remote \in [Ids -> Effect \cup {None}]
  /\ made \in 0 .. MaxIds
  /\ rpc \in RpcType
  /\ changes \in 0 .. MaxChanges
  /\ faults \in 0 .. MaxFaults
  /\ told \in SUBSET Ids
  /\ {dirty, due} \subseteq BOOLEAN

Init ==
  /\ config \in Configs
  /\ state = NoState
  /\ private = None
  /\ remote = [i \in Ids |-> None]
  /\ made = 0
  /\ rpc = Idle
  /\ changes = 0
  /\ faults = 0
  /\ told = {}
  /\ dirty = FALSE
  /\ due = TRUE

(* The methods stay what they are for the life of the instance. *)
Methods == config.methods

Alternatives == {c \in Configs : c.methods = config.methods}

Live == {i \in Ids : remote[i] # None}

Fault(kind) == kind \in Faults /\ faults < MaxFaults /\ faults' = faults + 1

(* Mutant of MayRetry: the first attempt is not counted. *)
MayRetryOneMore == rpc.tries < MaxTries

MayRetry == rpc.tries + 1 < MaxTries

Operating == rpc.op \in {"create", "update"}

Outside == UNCHANGED <<config, changes>>
-----------------------------------------------------------------------------
(* The user                                                                 *)

ChangeConfig ==
  /\ rpc = Idle
  /\ changes < MaxChanges
  /\ changes' = changes + 1
  /\ config' \in Alternatives \ {config}
  /\ due' = TRUE
  /\ UNCHANGED <<state, private, remote, made, rpc, faults, told, dirty>>
-----------------------------------------------------------------------------
(* The plan.                                                                *)

(* ephemeral.Diff: the hash in the private state is not the configuration's. *)
EphemeralDiff == private # config.eph

NothingToPlan ==
  IF config.present
    THEN state # NoState /\ state.body = config.body /\ ~EphemeralDiff
    ELSE state = NoState

Start(op) ==
  /\ rpc = Idle
  /\ rpc' = [Idle EXCEPT !.op = op, !.at = "call"]
  /\ Outside
  /\ UNCHANGED <<state, private, remote, made, faults, told, dirty, due>>

StartCreate == config.present /\ state = NoState /\ Start("create")

StartUpdate == config.present /\ state # NoState /\ ~NothingToPlan /\ Start("update")

StartDelete ==
  /\ ~config.present
  /\ state # NoState
  /\ Methods.delete # "none"
  /\ Start("delete")

(* Without a delete_method Delete calls nothing: the effect stays. *)
DeleteNothing ==
  /\ ~config.present
  /\ state # NoState
  /\ rpc = Idle
  /\ Methods.delete = "none"
  /\ state' = NoState /\ private' = None
  /\ Outside
  /\ UNCHANGED <<remote, made, rpc, faults, told, dirty, due>>

Apply == StartCreate \/ StartUpdate \/ StartDelete \/ DeleteNothing
-----------------------------------------------------------------------------
(* How an RPC fails: nothing is set, core keeps the state that it has.  The *)
(* API may have carried out more than the state tells when this was not the *)
(* first attempt, or is past the call.                                      *)

Fails ==
  /\ rpc' = Idle
  /\ told' = (told \cup {rpc.id}) \ {0}
  /\ dirty' = (dirty \/ rpc.at = "poll" \/ rpc.tries > 0)
  /\ due' = (due \/ Operating)
  /\ UNCHANGED <<state, private>>

(* The API refuses a call, and the client sends it again ... *)
RefusedOnce ==
  /\ Fault("error")
  /\ rpc.at = "call"
  /\ MayRetry
  /\ rpc' = [rpc EXCEPT !.tries = @ + 1]
  /\ Outside
  /\ UNCHANGED <<state, private, remote, made, told, dirty, due>>

(* ... or the RPC fails, as it does when the client, a precheck, or a part  *)
(* of the request fails before the call.                                    *)
Refused ==
  /\ Fault("error")
  /\ rpc.at = "call"
  /\ Fails
  /\ Outside
  /\ UNCHANGED <<remote, made>>

(* After the call has been answered with success, id_builder, the polling,  *)
(* output_attrs or the removal of the ephemeral body from the output fails; *)
(* in Delete only the polling can.                                          *)
AnswerFails ==
  /\ Fault("error")
  /\ rpc.at = "poll"
  /\ rpc.op = "delete" => Methods.delete = "poll"
  /\ Fails
  /\ Outside
  /\ UNCHANGED <<remote, made>>

(* The provider or core dies: nothing is saved. *)
Crash ==
  /\ Fault("crash")
  /\ rpc # Idle
  /\ Fails
  /\ Outside
  /\ UNCHANGED <<remote, made>>
-----------------------------------------------------------------------------
(* createOrUpdate                                                           *)

(* The effect that the API gives the operation, or changes: the one at the  *)
(* path, or with id_builder a new one, or that of the state if it is there. *)
Targets ==
  IF Methods.builder
    THEN {made + 1} \cup {i \in Live : i = state.id}
    ELSE {1}

(* Mutant of Request: the ephemeral body is merged only when it has changed. *)
RequestOnDiff == [body |-> config.body, eph |-> IF EphemeralDiff THEN config.eph ELSE None]

(* The body with the ephemeral body merged into it, changed or not. *)
Request == [body |-> config.body, eph |-> config.eph]

(* The API carries out the operation. *)
Carries(i) ==
  /\ Operating
  /\ rpc.at = "call"
  /\ i \in Targets \cap Ids
  /\ remote' = [remote EXCEPT ![i] = Request]
  /\ made' = IF i > made THEN i ELSE made
  /\ Outside

(* Mutant of OperationAnswered: id_builder is left out. *)
OperationAnsweredUnnamed ==
  \E i \in Ids :
    /\ Carries(i)
    /\ rpc' = [rpc EXCEPT !.at = "poll", !.id = IF state = NoState THEN 1 ELSE state.id]
    /\ UNCHANGED <<state, private, faults, told, dirty, due>>

OperationAnswered ==
  \E i \in Ids :
    /\ Carries(i)
    /\ rpc' = [rpc EXCEPT !.at = "poll", !.id = i]
    /\ UNCHANGED <<state, private, faults, told, dirty, due>>

OperationLost ==
  \E i \in Ids :
    /\ Fault("lost")
    /\ Carries(i)
    /\ rpc' = IF MayRetry THEN [rpc EXCEPT !.tries = @ + 1] ELSE Idle
    /\ told' = told \cup {i}
    /\ dirty' = TRUE
    /\ due' = TRUE
    /\ UNCHANGED <<state, private>>

(* The ID is planned to stay (UseStateForUnknown): core takes an answer     *)
(* with another one for an error, that names both, and saves it.            *)
Rejected == rpc.op = "update" /\ rpc.id # state.id

(* Mutant of OperationDone: ephemeral.Set is left out. *)
OperationDoneUnrecorded ==
  /\ Operating
  /\ rpc.at = "poll"
  /\ told' = IF Rejected THEN (told \cup {state.id}) \ {rpc.id} ELSE told \ {rpc.id}
  /\ state' = [id |-> rpc.id, body |-> config.body]
  /\ rpc' = Idle
  /\ dirty' = FALSE
  /\ due' = FALSE
  /\ Outside
  /\ UNCHANGED <<private, remote, made, faults>>

(* The operation is done, as the polling tells: the ID, the output and the  *)
(* plan go to the state, and the hash of the ephemeral body to the private  *)
(* state.                                                                   *)
OperationDone ==
  /\ Operating
  /\ rpc.at = "poll"
  /\ told' = IF Rejected THEN (told \cup {state.id}) \ {rpc.id} ELSE told \ {rpc.id}
  /\ state' = [id |-> rpc.id, body |-> config.body]
  /\ private' = config.eph
  /\ rpc' = Idle
  /\ dirty' = FALSE
  /\ due' = FALSE
  /\ Outside
  /\ UNCHANGED <<remote, made, faults>>
-----------------------------------------------------------------------------
(* Delete                                                                   *)

(* Mutant of DeleteTarget: the path is called, whatever the ID. *)
DeleteTargetPath == 1

(* The call goes to the ID (or to delete_path, built from the output). *)
DeleteTarget == state.id

Undoes ==
  /\ rpc.op = "delete" /\ rpc.at = "call"
  /\ remote[DeleteTarget] # None
  /\ remote' = [remote EXCEPT ![DeleteTarget] = None]
  /\ UNCHANGED made
  /\ Outside

DeleteAnswered ==
  /\ Undoes
  /\ rpc' = [rpc EXCEPT !.at = "poll"]
  /\ UNCHANGED <<state, private, faults, told, dirty, due>>

DeleteLost ==
  /\ Fault("lost")
  /\ Undoes
  /\ rpc' = IF MayRetry THEN [rpc EXCEPT !.tries = @ + 1] ELSE Idle
  /\ dirty' = TRUE
  /\ UNCHANGED <<state, private, told, due>>

(* An answer 404 is an error like any other: the resource stays. *)
DeleteNotFound ==
  /\ rpc.op = "delete" /\ rpc.at = "call"
  /\ remote[DeleteTarget] = None
  /\ Fails
  /\ Outside
  /\ UNCHANGED <<remote, made, faults>>

(* The polling, if there is one, ends: the framework removes the state. *)
DeleteDone ==
  /\ rpc.op = "delete" /\ rpc.at = "poll"
  /\ state' = NoState /\ private' = None
  /\ rpc' = Idle
  /\ Outside
  /\ UNCHANGED <<remote, made, faults, told, dirty, due>>
-----------------------------------------------------------------------------
CreateOrUpdate == OperationAnswered \/ OperationLost \/ OperationDone

Delete == DeleteAnswered \/ DeleteLost \/ DeleteNotFound \/ DeleteDone

RpcStep == CreateOrUpdate \/ Delete \/ RefusedOnce \/ Refused \/ AnswerFails

Next == ChangeConfig \/ Crash \/ Apply \/ RpcStep

Spec == Init /\ [][Next]_vars

(* RPCs go on until they end, and the user applies again and again. *)
Fairness == WF_vars(RpcStep) /\ WF_vars(Apply)

FairSpec == Spec /\ Fairness
-----------------------------------------------------------------------------
(* When the resource has a delete_method, every effect that is in place is  *)
(* in the state, so that a destroy undoes it, or an error (or a lost        *)
(* answer) has told of it: no apply ends well and forgets one, and no       *)
(* destroy ends well and leaves one.                                        *)
NoUntoldEffect ==
  rpc = Idle /\ Methods.delete # "none" => Live \subseteq {state.id} \cup told

(* The same of every step: the resource keeps the account of Ledger, in     *)
(* which without a delete_method everything is told of.                     *)
Books == INSTANCE Ledger WITH
  Things <- Ids, there <- Live, booked <- {state.id} \ {0}, hand <- {rpc.id} \ {0},
  told <- IF Methods.delete = "none" THEN Ids ELSE told

EffectsKeepLedger == Books!Spec

(* The state and the private state tell what the API was last given, as     *)
(* nothing ever reads the effect again: also after updates of which some    *)
(* have failed and been repeated.                                           *)
StateTellsEffect ==
  rpc = Idle /\ ~dirty /\ state # NoState =>
    state.id \in Live /\ remote[state.id] = [body |-> state.body, eph |-> private]

(* The operation is carried out again only when the configuration has       *)
(* changed or an attempt has failed since it was last done: applying an     *)
(* unchanged configuration never repeats it.                                *)
OperatesOnlyWhenDue == Operating => due

(* When the configuration stays as it is and faults have come to an end, an *)
(* apply of it succeeds, and a destroy undoes the effect.  (The state of an *)
(* effect that was undone without an answer stays for ever: every further   *)
(* Delete is answered 404.)                                                 *)
Settles ==
  <>[](IF config.present THEN NothingToPlan ELSE state = NoState \/ state.id \notin Live)
-----------------------------------------------------------------------------
(* The inductive invariant behind these. *)

RpcInv ==
  /\ rpc.op = "none" => rpc = Idle
  /\ rpc.op # "none" => rpc.at # "idle"
  /\ rpc.id # 0 <=> Operating /\ rpc.at = "poll"
  /\ Operating => config.present
  /\ rpc.op = "create" => state = NoState
  /\ rpc.op \in {"update", "delete"} => state # NoState
  /\ rpc.op = "delete" => ~config.present /\ Methods.delete # "none"
  /\ Operating /\ rpc.at = "poll" => remote[rpc.id] = Request
  /\ rpc.op = "delete" /\ rpc.at = "poll" => remote[state.id] = None

StateInv == state # NoState => state.id # 0 /\ state.body # None

Accounted == Methods.delete # "none" => Live \subseteq {state.id, rpc.id} \cup told

Tells ==
  ~dirty /\ state # NoState /\ rpc.at # "poll" =>
    remote[state.id] = [body |-> state.body, eph |-> private]

DueInv ==
  /\ Operating => due
  /\ ~due /\ config.present => NothingToPlan

IInv == TypeOK /\ RpcInv /\ StateInv /\ Accounted /\ Tells /\ DueInv
=============================================================================
