---------------------------- MODULE HelmRelease ----------------------------
(***************************************************************************)
(* The life of one rest_helm_release (internal/resources/helm_release.go): *)
(* Create, Read, Update and Delete.                                        *)
(*                                                                         *)
(* Terraform core and Helm are external.  Helm keeps the record of a       *)
(* release in its namespace from the moment an install begins: "pending"   *)
(* while it works, "deployed" or "failed" after.  An install needs a name  *)
(* without a record, an upgrade a record that is not pending.              *)
(***************************************************************************)
EXTENDS Naturals

CONSTANTS
  Values,         \* what chart, version, values and set come to
  None,           \* no release
  Spaces,         \* the namespaces
  Faults,         \* faults that happen: "error", "crash"
  MaxChanges,     \* bound: changes of the configuration
  MaxFaults       \* bound: faults that happen

(* The name is that of the instance: another one is another instance.       *)
PlanType == [namespace : Spaces, values : Values]

(* Helm's record of a release. *)
Release == [status : {"pending", "deployed", "failed"}, values : Values]

(* What an instance must give for the constants. *)
Sensible == None \notin PlanType \cup Release /\ {MaxChanges, MaxFaults} \subseteq Nat

VARIABLES
  plan,      \* the configuration, None when the resource is not in it
  saved,     \* the instance in the state file
  releases,  \* Helm's record by namespace
  rpc,       \* the RPC in progress
  changes,   \* number of changes of the configuration
  faults,    \* number of faults so far
  told,      \* history: namespaces of a release that an error, a crash or a Read that
             \* failed accounts for
  moved      \* history: namespaces an update has left for another

vars == <<plan, saved, releases, rpc, changes, faults, told, moved>>

Rpc == {"none", "create", "created", "update", "updated", "delete"}

TypeOK ==
  /\ plan \in PlanType \cup {None}
  /\ saved \in PlanType \cup {None}
  /\ releases \in [Spaces -> Release \cup {None}]
  /\ rpc \in Rpc
  /\ changes \in 0 .. MaxChanges
  /\ faults \in 0 .. MaxFaults
  /\ told \subseteq Spaces
  /\ moved \subseteq Spaces

Init ==
  /\ plan \in PlanType
  /\ saved = None
  /\ releases = [n \in Spaces |-> None]
  /\ rpc = "none"
  /\ changes = 0
  /\ faults = 0
  /\ told = {}
  /\ moved = {}

Fault(kind) == kind \in Faults /\ faults < MaxFaults /\ faults' = faults + 1

Records(n, status) == releases' = [releases EXCEPT ![n] = [status |-> status, values |-> plan.values]]

Fails ==
  /\ rpc' = "none"
  /\ UNCHANGED <<plan, saved, changes>>
-----------------------------------------------------------------------------
(* The user and core                                                        *)

ChangePlan ==
  /\ rpc = "none"
  /\ changes < MaxChanges /\ changes' = changes + 1
  /\ plan' \in (PlanType \cup {None}) \ {plan}
  /\ UNCHANGED <<saved, releases, rpc, faults, told, moved>>

Start(op) ==
  /\ rpc = "none"
  /\ rpc' = op
  /\ UNCHANGED <<plan, saved, releases, changes, faults, told, moved>>

StartCreate == plan # None /\ saved = None /\ Start("create")

StartUpdate == plan # None /\ saved # None /\ saved # plan /\ Start("update")

StartDelete == plan = None /\ saved # None /\ Start("delete")

Apply == StartCreate \/ StartUpdate \/ StartDelete

(* Read asks for the release, and takes status and versions from it, never  *)
(* its values: nothing that the plan depends on changes.  But when Get      *)
(* fails, for whatever reason, the resource leaves the state.               *)
Read ==
  /\ rpc = "none"
  /\ saved # None
  /\ \/ releases[saved.namespace] = None /\ UNCHANGED <<faults, told>>
     \/ Fault("error") /\ told' = told \cup {saved.namespace}
  /\ saved' = None
  /\ UNCHANGED <<plan, releases, rpc, changes, moved>>
-----------------------------------------------------------------------------
(* Create                                                                   *)

(* Install records the release, and waits for it.  A name in use, for which *)
(* a failed install is enough, is an error.                                 *)
InstallBegins ==
  /\ rpc = "create"
  /\ IF releases[plan.namespace] = None
       THEN rpc' = "created" /\ Records(plan.namespace, "pending") /\ UNCHANGED <<plan, saved, changes>>
       ELSE Fails /\ UNCHANGED releases
  /\ UNCHANGED <<faults, told, moved>>

(* Mutant of InstallDone: the state is set also when Install fails. *)
InstallDoneAlways ==
  /\ rpc = "created"
  /\ \/ Records(plan.namespace, "deployed") /\ UNCHANGED faults
     \/ Fault("error") /\ Records(plan.namespace, "failed")
  /\ saved' = plan
  /\ rpc' = "none"
  /\ told' = told \ {plan.namespace}
  /\ UNCHANGED <<plan, changes, moved>>

InstallDone ==
  /\ rpc = "created"
  /\ Records(plan.namespace, "deployed")
  /\ saved' = plan
  /\ rpc' = "none"
  /\ told' = told \ {plan.namespace}
  /\ UNCHANGED <<plan, changes, faults, moved>>

(* The chart does not come up, or not in time: there is no state, and the   *)
(* failed release stays (Install is not atomic).                            *)
InstallFails ==
  /\ Fault("error")
  /\ rpc = "created"
  /\ Records(plan.namespace, "failed")
  /\ Fails
  /\ told' = told \cup {plan.namespace}
  /\ UNCHANGED moved

(* The configuration of Helm, the chart or the values fail before the call. *)
NotCalled ==
  /\ Fault("error")
  /\ rpc \in {"create", "update", "delete"}
  /\ Fails
  /\ UNCHANGED <<releases, told, moved>>
-----------------------------------------------------------------------------
(* Update                                                                   *)

(* Upgrade, in the namespace of the plan, needs a record there. *)
UpgradeBegins ==
  /\ rpc = "update"
  /\ IF releases[plan.namespace] # None /\ releases[plan.namespace].status # "pending"
       THEN rpc' = "updated" /\ Records(plan.namespace, "pending") /\ UNCHANGED <<plan, saved, changes>>
       ELSE Fails /\ UNCHANGED releases
  /\ UNCHANGED <<faults, told, moved>>

UpgradeDone ==
  /\ rpc = "updated"
  /\ Records(plan.namespace, "deployed")
  /\ saved' = plan
  /\ rpc' = "none"
  /\ told' = told \ {plan.namespace}
  /\ moved' = (moved \cup {saved.namespace}) \ {plan.namespace}
  /\ UNCHANGED <<plan, changes, faults>>

(* Mutant of UpgradeFails: the resource leaves the state, as in Read. *)
UpgradeFailsRemoves ==
  /\ Fault("error")
  /\ rpc = "updated"
  /\ Records(plan.namespace, "failed")
  /\ saved' = None
  /\ rpc' = "none"
  /\ told' = told \cup {plan.namespace}
  /\ UNCHANGED <<plan, changes, moved>>

UpgradeFails ==
  /\ Fault("error")
  /\ rpc = "updated"
  /\ Records(plan.namespace, "failed")
  /\ Fails
  /\ told' = told \cup {plan.namespace}
  /\ UNCHANGED moved
-----------------------------------------------------------------------------
(* Delete: Uninstall takes a release of any status, but not one that is not *)
(* there.                                                                   *)
Uninstall ==
  /\ rpc = "delete"
  /\ IF releases[saved.namespace] # None
       THEN /\ releases' = [releases EXCEPT ![saved.namespace] = None]
            /\ saved' = None
            /\ rpc' = "none"
            /\ told' = told \ {saved.namespace}
            /\ UNCHANGED <<plan, changes>>
       ELSE Fails /\ UNCHANGED <<releases, told>>
  /\ UNCHANGED <<faults, moved>>

(* The provider or core dies: a release that is pending stays so, and what  *)
(* the answer would have set is not saved.                                  *)
Crash ==
  /\ Fault("crash")
  /\ rpc # "none"
  /\ \/ UNCHANGED releases
     \/ rpc = "delete" /\ releases' = [releases EXCEPT ![saved.namespace] = None]
     \/ rpc \in {"created", "updated"} /\ Records(plan.namespace, "deployed")
  /\ Fails
  /\ told' = IF rpc \in {"created", "updated"} THEN told \cup {plan.namespace} ELSE told
  /\ UNCHANGED moved
-----------------------------------------------------------------------------
Step ==
  \/ InstallBegins \/ InstallDone \/ InstallFails \/ NotCalled
  \/ UpgradeBegins \/ UpgradeDone \/ UpgradeFails
  \/ Uninstall

Next == ChangePlan \/ Apply \/ Read \/ Crash \/ Step

Spec == Init /\ [][Next]_vars
-----------------------------------------------------------------------------
(* A release is in the state, or an error, a crash or a Read that failed    *)
(* accounts for it, or an update has moved the instance out of its          *)
(* namespace: what an install that failed leaves behind is never silent.    *)
ReleaseAccounted ==
  rpc = "none" =>
    \A n \in Spaces :
      releases[n] # None => n \in told \cup moved \/ (saved # None /\ saved.namespace = n)

(* Whether the RPC in progress has begun to write the release. *)
Writes(n) == rpc \in {"created", "updated"} /\ plan.namespace = n

(* The same of every step: the resource keeps the account of Ledger.        *)
Books == INSTANCE Ledger WITH
  Things <- Spaces, there <- {n \in Spaces : releases[n] # None},
  booked <- IF saved = None THEN {} ELSE {saved.namespace},
  hand <- {n \in Spaces : Writes(n)}, told <- told \cup moved

KeepsLedger == Books!Spec

(* What the state says is deployed is deployed with these values, when no   *)
(* attempt on the namespace has failed since: Create and Update set the     *)
(* state after Helm has answered, and only then.                            *)
StateTellsRelease ==
  rpc = "none" /\ saved # None /\ saved.namespace \notin told /\ releases[saved.namespace] # None =>
    releases[saved.namespace] = [status |-> "deployed", values |-> saved.values]
-----------------------------------------------------------------------------
(* The inductive invariant behind these: what they say of the moments       *)
(* between RPCs, with what an RPC that is in progress has done to it.       *)

RpcInv ==
  /\ rpc \in {"create", "created", "update", "updated"} => plan # None
  /\ rpc \in {"create", "created"} => saved = None
  /\ rpc \in {"update", "updated", "delete"} => saved # None

Accounted ==
  \A n \in Spaces : releases[n] # None =>
    n \in told \cup moved \/ (saved # None /\ saved.namespace = n) \/ Writes(n)

Tells ==
  saved # None /\ saved.namespace \notin told /\ releases[saved.namespace] # None =>
    \/ Writes(saved.namespace)
    \/ releases[saved.namespace] = [status |-> "deployed", values |-> saved.values]

(* An RPC that has begun to write a release has a record of it. *)
Written == \A n \in Spaces : Writes(n) => releases[n] # None

IInv == TypeOK /\ RpcInv /\ Accounted /\ Tells /\ Written
=============================================================================
