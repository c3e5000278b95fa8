------------------------------ MODULE Managed ------------------------------
(***************************************************************************)
(* The resources that keep an effect of their own: a rest_operation, the   *)
(* rest_token resources of a cluster, or a rest_helm_release.  They share  *)
(* no state, so that each behaviour is one of a single kind, `kind`, and   *)
(* the variables of the others stay as they are.                           *)
(***************************************************************************)
EXTENDS OperationResource

CONSTANTS
  Tokens, Namespaces, Names, Account, Layouts, MaxUids, MaxEvents,  \* see K8sToken
  Values, Spaces                                                    \* see HelmRelease

VARIABLES
  kind,
  account, wanted, instance, accounts, bindings, uids, call, edits, failures, left, used,
  plan, saved, releases, helmRpc, helmChanges, helmFaults, helmTold, moved

Token == INSTANCE K8sToken

Helm == INSTANCE HelmRelease WITH
  rpc <- helmRpc, changes <- helmChanges, faults <- helmFaults, told <- helmTold

ASSUME TokenAssumption == Token!Sensible
ASSUME HelmAssumption == Helm!Sensible

tokenVars == <<account, wanted, instance, accounts, bindings, uids, call, edits, failures, left, used>>

helmVars == <<plan, saved, releases, helmRpc, helmChanges, helmFaults, helmTold, moved>>

allVars == <<kind, vars, tokenVars, helmVars>>

(* Nothing of a kind is configured. *)
NoOperation == config = CHOOSE c \in Configs : ~c.present

NoToken == account = (CHOOSE l \in Layouts : TRUE) /\ wanted = [t \in Tokens |-> None]

NoRelease == plan = CHOOSE p \in Helm!PlanType : TRUE

ManagedInit ==
  /\ kind \in {"operation", "token", "release"}
  /\ Init /\ (kind # "operation" => NoOperation)
  /\ Token!Unmade /\ account \in Layouts /\ wanted \in [Tokens -> BOOLEAN \cup {None}]
  /\ IF kind = "token" THEN wanted \in [Tokens -> BOOLEAN] ELSE NoToken
  /\ Helm!Init /\ (kind # "release" => NoRelease)

OperationStep == kind = "operation" /\ Next /\ UNCHANGED <<kind, tokenVars, helmVars>>

TokenStep == kind = "token" /\ Token!Next /\ UNCHANGED <<kind, vars, helmVars>>

ReleaseStep == kind = "release" /\ Helm!Next /\ UNCHANGED <<kind, vars, tokenVars>>

ManagedNext == OperationStep \/ TokenStep \/ ReleaseStep

(* Of a resource that is not configured nothing is due. *)
ManagedSpec == ManagedInit /\ [][ManagedNext]_allVars /\ Fairness /\ Token!Fairness
-----------------------------------------------------------------------------
(* The types of the three modules. *)
TypesOK == TypeOK /\ Token!TypeOK /\ Helm!TypeOK

(* Token!GrantsWhatItSays: a token that the state holds is accepted, and    *)
(* cluster_admin has a binding, for a resource that shares no name.         *)
GrantsWhatItSays == Token!GrantsWhatItSays

(* Token!LeavesNothing: what is in the cluster is held by a resource, or    *)
(* has been left there by an error or by a change of the account.           *)
LeavesNothing == Token!LeavesNothing

(* Token!Heals: a token revoked by another resource is replaced in the end. *)
Heals == Token!Heals

(* Helm!ReleaseAccounted: no release is left behind in silence. *)
ReleaseAccounted == Helm!ReleaseAccounted

(* Helm!KeepsLedger: the same of every step of the release's RPCs. *)
ReleasesKeepLedger == Helm!KeepsLedger

(* Helm!StateTellsRelease: what the state says is deployed is deployed. *)
StateTellsRelease == Helm!StateTellsRelease
=============================================================================
