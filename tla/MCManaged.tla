----------------------------- MODULE MCManaged -----------------------------
(***************************************************************************)
(* Instance of Managed: one rest_operation, or two rest_token of one       *)
(* cluster, or one rest_helm_release.  Uses of an operation: an ID taken   *)
(* from the answer and a delete call; an operation at its path that is     *)
(* polled when it is deleted; one with no delete_method.  Accounts of the  *)
(* tokens at first: the same, or two of nothing in common; a change of one *)
(* makes them two of the same name in two namespaces.                      *)
(***************************************************************************)
EXTENDS Managed

CONSTANTS b1, b2, e1, t1, t2

Use(builder, delete) == [builder |-> builder, delete |-> delete]

OperationConfigs ==
  [present : BOOLEAN, body : {b1, b2}, eph : {None, e1},
   methods : {Use(TRUE, "call"), Use(FALSE, "poll"), Use(TRUE, "none")}]

Pair(a, b) == [t \in {t1, t2} |-> IF t = t1 THEN a ELSE b]

Default == <<"kube-system", "terraform-rest">>

TokenAccounts == {Default, <<"default", "terraform-rest">>, <<"default", "other">>}

TokenLayouts == {Pair(Default, a) : a \in {Default, <<"default", "other">>}}
=============================================================================
