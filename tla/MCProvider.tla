----------------------------- MODULE MCProvider -----------------------------
(***************************************************************************)
(* Instances of Provider: three RPCs in parallel and three entries       *)
(* of named_auth.                                                          *)
(***************************************************************************)
EXTENDS Provider

CONSTANTS n1, n2, n3

(* Two of the clients ask for a token; one entry has no security. *)
PasswordSecurity ==
  [n \in Clients |-> CASE n = "default" -> "oauth2.password" [] n = n1 -> "oauth2.password" [] n = n2 -> "http" [] OTHER -> NoSecurity]

RetryFive == [count |-> 5, wait |-> None, maxWait |-> None]
=============================================================================
