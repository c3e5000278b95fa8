------------------------------ MODULE Provider ------------------------------
(***************************************************************************)
(* How the provider gets its HTTP clients (internal/provider/provider.go,  *)
(* internal/client): Configure, and Init, which the RPCs of the resources  *)
(* that core runs in parallel all call before they ask for a client, and   *)
(* which only the first of them carries out.                               *)
(*                                                                         *)
(* "default" is the client of the `security` block, the others are those   *)
(* of `named_auth`.                                                        *)
(***************************************************************************)
EXTENDS Naturals

CONSTANTS
  Rpcs,       \* the RPCs of resources
  AuthNames,  \* keys of `named_auth`
  Security,   \* Security[n]: the security option of client n, NoSecurity if it has none
  Retry,      \* `client.retry`, or None: [count, wait, maxWait]
  AuthRefs,   \* values of `auth_ref` that resources have
  None,
  Faults      \* "token": a token request fails; "file": a certificate cannot be read

Clients == {"default"} \cup AuthNames

NoSecurity == "none"
OAuth2 == {"oauth2.password", "oauth2.client_credentials", "oauth2.refresh_token"}
SecurityOptions == {NoSecurity, "http", "apikey"} \cup OAuth2

(* A field of `retry` that is not set is None. *)
RetryType == [count : Nat \cup {None}, wait : Nat \cup {None}, maxWait : Nat \cup {None}]

(* A client: what it retries, and how it authenticates its requests. *)
ClientType == [retry : [count : Nat, wait : Nat, maxWait : Nat], auth : SecurityOptions]

ASSUME NamesAssumption == "default" \notin AuthNames /\ AuthRefs \subseteq Clients
ASSUME NoneAssumption == None \notin Nat /\ None \notin ClientType
ASSUME SecurityAssumption == Security \in [Clients -> SecurityOptions]
ASSUME RetryAssumption == Retry \in RetryType \cup {None}
ASSUME FaultsAssumption == Faults \subseteq {"token", "file"}

VARIABLES
  baseURL,   \* `base_url` is set and known
  configured, \* Configure has returned
  once,      \* the sync.Once: "new", "running" or "done"
  stage,     \* what Init does next: "options", "default" or "named"
  todo,      \* the entries of named_auth whose clients are not built yet
  client,    \* p.client and p.namedClients; None where there is none
  rpc,       \* rpc[r]: where RPC r is
  authRef,   \* authRef[r]: the `auth_ref` of its resource
  got        \* got[r]: the client it got, None before that, and when it got nil

vars == <<baseURL, configured, once, stage, todo, client, rpc, authRef, got>>

(* defaults.RetryWaitTime and RetryMaxWaitTime, in seconds, and RetryCount *)
DefaultRetry == [count |-> 3, wait |-> 1, maxWait |-> 3600]

(* resty retries nothing by default. *)
NoRetry == [count |-> 0, wait |-> 0, maxWait |-> 0]

Places == {"configure", "init", "waiting", "client", "calling", "failed"}

TypeOK ==
  /\ {baseURL, configured} \subseteq BOOLEAN
  /\ once \in {"new", "running", "done"}
  /\ stage \in {"options", "default", "named"}
  /\ todo \in SUBSET AuthNames
  /\ client \in [Clients -> ClientType \cup {None}]
  /\ rpc \in [Rpcs -> Places]
  /\ authRef \in [Rpcs -> AuthRefs]
  /\ got \in [Rpcs -> ClientType \cup {None}]

Init ==
  /\ baseURL \in BOOLEAN
  /\ configured = FALSE
  /\ once = "new"
  /\ stage = "options"
  /\ todo = {}
  /\ client = [n \in Clients |-> None]
  /\ rpc = [r \in Rpcs |-> "configure"]
  /\ authRef \in [Rpcs -> AuthRefs]
  /\ got = [r \in Rpcs |-> None]
-----------------------------------------------------------------------------
OrElse(value, default) == IF value # None THEN value ELSE default

(* Mutant of PopulateRetry: what is not set is taken as well. *)
PopulateRetryUnset == [DefaultRetry EXCEPT !.count = Retry.count, !.wait = Retry.wait]

(* populateRetry: max_wait_in_sec goes to the wait time. *)
PopulateRetry ==
  [DefaultRetry EXCEPT
     !.count = OrElse(Retry.count, @),
     !.wait  = OrElse(Retry.maxWait, OrElse(Retry.wait, @))]

RetryOption == IF Retry = None THEN NoRetry ELSE PopulateRetry

(* Mutant of NewClient: every client is built with the provider's security. *)
NewClientShared(n) ==
  [retry |-> IF Security["default"] \in OAuth2 THEN NoRetry ELSE RetryOption, auth |-> Security["default"]]

(* client.New sets the retry option and then lets the security option       *)
(* configure the client; those of OAuth2 put a new client in its place.     *)
NewClient(n) ==
  [retry |-> IF Security[n] \in OAuth2 THEN NoRetry ELSE RetryOption, auth |-> Security[n]]

(* Only the password flow asks for a token while the client is built. *)
NewClientMayFail(n) == "token" \in Faults /\ Security[n] = "oauth2.password"

(* Core configures the provider before any RPC of a resource. *)
Configure ==
  /\ ~configured
  /\ configured' = TRUE
  /\ UNCHANGED <<baseURL, once, stage, todo, client, rpc, authRef, got>>

(* Mutant of CallInit: a call that finds Init running does not wait for it. *)
CallInitUnwaited(r) ==
  /\ configured
  /\ rpc[r] = "configure"
  /\ rpc' = [rpc EXCEPT ![r] = IF once = "new" THEN "init" ELSE "client"]
  /\ once' = IF once = "new" THEN "running" ELSE once
  /\ UNCHANGED <<baseURL, configured, stage, todo, client, authRef, got>>

(* once.Do: the first caller runs the function, those that come in the      *)
(* meantime wait for its end, and nobody else gets its diagnostics.         *)
CallInit(r) ==
  /\ configured
  /\ rpc[r] = "configure"
  /\ rpc' = [rpc EXCEPT ![r] = CASE once = "new" -> "init" [] once = "running" -> "waiting" [] OTHER -> "client"]
  /\ once' = IF once = "new" THEN "running" ELSE once
  /\ UNCHANGED <<baseURL, configured, stage, todo, client, authRef, got>>

(* The function returns, and with it once.Do, for its caller and for those  *)
(* who wait: only its caller gets what it has put into odiags.              *)
Return(r, place) ==
  /\ once' = "done"
  /\ rpc' = [q \in Rpcs |-> IF q = r THEN place ELSE IF rpc[q] = "waiting" THEN "client" ELSE rpc[q]]

Running(r, at) ==
  /\ rpc[r] = "init"
  /\ stage = at
  /\ UNCHANGED <<baseURL, configured, authRef, got>>

(* Without a base_url no client is made. *)
SkipInit(r) ==
  /\ Running(r, "options")
  /\ ~baseURL
  /\ Return(r, "client")
  /\ UNCHANGED <<stage, todo, client>>

BuildOptions(r) ==
  /\ Running(r, "options")
  /\ baseURL
  /\ stage' = "default"
  /\ UNCHANGED <<once, todo, client, rpc>>

BuildOptionsFails(r) ==
  /\ Running(r, "options")
  /\ baseURL
  /\ "file" \in Faults
  /\ Return(r, "failed")
  /\ UNCHANGED <<stage, todo, client>>

BuildDefault(r) ==
  /\ Running(r, "default")
  /\ client' = [client EXCEPT !["default"] = NewClient("default")]
  /\ stage' = "named"
  /\ todo' = AuthNames
  /\ UNCHANGED <<once, rpc>>

(* Mutant of BuildFails: an error leaves the function running for ever. *)
BuildFailsHeld(r) ==
  /\ rpc[r] = "init"
  /\ stage \in {"default", "named"}
  /\ \E n \in IF stage = "default" THEN {"default"} ELSE todo : NewClientMayFail(n)
  /\ rpc' = [rpc EXCEPT ![r] = "failed"]
  /\ UNCHANGED <<baseURL, configured, authRef, got, once, stage, todo, client>>

(* A client cannot be built: what is built already stays. *)
BuildFails(r) ==
  /\ rpc[r] = "init"
  /\ stage \in {"default", "named"}
  /\ \E n \in IF stage = "default" THEN {"default"} ELSE todo : NewClientMayFail(n)
  /\ Return(r, "failed")
  /\ UNCHANGED <<baseURL, configured, authRef, got, stage, todo, client>>

(* The entries of the map come in any order; one without security is left   *)
(* out.                                                                     *)
BuildNamed(r) ==
  /\ Running(r, "named")
  /\ \E n \in todo :
       /\ client' = [client EXCEPT ![n] = IF Security[n] = NoSecurity THEN None ELSE NewClient(n)]
       /\ todo' = todo \ {n}
  /\ UNCHANGED <<once, stage, rpc>>

InitDone(r) ==
  /\ Running(r, "named")
  /\ todo = {}
  /\ Return(r, "client")
  /\ UNCHANGED <<stage, todo, client>>

(* ClientForAuthRef: a name that is not there is an error, the default      *)
(* client is taken as it is, be it nil.                                     *)
ClientForAuthRef(r) ==
  /\ rpc[r] = "client"
  /\ LET n == authRef[r]
     IN  IF n = "default" \/ client[n] # None
           THEN got' = [got EXCEPT ![r] = client[n]] /\ rpc' = [rpc EXCEPT ![r] = "calling"]
           ELSE rpc' = [rpc EXCEPT ![r] = "failed"] /\ UNCHANGED got
  /\ UNCHANGED <<baseURL, configured, once, stage, todo, client, authRef>>

RunInit(r) ==
  \/ SkipInit(r) \/ BuildOptions(r) \/ BuildOptionsFails(r)
  \/ BuildDefault(r) \/ BuildNamed(r) \/ BuildFails(r) \/ InitDone(r)

RpcStep(r) == CallInit(r) \/ RunInit(r) \/ ClientForAuthRef(r)

Next == Configure \/ \E r \in Rpcs : RpcStep(r)

Spec == Init /\ [][Next]_vars

(* Core configures the provider, and every RPC goes on. *)
FairSpec == Spec /\ WF_vars(Configure) /\ \A r \in Rpcs : WF_vars(RpcStep(r))
-----------------------------------------------------------------------------
(* Nobody goes on with a nil client once the default client is built,       *)
(* however Init interleaves with the RPCs that call it: they wait for its   *)
(* end before they ask for a client.                                        *)
ClientAfterInit == stage = "named" => \A r \in Rpcs : rpc[r] = "calling" => got[r] # None

(* An RPC that goes on to call the API has a client, whoever ran Init and   *)
(* whatever came of it.                                                     *)
ClientReturned == baseURL => \A r \in Rpcs : rpc[r] = "calling" => got[r] # None

(* A resource's calls are authenticated with the security of its auth_ref,  *)
(* never with that of another client of the provider.                       *)
OwnSecurity == \A r \in Rpcs : got[r] # None => got[r].auth = Security[authRef[r]]

(* The same of every step: the clients are a table that is built once.  An   *)
(* RPC reads it only when it is final, as nothing else guards the map of the *)
(* clients; so RPCs with the same auth_ref have the same client, or none of  *)
(* them has one, however they interleave with the one that runs Init.        *)
CallingRpcs == {r \in Rpcs : rpc[r] = "calling"}

Table == INSTANCE ClientTable WITH
  Names <- Clients, Lenient <- {"default"}, Entries <- ClientType, Nothing <- None, Users <- Rpcs,
  table <- client, final <- (once = "done"), wants <- authRef, served <- CallingRpcs

ImplementsClientTable == Table!Spec

(* Every RPC has a client or an error in the end, also those that wait for  *)
(* an Init that fails.                                                      *)
EveryRpcConfigured == \A r \in Rpcs : <>(rpc[r] \in {"calling", "failed"})

=============================================================================
