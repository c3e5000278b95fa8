------------------------------ MODULE K8sToken ------------------------------
(***************************************************************************)
(* The rest_token resources of one cluster (internal/resources/            *)
(* k8s_token.go): Create, Read, Update, Delete and createToken.  Core walks *)
(* the resources of a configuration in parallel, so that the calls of two  *)
(* of them interleave; what they share is the cluster: a service account   *)
(* by namespace and name, and a cluster role binding by the name alone.    *)
(*                                                                         *)
(* Terraform core and the cluster are external.  A token is accepted as    *)
(* long as the service account it was issued for is there: one made anew   *)
(* under the same name has another uid.                                    *)
(***************************************************************************)
EXTENDS Naturals

CONSTANTS
  Tokens,         \* the rest_token resources
  Namespaces,     \* the namespaces
  Names,          \* the names of service accounts
  Account,        \* the service accounts that may be named: pairs of the two
  None,           \* a resource or a binding that is not there
  Layouts,        \* the service accounts they name at first, see LayoutType
  Faults,         \* faults that happen: "error", "crash"
  MaxUids,        \* bound: service accounts made
  MaxEvents       \* bound: changes of the configuration and faults, together

Name(a) == a[2]

LayoutType == [Tokens -> Account]

VARIABLES
  account,   \* service_account_name and namespace of each resource in the configuration
  wanted,    \* `cluster_admin` of a resource that is configured, None of one that is not
  instance,  \* the resources in the state file
  accounts,  \* uid of the service accounts in the cluster, 0 when it is not there
  bindings,  \* subject of the bindings <name>-admin
  uids,      \* number of service accounts made
  call,      \* the RPC of each resource, and the API call it is about to make
  edits,     \* number of changes of the configuration
  failures,  \* number of faults so far
  left,      \* history: <<t, a>>: t may have left something at the account a that its state does not
             \* tell: its last RPC there did not end well, or an Update has moved it away
  used       \* history: <<t, n>>: t has had an RPC at the name n

vars == <<account, wanted, instance, accounts, bindings, uids, call, edits, failures, left, used>>

(* `token` is the uid it was issued for; `old` when token_expiry is less    *)
(* than 5 minutes away.                                                     *)
InstanceType == [account : Account, admin : BOOLEAN, token : 1 .. MaxUids, old : BOOLEAN]

(* What an instance must give for the constants. *)
Sensible ==
  /\ None \notin BOOLEAN \cup InstanceType \cup Account
  /\ Account \subseteq Namespaces \X Names
  /\ Layouts \subseteq LayoutType
  /\ {MaxUids, MaxEvents} \subseteq Nat

Quiet == [op |-> "none", next |-> "none"]

CallType ==
  [op : {"none", "create", "read", "update", "delete"},
   next : {"none", "getAccount", "createAccount", "getBinding", "createBinding",
           "createToken", "deleteBinding", "deleteAccount"}]

TypeOK ==
  /\ account \in LayoutType
  /\ wanted \in [Tokens -> BOOLEAN \cup {None}]
  /\ instance \in [Tokens -> InstanceType \cup {None}]
  /\ accounts \in [Account -> 0 .. MaxUids]
  /\ bindings \in [Names -> Account \cup {None}]
  /\ uids \in 0 .. MaxUids
  /\ call \in [Tokens -> CallType]
  /\ edits \in 0 .. MaxEvents
  /\ failures \in 0 .. MaxEvents
  /\ left \subseteq Tokens \X Account
  /\ used \subseteq Tokens \X Names

Unmade ==
  /\ instance = [t \in Tokens |-> None]
  /\ accounts = [a \in Account |-> 0]
  /\ bindings = [n \in Names |-> None]
  /\ uids = 0
  /\ call = [t \in Tokens |-> Quiet]
  /\ edits = 0
  /\ failures = 0
  /\ left = {}
  /\ used = {}

Init ==
  /\ account \in Layouts
  /\ wanted \in [Tokens -> BOOLEAN]
  /\ Unmade

(* What the RPC goes by: the plan in Create and Update, else the state. *)
AccountOf(t) == IF call[t].op \in {"create", "update"} THEN account[t] ELSE instance[t].account

NameOf(t) == Name(AccountOf(t))

Admin(t) == IF call[t].op = "read" THEN instance[t].admin ELSE wanted[t]

Calls(t, op, next) == call' = [call EXCEPT ![t] = [op |-> op, next |-> next]]

Goes(t, next) == Calls(t, call[t].op, next)

Cluster == <<accounts, bindings, uids>>

MoreEvents == edits + failures < MaxEvents

Fault(kind) == kind \in Faults /\ MoreEvents /\ failures' = failures + 1
-----------------------------------------------------------------------------
(* The user, time and core                                                  *)

(* cluster_admin, and also service_account_name and namespace, change in    *)
(* place: none of them makes core replace the resource.                     *)
Edit(t) ==
  /\ MoreEvents /\ edits' = edits + 1
  /\ \A u \in Tokens : call[u] = Quiet
  /\ \/ /\ \E w \in (BOOLEAN \cup {None}) \ {wanted[t]} : wanted' = [wanted EXCEPT ![t] = w]
        /\ UNCHANGED account
     \/ /\ \E a \in Account \ {account[t]} : account' = [account EXCEPT ![t] = a]
        /\ UNCHANGED wanted
  /\ UNCHANGED <<instance, Cluster, call, failures, left, used>>

(* The requested lifetime of the token comes to its end. *)
Age(t) ==
  /\ instance[t] # None /\ ~instance[t].old
  /\ call[t] = Quiet
  /\ instance' = [instance EXCEPT ![t].old = TRUE]
  /\ UNCHANGED <<account, wanted, Cluster, call, edits, failures, left, used>>

Starts(t, op, next) ==
  /\ call[t] = Quiet
  /\ Calls(t, op, next)
  /\ UNCHANGED <<account, wanted, instance, Cluster, edits, failures, left>>
  /\ used' = used \cup {<<t, NameOf(t)'>>}

StartCreate(t) == wanted[t] # None /\ instance[t] = None /\ Starts(t, "create", "getAccount")

(* Mutant of StartRead: the comparison with the expiry is turned round. *)
StartReadYoung(t) == instance[t] # None /\ ~instance[t].old /\ Starts(t, "read", "getAccount")

(* Read calls the API only when the token is old. *)
StartRead(t) == instance[t] # None /\ instance[t].old /\ Starts(t, "read", "getAccount")

StartUpdate(t) ==
  /\ wanted[t] # None
  /\ instance[t] # None
  /\ instance[t].admin # wanted[t] \/ instance[t].account # account[t]
  /\ Starts(t, "update", "getAccount")

StartDelete(t) ==
  /\ wanted[t] = None
  /\ instance[t] # None
  /\ Starts(t, "delete", "deleteBinding")

Start(t) == StartCreate(t) \/ StartRead(t) \/ StartUpdate(t) \/ StartDelete(t)
-----------------------------------------------------------------------------
(* createToken: each step is an API call.                                   *)

(* createToken ends with an error: Create and Update report it, Read takes  *)
(* the resource from the state.                                             *)
Fails(t) ==
  /\ call' = [call EXCEPT ![t] = Quiet]
  /\ left' = left \cup {<<t, AccountOf(t)>>}
  /\ instance' = IF call[t].op = "read" THEN [instance EXCEPT ![t] = None] ELSE instance

AfterAccount(t) == IF Admin(t) THEN "getBinding" ELSE "createToken"

(* Mutant of GetAccount: the binding is made with the account, or not at all. *)
GetAccountDone(t) ==
  /\ call[t].next = "getAccount"
  /\ Goes(t, IF accounts[AccountOf(t)] = 0 THEN "createAccount" ELSE "createToken")
  /\ UNCHANGED <<account, wanted, instance, Cluster, edits, failures, left, used>>

GetAccount(t) ==
  /\ call[t].next = "getAccount"
  /\ Goes(t, IF accounts[AccountOf(t)] = 0 THEN "createAccount" ELSE AfterAccount(t))
  /\ UNCHANGED <<account, wanted, instance, Cluster, edits, failures, left, used>>

(* The account may have been made since the Get: AlreadyExists is an error. *)
CreateAccount(t) ==
  /\ call[t].next = "createAccount"
  /\ IF accounts[AccountOf(t)] = 0
       THEN /\ uids < MaxUids /\ uids' = uids + 1
            /\ accounts' = [accounts EXCEPT ![AccountOf(t)] = uids + 1]
            /\ Goes(t, AfterAccount(t))
            /\ UNCHANGED <<instance, left>>
       ELSE Fails(t) /\ UNCHANGED <<accounts, uids>>
  /\ UNCHANGED <<account, wanted, bindings, edits, failures, used>>

(* A binding that is there is taken for the right one, whatever its subject. *)
GetBinding(t) ==
  /\ call[t].next = "getBinding"
  /\ Goes(t, IF bindings[NameOf(t)] = None THEN "createBinding" ELSE "createToken")
  /\ UNCHANGED <<account, wanted, instance, Cluster, edits, failures, left, used>>

CreateBinding(t) ==
  /\ call[t].next = "createBinding"
  /\ IF bindings[NameOf(t)] = None
       THEN /\ bindings' = [bindings EXCEPT ![NameOf(t)] = AccountOf(t)]
            /\ Goes(t, "createToken")
            /\ UNCHANGED <<instance, left>>
       ELSE Fails(t) /\ UNCHANGED bindings
  /\ UNCHANGED <<account, wanted, accounts, uids, edits, failures, used>>

(* An Update to another account leaves the one in the state where it is.    *)
Moved(t) == IF call[t].op = "update" THEN {<<t, instance[t].account>>} \ {<<t, account[t]>>} ELSE {}

(* The token is issued, and the RPC sets the state; the account may have    *)
(* been deleted meanwhile.  Of an Update to another account core reports    *)
(* that the id has changed, and saves the state.                            *)
CreateToken(t) ==
  /\ call[t].next = "createToken"
  /\ IF accounts[AccountOf(t)] # 0
       THEN /\ instance' = [instance EXCEPT ![t] =
                 [account |-> AccountOf(t), admin |-> Admin(t), token |-> accounts[AccountOf(t)], old |-> FALSE]]
            /\ call' = [call EXCEPT ![t] = Quiet]
            /\ left' = (left \ {<<t, AccountOf(t)>>}) \cup Moved(t)
       ELSE Fails(t)
  /\ UNCHANGED <<account, wanted, Cluster, edits, failures, used>>

(* A call of createToken, or the making of the client before, fails. *)
CallFails(t) ==
  /\ Fault("error")
  /\ call[t].op \in {"create", "read", "update"}
  /\ Fails(t)
  /\ UNCHANGED <<account, wanted, Cluster, edits, used>>
-----------------------------------------------------------------------------
(* Delete                                                                   *)

(* Mutant of DeleteBinding: only when the state has cluster_admin. *)
DeleteBindingWhenAdmin(t) ==
  /\ call[t].next = "deleteBinding"
  /\ bindings' = IF instance[t].admin THEN [bindings EXCEPT ![NameOf(t)] = None] ELSE bindings
  /\ Goes(t, "deleteAccount")
  /\ left' = left \ {<<t, AccountOf(t)>>}
  /\ UNCHANGED <<account, wanted, instance, accounts, uids, edits, failures, used>>

(* The binding is deleted, whoever made it, also when cluster_admin is off. *)
DeleteBinding(t) ==
  /\ call[t].next = "deleteBinding"
  /\ bindings' = [bindings EXCEPT ![NameOf(t)] = None]
  /\ Goes(t, "deleteAccount")
  /\ left' = left \ {<<t, AccountOf(t)>>}
  /\ UNCHANGED <<account, wanted, instance, accounts, uids, edits, failures, used>>

Removed(t) ==
  /\ instance' = [instance EXCEPT ![t] = None]
  /\ call' = [call EXCEPT ![t] = Quiet]

DeleteAccount(t) ==
  /\ call[t].next = "deleteAccount"
  /\ accounts' = [accounts EXCEPT ![AccountOf(t)] = 0]
  /\ Removed(t)
  /\ UNCHANGED <<account, wanted, bindings, uids, edits, failures, left, used>>

(* No error of Delete is reported: without a client nothing is called, and  *)
(* a call that fails is passed over; the resource is removed.               *)
DeleteSkips(t) ==
  /\ Fault("error")
  /\ call[t].op = "delete"
  /\ IF call[t].next = "deleteBinding"
       THEN \/ Removed(t)
            \/ Goes(t, "deleteAccount") /\ UNCHANGED instance
       ELSE Removed(t)
  /\ left' = left \cup {<<t, AccountOf(t)>>}
  /\ UNCHANGED <<account, wanted, Cluster, edits, used>>

(* The provider or core dies, or what a Read has set is not saved. *)
Crash(t) ==
  /\ Fault("crash")
  /\ call[t] # Quiet
  /\ call' = [call EXCEPT ![t] = Quiet]
  /\ left' = left \cup {<<t, AccountOf(t)>>}
  /\ UNCHANGED <<account, wanted, instance, Cluster, edits, used>>
-----------------------------------------------------------------------------
CallStep(t) ==
  \/ GetAccount(t) \/ CreateAccount(t) \/ GetBinding(t) \/ CreateBinding(t) \/ CreateToken(t)
  \/ DeleteBinding(t) \/ DeleteAccount(t)

Next ==
  \E t \in Tokens :
    Edit(t) \/ Age(t) \/ Start(t) \/ CallStep(t) \/ CallFails(t) \/ DeleteSkips(t) \/ Crash(t)

Spec == Init /\ [][Next]_vars

(* The API answers, core walks every resource, and time passes. *)
Fairness == \A t \in Tokens : WF_vars(CallStep(t)) /\ WF_vars(Start(t)) /\ WF_vars(Age(t))

FairSpec == Spec /\ Fairness
-----------------------------------------------------------------------------
(* No other resource has ever had an RPC at the name. *)
Alone(t, n) == \A u \in Tokens \ {t} : <<u, n>> \notin used

(* The state of a resource is complete. *)
Settled(t) == instance[t] # None /\ call[t].op # "delete" /\ <<t, instance[t].account>> \notin left

(* What the state says of a resource that shares its name with no other is  *)
(* so: its token is accepted, and with cluster_admin there is a binding, of *)
(* its account or else of one that it was moved away from, which is taken   *)
(* for the right one (k8s_token.go:266); also after attempts that failed    *)
(* half-way, repeated.                                                      *)
GrantsWhatItSays ==
  \A t \in Tokens :
    LET own == instance[t].account
        bound == bindings[Name(own)]
    IN  Settled(t) /\ Alone(t, Name(own)) =>
          /\ accounts[own] = instance[t].token
          /\ instance[t].admin => bound = own \/ (bound # None /\ <<t, bound>> \in left)

(* A resource that has an account, or an RPC at it, or has left it behind.  *)
Holds(t, a) ==
  \/ instance[t] # None /\ instance[t].account = a
  \/ call[t] # Quiet /\ AccountOf(t) = a
  \/ <<t, a>> \in left

(* An account is in the cluster only while a resource holds it, and a       *)
(* binding of a name while one holds an account of the name, in whichever   *)
(* order the calls of creates, updates and destroys interleave: destroyed   *)
(* without an error, resources leave nothing but what they were moved from. *)
LeavesNothing ==
  /\ \A a \in Account : accounts[a] # 0 => \E t \in Tokens : Holds(t, a)
  /\ \A n \in Names : bindings[n] # None =>
       \E t \in Tokens, a \in Account : Name(a) = n /\ Holds(t, a)

(* The token of a resource that stays configured is in the end accepted,    *)
(* and the one that follows it too: a destroy of another resource that uses *)
(* the same account revokes it, unnoticed, but not past its expiry.         *)
Heals ==
  \A t \in Tokens :
    []<>(wanted[t] # None => instance[t] # None /\ accounts[instance[t].account] = instance[t].token)
-----------------------------------------------------------------------------
(* The inductive invariant behind the first two. *)

(* Core starts an RPC for a resource that is in the state, or not, as it    *)
(* must be, and only Delete deletes.                                        *)
Called(t) ==
  /\ call[t].op = "none" => call[t] = Quiet
  /\ call[t].op \in {"create", "update"} => wanted[t] # None
  /\ call[t].op = "create" => instance[t] = None
  /\ call[t].op \in {"read", "update", "delete"} => instance[t] # None
  /\ call[t].op = "delete" <=> call[t].next \in {"deleteBinding", "deleteAccount"}

(* Where a resource is in the state, or an RPC of it, it has had an RPC.    *)
Seen(t) ==
  /\ call[t] # Quiet => <<t, NameOf(t)>> \in used
  /\ instance[t] # None => <<t, Name(instance[t].account)>> \in used

CallInv == \A t \in Tokens : Called(t) /\ Seen(t)

(* A resource that has an account, or makes it, or has left it behind, but  *)
(* for one that is about to delete it.                                      *)
Keeps(t, a) ==
  \/ instance[t] # None /\ instance[t].account = a /\ call[t].next # "deleteAccount"
  \/ call[t].op \in {"create", "update"} /\ account[t] = a
  \/ <<t, a>> \in left

(* The binding of a name that one resource alone has used is of an account  *)
(* that this one keeps; and once createToken is past the binding, it is     *)
(* there.                                                                   *)
BoundInv ==
  \A t \in Tokens, n \in Names : Alone(t, n) =>
    /\ bindings[n] # None => Keeps(t, bindings[n])
    /\ call[t].next = "createToken" /\ NameOf(t) = n /\ Admin(t) => bindings[n] # None

(* The binding of a name is of an account of that name. *)
NamedInv == \A n \in Names : bindings[n] # None => Name(bindings[n]) = n

BindingsKept ==
  \A n \in Names : bindings[n] # None =>
    \E t \in Tokens, a \in Account : Name(a) = n /\ Keeps(t, a)

IInv == TypeOK /\ CallInv /\ NamedInv /\ BoundInv /\ GrantsWhatItSays /\ BindingsKept /\ LeavesNothing
=============================================================================
