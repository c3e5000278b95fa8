--------------------------- MODULE ProviderProofs ---------------------------
(***************************************************************************)
(* What RPCs that run in parallel get from Init, for any number of them,   *)
(* any entries of named_auth and any security options.                     *)
(***************************************************************************)
EXTENDS Provider, TLAPS

USE NamesAssumption, NoneAssumption, SecurityAssumption, RetryAssumption, FaultsAssumption

LEMMA RetryOptionType == RetryOption \in [count : Nat, wait : Nat, maxWait : Nat]
<1>1. DefaultRetry \in [count : Nat, wait : Nat, maxWait : Nat]
  BY DEF DefaultRetry
<1>2. CASE Retry = None
  BY <1>2 DEF RetryOption, NoRetry
<1>3. CASE Retry # None
  <2>1. Retry.count \in Nat \cup {None} /\ Retry.wait \in Nat \cup {None} /\ Retry.maxWait \in Nat \cup {None}
    BY <1>3 DEF RetryType
  <2>2. /\ OrElse(Retry.count, DefaultRetry.count) \in Nat
        /\ OrElse(Retry.maxWait, OrElse(Retry.wait, DefaultRetry.wait)) \in Nat
    BY <1>1, <2>1 DEF OrElse
  <2>3. QED
    BY <1>1, <1>3, <2>2 DEF RetryOption, PopulateRetry
<1>4. QED
  BY <1>2, <1>3

LEMMA NewClientType ==
  ASSUME NEW n \in Clients
  PROVE  NewClient(n) \in ClientType /\ NewClient(n).auth = Security[n]
<1>1. NoRetry \in [count : Nat, wait : Nat, maxWait : Nat]
  BY DEF NoRetry
<1>2. QED
  BY <1>1, RetryOptionType DEF NewClient, ClientType

(* Every client has the security of its name, and an RPC has the client of  *)
(* its name.                                                                *)
ProviderInv ==
  /\ TypeOK
  /\ \A n \in Clients : client[n] # None => client[n].auth = Security[n]
  /\ OwnSecurity

(* One RPC at most runs the function, while it runs nobody is past Init, and *)
(* the default client is there before the named ones are built.              *)
ReadyInv ==
  /\ todo \subseteq AuthNames
  /\ stage = "named" => client["default"] # None
  /\ \A r \in Rpcs : rpc[r] = "init" => once = "running"
  /\ \A q, r \in Rpcs : rpc[q] = "init" /\ rpc[r] = "init" => q = r
  /\ \A r \in Rpcs : rpc[r] \in {"client", "calling"} => once = "done"
  /\ ClientAfterInit

LEMMA InitInv == Init => ProviderInv /\ ReadyInv
<1> SUFFICES ASSUME Init PROVE ProviderInv /\ ReadyInv
  OBVIOUS
<1>1. TypeOK
  BY DEF Init, TypeOK, Places
<1>2. QED
  BY <1>1 DEF Init, ProviderInv, ReadyInv, OwnSecurity, ClientAfterInit

LEMMA ProviderStep == ProviderInv /\ [Next]_vars => ProviderInv'
<1> SUFFICES ASSUME ProviderInv, [Next]_vars PROVE ProviderInv'
  OBVIOUS
<1> USE DEF ProviderInv, TypeOK
<1>1. CASE UNCHANGED vars
  BY <1>1 DEF vars, OwnSecurity
<1>2. CASE Configure
  BY <1>2 DEF Configure, OwnSecurity
<1>3. ASSUME NEW r \in Rpcs, CallInit(r) PROVE ProviderInv'
  BY <1>3 DEF CallInit, OwnSecurity, Places
<1>4. ASSUME NEW r \in Rpcs, NEW place \in Places, Return(r, place),
             UNCHANGED <<baseURL, configured, stage, todo, client, authRef, got>>
      PROVE  ProviderInv'
  <2>1. rpc' \in [Rpcs -> Places] /\ once' \in {"new", "running", "done"}
    BY <1>4 DEF Return, Places
  <2>2. QED
    BY <1>4, <2>1 DEF OwnSecurity
<1>5. ASSUME NEW r \in Rpcs, SkipInit(r) \/ BuildOptionsFails(r) \/ BuildFails(r) \/ InitDone(r)
      PROVE  ProviderInv'
  <2>1. "client" \in Places /\ "failed" \in Places
    BY DEF Places
  <2>2. QED
    BY <1>4, <1>5, <2>1 DEF SkipInit, BuildOptionsFails, BuildFails, InitDone, Running
<1>6. ASSUME NEW r \in Rpcs, BuildOptions(r) PROVE ProviderInv'
  BY <1>6 DEF BuildOptions, Running, OwnSecurity
<1>7. ASSUME NEW r \in Rpcs, BuildDefault(r) PROVE ProviderInv'
  <2>1. "default" \in Clients
    BY DEF Clients
  <2>2. client' = [client EXCEPT !["default"] = NewClient("default")] /\ stage' = "named" /\ todo' = AuthNames
    BY <1>7 DEF BuildDefault
  <2>3. client' \in [Clients -> ClientType \cup {None}]
        /\ \A n \in Clients : client'[n] # None => client'[n].auth = Security[n]
    BY <2>1, <2>2, NewClientType
  <2>4. QED
    BY <1>7, <2>2, <2>3 DEF BuildDefault, Running, OwnSecurity
<1>8. ASSUME NEW r \in Rpcs, BuildNamed(r) PROVE ProviderInv'
  <2>1. PICK n \in todo :
          /\ client' = [client EXCEPT ![n] = IF Security[n] = NoSecurity THEN None ELSE NewClient(n)]
          /\ todo' = todo \ {n}
    BY <1>8 DEF BuildNamed
  <2>2. n \in Clients
    BY <2>1 DEF Clients
  <2>3. client' \in [Clients -> ClientType \cup {None}]
        /\ \A m \in Clients : client'[m] # None => client'[m].auth = Security[m]
    BY <2>1, <2>2, NewClientType
  <2>4. QED
    BY <1>8, <2>1, <2>3 DEF BuildNamed, Running, OwnSecurity
<1>9. ASSUME NEW r \in Rpcs, ClientForAuthRef(r) PROVE ProviderInv'
  <2>1. authRef[r] \in Clients
    OBVIOUS
  <2>2. UNCHANGED <<baseURL, configured, once, stage, todo, client, authRef>>
    BY <1>9 DEF ClientForAuthRef
  <2>3. \/ got' = [got EXCEPT ![r] = client[authRef[r]]] /\ rpc' = [rpc EXCEPT ![r] = "calling"]
        \/ got' = got /\ rpc' = [rpc EXCEPT ![r] = "failed"]
    BY <1>9 DEF ClientForAuthRef
  <2>4. rpc' \in [Rpcs -> Places]
    BY <2>3 DEF Places
  <2>5. got' \in [Rpcs -> ClientType \cup {None}] /\ OwnSecurity'
    BY <2>1, <2>2, <2>3 DEF OwnSecurity
  <2>6. QED
    BY <2>2, <2>4, <2>5
<1>10. QED
  BY <1>1, <1>2, <1>3, <1>5, <1>6, <1>7, <1>8, <1>9 DEF Next, RpcStep, RunInit

LEMMA ReadyStep ==
  ASSUME ProviderInv, ReadyInv, [Next]_vars
  PROVE  ReadyInv'
<1> USE DEF ReadyInv, ClientAfterInit
<1>t. TypeOK
  BY DEF ProviderInv
<1>1. CASE UNCHANGED vars
  BY <1>1 DEF vars
<1>2. CASE Configure
  BY <1>2 DEF Configure
<1>3. ASSUME NEW r \in Rpcs, CallInit(r) PROVE ReadyInv'
  BY <1>3, <1>t DEF CallInit, TypeOK
<1>4. ASSUME NEW r \in Rpcs, NEW place \in {"client", "failed"}, rpc[r] = "init", Return(r, place),
             UNCHANGED <<baseURL, configured, stage, todo, client, authRef, got>>
      PROVE  ReadyInv'
  <2>1. \A q \in Rpcs : rpc'[q] \notin {"init", "calling"}
    BY <1>4, <1>t DEF Return, TypeOK
  <2>2. QED
    BY <1>4, <2>1 DEF Return
<1>5. ASSUME NEW r \in Rpcs, SkipInit(r) \/ BuildOptionsFails(r) \/ BuildFails(r) \/ InitDone(r)
      PROVE  ReadyInv'
  BY <1>4, <1>5 DEF SkipInit, BuildOptionsFails, BuildFails, InitDone, Running
<1>7. ASSUME NEW r \in Rpcs, BuildOptions(r) PROVE ReadyInv'
  BY <1>7 DEF BuildOptions, Running
<1>8. ASSUME NEW r \in Rpcs, BuildDefault(r) PROVE ReadyInv'
  <2>1. NewClient("default") # None /\ "default" \in Clients
    BY NewClientType DEF Clients
  <2>2. client'["default"] # None
    BY <1>8, <1>t, <2>1 DEF BuildDefault, TypeOK
  <2>3. \A q \in Rpcs : rpc[q] # "calling"
    BY <1>8 DEF BuildDefault, Running
  <2>4. QED
    BY <1>8, <2>2, <2>3 DEF BuildDefault, Running
<1>9. ASSUME NEW r \in Rpcs, BuildNamed(r) PROVE ReadyInv'
  <2>1. PICK n \in todo :
          /\ client' = [client EXCEPT ![n] = IF Security[n] = NoSecurity THEN None ELSE NewClient(n)]
          /\ todo' = todo \ {n}
    BY <1>9 DEF BuildNamed
  <2>2. n # "default" /\ todo' \subseteq AuthNames
    BY <2>1
  <2>3. client'["default"] = client["default"]
    BY <1>t, <2>1, <2>2 DEF TypeOK
  <2>4. QED
    BY <1>9, <2>2, <2>3 DEF BuildNamed, Running
<1>10. ASSUME NEW r \in Rpcs, ClientForAuthRef(r) PROVE ReadyInv'
  <2>1. UNCHANGED <<baseURL, configured, once, stage, todo, client, authRef>> /\ once = "done"
    BY <1>10 DEF ClientForAuthRef
  <2>2. \/ /\ got' = [got EXCEPT ![r] = client[authRef[r]]] /\ rpc' = [rpc EXCEPT ![r] = "calling"]
           /\ authRef[r] = "default" \/ client[authRef[r]] # None
        \/ got' = got /\ rpc' = [rpc EXCEPT ![r] = "failed"]
    BY <1>10 DEF ClientForAuthRef
  <2>3. stage = "named" => \A q \in Rpcs : rpc'[q] = "calling" => got'[q] # None
    BY <1>t, <2>1, <2>2 DEF TypeOK
  <2>4. \A q \in Rpcs : rpc'[q] # "init"
    BY <1>t, <2>1, <2>2 DEF TypeOK
  <2>5. QED
    BY <2>1, <2>3, <2>4
<1>11. QED
  BY <1>1, <1>2, <1>3, <1>5, <1>7, <1>8, <1>9, <1>10 DEF Next, RpcStep, RunInit

(* A resource's calls are authenticated with the security of its auth_ref,  *)
(* whatever fails while Init builds the clients.                            *)
THEOREM OwnSecurityHolds == Spec => []OwnSecurity
<1>1. ProviderInv => OwnSecurity
  BY DEF ProviderInv
<1>2. QED
  BY <1>1, InitInv, ProviderStep, PTL DEF Spec

(* The variables of the provider keep their types, whatever fails.          *)
THEOREM ProviderTypes == Spec => []TypeOK
<1>1. ProviderInv => TypeOK
  BY DEF ProviderInv
<1>2. QED
  BY <1>1, InitInv, ProviderStep, PTL DEF Spec

(* However Init is interleaved with the RPCs that call it, and whatever of  *)
(* it fails, nobody has a nil client when the default client is built.      *)
THEOREM NoNilClientAfterInit == Spec => []ClientAfterInit
<1>1. ProviderInv /\ ReadyInv /\ [Next]_vars => (ProviderInv /\ ReadyInv)'
  BY ProviderStep, ReadyStep
<1>2. ReadyInv => ClientAfterInit
  BY DEF ReadyInv
<1>3. QED
  BY <1>1, <1>2, InitInv, PTL DEF Spec
-----------------------------------------------------------------------------
(* A client that Init has not built yet is not there. *)
FreshInv ==
  /\ stage # "named" => \A n \in Clients : client[n] = None
  /\ \A n \in todo : client[n] = None

(* The inductive invariant of the table. *)
TableInv == ProviderInv /\ ReadyInv /\ FreshInv

(* What an RPC that calls the API got is the client of its name. *)
Agreement == \A r \in Rpcs : rpc[r] = "calling" => got[r] = client[authRef[r]]

LEMMA FreshStep ==
  ASSUME ProviderInv, ReadyInv, FreshInv, [Next]_vars
  PROVE  FreshInv'
<1> USE DEF FreshInv
<1>t. TypeOK /\ todo \subseteq AuthNames
  BY DEF ProviderInv, ReadyInv
<1>1. CASE UNCHANGED <<stage, todo, client>>
  BY <1>1
<1>2. ASSUME NEW r \in Rpcs, BuildOptions(r) PROVE FreshInv'
  BY <1>2 DEF BuildOptions, Running
<1>3. ASSUME NEW r \in Rpcs, BuildDefault(r) PROVE FreshInv'
  <2>1. stage # "named" /\ stage' = "named" /\ todo' = AuthNames
        /\ client' = [client EXCEPT !["default"] = NewClient("default")]
    BY <1>3 DEF BuildDefault, Running
  <2>2. \A n \in AuthNames : client'[n] = None
    BY <1>t, <2>1 DEF TypeOK, Clients
  <2>3. QED
    BY <2>1, <2>2
<1>4. ASSUME NEW r \in Rpcs, BuildNamed(r) PROVE FreshInv'
  <2>1. PICK n \in todo :
          /\ client' = [client EXCEPT ![n] = IF Security[n] = NoSecurity THEN None ELSE NewClient(n)]
          /\ todo' = todo \ {n}
    BY <1>4 DEF BuildNamed
  <2>2. stage = "named" /\ stage' = "named"
    BY <1>4 DEF BuildNamed, Running
  <2>3. QED
    BY <1>t, <2>1, <2>2 DEF TypeOK
<1>5. QED
  BY <1>1, <1>2, <1>3, <1>4 DEF Next, RpcStep, RunInit, vars, Configure, CallInit, SkipInit, BuildOptionsFails,
     BuildFails, InitDone, ClientForAuthRef

LEMMA TableStep == TableInv /\ [Next]_vars => TableInv'
BY ProviderStep, ReadyStep, FreshStep DEF TableInv

LEMMA TableInit == Init => TableInv
BY InitInv DEF Init, TableInv, FreshInv

(* A step that the table does not see. *)
LEMMA TableStutters ==
  ASSUME UNCHANGED <<client, authRef, got>>, (once' = "done") = (once = "done"), CallingRpcs' = CallingRpcs
  PROVE  UNCHANGED Table!vars
BY DEF Table!vars

(* The function returns: the table is given out, and nobody is served yet. *)
LEMMA ReturnGivesOut ==
  ASSUME TableInv, NEW r \in Rpcs, NEW place \in {"client", "failed"}, rpc[r] = "init", Return(r, place),
         UNCHANGED <<client, authRef, got>>
  PROVE  Table!GiveOut
<1>1. once = "running" /\ once' = "done"
  BY DEF TableInv, ReadyInv, Return
<1>2. \A q \in Rpcs : rpc[q] # "calling" /\ rpc'[q] # "calling"
  BY <1>1 DEF TableInv, ReadyInv, Return
<1>3. CallingRpcs = {} /\ CallingRpcs' = {}
  BY <1>2 DEF CallingRpcs
<1>4. QED
  BY <1>1, <1>3 DEF Table!GiveOut

(* A client is built: an entry is made, as nobody has been given any. *)
LEMMA BuildEnters ==
  ASSUME TableInv, NEW n \in Clients, client[n] = None, once # "done",
         client' = [client EXCEPT ![n] = NewClient(n)], UNCHANGED <<once, rpc, authRef, got>>
  PROVE  Table!Enter(n)
<1>1. client'[n] = NewClient(n)
  BY DEF TableInv, ProviderInv, TypeOK
<1>2. client'[n] \in ClientType /\ client' = [client EXCEPT ![n] = client'[n]]
  BY <1>1, NewClientType
<1>3. CallingRpcs' = CallingRpcs
  BY DEF CallingRpcs
<1>4. QED
  BY <1>2, <1>3 DEF Table!Enter

LEMMA TableSteps ==
  ASSUME TableInv, [Next]_vars
  PROVE  [Table!Next]_(Table!vars)
<1>t. TypeOK /\ ReadyInv /\ FreshInv
  BY DEF TableInv, ProviderInv
<1>1. CASE UNCHANGED vars \/ Configure
  BY <1>1, TableStutters DEF vars, Configure, CallingRpcs
<1>2. ASSUME NEW r \in Rpcs, CallInit(r) PROVE UNCHANGED Table!vars
  <2>1. \A q \in Rpcs : rpc'[q] = "calling" <=> rpc[q] = "calling"
    BY <1>2, <1>t DEF CallInit, TypeOK
  <2>2. CallingRpcs' = CallingRpcs
    BY <2>1 DEF CallingRpcs
  <2>3. QED
    BY <1>2, <2>2, TableStutters DEF CallInit
<1>3. ASSUME NEW r \in Rpcs, SkipInit(r) \/ BuildOptionsFails(r) \/ BuildFails(r) \/ InitDone(r)
      PROVE  Table!GiveOut
  BY <1>3, ReturnGivesOut DEF SkipInit, BuildOptionsFails, BuildFails, InitDone, Running
<1>4. ASSUME NEW r \in Rpcs, BuildOptions(r) PROVE UNCHANGED Table!vars
  BY <1>4, TableStutters DEF BuildOptions, Running, CallingRpcs
<1>5. ASSUME NEW r \in Rpcs, BuildDefault(r) PROVE Table!Enter("default")
  <2>1. "default" \in Clients /\ client["default"] = None /\ once # "done"
    BY <1>5, <1>t DEF BuildDefault, Running, Clients, FreshInv, ReadyInv
  <2>2. QED
    BY <1>5, <2>1, BuildEnters DEF BuildDefault, Running
<1>6. ASSUME NEW r \in Rpcs, BuildNamed(r) PROVE [Table!Next]_(Table!vars)
  <2>1. PICK n \in todo :
          client' = [client EXCEPT ![n] = IF Security[n] = NoSecurity THEN None ELSE NewClient(n)]
    BY <1>6 DEF BuildNamed
  <2>2. n \in Clients /\ client[n] = None /\ once # "done"
    BY <1>6, <1>t, <2>1 DEF BuildNamed, Running, Clients, FreshInv, ReadyInv
  <2>3. UNCHANGED <<once, rpc, authRef, got>>
    BY <1>6 DEF BuildNamed, Running
  <2>4. CASE Security[n] = NoSecurity
    <3>1. client' = client
      BY <1>t, <2>1, <2>2, <2>4 DEF TypeOK
    <3>2. QED
      BY <2>3, <3>1, TableStutters DEF CallingRpcs
  <2>5. CASE Security[n] # NoSecurity
    BY <2>1, <2>2, <2>3, <2>5, BuildEnters DEF Table!Next
  <2>6. QED
    BY <2>4, <2>5
<1>7. ASSUME NEW r \in Rpcs, ClientForAuthRef(r) PROVE [Table!Next]_(Table!vars)
  <2>1. UNCHANGED <<once, client, authRef>> /\ once = "done" /\ rpc[r] = "client"
    BY <1>7, <1>t DEF ClientForAuthRef, ReadyInv
  <2>2. CASE /\ got' = [got EXCEPT ![r] = client[authRef[r]]] /\ rpc' = [rpc EXCEPT ![r] = "calling"]
             /\ authRef[r] = "default" \/ client[authRef[r]] # None
    <3>1. r \notin CallingRpcs /\ CallingRpcs' = CallingRpcs \cup {r}
      BY <1>t, <2>1, <2>2 DEF CallingRpcs, TypeOK
    <3>2. Table!Serve(r)
      BY <2>1, <2>2, <3>1 DEF Table!Serve
    <3>3. QED
      BY <3>2 DEF Table!Next
  <2>3. CASE got' = got /\ rpc' = [rpc EXCEPT ![r] = "failed"]
    <3>1. CallingRpcs' = CallingRpcs
      BY <1>t, <2>1, <2>3 DEF CallingRpcs, TypeOK
    <3>2. QED
      BY <2>1, <2>3, <3>1, TableStutters
  <2>4. QED
    BY <1>7, <2>2, <2>3 DEF ClientForAuthRef
<1>8. QED
  <2>1. ASSUME NEW r \in Rpcs, RpcStep(r) PROVE [Table!Next]_(Table!vars)
    <3>1. "default" \in Clients
      BY DEF Clients
    <3>2. QED
      BY <1>2, <1>3, <1>4, <1>5, <1>6, <1>7, <2>1, <3>1 DEF RpcStep, RunInit, Table!Next
  <2>2. QED
    BY <1>1, <2>1 DEF Next

(* ImplementsClientTable: whoever runs Init and whatever of it fails, every *)
(* RPC reads the clients when they are final, and takes that of its name.   *)
THEOREM ClientsAreATable == Spec => ImplementsClientTable
<1>1. Init => Table!Init
  <2> SUFFICES ASSUME Init PROVE Table!Init
    OBVIOUS
  <2>1. CallingRpcs = {}
    BY DEF Init, CallingRpcs
  <2>2. authRef \in [Rpcs -> Clients]
    BY DEF Init
  <2>3. QED
    BY <2>1, <2>2 DEF Init, Table!Init
<1>2. TableInv /\ [Next]_vars => [Table!Next]_(Table!vars)
  BY TableSteps
<1>3. QED
  BY <1>1, <1>2, TableInit, TableStep, PTL DEF Spec, ImplementsClientTable, Table!Spec

LEMMA AgreementStep ==
  ASSUME TableInv, Agreement, [Next]_vars
  PROVE  Agreement'
<1>t. TypeOK /\ ReadyInv
  BY DEF TableInv, ProviderInv
<1>1. CASE UNCHANGED vars \/ Configure
  BY <1>1 DEF vars, Configure, Agreement
<1>2. ASSUME NEW r \in Rpcs, CallInit(r) PROVE Agreement'
  BY <1>2, <1>t DEF CallInit, TypeOK, Agreement
<1>3. ASSUME NEW r \in Rpcs, RunInit(r) PROVE Agreement'
  <2>1. once = "running" /\ \A q \in Rpcs : rpc[q] # "calling"
    BY <1>3, <1>t DEF RunInit, SkipInit, BuildOptions, BuildOptionsFails, BuildDefault, BuildNamed, BuildFails,
       InitDone, Running, ReadyInv
  <2>2. \A q \in Rpcs : rpc'[q] # "calling"
    BY <1>3, <2>1 DEF RunInit, SkipInit, BuildOptions, BuildOptionsFails, BuildDefault, BuildNamed, BuildFails,
       InitDone, Return
  <2>3. QED
    BY <2>2 DEF Agreement
<1>4. ASSUME NEW r \in Rpcs, ClientForAuthRef(r) PROVE Agreement'
  <2>1. UNCHANGED <<client, authRef>>
        /\ \/ got' = [got EXCEPT ![r] = client[authRef[r]]] /\ rpc' = [rpc EXCEPT ![r] = "calling"]
           \/ got' = got /\ rpc' = [rpc EXCEPT ![r] = "failed"]
    BY <1>4 DEF ClientForAuthRef
  <2>2. QED
    BY <1>t, <2>1 DEF TypeOK, Agreement
<1>5. QED
  BY <1>1, <1>2, <1>3, <1>4 DEF Next, RpcStep

(* RPCs with the same auth_ref have the same client, whenever they came to  *)
(* ask for it.                                                              *)
THEOREM SameRefSameClient ==
  Spec => [](\A q, r \in Rpcs :
               rpc[q] = "calling" /\ rpc[r] = "calling" /\ authRef[q] = authRef[r] => got[q] = got[r])
<1>1. Init => Agreement
  BY DEF Init, Agreement
<1>2. TableInv /\ Agreement /\ [Next]_vars => (TableInv /\ Agreement)'
  BY TableStep, AgreementStep
<1>3. Agreement => \A q, r \in Rpcs :
        rpc[q] = "calling" /\ rpc[r] = "calling" /\ authRef[q] = authRef[r] => got[q] = got[r]
  BY DEF Agreement
<1>4. QED
  BY <1>1, <1>2, <1>3, TableInit, PTL DEF Spec
=============================================================================
