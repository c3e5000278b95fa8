--------------------------- MODULE ManagedProofs ----------------------------
(***************************************************************************)
(* The inductive invariants of K8sToken and HelmRelease, for any number of *)
(* tokens, any names, releases, faults and bounds; and with those of       *)
(* OperationResource, the safety properties of Managed.                    *)
(***************************************************************************)
EXTENDS Managed, OperationResourceProofs

(* ------------------------- the tokens: their types ---------------------- *)

LEMMA TokenConstants ==
  /\ None \notin BOOLEAN /\ None \notin Token!InstanceType /\ None \notin Account
  /\ Account \subseteq Namespaces \X Names
  /\ Layouts \subseteq Token!LayoutType
  /\ MaxUids \in Nat /\ MaxEvents \in Nat
BY TokenAssumption DEF Token!Sensible

LEMMA TokenName == ASSUME NEW a \in Account PROVE Token!Name(a) \in Names
BY TokenConstants DEF Token!Name

(* What the variables are for one resource. *)
LEMMA TokenTypes ==
  ASSUME Token!TypeOK, NEW t \in Tokens
  PROVE  /\ account[t] \in Account
         /\ call[t] \in Token!CallType
         /\ wanted[t] # None => wanted[t] \in BOOLEAN
         /\ instance[t] # None => instance[t] \in Token!InstanceType /\ instance[t].account \in Account
BY DEF Token!TypeOK, Token!LayoutType, Token!InstanceType

(* The account an RPC is about. *)
LEMMA TokenOwn ==
  ASSUME Token!TypeOK, Token!CallInv, NEW t \in Tokens, call[t] # Token!Quiet
  PROVE  /\ call[t].op \in {"create", "read", "update", "delete"}
         /\ Token!AccountOf(t) \in Account /\ Token!NameOf(t) \in Names
         /\ accounts[Token!AccountOf(t)] \in 0 .. MaxUids
         /\ <<t, Token!NameOf(t)>> \in used
<1>1. call[t].op \in {"create", "read", "update", "delete"}
  BY TokenTypes DEF Token!CallInv, Token!Called, Token!CallType
<1>2. Token!AccountOf(t) \in Account
  BY <1>1, TokenTypes DEF Token!AccountOf, Token!CallInv, Token!Called
<1>3. Token!NameOf(t) \in Names
  BY <1>2, TokenName DEF Token!NameOf
<1>4. QED
  BY <1>1, <1>2, <1>3 DEF Token!TypeOK, Token!CallInv, Token!Seen

(* What an RPC goes by is a Boolean. *)
LEMMA TokenAdmin ==
  ASSUME Token!TypeOK, Token!CallInv, NEW t \in Tokens, call[t].op \in {"create", "read", "update"}
  PROVE  Token!Admin(t) \in BOOLEAN
<1>1. CASE call[t].op = "read"
  BY <1>1, TokenTypes DEF Token!CallInv, Token!Called, Token!Admin, Token!InstanceType
<1>2. CASE call[t].op \in {"create", "update"}
  BY <1>2, TokenTypes DEF Token!CallInv, Token!Called, Token!Admin
<1>3. QED
  BY <1>1, <1>2

(* The ways in which the call of a resource changes. *)
LEMMA TokenCallGoes ==
  ASSUME Token!TypeOK, NEW t \in Tokens, NEW op, NEW next, Token!Calls(t, op, next),
         [op |-> op, next |-> next] \in Token!CallType
  PROVE  /\ call' \in [Tokens -> Token!CallType]
         /\ call'[t] = [op |-> op, next |-> next]
         /\ \A u \in Tokens \ {t} : call'[u] = call[u]
BY DEF Token!Calls, Token!TypeOK

LEMMA TokenGoes ==
  ASSUME Token!TypeOK, NEW t \in Tokens,
         NEW next \in {"createAccount", "getBinding", "createBinding", "createToken", "deleteAccount"},
         Token!Goes(t, next)
  PROVE  /\ call' \in [Tokens -> Token!CallType]
         /\ call'[t] = [op |-> call[t].op, next |-> next]
         /\ call'[t].op = call[t].op /\ call'[t].next = next
         /\ \A u \in Tokens \ {t} : call'[u] = call[u]
<1>1. [op |-> call[t].op, next |-> next] \in Token!CallType
  BY TokenTypes DEF Token!CallType
<1>2. /\ call' \in [Tokens -> Token!CallType] /\ call'[t] = [op |-> call[t].op, next |-> next]
      /\ \A u \in Tokens \ {t} : call'[u] = call[u]
  BY <1>1, TokenCallGoes DEF Token!Goes
<1>3. QED
  BY <1>2

LEMMA TokenStarts ==
  ASSUME Token!TypeOK, NEW t \in Tokens,
         NEW op \in {"create", "read", "update", "delete"}, NEW next \in {"getAccount", "deleteBinding"},
         Token!Starts(t, op, next)
  PROVE  /\ call' \in [Tokens -> Token!CallType]
         /\ call'[t].op = op /\ call'[t].next = next
         /\ \A u \in Tokens \ {t} : call'[u] = call[u]
<1>1. [op |-> op, next |-> next] \in Token!CallType
  BY DEF Token!CallType
<1>2. /\ call' \in [Tokens -> Token!CallType] /\ call'[t] = [op |-> op, next |-> next]
      /\ \A u \in Tokens \ {t} : call'[u] = call[u]
  BY <1>1, TokenCallGoes DEF Token!Starts
<1>3. QED
  BY <1>2

LEMMA TokenCallEnds ==
  ASSUME Token!TypeOK, NEW t \in Tokens, call' = [call EXCEPT ![t] = Token!Quiet]
  PROVE  /\ call' \in [Tokens -> Token!CallType]
         /\ call'[t] = Token!Quiet
         /\ \A u \in Tokens \ {t} : call'[u] = call[u]
<1>1. Token!Quiet \in Token!CallType
  BY DEF Token!Quiet, Token!CallType
<1>2. QED
  BY <1>1 DEF Token!TypeOK

(* ---------------------- the tokens: kinds of steps ---------------------- *)

(* A step of one resource. *)
Act(t) ==
  \/ Token!Edit(t) \/ Token!Age(t) \/ Token!Start(t) \/ Token!CallStep(t)
  \/ Token!CallFails(t) \/ Token!DeleteSkips(t) \/ Token!Crash(t)

(* createToken goes on: it has found, or made, its account or its binding.  *)
GoesOn(t) ==
  /\ call[t].op \in {"create", "read", "update"}
  /\ \E next \in {"createAccount", "getBinding", "createBinding", "createToken"} :
       /\ Token!Goes(t, next)
       /\ next = "createToken" /\ Token!Admin(t) => bindings'[Token!NameOf(t)] # None
  /\ \/ UNCHANGED <<accounts, bindings>>
     \/ /\ accounts[Token!AccountOf(t)] = 0
        /\ \E uid \in 1 .. MaxUids : accounts' = [accounts EXCEPT ![Token!AccountOf(t)] = uid]
        /\ UNCHANGED bindings
     \/ /\ bindings[Token!NameOf(t)] = None
        /\ bindings' = [bindings EXCEPT ![Token!NameOf(t)] = Token!AccountOf(t)]
        /\ UNCHANGED accounts
  /\ UNCHANGED <<account, wanted, instance, left, used>>

(* createToken ends with a token. *)
Issues(t) ==
  /\ call[t].op \in {"create", "read", "update"} /\ call[t].next = "createToken"
  /\ accounts[Token!AccountOf(t)] # 0
  /\ instance' = [instance EXCEPT ![t] =
       [account |-> Token!AccountOf(t), admin |-> Token!Admin(t),
        token |-> accounts[Token!AccountOf(t)], old |-> FALSE]]
  /\ call' = [call EXCEPT ![t] = Token!Quiet]
  /\ left' = (left \ {<<t, Token!AccountOf(t)>>}) \cup Token!Moved(t)
  /\ UNCHANGED <<account, wanted, accounts, bindings, used>>

(* An RPC ends half-way: with an error, reported or passed over, or a crash. *)
Stops(t) ==
  /\ call[t] # Token!Quiet
  /\ call' = [call EXCEPT ![t] = Token!Quiet]
  /\ left' = left \cup {<<t, Token!AccountOf(t)>>}
  /\ \/ instance' = instance
     \/ call[t].op \in {"read", "delete"} /\ instance' = [instance EXCEPT ![t] = None]
  /\ UNCHANGED <<account, wanted, accounts, bindings, used>>

(* Delete comes to the account, with the binding deleted or not. *)
Unbinds(t) ==
  /\ call[t].op = "delete"
  /\ Token!Goes(t, "deleteAccount")
  /\ \/ /\ bindings' = [bindings EXCEPT ![Token!NameOf(t)] = None]
        /\ left' = left \ {<<t, Token!AccountOf(t)>>}
     \/ /\ bindings' = bindings
        /\ left' = left \cup {<<t, Token!AccountOf(t)>>}
  /\ UNCHANGED <<account, wanted, instance, accounts, used>>

(* Delete has deleted the account. *)
Deletes(t) ==
  /\ call[t].op = "delete" /\ call[t].next = "deleteAccount"
  /\ accounts' = [accounts EXCEPT ![Token!AccountOf(t)] = 0]
  /\ instance' = [instance EXCEPT ![t] = None]
  /\ call' = [call EXCEPT ![t] = Token!Quiet]
  /\ UNCHANGED <<account, wanted, bindings, left, used>>

(* The API call that createToken is about to make next. *)
LEMMA TokenNext ==
  ASSUME Token!TypeOK, Token!CallInv, NEW t \in Tokens,
         call[t].next \in {"getAccount", "createAccount", "getBinding", "createBinding", "createToken"}
  PROVE  /\ call[t].op \in {"create", "read", "update"} /\ call[t] # Token!Quiet
         /\ Token!AfterAccount(t) \in {"getBinding", "createToken"}
         /\ Token!AfterAccount(t) = "createToken" => ~Token!Admin(t)
<1>1. call[t].op # "none" /\ call[t] # Token!Quiet
  BY DEF Token!CallInv, Token!Called, Token!Quiet
<1>2. QED
  BY <1>1, TokenTypes DEF Token!CallInv, Token!Called, Token!CallType, Token!AfterAccount

LEMMA TokenFails ==
  ASSUME Token!TypeOK, NEW t \in Tokens, call[t] # Token!Quiet, Token!Fails(t),
         UNCHANGED <<account, wanted, accounts, bindings, used>>
  PROVE  Stops(t)
BY DEF Token!Fails, Stops

LEMMA TokenKinds ==
  ASSUME Token!TypeOK, Token!CallInv, NEW t \in Tokens, Act(t)
  PROVE  \/ Token!Edit(t) \/ Token!Age(t) \/ Token!Start(t)
         \/ GoesOn(t) \/ Issues(t) \/ Stops(t) \/ Unbinds(t) \/ Deletes(t)
<1>1. CASE Token!GetAccount(t)
  <2>1. PICK next \in {"createAccount", "getBinding", "createToken"} :
          Token!Goes(t, next) /\ (next = "createToken" => ~Token!Admin(t))
    BY <1>1, TokenNext DEF Token!GetAccount
  <2>2. QED
    BY <1>1, <2>1, TokenNext DEF Token!GetAccount, Token!Cluster, GoesOn
<1>2. CASE Token!CreateAccount(t)
  <2>1. CASE accounts[Token!AccountOf(t)] = 0
    <3>1. uids + 1 \in 1 .. MaxUids
      BY <1>2, <2>1, TokenConstants DEF Token!CreateAccount, Token!TypeOK
    <3>2. PICK next \in {"getBinding", "createToken"} :
            Token!Goes(t, next) /\ (next = "createToken" => ~Token!Admin(t))
      BY <1>2, <2>1, TokenNext DEF Token!CreateAccount
    <3>3. QED
      BY <1>2, <2>1, <3>1, <3>2, TokenNext DEF Token!CreateAccount, GoesOn
  <2>2. CASE accounts[Token!AccountOf(t)] # 0
    BY <1>2, <2>2, TokenNext, TokenFails DEF Token!CreateAccount
  <2>3. QED
    BY <2>1, <2>2
<1>3. CASE Token!GetBinding(t)
  <2>1. PICK next \in {"createBinding", "createToken"} :
          Token!Goes(t, next) /\ (next = "createToken" => bindings[Token!NameOf(t)] # None)
    BY <1>3 DEF Token!GetBinding
  <2>2. QED
    BY <1>3, <2>1, TokenNext DEF Token!GetBinding, Token!Cluster, GoesOn
<1>4. CASE Token!CreateBinding(t)
  <2>1. call[t] # Token!Quiet /\ call[t].op \in {"create", "read", "update"}
    BY <1>4, TokenNext DEF Token!CreateBinding
  <2>2. CASE bindings[Token!NameOf(t)] = None
    <3>1. bindings' = [bindings EXCEPT ![Token!NameOf(t)] = Token!AccountOf(t)] /\ Token!Goes(t, "createToken")
      BY <1>4, <2>2 DEF Token!CreateBinding
    <3>2. bindings'[Token!NameOf(t)] # None
      BY <2>1, <3>1, TokenOwn, TokenConstants DEF Token!TypeOK
    <3>3. QED
      BY <1>4, <2>1, <2>2, <3>1, <3>2 DEF Token!CreateBinding, GoesOn
  <2>3. CASE bindings[Token!NameOf(t)] # None
    BY <1>4, <2>1, <2>3, TokenFails DEF Token!CreateBinding
  <2>4. QED
    BY <2>2, <2>3
<1>5. CASE Token!CreateToken(t)
  <2>1. CASE accounts[Token!AccountOf(t)] # 0
    BY <1>5, <2>1, TokenNext DEF Token!CreateToken, Token!Cluster, Issues
  <2>2. CASE accounts[Token!AccountOf(t)] = 0
    BY <1>5, <2>2, TokenNext, TokenFails DEF Token!CreateToken, Token!Cluster
  <2>3. QED
    BY <2>1, <2>2
<1>6. CASE Token!CallFails(t)
  BY <1>6, TokenFails DEF Token!CallFails, Token!Cluster, Token!Quiet
<1>7. CASE Token!DeleteBinding(t)
  BY <1>7 DEF Token!DeleteBinding, Token!CallInv, Token!Called, Unbinds
<1>8. CASE Token!DeleteAccount(t)
  BY <1>8 DEF Token!DeleteAccount, Token!Removed, Token!CallInv, Token!Called, Deletes
<1>9. CASE Token!DeleteSkips(t)
  <2>1. call[t] # Token!Quiet
    BY <1>9 DEF Token!DeleteSkips, Token!Quiet
  <2>2. CASE Token!Removed(t)
    BY <1>9, <2>1, <2>2 DEF Token!DeleteSkips, Token!Removed, Token!Cluster, Stops
  <2>3. CASE Token!Goes(t, "deleteAccount") /\ UNCHANGED instance
    BY <1>9, <2>3 DEF Token!DeleteSkips, Token!Cluster, Unbinds
  <2>4. QED
    BY <1>9, <2>2, <2>3 DEF Token!DeleteSkips
<1>10. CASE Token!Crash(t)
  BY <1>10 DEF Token!Crash, Token!Cluster, Stops
<1>11. QED
  BY <1>1, <1>2, <1>3, <1>4, <1>5, <1>6, <1>7, <1>8, <1>9, <1>10 DEF Act, Token!CallStep

(* The counters of the model keep to their bounds. *)
LEMMA TokenCounters ==
  ASSUME Token!TypeOK, NEW t \in Tokens, Act(t)
  PROVE  uids' \in 0 .. MaxUids /\ edits' \in 0 .. MaxEvents /\ failures' \in 0 .. MaxEvents
<1> USE TokenConstants DEF Token!TypeOK
<1>1. CASE Token!Edit(t) \/ Token!Age(t) \/ Token!Start(t)
  BY <1>1 DEF Token!Edit, Token!MoreEvents, Token!Age, Token!Start, Token!StartCreate, Token!StartRead,
              Token!StartUpdate, Token!StartDelete, Token!Starts, Token!Cluster
<1>2. CASE Token!CallStep(t)
  BY <1>2 DEF Token!CallStep, Token!GetAccount, Token!CreateAccount, Token!GetBinding, Token!CreateBinding,
              Token!CreateToken, Token!DeleteBinding, Token!DeleteAccount, Token!Cluster
<1>3. CASE Token!CallFails(t) \/ Token!DeleteSkips(t) \/ Token!Crash(t)
  BY <1>3 DEF Token!CallFails, Token!DeleteSkips, Token!Crash, Token!Fault, Token!MoreEvents, Token!Cluster
<1>4. QED
  BY <1>1, <1>2, <1>3 DEF Act

(* What an RPC starts with. *)
LEMMA TokenStarting ==
  ASSUME Token!TypeOK, NEW t \in Tokens, Token!Start(t)
  PROVE  /\ call' \in [Tokens -> Token!CallType] /\ \A u \in Tokens \ {t} : call'[u] = call[u]
         /\ call[t] = Token!Quiet
         /\ UNCHANGED <<account, wanted, instance, accounts, bindings, left>>
         /\ used' = used \cup {<<t, Token!NameOf(t)'>>}
         /\ \/ call'[t].op = "create" /\ call'[t].next = "getAccount"
               /\ wanted[t] # None /\ instance[t] = None
            \/ call'[t].op = "read" /\ call'[t].next = "getAccount" /\ instance[t] # None
            \/ call'[t].op = "update" /\ call'[t].next = "getAccount"
               /\ wanted[t] # None /\ instance[t] # None
            \/ call'[t].op = "delete" /\ call'[t].next = "deleteBinding" /\ instance[t] # None
<1>1. CASE Token!StartCreate(t)
  BY <1>1, TokenStarts DEF Token!StartCreate, Token!Starts, Token!Cluster
<1>2. CASE Token!StartRead(t)
  BY <1>2, TokenStarts DEF Token!StartRead, Token!Starts, Token!Cluster
<1>3. CASE Token!StartUpdate(t)
  BY <1>3, TokenStarts DEF Token!StartUpdate, Token!Starts, Token!Cluster
<1>4. CASE Token!StartDelete(t)
  BY <1>4, TokenStarts DEF Token!StartDelete, Token!Starts, Token!Cluster
<1>5. QED
  BY <1>1, <1>2, <1>3, <1>4 DEF Token!Start

(* The instance that is issued a token, and the one that grows old. *)
LEMMA TokenIssued ==
  ASSUME Token!TypeOK, Token!CallInv, NEW t \in Tokens, Issues(t)
  PROVE  /\ call[t] # Token!Quiet /\ call'[t] = Token!Quiet
         /\ instance'[t] \in Token!InstanceType /\ instance'[t] # None
         /\ instance'[t].account = Token!AccountOf(t)
         /\ instance'[t].admin = Token!Admin(t)
         /\ instance'[t].token = accounts[Token!AccountOf(t)]
<1>1. call[t] # Token!Quiet /\ call'[t] = Token!Quiet
  <2>1. call[t] # Token!Quiet
    BY DEF Issues, Token!Quiet
  <2>2. call'[t] = Token!Quiet
    BY TokenCallEnds DEF Issues
  <2>3. QED
    BY <2>1, <2>2
<1>2. accounts[Token!AccountOf(t)] \in 1 .. MaxUids /\ Token!AccountOf(t) \in Account
  <2>1. accounts[Token!AccountOf(t)] \in 0 .. MaxUids /\ Token!AccountOf(t) \in Account
    BY <1>1, TokenOwn
  <2>2. accounts[Token!AccountOf(t)] # 0
    BY DEF Issues
  <2>3. QED
    BY <2>1, <2>2, TokenConstants
<1>3. Token!Admin(t) \in BOOLEAN
  BY TokenAdmin DEF Issues
<1>4. instance'[t] = [account |-> Token!AccountOf(t), admin |-> Token!Admin(t),
                      token |-> accounts[Token!AccountOf(t)], old |-> FALSE]
  BY DEF Issues, Token!TypeOK
<1>5. instance'[t] \in Token!InstanceType
  BY <1>2, <1>3, <1>4 DEF Token!InstanceType
<1>6. QED
  <2>1. instance'[t] # None
    BY <1>5, TokenConstants
  <2>2. QED
    BY <1>1, <1>4, <1>5, <2>1

LEMMA TokenAged ==
  ASSUME Token!TypeOK, NEW t \in Tokens, Token!Age(t)
  PROVE  /\ instance[t] # None /\ instance'[t] \in Token!InstanceType /\ instance'[t] # None
         /\ instance'[t].account = instance[t].account
         /\ instance'[t].admin = instance[t].admin /\ instance'[t].token = instance[t].token
         /\ call[t] = Token!Quiet
         /\ UNCHANGED <<account, wanted, accounts, bindings, call, left, used>>
<1>1. instance[t] # None /\ instance[t] \in Token!InstanceType
  BY TokenTypes DEF Token!Age
<1>2. instance'[t] = [instance[t] EXCEPT !.old = TRUE]
  BY DEF Token!Age, Token!TypeOK
<1>3. /\ instance'[t] \in Token!InstanceType
      /\ instance'[t].account = instance[t].account
      /\ instance'[t].admin = instance[t].admin /\ instance'[t].token = instance[t].token
  BY <1>1, <1>2 DEF Token!InstanceType
<1>4. QED
  BY <1>1, <1>3, TokenConstants DEF Token!Age, Token!Cluster

(* A step of one resource leaves what the others have, and have done. *)
LEMMA TokenOthers ==
  ASSUME Token!TypeOK, Token!CallInv, NEW t \in Tokens, Act(t), NEW u \in Tokens, u # t
  PROVE  /\ call'[u] = call[u] /\ instance'[u] = instance[u]
         /\ wanted'[u] = wanted[u] /\ account'[u] = account[u]
         /\ \A a : <<u, a>> \in left' <=> <<u, a>> \in left
         /\ \A n : <<u, n>> \in used' <=> <<u, n>> \in used
         /\ Token!AccountOf(u)' = Token!AccountOf(u) /\ Token!NameOf(u)' = Token!NameOf(u)
         /\ Token!Admin(u)' = Token!Admin(u)
<1>1. /\ call'[u] = call[u] /\ instance'[u] = instance[u]
      /\ wanted'[u] = wanted[u] /\ account'[u] = account[u]
      /\ \A a : <<u, a>> \in left' <=> <<u, a>> \in left
      /\ \A n : <<u, n>> \in used' <=> <<u, n>> \in used
  <2>1. CASE Token!Edit(t)
    BY <2>1 DEF Token!Edit, Token!TypeOK, Token!LayoutType
  <2>2. CASE Token!Age(t)
    BY <2>2 DEF Token!Age, Token!TypeOK
  <2>3. CASE Token!Start(t)
    BY <2>3, TokenStarting
  <2>4. CASE GoesOn(t)
    BY <2>4, TokenGoes DEF GoesOn
  <2>5. CASE Issues(t)
    BY <2>5, TokenCallEnds DEF Issues, Token!Moved, Token!TypeOK
  <2>6. CASE Stops(t)
    BY <2>6, TokenCallEnds DEF Stops, Token!TypeOK
  <2>7. CASE Unbinds(t)
    BY <2>7, TokenGoes DEF Unbinds
  <2>8. CASE Deletes(t)
    BY <2>8, TokenCallEnds DEF Deletes, Token!TypeOK
  <2>9. QED
    BY <2>1, <2>2, <2>3, <2>4, <2>5, <2>6, <2>7, <2>8, TokenKinds
<1>2. QED
  BY <1>1 DEF Token!AccountOf, Token!NameOf, Token!Admin

LEMMA TokenTypeStep ==
  ASSUME Token!TypeOK, Token!CallInv, NEW t \in Tokens, Act(t)
  PROVE  Token!TypeOK'
<1> USE TokenConstants
<1>1. CASE Token!Edit(t)
  BY <1>1, TokenCounters DEF Token!Edit, Token!TypeOK, Token!LayoutType, Token!Cluster
<1>2. CASE Token!Age(t)
  <2>1. [instance[t] EXCEPT !.old = TRUE] \in Token!InstanceType
    BY <1>2, TokenTypes DEF Token!Age, Token!InstanceType
  <2>2. instance' = [instance EXCEPT ![t] = [instance[t] EXCEPT !.old = TRUE]]
    BY <1>2 DEF Token!Age
  <2>3. instance' \in [Tokens -> Token!InstanceType \cup {None}]
    BY <2>1, <2>2 DEF Token!TypeOK
  <2>4. QED
    BY <1>2, <2>3 DEF Token!Age, Token!TypeOK, Token!Cluster
<1>3. CASE Token!Start(t)
  <2>1. /\ call' \in [Tokens -> Token!CallType] /\ used' = used \cup {<<t, Token!NameOf(t)'>>}
        /\ UNCHANGED <<account, wanted, instance, accounts, bindings, left>>
    BY <1>3, TokenStarting
  <2>2. Token!AccountOf(t)' \in Account
    BY <1>3, <2>1, TokenTypes, TokenStarting DEF Token!AccountOf
  <2>3. Token!NameOf(t)' \in Names
    BY <2>2, TokenName DEF Token!NameOf
  <2>4. used' \subseteq Tokens \X Names
    BY <2>1, <2>3 DEF Token!TypeOK
  <2>5. QED
    BY <2>1, <2>4, TokenCounters DEF Token!TypeOK
<1>4. CASE GoesOn(t)
  <2>1. call' \in [Tokens -> Token!CallType]
    BY <1>4, TokenGoes DEF GoesOn
  <2>2. call[t] # Token!Quiet
    BY <1>4 DEF GoesOn, Token!Quiet
  <2>3. accounts' \in [Account -> 0 .. MaxUids]
    BY <1>4 DEF GoesOn, Token!TypeOK
  <2>4. bindings' \in [Names -> Account \cup {None}]
    BY <1>4, <2>2, TokenOwn DEF GoesOn, Token!TypeOK
  <2>5. QED
    BY <1>4, <2>1, <2>3, <2>4, TokenCounters DEF GoesOn, Token!TypeOK
<1>5. CASE Issues(t)
  <2>1. call' \in [Tokens -> Token!CallType]
    BY <1>5, TokenCallEnds DEF Issues
  <2>2. instance' \in [Tokens -> Token!InstanceType \cup {None}]
    BY <1>5, TokenIssued DEF Issues, Token!TypeOK
  <2>3. Token!Moved(t) \subseteq Tokens \X Account
    BY TokenTypes DEF Token!Moved, Token!CallInv, Token!Called
  <2>4. left' \subseteq Tokens \X Account
    BY <1>5, <2>3 DEF Issues, Token!TypeOK
  <2>5. QED
    BY <1>5, <2>1, <2>2, <2>4, TokenCounters DEF Issues, Token!TypeOK
<1>6. CASE Stops(t)
  <2>1. call' \in [Tokens -> Token!CallType]
    BY <1>6, TokenCallEnds DEF Stops
  <2>2. left' \subseteq Tokens \X Account
    <3>1. call[t] # Token!Quiet /\ left' = left \cup {<<t, Token!AccountOf(t)>>}
      BY <1>6 DEF Stops
    <3>2. Token!AccountOf(t) \in Account
      BY <3>1, TokenOwn
    <3>3. QED
      BY <3>1, <3>2 DEF Token!TypeOK
  <2>3. instance' \in [Tokens -> Token!InstanceType \cup {None}]
    BY <1>6 DEF Stops, Token!TypeOK
  <2>4. QED
    BY <1>6, <2>1, <2>2, <2>3, TokenCounters DEF Stops, Token!TypeOK
<1>7. CASE Unbinds(t)
  <2>1. call' \in [Tokens -> Token!CallType]
    BY <1>7, TokenGoes DEF Unbinds
  <2>2. left' \subseteq Tokens \X Account
    <3>1. /\ call[t] # Token!Quiet
          /\ \/ left' = left \cup {<<t, Token!AccountOf(t)>>}
             \/ left' = left \ {<<t, Token!AccountOf(t)>>}
      BY <1>7 DEF Unbinds, Token!Quiet
    <3>2. Token!AccountOf(t) \in Account
      BY <3>1, TokenOwn
    <3>3. QED
      BY <3>1, <3>2 DEF Token!TypeOK
  <2>3. bindings' \in [Names -> Account \cup {None}]
    BY <1>7 DEF Unbinds, Token!TypeOK
  <2>4. QED
    BY <1>7, <2>1, <2>2, <2>3, TokenCounters DEF Unbinds, Token!TypeOK
<1>8. CASE Deletes(t)
  <2>1. call' \in [Tokens -> Token!CallType]
    BY <1>8, TokenCallEnds DEF Deletes
  <2>2. instance' \in [Tokens -> Token!InstanceType \cup {None}]
    BY <1>8 DEF Deletes, Token!TypeOK
  <2>3. accounts' \in [Account -> 0 .. MaxUids]
    <3>1. 0 \in 0 .. MaxUids
      OBVIOUS
    <3>2. QED
      BY <1>8, <3>1 DEF Deletes, Token!TypeOK
  <2>4. QED
    BY <1>8, <2>1, <2>2, <2>3, TokenCounters DEF Deletes, Token!TypeOK
<1>9. QED
  BY <1>1, <1>2, <1>3, <1>4, <1>5, <1>6, <1>7, <1>8, TokenKinds

(* --------------------- the tokens: the calls in progress ---------------- *)

LEMMA TokenCallStep ==
  ASSUME Token!TypeOK, Token!CallInv, NEW t \in Tokens, Act(t)
  PROVE  Token!CallInv'
<1>1. ASSUME NEW u \in Tokens, u # t PROVE Token!Called(u)' /\ Token!Seen(u)'
  <2>1. Token!Called(u) /\ Token!Seen(u)
    BY DEF Token!CallInv
  <2>2. Token!Called(u)'
    BY <1>1, <2>1, TokenOthers DEF Token!Called
  <2>3. Token!Seen(u)'
    BY <1>1, <2>1, TokenOthers DEF Token!Seen
  <2>4. QED
    BY <2>2, <2>3
<1>2. Token!Called(t) /\ Token!Seen(t)
  BY DEF Token!CallInv
<1> SUFFICES Token!Called(t)' /\ Token!Seen(t)'
  BY <1>1 DEF Token!CallInv
<1>3. ASSUME call'[t] = Token!Quiet,
             instance'[t] # None => <<t, Token!Name(instance'[t].account)>> \in used'
      PROVE  Token!Called(t)' /\ Token!Seen(t)'
  BY <1>3 DEF Token!Called, Token!Seen, Token!Quiet
<1>4. ASSUME call[t] # Token!Quiet, call'[t].op = call[t].op, UNCHANGED <<account, wanted, instance, used>>
      PROVE  Token!Seen(t)'
  BY <1>2, <1>4 DEF Token!Seen, Token!NameOf, Token!AccountOf
<1>5. CASE Token!Edit(t)
  BY <1>2, <1>3, <1>5 DEF Token!Edit, Token!Seen
<1>6. CASE Token!Age(t)
  BY <1>2, <1>3, <1>6, TokenAged DEF Token!Seen
<1>7. CASE Token!Start(t)
  BY <1>2, <1>7, TokenStarting DEF Token!Called, Token!Seen
<1>8. CASE GoesOn(t)
  <2>1. PICK next \in {"createAccount", "getBinding", "createBinding", "createToken"} : Token!Goes(t, next)
    BY <1>8 DEF GoesOn
  <2>2. call'[t].op = call[t].op /\ call'[t].next = next
    BY <2>1, TokenGoes
  <2>3. Token!Called(t)'
    BY <1>2, <1>8, <2>2 DEF GoesOn, Token!Called
  <2>4. QED
    BY <1>4, <1>8, <2>2, <2>3 DEF GoesOn, Token!Quiet
<1>9. CASE Issues(t)
  <2>1. <<t, Token!Name(instance'[t].account)>> \in used'
    <3>1. call[t] # Token!Quiet /\ instance'[t].account = Token!AccountOf(t)
      BY <1>9, TokenIssued
    <3>2. <<t, Token!Name(Token!AccountOf(t))>> \in used
      BY <1>2, <3>1 DEF Token!Seen, Token!NameOf
    <3>3. used' = used
      BY <1>9 DEF Issues
    <3>4. QED
      BY <3>1, <3>2, <3>3
  <2>2. QED
    BY <1>3, <1>9, <2>1, TokenIssued
<1>10. CASE Stops(t)
  <2>1. instance'[t] # None => instance'[t] = instance[t]
    BY <1>10 DEF Stops, Token!TypeOK
  <2>2. QED
    BY <1>2, <1>3, <1>10, <2>1, TokenCallEnds DEF Stops, Token!Seen
<1>11. CASE Unbinds(t)
  <2>1. call'[t].op = call[t].op /\ call'[t].next = "deleteAccount"
    BY <1>11, TokenGoes DEF Unbinds
  <2>2. Token!Called(t)'
    BY <1>2, <1>11, <2>1 DEF Unbinds, Token!Called
  <2>3. QED
    BY <1>4, <1>11, <2>1, <2>2 DEF Unbinds, Token!Quiet
<1>12. CASE Deletes(t)
  <2>1. instance'[t] = None
    BY <1>12 DEF Deletes, Token!TypeOK
  <2>2. QED
    BY <1>3, <1>12, <2>1, TokenCallEnds DEF Deletes
<1>13. QED
  BY <1>5, <1>6, <1>7, <1>8, <1>9, <1>10, <1>11, <1>12, TokenKinds

(* ---------------- the tokens: what they keep in the cluster -------------- *)

(* A step of a resource touches the account its RPC is about, and the       *)
(* binding of that name.                                                    *)
LEMMA TokenCluster ==
  ASSUME Token!TypeOK, Token!CallInv, NEW t \in Tokens, Act(t)
  PROVE  /\ \A a \in Account : accounts'[a] # accounts[a] => call[t] # Token!Quiet /\ a = Token!AccountOf(t)
         /\ \A n \in Names : bindings'[n] # bindings[n] => call[t] # Token!Quiet /\ n = Token!NameOf(t)
<1>1. CASE Token!Edit(t)
  BY <1>1 DEF Token!Edit, Token!Cluster
<1>2. CASE Token!Age(t)
  BY <1>2, TokenAged
<1>3. CASE Token!Start(t)
  BY <1>3, TokenStarting
<1>4. CASE GoesOn(t)
  <2>1. call[t] # Token!Quiet
    BY <1>4 DEF GoesOn, Token!Quiet
  <2>2. \A a \in Account \ {Token!AccountOf(t)} : accounts'[a] = accounts[a]
    BY <1>4 DEF GoesOn, Token!TypeOK
  <2>3. \A n \in Names \ {Token!NameOf(t)} : bindings'[n] = bindings[n]
    BY <1>4 DEF GoesOn, Token!TypeOK
  <2>4. QED
    BY <2>1, <2>2, <2>3
<1>5. CASE Issues(t) \/ Stops(t)
  BY <1>5 DEF Issues, Stops
<1>6. CASE Unbinds(t)
  <2>1. call[t] # Token!Quiet
    BY <1>6 DEF Unbinds, Token!Quiet
  <2>2. accounts' = accounts /\ \A n \in Names \ {Token!NameOf(t)} : bindings'[n] = bindings[n]
    BY <1>6 DEF Unbinds, Token!TypeOK
  <2>3. QED
    BY <2>1, <2>2
<1>7. CASE Deletes(t)
  <2>1. call[t] # Token!Quiet
    BY <1>7 DEF Deletes, Token!Quiet
  <2>2. bindings' = bindings /\ \A a \in Account \ {Token!AccountOf(t)} : accounts'[a] = accounts[a]
    BY <1>7 DEF Deletes, Token!TypeOK
  <2>3. QED
    BY <2>1, <2>2
<1>8. QED
  BY <1>1, <1>2, <1>3, <1>4, <1>5, <1>6, <1>7, TokenKinds

(* It leaves those of a resource that is alone at its name. *)
LEMMA TokenApart ==
  ASSUME Token!TypeOK, Token!CallInv, NEW t \in Tokens, Act(t),
         NEW u \in Tokens, u # t, NEW n \in Names, Token!Alone(u, n)'
  PROVE  /\ Token!Alone(u, n)
         /\ bindings'[n] = bindings[n]
         /\ \A a \in Account : Token!Name(a) = n => accounts'[a] = accounts[a]
<1>1. \A v \in Tokens : <<v, n>> \in used => <<v, n>> \in used'
  <2>1. used \subseteq used'
    <3>1. CASE Token!Edit(t)
      BY <3>1 DEF Token!Edit
    <3>2. CASE Token!Age(t)
      BY <3>2, TokenAged
    <3>3. CASE Token!Start(t)
      BY <3>3, TokenStarting
    <3>4. CASE GoesOn(t) \/ Issues(t) \/ Stops(t) \/ Unbinds(t) \/ Deletes(t)
      BY <3>4 DEF GoesOn, Issues, Stops, Unbinds, Deletes
    <3>5. QED
      BY <3>1, <3>2, <3>3, <3>4, TokenKinds
  <2>2. QED
    BY <2>1
<1>2. Token!Alone(u, n)
  BY <1>1 DEF Token!Alone
<1>3. <<t, n>> \notin used
  BY <1>1 DEF Token!Alone
<1>4. call[t] # Token!Quiet => Token!NameOf(t) # n
  BY <1>3, TokenOwn
<1>5. bindings'[n] = bindings[n]
  BY <1>4, TokenCluster
<1>6. ASSUME NEW a \in Account, Token!Name(a) = n PROVE accounts'[a] = accounts[a]
  BY <1>4, <1>6, TokenCluster DEF Token!NameOf
<1>7. QED
  BY <1>2, <1>5, <1>6

(* The same of the resource itself, as far as it is alone. *)
LEMMA TokenAlone ==
  ASSUME Token!TypeOK, Token!CallInv, NEW t \in Tokens, Act(t), NEW n, Token!Alone(t, n)'
  PROVE  Token!Alone(t, n)
BY TokenOthers DEF Token!Alone

(* A resource keeps an account until Delete has come past its binding.      *)
LEMMA TokenKeeps ==
  ASSUME Token!TypeOK, Token!CallInv, NEW t \in Tokens, Act(t), NEW a \in Account, Token!Keeps(t, a)
  PROVE  \/ Token!Keeps(t, a)'
         \/ a = Token!AccountOf(t) /\ bindings'[Token!NameOf(t)] = None
<1>1. Token!Called(t)
  BY DEF Token!CallInv
<1>2. CASE Token!Edit(t)
  BY <1>2 DEF Token!Edit, Token!Keeps, Token!Quiet
<1>3. CASE Token!Age(t)
  BY <1>3, TokenAged DEF Token!Keeps
<1>4. CASE Token!Start(t)
  BY <1>4, TokenStarting DEF Token!Keeps, Token!Quiet
<1>5. CASE GoesOn(t)
  <2>1. PICK next \in {"createAccount", "getBinding", "createBinding", "createToken"} : Token!Goes(t, next)
    BY <1>5 DEF GoesOn
  <2>2. call'[t].op = call[t].op /\ call'[t].next # "deleteAccount"
    BY <2>1, TokenGoes
  <2>3. UNCHANGED <<account, instance, left>>
    BY <1>5 DEF GoesOn
  <2>4. QED
    BY <2>2, <2>3 DEF Token!Keeps
<1>6. CASE Issues(t)
  <2>1. /\ call'[t].next # "deleteAccount" /\ instance'[t] # None
        /\ instance'[t].account = Token!AccountOf(t)
    BY <1>6, TokenIssued DEF Token!Quiet
  <2>2. CASE a = Token!AccountOf(t)
    BY <2>1, <2>2 DEF Token!Keeps
  <2>3. CASE a # Token!AccountOf(t)
    <3>1. CASE <<t, a>> \in left
      BY <1>6, <2>3, <3>1 DEF Issues, Token!Keeps
    <3>2. CASE call[t].op \in {"create", "update"} /\ account[t] = a
      BY <2>3, <3>2 DEF Token!AccountOf
    <3>3. CASE instance[t] # None /\ instance[t].account = a
      <4>1. call[t].op = "update"
        BY <1>1, <1>6, <2>3, <3>3 DEF Issues, Token!Called, Token!AccountOf
      <4>2. <<t, a>> \in Token!Moved(t)
        BY <2>3, <3>3, <4>1 DEF Token!Moved, Token!AccountOf
      <4>3. QED
        BY <1>6, <4>2 DEF Issues, Token!Keeps
    <3>4. QED
      BY <3>1, <3>2, <3>3 DEF Token!Keeps
  <2>4. QED
    BY <2>2, <2>3
<1>7. CASE Stops(t)
  <2>1. call'[t].next # "deleteAccount"
    BY <1>7, TokenCallEnds DEF Stops, Token!Quiet
  <2>2. CASE <<t, a>> \in left \/ a = Token!AccountOf(t)
    BY <1>7, <2>2 DEF Stops, Token!Keeps
  <2>3. CASE call[t].op \in {"create", "update"} /\ account[t] = a
    BY <2>2, <2>3 DEF Token!AccountOf
  <2>4. CASE instance[t] # None /\ instance[t].account = a /\ a # Token!AccountOf(t)
    <3>1. call[t].op \in {"create", "update"}
      BY <2>4 DEF Token!AccountOf
    <3>2. instance' = instance
      BY <1>7, <3>1 DEF Stops
    <3>3. QED
      BY <2>1, <2>4, <3>2 DEF Token!Keeps
  <2>5. QED
    BY <2>2, <2>3, <2>4 DEF Token!Keeps
<1>8. CASE Unbinds(t)
  <2>1. call[t] # Token!Quiet /\ Token!AccountOf(t) = instance[t].account
    BY <1>8 DEF Unbinds, Token!Quiet, Token!AccountOf
  <2>2. CASE a = Token!AccountOf(t)
    <3>1. CASE bindings' = [bindings EXCEPT ![Token!NameOf(t)] = None]
      <4>1. Token!NameOf(t) \in Names
        BY <2>1, TokenOwn
      <4>2. QED
        BY <2>2, <3>1, <4>1 DEF Token!TypeOK
    <3>2. CASE left' = left \cup {<<t, Token!AccountOf(t)>>}
      BY <2>2, <3>2 DEF Token!Keeps
    <3>3. QED
      BY <1>8, <3>1, <3>2 DEF Unbinds
  <2>3. CASE a # Token!AccountOf(t)
    <3>1. <<t, a>> \in left
      BY <1>8, <2>1, <2>3 DEF Unbinds, Token!Keeps
    <3>2. QED
      BY <1>8, <2>3, <3>1 DEF Unbinds, Token!Keeps
  <2>4. QED
    BY <2>2, <2>3
<1>9. CASE Deletes(t)
  <2>1. <<t, a>> \in left
    BY <1>9 DEF Deletes, Token!Keeps
  <2>2. QED
    BY <1>9, <2>1 DEF Deletes, Token!Keeps
<1>10. QED
  BY <1>2, <1>3, <1>4, <1>5, <1>6, <1>7, <1>8, <1>9, TokenKinds

(* A binding that a step makes is of the account its RPC is about.          *)
LEMMA TokenBinds ==
  ASSUME Token!TypeOK, Token!CallInv, NEW t \in Tokens, Act(t),
         NEW n \in Names, bindings'[n] # bindings[n], bindings'[n] # None
  PROVE  /\ bindings[n] = None /\ n = Token!NameOf(t)
         /\ bindings'[n] = Token!AccountOf(t) /\ bindings'[n] \in Account
         /\ Token!Keeps(t, bindings[n])'
<1>1. call[t] # Token!Quiet /\ n = Token!NameOf(t)
  BY TokenCluster
<1>2. Token!AccountOf(t) \in Account
  BY <1>1, TokenOwn
<1>3. GoesOn(t)
  <2>1. ~Token!Edit(t) /\ ~Token!Age(t) /\ ~Token!Start(t)
    BY <1>1, TokenAged, TokenStarting DEF Token!Edit
  <2>2. ~Issues(t) /\ ~Stops(t) /\ ~Deletes(t)
    BY DEF Issues, Stops, Deletes
  <2>3. ~Unbinds(t)
    BY <1>1 DEF Unbinds, Token!TypeOK
  <2>4. QED
    BY <2>1, <2>2, <2>3, TokenKinds
<1>4. bindings[n] = None /\ bindings' = [bindings EXCEPT ![n] = Token!AccountOf(t)]
  BY <1>1, <1>3 DEF GoesOn
<1>5. bindings'[n] = Token!AccountOf(t)
  BY <1>4 DEF Token!TypeOK
<1>6. PICK next \in {"createAccount", "getBinding", "createBinding", "createToken"} : Token!Goes(t, next)
  BY <1>3 DEF GoesOn
<1>7. call'[t].op = call[t].op /\ call'[t].next # "deleteAccount"
  BY <1>6, TokenGoes
<1>8. Token!Keeps(t, Token!AccountOf(t))'
  <2>1. UNCHANGED <<account, instance>> /\ call[t].op \in {"create", "read", "update"}
    BY <1>3 DEF GoesOn
  <2>2. CASE call[t].op = "read"
    BY <1>7, <2>1, <2>2 DEF Token!Keeps, Token!AccountOf, Token!CallInv, Token!Called
  <2>3. CASE call[t].op \in {"create", "update"}
    BY <1>7, <2>1, <2>3 DEF Token!Keeps, Token!AccountOf
  <2>4. QED
    BY <2>1, <2>2, <2>3
<1>9. Token!AccountOf(t)' = Token!AccountOf(t)
  BY <1>3, <1>7 DEF GoesOn, Token!AccountOf
<1>10. Token!Keeps(t, bindings[n])'
  BY <1>5, <1>8, <1>9 DEF Token!Keeps
<1>11. QED
  BY <1>1, <1>2, <1>4, <1>5, <1>10

LEMMA TokenNamedStep ==
  ASSUME Token!TypeOK, Token!CallInv, Token!NamedInv, NEW t \in Tokens, Act(t)
  PROVE  Token!NamedInv'
<1>1. ASSUME NEW n \in Names, bindings'[n] # None PROVE Token!Name(bindings'[n]) = n
  <2>1. CASE bindings'[n] = bindings[n]
    BY <1>1, <2>1 DEF Token!NamedInv
  <2>2. CASE bindings'[n] # bindings[n]
    BY <1>1, <2>2, TokenBinds DEF Token!NameOf
  <2>3. QED
    BY <2>1, <2>2
<1>2. QED
  BY <1>1 DEF Token!NamedInv

LEMMA TokenKeptStep ==
  ASSUME Token!TypeOK, Token!CallInv, Token!NamedInv, Token!BindingsKept, NEW t \in Tokens, Act(t)
  PROVE  Token!BindingsKept'
<1>1. ASSUME NEW n \in Names, bindings'[n] # None
      PROVE  \E u \in Tokens, a \in Account : Token!Name(a) = n /\ Token!Keeps(u, a)'
  <2>1. CASE bindings'[n] # bindings[n]
    <3>1. Token!Name(bindings'[n]) = n
      BY <1>1, <2>1, TokenBinds DEF Token!NameOf
    <3>2. bindings'[n] \in Account /\ Token!Keeps(t, bindings[n])'
      BY <1>1, <2>1, TokenBinds
    <3>3. PICK a \in Account : a = bindings'[n]
      BY <3>2
    <3>4. Token!Keeps(t, a)'
      BY <3>2, <3>3 DEF Token!Keeps
    <3>5. QED
      BY <3>1, <3>3, <3>4
  <2>2. CASE bindings'[n] = bindings[n]
    <3>1. PICK u \in Tokens, a \in Account : Token!Name(a) = n /\ Token!Keeps(u, a)
      BY <1>1, <2>2 DEF Token!BindingsKept
    <3>2. CASE u # t
      BY <3>1, <3>2, TokenOthers DEF Token!Keeps
    <3>3. CASE u = t
      <4>1. Token!Keeps(t, a)
        BY <3>1, <3>3
      <4>2. Token!Keeps(t, a)' \/ (a = Token!AccountOf(t) /\ bindings'[Token!NameOf(t)] = None)
        BY <4>1, TokenKeeps
      <4>3. Token!Keeps(t, a)'
        BY <1>1, <3>1, <4>2 DEF Token!NameOf
      <4>4. QED
        BY <3>1, <4>3
    <3>4. QED
      BY <3>2, <3>3
  <2>3. QED
    BY <2>1, <2>2
<1>2. QED
  BY <1>1 DEF Token!BindingsKept

(* What BoundInv says of one resource at a name. *)
BoundAt(t, n) ==
  /\ bindings[n] # None => Token!Keeps(t, bindings[n])
  /\ call[t].next = "createToken" /\ Token!NameOf(t) = n /\ Token!Admin(t) => bindings[n] # None

LEMMA TokenBoundStep ==
  ASSUME Token!TypeOK, Token!CallInv, Token!NamedInv, Token!BoundInv, NEW t \in Tokens, Act(t)
  PROVE  Token!BoundInv'
<1>1. ASSUME NEW u \in Tokens, u # t, NEW n \in Names, Token!Alone(u, n)' PROVE BoundAt(u, n)'
  <2>1. Token!Alone(u, n) /\ bindings'[n] = bindings[n]
    BY <1>1, TokenApart
  <2>2. BoundAt(u, n)
    BY <2>1 DEF Token!BoundInv, BoundAt
  <2>3. Token!Keeps(u, bindings[n]) => Token!Keeps(u, bindings[n])'
    BY <1>1, <2>1, TokenOthers DEF Token!Keeps
  <2>4. /\ call'[u] = call[u] /\ Token!NameOf(u)' = Token!NameOf(u)
        /\ Token!Admin(u)' = Token!Admin(u)
    BY <1>1, TokenOthers
  <2>5. QED
    BY <2>1, <2>2, <2>3, <2>4 DEF BoundAt
<1>2. ASSUME NEW n \in Names, Token!Alone(t, n)', bindings'[n] # None PROVE Token!Keeps(t, bindings[n])'
  <2>1. CASE bindings'[n] # bindings[n]
    BY <1>2, <2>1, TokenBinds
  <2>2. CASE bindings'[n] = bindings[n]
    <3>1. Token!Alone(t, n)
      BY <1>2, TokenAlone
    <3>2. Token!Keeps(t, bindings[n]) /\ bindings[n] \in Account /\ Token!Name(bindings[n]) = n
      BY <1>2, <2>2, <3>1 DEF Token!BoundInv, Token!NamedInv, Token!TypeOK
    <3>3. PICK a \in Account : a = bindings[n]
      BY <3>2
    <3>4. Token!Keeps(t, a)
      BY <3>2, <3>3
    <3>5. Token!Keeps(t, a)' \/ (a = Token!AccountOf(t) /\ bindings'[Token!NameOf(t)] = None)
      BY <3>4, TokenKeeps
    <3>6. Token!Keeps(t, a)'
      BY <1>2, <3>2, <3>3, <3>5 DEF Token!NameOf
    <3>7. QED
      BY <2>2, <3>3, <3>6 DEF Token!Keeps
  <2>3. QED
    BY <2>1, <2>2
<1>3. ASSUME NEW n \in Names, Token!Alone(t, n)',
             call'[t].next = "createToken", Token!NameOf(t)' = n, Token!Admin(t)'
      PROVE  bindings'[n] # None
  <2>1. GoesOn(t)
    <3>1. CASE Token!Edit(t)
      BY <1>3, <3>1 DEF Token!Edit, Token!Quiet
    <3>2. CASE Token!Age(t)
      BY <1>3, <3>2, TokenAged DEF Token!Quiet
    <3>3. CASE Token!Start(t)
      BY <1>3, <3>3, TokenStarting
    <3>4. CASE Issues(t) \/ Stops(t) \/ Deletes(t)
      BY <1>3, <3>4, TokenCallEnds DEF Issues, Stops, Deletes, Token!Quiet
    <3>5. CASE Unbinds(t)
      BY <1>3, <3>5, TokenGoes DEF Unbinds
    <3>6. QED
      BY <3>1, <3>2, <3>3, <3>4, <3>5, TokenKinds
  <2>2. PICK next \in {"createAccount", "getBinding", "createBinding", "createToken"} :
          /\ Token!Goes(t, next)
          /\ next = "createToken" /\ Token!Admin(t) => bindings'[Token!NameOf(t)] # None
    BY <2>1 DEF GoesOn
  <2>3. call'[t].op = call[t].op /\ next = "createToken"
    BY <1>3, <2>2, TokenGoes
  <2>4. Token!Admin(t)' = Token!Admin(t) /\ Token!NameOf(t)' = Token!NameOf(t)
    BY <2>1, <2>3 DEF GoesOn, Token!Admin, Token!NameOf, Token!AccountOf
  <2>5. QED
    BY <1>3, <2>2, <2>3, <2>4
<1>4. ASSUME NEW u \in Tokens, NEW n \in Names, Token!Alone(u, n)' PROVE BoundAt(u, n)'
  <2>1. CASE u = t
    <3>1. bindings'[n] # None => Token!Keeps(t, bindings[n])'
      BY <1>2, <1>4, <2>1
    <3>2. call'[t].next = "createToken" /\ Token!NameOf(t)' = n /\ Token!Admin(t)' => bindings'[n] # None
      BY <1>3, <1>4, <2>1
    <3>3. QED
      BY <2>1, <3>1, <3>2 DEF BoundAt
  <2>2. QED
    BY <1>1, <1>4, <2>1
<1>5. QED
  BY <1>4 DEF Token!BoundInv, BoundAt

(* ----------------------- the tokens: what is granted -------------------- *)

(* What GrantsWhatItSays says of one resource. *)
Granted(t) ==
  Token!Settled(t) /\ Token!Alone(t, Token!Name(instance[t].account)) =>
    /\ accounts[instance[t].account] = instance[t].token
    /\ instance[t].admin =>
         \/ bindings[Token!Name(instance[t].account)] = instance[t].account
         \/ /\ bindings[Token!Name(instance[t].account)] # None
            /\ <<t, bindings[Token!Name(instance[t].account)]>> \in left

LEMMA TokenGrants == Token!GrantsWhatItSays <=> \A t \in Tokens : Granted(t)
BY DEF Token!GrantsWhatItSays, Granted

(* A step that leaves what the state says, and what the cluster has of it.  *)
LEMMA TokenKeepsGrant ==
  ASSUME Token!TypeOK, Token!CallInv, NEW t \in Tokens, Act(t), Granted(t),
         instance'[t] # None =>
           /\ instance[t] # None /\ instance'[t].account = instance[t].account
           /\ instance'[t].token = instance[t].token /\ instance'[t].admin = instance[t].admin
           /\ accounts'[instance[t].account] = accounts[instance[t].account]
           /\ bindings'[Token!Name(instance[t].account)] = bindings[Token!Name(instance[t].account)],
         left \subseteq left', call[t].op = "delete" => call'[t].op = "delete"
  PROVE  Granted(t)'
<1> SUFFICES ASSUME Token!Settled(t)', Token!Alone(t, Token!Name(instance[t].account))'
             PROVE  /\ accounts'[instance'[t].account] = instance'[t].token
                    /\ instance'[t].admin =>
                         \/ bindings'[Token!Name(instance'[t].account)] = instance'[t].account
                         \/ /\ bindings'[Token!Name(instance'[t].account)] # None
                            /\ <<t, bindings'[Token!Name(instance'[t].account)]>> \in left'
  BY DEF Granted
<1>1. instance'[t] # None /\ Token!Settled(t)
  BY DEF Token!Settled
<1>2. Token!Alone(t, Token!Name(instance[t].account))
  <2>1. Token!Alone(t, Token!Name(instance[t].account))' <=>
          \A u \in Tokens \ {t} : <<u, Token!Name(instance[t].account)>> \notin used'
    BY <1>1 DEF Token!Alone
  <2>2. QED
    BY <2>1, TokenOthers DEF Token!Alone
<1>3. QED
  BY <1>1, <1>2 DEF Granted

LEMMA TokenGrantStep ==
  ASSUME Token!TypeOK, Token!CallInv, Token!NamedInv, Token!BoundInv, Token!GrantsWhatItSays,
         NEW t \in Tokens, Act(t)
  PROVE  Token!GrantsWhatItSays'
<1>1. ASSUME NEW u \in Tokens, u # t PROVE Granted(u)'
  <2>1. Granted(u)
    BY TokenGrants
  <2>2. CASE instance[u] = None
    BY <1>1, <2>2, TokenOthers DEF Granted, Token!Settled
  <2>3. CASE instance[u] # None
    <3>1. PICK a \in Account, n \in Names : a = instance[u].account /\ n = Token!Name(a)
      BY <2>3, TokenTypes, TokenName
    <3>2. CASE ~Token!Alone(u, n)'
      BY <1>1, <3>1, <3>2, TokenOthers DEF Granted, Token!Alone
    <3>3. CASE Token!Alone(u, n)'
      <4>1. Token!Alone(u, n) /\ bindings'[n] = bindings[n] /\ accounts'[a] = accounts[a]
        BY <1>1, <3>1, <3>3, TokenApart
      <4>2. /\ call'[u] = call[u] /\ instance'[u] = instance[u]
            /\ \A b : <<u, b>> \in left' <=> <<u, b>> \in left
        BY <1>1, TokenOthers
      <4>3. QED
        BY <2>1, <3>1, <4>1, <4>2 DEF Granted, Token!Settled
    <3>4. QED
      BY <3>2, <3>3
  <2>4. QED
    BY <2>2, <2>3
<1> SUFFICES Granted(t)'
  BY <1>1 DEF Token!GrantsWhatItSays, Granted
<1>2. Granted(t) /\ Token!Called(t)
  BY TokenGrants DEF Token!CallInv
<1>3. CASE instance'[t] = None \/ call'[t].op = "delete" \/ <<t, instance'[t].account>> \in left'
  BY <1>3 DEF Granted, Token!Settled
<1>4. CASE Token!Edit(t)
  BY <1>2, <1>4, TokenKeepsGrant DEF Token!Edit, Token!Cluster
<1>5. CASE Token!Age(t)
  BY <1>2, <1>5, TokenAged, TokenKeepsGrant
<1>6. CASE Token!Start(t)
  BY <1>2, <1>6, TokenStarting, TokenKeepsGrant DEF Token!Quiet
<1>7. CASE GoesOn(t)
  <2>1. PICK next \in {"createAccount", "getBinding", "createBinding", "createToken"} : Token!Goes(t, next)
    BY <1>7 DEF GoesOn
  <2>2. call[t].op # "delete" /\ UNCHANGED <<instance, left>>
    BY <1>7 DEF GoesOn
  <2>3. CASE instance[t] = None
    BY <1>3, <2>2, <2>3
  <2>4. CASE ~Token!Settled(t) \/ ~Token!Alone(t, Token!Name(instance[t].account))
    <3>1. CASE ~Token!Settled(t)
      BY <1>3, <2>2, <3>1 DEF Token!Settled
    <3>2. CASE ~Token!Alone(t, Token!Name(instance[t].account))
      <4>1. used' = used
        BY <1>7 DEF GoesOn
      <4>2. ~Token!Alone(t, Token!Name(instance[t].account))'
        BY <2>2, <3>2, <4>1 DEF Token!Alone
      <4>3. QED
        BY <4>2 DEF Granted
    <3>3. QED
      BY <2>4, <3>1, <3>2
  <2>5. CASE instance[t] # None /\ Token!Settled(t) /\ Token!Alone(t, Token!Name(instance[t].account))
    <3>1. PICK a \in Account, n \in Names : a = instance[t].account /\ n = Token!Name(a)
      BY <2>5, TokenTypes, TokenName
    <3>2. instance[t].token \in 1 .. MaxUids
      BY <2>5, TokenTypes DEF Token!InstanceType
    <3>3. accounts[a] = instance[t].token
      BY <1>2, <2>5, <3>1 DEF Granted
    <3>4. accounts'[a] = accounts[a]
      <4>1. a = Token!AccountOf(t) => accounts[Token!AccountOf(t)] # 0
        BY <3>2, <3>3, TokenConstants
      <4>2. QED
        BY <1>7, <4>1 DEF GoesOn, Token!TypeOK
    <3>5. bindings[n] # None => bindings'[n] = bindings[n]
      BY <1>7 DEF GoesOn, Token!TypeOK
    <3>6. instance[t].admin => bindings[n] # None
      BY <1>2, <2>5, <3>1, TokenConstants DEF Granted
    <3>7. CASE instance[t].admin
      BY <1>2, <2>2, <3>1, <3>4, <3>5, <3>6, <3>7, TokenKeepsGrant
    <3>8. CASE ~instance[t].admin
      BY <2>2, <3>1, <3>3, <3>4, <3>8 DEF Granted
    <3>9. QED
      BY <3>7, <3>8
  <2>6. QED
    BY <2>3, <2>4, <2>5
<1>8. CASE Issues(t)
  <2>1. /\ call[t] # Token!Quiet /\ call'[t] = Token!Quiet /\ instance'[t] # None
        /\ instance'[t].account = Token!AccountOf(t)
        /\ instance'[t].admin = Token!Admin(t)
        /\ instance'[t].token = accounts[Token!AccountOf(t)]
    BY <1>8, TokenIssued
  <2>2. PICK a \in Account, n \in Names : a = Token!AccountOf(t) /\ n = Token!NameOf(t)
    BY <2>1, TokenOwn
  <2>3. n = Token!Name(a)
    BY <2>2 DEF Token!NameOf
  <2>4. UNCHANGED <<accounts, bindings, used>>
    BY <1>8 DEF Issues
  <2>5. ASSUME Token!Alone(t, n)', Token!Admin(t)
        PROVE  bindings'[n] # None /\ (bindings'[n] = a \/ <<t, bindings'[n]>> \in left')
    <3>1. Token!Alone(t, n)
      BY <2>5, TokenAlone
    <3>2. bindings[n] # None
      BY <1>8, <2>2, <2>5, <3>1 DEF Issues, Token!BoundInv
    <3>3. PICK b \in Account : b = bindings[n]
      BY <3>2 DEF Token!TypeOK
    <3>4. Token!Keeps(t, b)
      BY <3>1, <3>2, <3>3 DEF Token!BoundInv
    <3>5. Token!Keeps(t, b)'
      BY <2>4, <3>2, <3>3, <3>4, <2>2, TokenKeeps
    <3>6. QED
      BY <2>1, <2>2, <2>4, <3>2, <3>3, <3>5 DEF Token!Keeps, Token!Quiet
  <2>6. QED
    <3>1. Token!Alone(t, Token!Name(instance[t].account))' => Token!Alone(t, n)'
      BY <2>1, <2>2, <2>3 DEF Token!Alone
    <3>2. accounts'[instance'[t].account] = instance'[t].token
      BY <2>1, <2>4
    <3>3. Token!Name(instance'[t].account) = n
      BY <2>1, <2>2, <2>3
    <3>4. QED
      BY <2>1, <2>2, <2>5, <3>1, <3>2, <3>3 DEF Granted
<1>9. CASE Stops(t)
  <2>1. UNCHANGED <<accounts, bindings>> /\ left' = left \cup {<<t, Token!AccountOf(t)>>}
    BY <1>9 DEF Stops
  <2>2. CASE instance' # instance
    BY <1>3, <1>9, <2>2 DEF Stops, Token!TypeOK
  <2>3. CASE instance' = instance /\ call[t].op = "delete"
    <3>1. Token!AccountOf(t) = instance[t].account
      BY <2>3 DEF Token!AccountOf
    <3>2. QED
      BY <1>3, <2>1, <2>3, <3>1
  <2>4. CASE instance' = instance /\ call[t].op # "delete"
    <3>1. instance'[t] = instance[t] /\ left \subseteq left'
      BY <2>1, <2>4
    <3>2. QED
      BY <1>2, <2>1, <2>4, <3>1, TokenKeepsGrant
  <2>5. QED
    BY <2>2, <2>3, <2>4
<1>10. CASE Unbinds(t)
  <2>1. call'[t].op = "delete"
    BY <1>10, TokenGoes DEF Unbinds
  <2>2. QED
    BY <1>3, <2>1
<1>11. CASE Deletes(t)
  BY <1>3, <1>11 DEF Deletes, Token!TypeOK
<1>12. QED
  BY <1>4, <1>5, <1>6, <1>7, <1>8, <1>9, <1>10, <1>11, TokenKinds

(* --------------------- the tokens: what is in the cluster --------------- *)

(* A resource holds an account until Delete has deleted it.                 *)
LEMMA TokenHolds ==
  ASSUME Token!TypeOK, Token!CallInv, NEW t \in Tokens, Act(t), NEW a \in Account, Token!Holds(t, a)
  PROVE  Token!Holds(t, a)' \/ accounts'[a] = 0
<1>1. Token!Called(t)
  BY DEF Token!CallInv
<1>2. CASE Token!Edit(t)
  BY <1>2 DEF Token!Edit, Token!Holds
<1>3. CASE Token!Age(t)
  BY <1>3, TokenAged DEF Token!Holds
<1>4. CASE Token!Start(t)
  BY <1>4, TokenStarting DEF Token!Holds
<1>5. CASE GoesOn(t) \/ Unbinds(t)
  <2>1. PICK next \in {"createAccount", "getBinding", "createBinding", "createToken", "deleteAccount"} :
          Token!Goes(t, next)
    BY <1>5 DEF GoesOn, Unbinds
  <2>2. call'[t].op = call[t].op /\ call'[t] # Token!Quiet /\ UNCHANGED <<account, instance>>
    <3>1. call'[t].op = call[t].op
      BY <2>1, TokenGoes
    <3>2. call[t].op # "none" /\ UNCHANGED <<account, instance>>
      BY <1>5 DEF GoesOn, Unbinds
    <3>3. QED
      BY <3>1, <3>2 DEF Token!Quiet
  <2>3. Token!AccountOf(t)' = Token!AccountOf(t)
    BY <2>2 DEF Token!AccountOf
  <2>4. left \ {<<t, Token!AccountOf(t)>>} \subseteq left'
    BY <1>5 DEF GoesOn, Unbinds
  <2>5. QED
    BY <2>2, <2>3, <2>4 DEF Token!Holds
<1>6. CASE Issues(t)
  <2>1. instance'[t] # None /\ instance'[t].account = Token!AccountOf(t)
    BY <1>6, TokenIssued
  <2>2. CASE a = Token!AccountOf(t)
    BY <2>1, <2>2 DEF Token!Holds
  <2>3. CASE a # Token!AccountOf(t)
    <3>1. CASE <<t, a>> \in left
      BY <1>6, <2>3, <3>1 DEF Issues, Token!Holds
    <3>2. CASE instance[t] # None /\ instance[t].account = a
      <4>1. call[t].op = "update"
        BY <1>1, <1>6, <2>3, <3>2 DEF Issues, Token!Called, Token!AccountOf
      <4>2. <<t, a>> \in Token!Moved(t)
        BY <2>3, <3>2, <4>1 DEF Token!Moved, Token!AccountOf
      <4>3. QED
        BY <1>6, <4>2 DEF Issues, Token!Holds
    <3>3. QED
      BY <2>3, <3>1, <3>2 DEF Token!Holds
  <2>4. QED
    BY <2>2, <2>3
<1>7. CASE Stops(t)
  <2>1. CASE <<t, a>> \in left \/ a = Token!AccountOf(t)
    BY <1>7, <2>1 DEF Stops, Token!Holds
  <2>2. CASE instance[t] # None /\ instance[t].account = a /\ a # Token!AccountOf(t)
    <3>1. call[t].op \in {"create", "update"}
      BY <2>2 DEF Token!AccountOf
    <3>2. instance' = instance
      BY <1>7, <3>1 DEF Stops
    <3>3. QED
      BY <2>2, <3>2 DEF Token!Holds
  <2>3. QED
    BY <2>1, <2>2 DEF Token!Holds
<1>8. CASE Deletes(t)
  <2>1. Token!AccountOf(t) = instance[t].account
    BY <1>8 DEF Deletes, Token!AccountOf
  <2>2. CASE <<t, a>> \in left
    BY <1>8, <2>2 DEF Deletes, Token!Holds
  <2>3. CASE a = Token!AccountOf(t)
    BY <1>8, <2>3 DEF Deletes, Token!TypeOK
  <2>4. QED
    BY <2>1, <2>2, <2>3 DEF Token!Holds
<1>9. QED
  BY <1>2, <1>3, <1>4, <1>5, <1>6, <1>7, <1>8, TokenKinds

(* An account that a step makes is held by the RPC that makes it. *)
LEMMA TokenMakes ==
  ASSUME Token!TypeOK, Token!CallInv, NEW t \in Tokens, Act(t),
         NEW a \in Account, accounts'[a] # accounts[a], accounts'[a] # 0
  PROVE  Token!Holds(t, a)'
<1>1. call[t] # Token!Quiet /\ a = Token!AccountOf(t)
  BY TokenCluster
<1>2. GoesOn(t)
  <2>1. ~Token!Edit(t) /\ ~Token!Age(t) /\ ~Token!Start(t)
    BY <1>1, TokenAged, TokenStarting DEF Token!Edit
  <2>2. ~Issues(t) /\ ~Stops(t) /\ ~Unbinds(t)
    BY DEF Issues, Stops, Unbinds
  <2>3. ~Deletes(t)
    BY <1>1 DEF Deletes, Token!TypeOK
  <2>4. QED
    BY <2>1, <2>2, <2>3, TokenKinds
<1>3. PICK next \in {"createAccount", "getBinding", "createBinding", "createToken"} : Token!Goes(t, next)
  BY <1>2 DEF GoesOn
<1>4. call'[t].op = call[t].op /\ call'[t] # Token!Quiet /\ UNCHANGED <<account, instance>>
  <2>1. call'[t].op = call[t].op
    BY <1>3, TokenGoes
  <2>2. call[t].op # "none" /\ UNCHANGED <<account, instance>>
    BY <1>2 DEF GoesOn
  <2>3. QED
    BY <2>1, <2>2 DEF Token!Quiet
<1>5. QED
  BY <1>1, <1>4 DEF Token!Holds, Token!AccountOf

(* Both parts of LeavesNothing: the first goes through the steps, the       *)
(* second is what is kept.                                                  *)
LEMMA TokenLeavesStep ==
  ASSUME Token!TypeOK, Token!CallInv, Token!NamedInv, Token!BindingsKept, Token!LeavesNothing,
         NEW t \in Tokens, Act(t)
  PROVE  Token!LeavesNothing'
<1>1. ASSUME NEW a \in Account, accounts'[a] # 0 PROVE \E u \in Tokens : Token!Holds(u, a)'
  <2>1. CASE accounts'[a] # accounts[a]
    BY <1>1, <2>1, TokenMakes
  <2>2. CASE accounts'[a] = accounts[a]
    <3>1. PICK u \in Tokens : Token!Holds(u, a)
      BY <1>1, <2>2 DEF Token!LeavesNothing
    <3>2. CASE u # t
      BY <3>1, <3>2, TokenOthers DEF Token!Holds
    <3>3. CASE u = t
      BY <1>1, <3>1, <3>3, TokenHolds
    <3>4. QED
      BY <3>2, <3>3
  <2>3. QED
    BY <2>1, <2>2
<1>2. ASSUME NEW n \in Names, bindings'[n] # None
      PROVE  \E u \in Tokens, a \in Account : Token!Name(a) = n /\ Token!Holds(u, a)'
  <2>1. PICK u \in Tokens, a \in Account : Token!Name(a) = n /\ Token!Keeps(u, a)'
    BY <1>2, TokenKeptStep DEF Token!BindingsKept
  <2>2. Token!Holds(u, a)'
    BY <2>1 DEF Token!Keeps, Token!Holds, Token!AccountOf, Token!Quiet
  <2>3. QED
    BY <2>1, <2>2
<1>3. QED
  BY <1>1, <1>2 DEF Token!LeavesNothing

(* ------------------- the tokens: the inductive invariant ---------------- *)

LEMMA TokenStart ==
  ASSUME account \in Layouts, wanted \in [Tokens -> BOOLEAN \cup {None}], Token!Unmade
  PROVE  Token!IInv
<1> USE TokenConstants DEF Token!Unmade
<1>1. Token!TypeOK
  BY DEF Token!TypeOK, Token!Quiet, Token!CallType
<1>2. Token!CallInv
  BY DEF Token!CallInv, Token!Called, Token!Seen, Token!Quiet
<1>3. Token!NamedInv /\ Token!BindingsKept
  BY DEF Token!NamedInv, Token!BindingsKept
<1>4. Token!BoundInv
  BY DEF Token!BoundInv, Token!Quiet
<1>5. Token!GrantsWhatItSays
  BY DEF Token!GrantsWhatItSays, Token!Settled
<1>6. Token!LeavesNothing
  BY DEF Token!LeavesNothing
<1>7. QED
  BY <1>1, <1>2, <1>3, <1>4, <1>5, <1>6 DEF Token!IInv

LEMMA TokenInductive == Token!IInv /\ [Token!Next]_tokenVars => Token!IInv'
<1>1. ASSUME Token!IInv, Token!Next PROVE Token!IInv'
  <2>1. PICK t \in Tokens : Act(t)
    BY <1>1 DEF Token!Next, Act
  <2>2. Token!TypeOK' /\ Token!CallInv' /\ Token!NamedInv' /\ Token!BoundInv'
    BY <1>1, <2>1, TokenTypeStep, TokenCallStep, TokenNamedStep, TokenBoundStep DEF Token!IInv
  <2>3. Token!GrantsWhatItSays' /\ Token!BindingsKept' /\ Token!LeavesNothing'
    BY <1>1, <2>1, TokenGrantStep, TokenKeptStep, TokenLeavesStep DEF Token!IInv
  <2>4. QED
    BY <2>2, <2>3 DEF Token!IInv
<1>2. ASSUME Token!IInv, UNCHANGED tokenVars PROVE Token!IInv'
  <2> USE <1>2 DEF tokenVars
  <2>1. Token!TypeOK' /\ Token!CallInv' /\ Token!NamedInv'
    BY DEF Token!IInv, Token!TypeOK, Token!CallInv, Token!Called, Token!Seen, Token!NamedInv, Token!NameOf,
           Token!AccountOf
  <2>2. Token!BoundInv' /\ Token!BindingsKept'
    BY DEF Token!IInv, Token!BoundInv, Token!BindingsKept, Token!Keeps, Token!Alone, Token!NameOf,
           Token!AccountOf, Token!Admin
  <2>3. Token!GrantsWhatItSays' /\ Token!LeavesNothing'
    BY DEF Token!IInv, Token!GrantsWhatItSays, Token!LeavesNothing, Token!Settled, Token!Alone,
           Token!Holds, Token!AccountOf
  <2>4. QED
    BY <2>1, <2>2, <2>3 DEF Token!IInv
<1>3. QED
  BY <1>1, <1>2

-----------------------------------------------------------------------------
(* ------------------------ the release: its types ------------------------ *)

LEMMA HelmConstants ==
  /\ None \notin Helm!PlanType /\ None \notin Helm!Release
  /\ MaxChanges \in Nat /\ MaxFaults \in Nat
BY HelmAssumption DEF Helm!Sensible

LEMMA HelmTypes ==
  ASSUME Helm!TypeOK
  PROVE  /\ plan # None => plan \in Helm!PlanType /\ plan.namespace \in Spaces /\ plan.values \in Values
         /\ saved # None => saved \in Helm!PlanType /\ saved.namespace \in Spaces
BY DEF Helm!TypeOK, Helm!PlanType

(* What Helm records of an install or an upgrade. *)
LEMMA HelmRecords ==
  ASSUME Helm!TypeOK, plan # None, NEW status \in {"pending", "deployed", "failed"},
         Helm!Records(plan.namespace, status)
  PROVE  /\ releases' \in [Spaces -> Helm!Release \cup {None}]
         /\ releases'[plan.namespace] = [status |-> status, values |-> plan.values]
         /\ \A n \in Spaces \ {plan.namespace} : releases'[n] = releases[n]
<1>1. [status |-> status, values |-> plan.values] \in Helm!Release
  BY HelmTypes DEF Helm!Release
<1>2. QED
  BY <1>1, HelmTypes DEF Helm!Records, Helm!TypeOK

LEMMA HelmTypeStep == Helm!TypeOK /\ Helm!RpcInv /\ Helm!Next => Helm!TypeOK'
<1> SUFFICES ASSUME Helm!TypeOK, Helm!RpcInv, Helm!Next PROVE Helm!TypeOK'
  OBVIOUS
<1> USE HelmConstants
<1>1. CASE Helm!ChangePlan
  BY <1>1 DEF Helm!ChangePlan, Helm!TypeOK
<1>2. CASE Helm!Apply
  BY <1>2 DEF Helm!Apply, Helm!StartCreate, Helm!StartUpdate, Helm!StartDelete, Helm!Start, Helm!TypeOK, Helm!Rpc
<1>3. CASE Helm!Read
  BY <1>3, HelmTypes DEF Helm!Read, Helm!Fault, Helm!TypeOK
<1>4. CASE Helm!Crash
  <2>1. releases' \in [Spaces -> Helm!Release \cup {None}]
    BY <1>4, HelmRecords DEF Helm!Crash, Helm!RpcInv, Helm!TypeOK
  <2>2. helmTold' \subseteq Spaces
    BY <1>4, HelmTypes DEF Helm!Crash, Helm!RpcInv, Helm!TypeOK
  <2>3. QED
    BY <1>4, <2>1, <2>2 DEF Helm!Crash, Helm!Fails, Helm!Fault, Helm!TypeOK, Helm!Rpc
<1>5. CASE Helm!InstallBegins \/ Helm!UpgradeBegins
  <2>1. releases' \in [Spaces -> Helm!Release \cup {None}]
    BY <1>5, HelmRecords DEF Helm!InstallBegins, Helm!UpgradeBegins, Helm!RpcInv, Helm!TypeOK
  <2>2. QED
    BY <1>5, <2>1 DEF Helm!InstallBegins, Helm!UpgradeBegins, Helm!Fails, Helm!TypeOK, Helm!Rpc
<1>6. CASE Helm!InstallDone \/ Helm!UpgradeDone
  <2>1. releases' \in [Spaces -> Helm!Release \cup {None}]
    BY <1>6, HelmRecords DEF Helm!InstallDone, Helm!UpgradeDone, Helm!RpcInv
  <2>2. moved' \subseteq Spaces
    BY <1>6, HelmTypes DEF Helm!InstallDone, Helm!UpgradeDone, Helm!RpcInv, Helm!TypeOK
  <2>3. QED
    BY <1>6, <2>1, <2>2 DEF Helm!InstallDone, Helm!UpgradeDone, Helm!TypeOK, Helm!Rpc
<1>7. CASE Helm!InstallFails \/ Helm!UpgradeFails
  <2>1. releases' \in [Spaces -> Helm!Release \cup {None}]
    BY <1>7, HelmRecords DEF Helm!InstallFails, Helm!UpgradeFails, Helm!RpcInv
  <2>2. helmTold' \subseteq Spaces
    BY <1>7, HelmTypes DEF Helm!InstallFails, Helm!UpgradeFails, Helm!RpcInv, Helm!TypeOK
  <2>3. QED
    BY <1>7, <2>1, <2>2 DEF Helm!InstallFails, Helm!UpgradeFails, Helm!Fails, Helm!Fault, Helm!TypeOK, Helm!Rpc
<1>8. CASE Helm!NotCalled
  BY <1>8 DEF Helm!NotCalled, Helm!Fails, Helm!Fault, Helm!TypeOK, Helm!Rpc
<1>9. CASE Helm!Uninstall
  BY <1>9 DEF Helm!Uninstall, Helm!Fails, Helm!TypeOK, Helm!Rpc
<1>10. QED
  BY <1>1, <1>2, <1>3, <1>4, <1>5, <1>6, <1>7, <1>8, <1>9 DEF Helm!Next, Helm!Step

(* ----------------- the release: the other four conjuncts ---------------- *)

LEMMA HelmRpcStep == Helm!RpcInv /\ Helm!Next => Helm!RpcInv'
BY DEF Helm!Next, Helm!Step, Helm!ChangePlan, Helm!Apply, Helm!StartCreate, Helm!StartUpdate,
       Helm!StartDelete, Helm!Start, Helm!Read, Helm!Crash, Helm!InstallBegins, Helm!InstallDone,
       Helm!InstallFails, Helm!NotCalled, Helm!UpgradeBegins, Helm!UpgradeDone, Helm!UpgradeFails,
       Helm!Uninstall, Helm!Fails, Helm!RpcInv

(* What a step may do to a release that is there, or comes. *)
LEMMA HelmAccountedStep ==
  ASSUME Helm!TypeOK, Helm!RpcInv, Helm!Accounted, Helm!Next
  PROVE  Helm!Accounted'
<1> SUFFICES ASSUME NEW n \in Spaces, releases'[n] # None
             PROVE  n \in helmTold' \cup moved' \/ (saved' # None /\ saved'.namespace = n) \/ Helm!Writes(n)'
  BY DEF Helm!Accounted
<1>1. releases[n] # None => n \in helmTold \cup moved \/ (saved # None /\ saved.namespace = n) \/ Helm!Writes(n)
  BY DEF Helm!Accounted
<1>2. CASE Helm!ChangePlan \/ Helm!Apply
  BY <1>1, <1>2 DEF Helm!ChangePlan, Helm!Apply, Helm!StartCreate, Helm!StartUpdate,
                    Helm!StartDelete, Helm!Start, Helm!Writes
<1>3. CASE Helm!Read
  BY <1>1, <1>3 DEF Helm!Read, Helm!Writes
<1>4. CASE Helm!Crash
  <2>1. n \in helmTold \cup moved \/ (saved # None /\ saved.namespace = n) \/ Helm!Writes(n)
    <3>1. CASE Helm!Records(plan.namespace, "deployed") /\ helmRpc \in {"created", "updated"}
      BY <1>1, <3>1, HelmRecords DEF Helm!RpcInv, Helm!Writes
    <3>2. CASE helmRpc = "delete" /\ releases' = [releases EXCEPT ![saved.namespace] = None]
      BY <1>1, <3>2, HelmTypes DEF Helm!RpcInv, Helm!TypeOK
    <3>3. QED
      BY <1>1, <1>4, <3>1, <3>2 DEF Helm!Crash
  <2>2. QED
    BY <1>4, <2>1 DEF Helm!Crash, Helm!Fails, Helm!Writes
<1>5. CASE Helm!InstallBegins \/ Helm!UpgradeBegins
  <2>1. plan # None /\ UNCHANGED <<plan, saved, helmTold, moved>> /\ helmRpc \in {"create", "update"}
    BY <1>5 DEF Helm!InstallBegins, Helm!UpgradeBegins, Helm!RpcInv, Helm!Fails
  <2>2. CASE Helm!Records(plan.namespace, "pending") /\ helmRpc' \in {"created", "updated"}
    <3>1. CASE n = plan.namespace
      BY <2>1, <2>2, <3>1 DEF Helm!Writes
    <3>2. CASE n # plan.namespace
      <4>1. releases'[n] = releases[n]
        BY <2>1, <2>2, <3>2, HelmRecords
      <4>2. QED
        BY <1>1, <2>1, <4>1 DEF Helm!Writes
    <3>3. QED
      BY <3>1, <3>2
  <2>3. CASE Helm!Fails /\ UNCHANGED releases
    BY <1>1, <1>5, <2>3 DEF Helm!InstallBegins, Helm!UpgradeBegins, Helm!Fails, Helm!Writes
  <2>4. QED
    BY <1>5, <2>2, <2>3 DEF Helm!InstallBegins, Helm!UpgradeBegins
<1>6. CASE Helm!InstallDone \/ Helm!UpgradeDone
  <2>1. plan # None /\ Helm!Records(plan.namespace, "deployed")
    BY <1>6 DEF Helm!InstallDone, Helm!UpgradeDone, Helm!RpcInv
  <2>2. CASE n = plan.namespace
    BY <1>6, <2>1, <2>2 DEF Helm!InstallDone, Helm!UpgradeDone
  <2>3. CASE n # plan.namespace
    <3>1. n \in helmTold \cup moved \/ (saved # None /\ saved.namespace = n)
      BY <1>1, <2>1, <2>3, HelmRecords DEF Helm!Writes
    <3>2. QED
      BY <1>6, <2>3, <3>1 DEF Helm!InstallDone, Helm!UpgradeDone, Helm!RpcInv
  <2>4. QED
    BY <2>2, <2>3
<1>7. CASE Helm!InstallFails \/ Helm!UpgradeFails
  <2>1. plan # None /\ Helm!Records(plan.namespace, "failed")
    BY <1>7 DEF Helm!InstallFails, Helm!UpgradeFails, Helm!RpcInv
  <2>2. n \in helmTold \cup moved \/ (saved # None /\ saved.namespace = n) \/ n = plan.namespace
    BY <1>1, <2>1, HelmRecords DEF Helm!Writes
  <2>3. QED
    BY <1>7, <2>2 DEF Helm!InstallFails, Helm!UpgradeFails, Helm!Fails
<1>8. CASE Helm!NotCalled
  BY <1>1, <1>8 DEF Helm!NotCalled, Helm!Fails, Helm!Writes
<1>9. CASE Helm!Uninstall
  BY <1>1, <1>9, HelmTypes DEF Helm!Uninstall, Helm!Fails, Helm!RpcInv, Helm!Writes, Helm!TypeOK
<1>10. QED
  BY <1>2, <1>3, <1>4, <1>5, <1>6, <1>7, <1>8, <1>9 DEF Helm!Next, Helm!Step

LEMMA HelmTellsStep ==
  ASSUME Helm!TypeOK, Helm!RpcInv, Helm!Tells, Helm!Next
  PROVE  Helm!Tells'
<1> SUFFICES ASSUME saved' # None, saved'.namespace \notin helmTold', releases'[saved'.namespace] # None
             PROVE  \/ Helm!Writes(saved.namespace)'
                    \/ releases'[saved'.namespace] = [status |-> "deployed", values |-> saved'.values]
  BY DEF Helm!Tells
<1>1. CASE Helm!ChangePlan \/ Helm!Apply \/ Helm!NotCalled
  BY <1>1 DEF Helm!ChangePlan, Helm!Apply, Helm!StartCreate, Helm!StartUpdate, Helm!StartDelete,
              Helm!Start, Helm!NotCalled, Helm!Fails, Helm!Tells, Helm!Writes
<1>2. CASE Helm!Read
  BY <1>2 DEF Helm!Read
<1>3. CASE Helm!Crash
  <2>1. saved' = saved /\ plan' = plan
    BY <1>3 DEF Helm!Crash, Helm!Fails
  <2>2. CASE helmRpc \in {"created", "updated"}
    <3>1. plan # None /\ helmTold' = helmTold \cup {plan.namespace} /\ saved.namespace # plan.namespace
      BY <1>3, <2>1, <2>2 DEF Helm!Crash, Helm!RpcInv
    <3>2. releases'[saved.namespace] = releases[saved.namespace]
      BY <1>3, <2>1, <2>2, <3>1, HelmTypes, HelmRecords DEF Helm!Crash
    <3>3. QED
      BY <2>1, <3>1, <3>2 DEF Helm!Tells, Helm!Writes
  <2>3. CASE helmRpc \notin {"created", "updated"}
    <3>1. helmTold' = helmTold
      BY <1>3, <2>3 DEF Helm!Crash
    <3>2. releases'[saved.namespace] = releases[saved.namespace]
      BY <1>3, <2>1, <2>3, HelmTypes DEF Helm!Crash, Helm!TypeOK
    <3>3. QED
      BY <2>1, <2>3, <3>1, <3>2 DEF Helm!Tells, Helm!Writes
  <2>4. QED
    BY <2>2, <2>3
<1>4. CASE Helm!InstallBegins
  BY <1>4 DEF Helm!InstallBegins, Helm!Fails, Helm!RpcInv
<1>5. CASE Helm!UpgradeBegins
  <2>1. plan # None /\ saved' = saved /\ plan' = plan /\ helmTold' = helmTold /\ helmRpc = "update"
    BY <1>5 DEF Helm!UpgradeBegins, Helm!RpcInv, Helm!Fails
  <2>2. CASE Helm!Records(plan.namespace, "pending") /\ helmRpc' = "updated"
    <3>1. saved.namespace # plan.namespace => releases'[saved.namespace] = releases[saved.namespace]
      BY <2>1, <2>2, HelmTypes, HelmRecords
    <3>2. QED
      BY <2>1, <2>2, <3>1 DEF Helm!Tells, Helm!Writes
  <2>3. CASE UNCHANGED releases
    BY <2>1, <2>3 DEF Helm!Tells, Helm!Writes
  <2>4. QED
    BY <1>5, <2>2, <2>3 DEF Helm!UpgradeBegins
<1>6. CASE Helm!InstallDone \/ Helm!UpgradeDone
  <2>1. plan # None /\ Helm!Records(plan.namespace, "deployed") /\ saved' = plan
    BY <1>6 DEF Helm!InstallDone, Helm!UpgradeDone, Helm!RpcInv
  <2>2. QED
    BY <2>1, HelmRecords
<1>7. CASE Helm!InstallFails
  BY <1>7 DEF Helm!InstallFails, Helm!Fails, Helm!RpcInv
<1>8. CASE Helm!UpgradeFails
  <2>1. plan # None /\ Helm!Records(plan.namespace, "failed") /\ saved' = saved
        /\ helmTold' = helmTold \cup {plan.namespace}
    BY <1>8 DEF Helm!UpgradeFails, Helm!RpcInv, Helm!Fails
  <2>2. releases'[saved.namespace] = releases[saved.namespace]
    BY <2>1, HelmTypes, HelmRecords
  <2>3. QED
    BY <2>1, <2>2 DEF Helm!Tells, Helm!Writes
<1>9. CASE Helm!Uninstall
  BY <1>9 DEF Helm!Uninstall, Helm!Fails, Helm!Tells, Helm!Writes
<1>10. QED
  BY <1>1, <1>2, <1>3, <1>4, <1>5, <1>6, <1>7, <1>8, <1>9 DEF Helm!Next, Helm!Step

(* Nothing removes the record that an RPC has begun to write. *)
LEMMA HelmWrittenStep ==
  ASSUME Helm!TypeOK, Helm!RpcInv, Helm!Written, Helm!Next
  PROVE  Helm!Written'
<1> SUFFICES ASSUME helmRpc' \in {"created", "updated"}, plan'.namespace \in Spaces
             PROVE  releases'[plan'.namespace] # None
  BY DEF Helm!Written, Helm!Writes
<1>1. CASE Helm!InstallBegins \/ Helm!UpgradeBegins
  <2>1. plan # None /\ plan' = plan /\ Helm!Records(plan.namespace, "pending")
    BY <1>1 DEF Helm!InstallBegins, Helm!UpgradeBegins, Helm!RpcInv, Helm!Fails
  <2>2. [status |-> "pending", values |-> plan.values] \in Helm!Release
    BY <2>1, HelmTypes DEF Helm!Release
  <2>3. QED
    BY <2>1, <2>2, HelmRecords, HelmConstants
<1>2. QED
  BY <1>1 DEF Helm!Next, Helm!Step, Helm!ChangePlan, Helm!Apply, Helm!StartCreate, Helm!StartUpdate,
       Helm!StartDelete, Helm!Start, Helm!Read, Helm!Crash, Helm!InstallDone, Helm!InstallFails,
       Helm!NotCalled, Helm!UpgradeDone, Helm!UpgradeFails, Helm!Uninstall, Helm!Fails

LEMMA HelmStart == Helm!Init => Helm!IInv
BY HelmConstants DEF Helm!Init, Helm!IInv, Helm!TypeOK, Helm!Rpc, Helm!RpcInv, Helm!Accounted, Helm!Tells,
                     Helm!Written, Helm!Writes

LEMMA HelmInductive == Helm!IInv /\ [Helm!Next]_helmVars => Helm!IInv'
<1>1. ASSUME Helm!IInv, Helm!Next PROVE Helm!IInv'
  BY <1>1, HelmTypeStep, HelmRpcStep, HelmAccountedStep, HelmTellsStep, HelmWrittenStep DEF Helm!IInv
<1>2. ASSUME Helm!IInv, UNCHANGED helmVars PROVE Helm!IInv'
  BY <1>2 DEF helmVars, Helm!IInv, Helm!TypeOK, Helm!RpcInv, Helm!Accounted, Helm!Tells, Helm!Written,
              Helm!Writes
<1>3. QED
  BY <1>1, <1>2
-----------------------------------------------------------------------------
(* --------------------- the release: its account is kept ----------------- *)

(* What the ledger sees of the resource. *)
Installed == {n \in Spaces : releases[n] # None}
Tracked == IF saved = None THEN {} ELSE {saved.namespace}
Written == {n \in Spaces : Helm!Writes(n)}
Excused == helmTold \cup moved

LEMMA HelmSees ==
  ASSUME Helm!IInv
  PROVE  /\ helmRpc \in {"created", "updated"} =>
              plan # None /\ plan.namespace \in Installed /\ Written = {plan.namespace}
         /\ helmRpc \notin {"created", "updated"} => Written = {}
         /\ saved # None => saved.namespace \in Spaces /\ Tracked = {saved.namespace}
<1>1. ASSUME helmRpc \in {"created", "updated"}
      PROVE  plan # None /\ plan.namespace \in Installed /\ Written = {plan.namespace}
  <2>1. plan # None /\ plan.namespace \in Spaces
    BY <1>1, HelmTypes DEF Helm!IInv, Helm!RpcInv
  <2>2. QED
    BY <1>1, <2>1 DEF Helm!IInv, Helm!Written, Helm!Writes, Written, Installed
<1>2. QED
  BY <1>1, HelmTypes DEF Helm!IInv, Helm!Writes, Written, Tracked

LEMMA HelmStutters ==
  ASSUME Installed' = Installed, Tracked' = Tracked, Written' = Written, Excused' = Excused
  PROVE  UNCHANGED Helm!Books!vars
BY DEF Installed, Tracked, Written, Excused, Helm!Books!vars

(* What Helm is asked to record in a namespace is there from then on. *)
LEMMA HelmInstalls ==
  ASSUME Helm!TypeOK, plan # None, NEW status \in {"pending", "deployed", "failed"},
         Helm!Records(plan.namespace, status)
  PROVE  Installed' = Installed \cup {plan.namespace} /\ plan.namespace \in Spaces
<1>1. [status |-> status, values |-> plan.values] \in Helm!Release
  BY HelmTypes DEF Helm!Release
<1>2. QED
  BY <1>1, HelmTypes, HelmRecords, HelmConstants DEF Installed

LEMMA HelmLedgerStep == Helm!IInv /\ [Helm!Next]_helmVars => [Helm!Books!Next]_(Helm!Books!vars)
<1> SUFFICES ASSUME Helm!IInv, [Helm!Next]_helmVars PROVE [Helm!Books!Next]_(Helm!Books!vars)
  OBVIOUS
<1>1. Helm!TypeOK /\ Helm!RpcInv
  BY DEF Helm!IInv
<1>2. ASSUME UNCHANGED <<saved, releases, helmTold, moved>>, Written = {}, Written' = {}
      PROVE  UNCHANGED Helm!Books!vars
  BY <1>2, HelmStutters DEF Installed, Tracked, Excused
<1>3. helmRpc' \notin {"created", "updated"} => Written' = {}
  BY DEF Written, Helm!Writes
<1>4. CASE Helm!ChangePlan \/ Helm!Apply \/ Helm!NotCalled
  <2>1. /\ UNCHANGED <<saved, releases, helmTold, moved>>
        /\ helmRpc \notin {"created", "updated"} /\ helmRpc' \notin {"created", "updated"}
    BY <1>4 DEF Helm!ChangePlan, Helm!Apply, Helm!StartCreate, Helm!StartUpdate, Helm!StartDelete,
                Helm!Start, Helm!NotCalled, Helm!Fails
  <2>2. QED
    BY <1>2, <1>3, <2>1, HelmSees
<1>5. CASE Helm!InstallBegins \/ Helm!UpgradeBegins
  <2>1. plan # None /\ UNCHANGED <<plan, saved, helmTold, moved>> /\ helmRpc \in {"create", "update"}
    BY <1>1, <1>5 DEF Helm!InstallBegins, Helm!UpgradeBegins, Helm!RpcInv, Helm!Fails
  <2>2. CASE Helm!Records(plan.namespace, "pending") /\ helmRpc' \in {"created", "updated"}
    <3>1. /\ Installed' = Installed \cup {plan.namespace} /\ plan.namespace \in Spaces
          /\ Written = {} /\ Written' = {plan.namespace} /\ Tracked' = Tracked /\ Excused' = Excused
      BY <1>1, <2>1, <2>2, HelmInstalls, HelmSees DEF Written, Helm!Writes, Tracked, Excused
    <3>2. PICK n \in Spaces : n = plan.namespace
      BY <3>1
    <3>3. Helm!Books!Take(n)
      BY <3>1, <3>2 DEF Helm!Books!Take, Installed, Written, Tracked, Excused
    <3>4. QED
      BY <3>3 DEF Helm!Books!Next
  <2>3. CASE Helm!Fails /\ UNCHANGED releases
    BY <1>2, <1>3, <2>1, <2>3, HelmSees DEF Helm!Fails
  <2>4. QED
    BY <1>5, <2>2, <2>3 DEF Helm!InstallBegins, Helm!UpgradeBegins
<1>6. CASE Helm!InstallDone \/ Helm!UpgradeDone
  <2>1. /\ plan # None /\ Helm!Records(plan.namespace, "deployed") /\ helmRpc \in {"created", "updated"}
        /\ saved' = plan /\ helmRpc' = "none"
    BY <1>1, <1>6 DEF Helm!InstallDone, Helm!UpgradeDone, Helm!RpcInv
  <2>2. /\ Installed' = Installed /\ plan.namespace \in Spaces
        /\ Written = {plan.namespace} /\ Written' = {} /\ Tracked' = {plan.namespace}
    BY <1>1, <1>3, <2>1, HelmInstalls, HelmSees DEF Tracked
  <2>3. Excused' \ {plan.namespace} = (Excused \cup Tracked) \ {plan.namespace}
    <3>1. CASE Helm!InstallDone
      BY <1>1, <3>1 DEF Helm!InstallDone, Helm!RpcInv, Excused, Tracked
    <3>2. CASE Helm!UpgradeDone
      BY <1>1, <3>2 DEF Helm!UpgradeDone, Helm!RpcInv, Excused, Tracked
    <3>3. QED
      BY <1>6, <3>1, <3>2
  <2>4. PICK n \in Spaces : n = plan.namespace
    BY <2>2
  <2>5. Helm!Books!Book(n)
    BY <2>2, <2>3, <2>4 DEF Helm!Books!Book, Installed, Written, Tracked, Excused
  <2>6. QED
    BY <2>5 DEF Helm!Books!Next
<1>7. ASSUME Installed' = Installed, saved' = saved, Written' = {}, Excused' = Excused \cup Written
      PROVE  Helm!Books!Next
  <2>1. Helm!Books!Tell
    BY <1>7 DEF Helm!Books!Tell, Installed, Written, Tracked, Excused
  <2>2. QED
    BY <2>1 DEF Helm!Books!Next
<1>8. CASE Helm!InstallFails \/ Helm!UpgradeFails
  <2>1. /\ plan # None /\ Helm!Records(plan.namespace, "failed") /\ helmRpc \in {"created", "updated"}
        /\ saved' = saved /\ helmRpc' = "none" /\ Excused' = Excused \cup {plan.namespace}
    BY <1>1, <1>8 DEF Helm!InstallFails, Helm!UpgradeFails, Helm!RpcInv, Helm!Fails, Excused
  <2>2. Installed' = Installed /\ Written = {plan.namespace} /\ Written' = {}
    BY <1>1, <1>3, <2>1, HelmInstalls, HelmSees
  <2>3. QED
    BY <1>7, <2>1, <2>2
<1>9. CASE Helm!Crash
  <2>1. saved' = saved /\ helmRpc' = "none" /\ Written' = {} /\ moved' = moved
    BY <1>3, <1>9 DEF Helm!Crash, Helm!Fails
  <2>2. CASE helmRpc \in {"created", "updated"}
    <3>1. plan # None /\ Written = {plan.namespace} /\ plan.namespace \in Installed
      BY <2>2, HelmSees
    <3>2. Installed' = Installed
      BY <1>1, <1>9, <2>2, <3>1, HelmInstalls DEF Helm!Crash, Installed
    <3>3. Excused' = Excused \cup Written
      BY <1>9, <2>1, <2>2, <3>1 DEF Helm!Crash, Excused
    <3>4. QED
      BY <1>7, <2>1, <3>2, <3>3
  <2>3. CASE helmRpc \notin {"created", "updated"}
    <3>1. Written = {} /\ helmTold' = helmTold
      BY <1>9, <2>3, HelmSees DEF Helm!Crash
    <3>2. CASE UNCHANGED releases
      BY <1>2, <2>1, <3>1, <3>2
    <3>3. CASE helmRpc = "delete" /\ releases' = [releases EXCEPT ![saved.namespace] = None]
      <4>1. saved.namespace \in Spaces
        BY <1>1, <3>3, HelmSees DEF Helm!RpcInv
      <4>2. Installed' = Installed \ {saved.namespace}
        BY <1>1, <3>3, <4>1 DEF Installed, Helm!TypeOK
      <4>3. PICK n \in Spaces : n = saved.namespace
        BY <4>1
      <4>4. Helm!Books!Vanish(n)
        BY <2>1, <3>1, <4>2, <4>3 DEF Helm!Books!Vanish, Installed, Written, Tracked, Excused
      <4>5. QED
        BY <4>4 DEF Helm!Books!Next
    <3>4. QED
      BY <1>9, <2>3, <3>2, <3>3 DEF Helm!Crash
  <2>4. QED
    BY <2>2, <2>3
<1>10. ASSUME saved # None, saved' = None, Written = {}, Written' = {},
              Installed' \in {Installed, Installed \ {saved.namespace}},
              Excused' \ {saved.namespace} = Excused \ {saved.namespace},
              saved.namespace \notin Installed' \ Excused'
       PROVE  Helm!Books!Next
  <2>1. saved.namespace \in Spaces /\ Tracked = {saved.namespace} /\ Tracked' = {}
    BY <1>10, HelmSees DEF Tracked
  <2>2. PICK n \in Spaces : n = saved.namespace
    BY <2>1
  <2>3. Helm!Books!Unbook(n)
    BY <1>10, <2>1, <2>2 DEF Helm!Books!Unbook, Installed, Written, Tracked, Excused
  <2>4. QED
    BY <2>3 DEF Helm!Books!Next
<1>11. CASE Helm!Read
  <2>1. /\ saved # None /\ saved' = None /\ Written = {} /\ Written' = {} /\ Installed' = Installed
        /\ moved' = moved
    BY <1>3, <1>11, HelmSees DEF Helm!Read, Installed
  <2>2. \/ saved.namespace \notin Installed /\ Excused' = Excused
        \/ Excused' = Excused \cup {saved.namespace}
    BY <1>11 DEF Helm!Read, Installed, Excused
  <2>3. QED
    BY <1>10, <2>1, <2>2
<1>12. CASE Helm!Uninstall
  <2>1. helmRpc = "delete" /\ saved # None /\ Written = {} /\ moved' = moved /\ helmRpc' = "none"
    BY <1>1, <1>12, HelmSees DEF Helm!Uninstall, Helm!RpcInv, Helm!Fails
  <2>2. CASE releases[saved.namespace] # None
    <3>1. /\ releases' = [releases EXCEPT ![saved.namespace] = None] /\ saved' = None
          /\ helmTold' = helmTold \ {saved.namespace} /\ saved.namespace \in Spaces
      BY <1>12, <2>1, <2>2, HelmSees DEF Helm!Uninstall
    <3>2. Installed' = Installed \ {saved.namespace}
      BY <1>1, <3>1 DEF Installed, Helm!TypeOK
    <3>3. Excused' \ {saved.namespace} = Excused \ {saved.namespace}
      BY <2>1, <3>1 DEF Excused
    <3>4. QED
      BY <1>3, <1>10, <2>1, <3>1, <3>2, <3>3
  <2>3. CASE releases[saved.namespace] = None
    BY <1>2, <1>3, <1>12, <2>1, <2>3 DEF Helm!Uninstall, Helm!Fails
  <2>4. QED
    BY <2>2, <2>3
<1>13. CASE UNCHANGED helmVars
  BY <1>13, HelmStutters DEF helmVars, Installed, Tracked, Written, Excused, Helm!Writes
<1>14. QED
  BY <1>4, <1>5, <1>6, <1>8, <1>9, <1>11, <1>12, <1>13 DEF Helm!Next, Helm!Step
-----------------------------------------------------------------------------
(* -------------------------- the three together -------------------------- *)

MInv == IInv /\ Token!IInv /\ Helm!IInv

LEMMA ManagedStart == ManagedInit => MInv
BY InitInv, TokenStart, HelmStart DEF ManagedInit, MInv

LEMMA ManagedInductive == MInv /\ [ManagedNext]_allVars => MInv'
<1>1. MInv /\ [ManagedNext]_allVars => [Next]_vars /\ [Token!Next]_tokenVars /\ [Helm!Next]_helmVars
  BY DEF ManagedNext, OperationStep, TokenStep, ReleaseStep, allVars
<1>2. IInv /\ [Next]_vars => IInv'
  BY TypeStep, StateStep, RpcStepInv, AccountedStep, TellsStep, DueStep DEF IInv
<1>3. QED
  BY <1>1, <1>2, TokenInductive, HelmInductive DEF MInv

LEMMA ManagedInvariant == ManagedSpec => []MInv
BY ManagedStart, ManagedInductive, PTL DEF ManagedSpec

(* The variables of the three kinds keep to their types, whatever fails.    *)
THEOREM ManagedTypes == ManagedSpec => []TypesOK
<1>1. MInv => TypesOK
  BY DEF MInv, IInv, Token!IInv, Helm!IInv, TypesOK
<1>2. QED
  BY <1>1, ManagedInvariant, PTL

(* The token that the state holds is accepted, and with cluster_admin there *)
(* is a binding, of the account or of one that the resource was moved from, *)
(* of a resource alone at its name: whatever attempts of createToken have   *)
(* failed before, whatever name and namespace Update has changed in place,  *)
(* and whatever the others do (Create, Read, Update).                       *)
THEOREM TokensGrant == ManagedSpec => []GrantsWhatItSays
<1>1. MInv => GrantsWhatItSays
  BY DEF MInv, Token!IInv, GrantsWhatItSays
<1>2. QED
  BY <1>1, ManagedInvariant, PTL

(* An account is in the cluster, and a binding, only while a resource has   *)
(* it, or an RPC is at it, or an RPC at it did not end well or an Update    *)
(* has moved the resource away: Delete leaves nothing else behind, in       *)
(* whichever order creates, updates and destroys interleave.                *)
THEOREM DestroyLeavesNothing == ManagedSpec => []LeavesNothing
<1>1. MInv => LeavesNothing
  BY DEF MInv, Token!IInv, LeavesNothing
<1>2. QED
  BY <1>1, ManagedInvariant, PTL

(* No Helm release is left behind in silence (Create, Read, Update, Delete). *)
THEOREM ReleasesAccounted == ManagedSpec => []ReleaseAccounted
<1>1. MInv => ReleaseAccounted
  BY DEF MInv, Helm!IInv, Helm!Accounted, Helm!Writes, ReleaseAccounted, Helm!ReleaseAccounted
<1>2. QED
  BY <1>1, ManagedInvariant, PTL

(* The state of a release is what is deployed, when no attempt has failed.  *)
THEOREM ReleaseIsTold == ManagedSpec => []StateTellsRelease
<1>1. MInv => StateTellsRelease
  BY DEF MInv, Helm!IInv, Helm!Tells, Helm!Writes, StateTellsRelease, Helm!StateTellsRelease
<1>2. QED
  BY <1>1, ManagedInvariant, PTL

(* A release leaves the state, or the hand of the RPC that writes it, only  *)
(* undone or told of, at every step of Create, Read, Update and Delete.     *)
THEOREM ReleasesKeepTheLedger == ManagedSpec => ReleasesKeepLedger
<1>1. ManagedInit => Helm!Books!Init
  BY DEF ManagedInit, Helm!Init, Helm!Books!Init, Helm!Writes
<1>2. MInv /\ [ManagedNext]_allVars => [Helm!Books!Next]_(Helm!Books!vars)
  BY HelmLedgerStep DEF MInv, ManagedNext, OperationStep, TokenStep, ReleaseStep, allVars
<1>3. QED
  BY <1>1, <1>2, ManagedInvariant, PTL DEF ManagedSpec, ReleasesKeepLedger, Helm!KeepsLedger, Helm!Books!Spec
=============================================================================
