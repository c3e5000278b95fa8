---------------------- MODULE OperationResourceProofs -----------------------
(***************************************************************************)
(* What holds of a rest_operation for any bodies and configurations, any   *)
(* number of attempts, and any faults.                                     *)
(***************************************************************************)
EXTENDS OperationResource, TLAPS

(* ------------------------------ the constants --------------------------- *)

LEMMA Constants ==
  /\ MaxIds \in Nat /\ MaxIds >= 1 /\ MaxTries \in Nat /\ MaxTries >= 1
  /\ MaxChanges \in Nat /\ MaxFaults \in Nat
  /\ \A c \in Configs : /\ c.present \in BOOLEAN
                        /\ c.body \in Bodies /\ c.eph \in Ephs \cup {None}
                        /\ c.methods \in MethodsType
                        /\ c.methods.delete \in {"none", "call", "poll"}
BY ConfigsAssumption, BoundsAssumption DEF ConfigType, MethodsType

(* What is sent is an effect, and an effect is not the absence of one. *)
LEMMA RequestIsEffect == TypeOK => Request \in Effect /\ Request # None
<1> SUFFICES ASSUME TypeOK PROVE Request \in Effect /\ Request # None
  OBVIOUS
<1>1. Request \in Effect
  BY Constants DEF TypeOK, Request, Effect
<1>2. QED
  BY <1>1, NoneAssumption DEF Effect

(* ----------------------------- initial states --------------------------- *)

LEMMA InitInv == Init => IInv
<1> SUFFICES ASSUME Init PROVE IInv
  OBVIOUS
<1>1. TypeOK
  <2>1. state \in StateType /\ rpc \in RpcType
    BY Constants DEF Init, NoState, StateType, Idle, RpcType
  <2>2. remote \in [Ids -> Effect \cup {None}] /\ private \in Ephs \cup {None} /\ told \in SUBSET Ids
    BY DEF Init
  <2>3. made \in 0 .. MaxIds /\ changes \in 0 .. MaxChanges /\ faults \in 0 .. MaxFaults
    BY Constants DEF Init
  <2>4. config \in Configs /\ {dirty, due} \subseteq BOOLEAN
    BY DEF Init
  <2>5. QED
    BY <2>1, <2>2, <2>3, <2>4 DEF TypeOK
<1>2. rpc.op = "none" /\ rpc.at = "idle" /\ rpc.id = 0 /\ rpc = Idle /\ state = NoState
  BY DEF Init, Idle
<1>3. RpcInv
  BY <1>2 DEF RpcInv, Operating
<1>4. StateInv /\ Tells
  BY <1>2 DEF StateInv, Tells
<1>5. Accounted
  BY DEF Init, Accounted, Live
<1>6. DueInv
  BY <1>2 DEF Init, DueInv, Operating
<1>7. QED
  BY <1>1, <1>3, <1>4, <1>5, <1>6 DEF IInv

(* -------------------------------- the types ----------------------------- *)

LEMMA FailsType == TypeOK /\ Fails => rpc' \in RpcType /\ told' \in SUBSET Ids /\ {dirty', due'} \subseteq BOOLEAN
<1> SUFFICES ASSUME TypeOK, Fails
             PROVE  rpc' \in RpcType /\ told' \in SUBSET Ids /\ {dirty', due'} \subseteq BOOLEAN
  OBVIOUS
<1>1. rpc' \in RpcType
  BY Constants DEF Fails, Idle, RpcType
<1>2. told' \in SUBSET Ids
  <2>1. rpc.id \in 0 .. MaxIds /\ told \in SUBSET Ids
    BY DEF TypeOK, RpcType
  <2>2. rpc.id # 0 => rpc.id \in Ids
    BY <2>1, Constants DEF Ids
  <2>3. QED
    BY <2>1, <2>2 DEF Fails
<1>3. dirty' \in BOOLEAN /\ due' \in BOOLEAN
  BY Zenon DEF Fails
<1>4. QED
  BY <1>1, <1>2, <1>3

LEMMA FaultType == ASSUME TypeOK, NEW k, Fault(k) PROVE faults' \in 0 .. MaxFaults
BY Constants DEF TypeOK, Fault

LEMMA RpcTypes ==
  ASSUME TypeOK
  PROVE  /\ Idle \in RpcType
         /\ \A i \in 0 .. MaxIds : [rpc EXCEPT !.at = "poll", !.id = i] \in RpcType
         /\ \A op \in {"create", "update", "delete"} : [Idle EXCEPT !.op = op, !.at = "call"] \in RpcType
         /\ MayRetry => [rpc EXCEPT !.tries = @ + 1] \in RpcType
<1>1. rpc \in RpcType
  BY DEF TypeOK
<1>2. Idle \in RpcType
  BY Constants DEF Idle, RpcType
<1>3. ASSUME NEW op \in {"create", "update", "delete"}
      PROVE  [Idle EXCEPT !.op = op, !.at = "call"] \in RpcType
  BY <1>2 DEF RpcType
<1>4. ASSUME NEW i \in 0 .. MaxIds PROVE [rpc EXCEPT !.at = "poll", !.id = i] \in RpcType
  BY <1>1 DEF RpcType
<1>5. MayRetry => [rpc EXCEPT !.tries = @ + 1] \in RpcType
  BY <1>1, Constants DEF RpcType, MayRetry
<1>6. QED
  BY <1>2, <1>3, <1>4, <1>5

LEMMA CarriesType ==
  ASSUME TypeOK, NEW i \in Ids, Carries(i)
  PROVE  remote' \in [Ids -> Effect \cup {None}] /\ made' \in 0 .. MaxIds
BY RequestIsEffect, Constants DEF TypeOK, Carries, Ids

(* Every step keeps the types. *)
LEMMA TypeStep == TypeOK /\ RpcInv /\ StateInv /\ [Next]_vars => TypeOK'
<1> SUFFICES ASSUME TypeOK, RpcInv, StateInv, [Next]_vars PROVE TypeOK'
  OBVIOUS
<1> USE Constants DEF Outside
<1>1. CASE ChangeConfig
  BY <1>1 DEF ChangeConfig, TypeOK, Alternatives
<1>2. CASE Crash
  BY <1>2, FailsType, FaultType DEF Crash, Fails, TypeOK
<1>3. CASE Apply
  <2>1. ASSUME NEW op \in {"create", "update", "delete"}, Start(op) PROVE TypeOK'
    <3>1. rpc' \in RpcType
      BY <2>1, RpcTypes DEF Start
    <3>2. QED
      BY <2>1, <3>1 DEF Start, TypeOK
  <2>2. CASE DeleteNothing
    BY <2>2 DEF DeleteNothing, TypeOK, NoState, StateType
  <2>3. QED
    BY <1>3, <2>1, <2>2 DEF Apply, StartCreate, StartUpdate, StartDelete
<1>4. CASE RefusedOnce
  <2>1. rpc' \in RpcType
    BY <1>4, RpcTypes DEF RefusedOnce
  <2>2. QED
    BY <1>4, <2>1, FaultType DEF RefusedOnce, TypeOK
<1>5. CASE Refused
  BY <1>5, FailsType, FaultType DEF Refused, Fails, TypeOK
<1>6. CASE AnswerFails
  BY <1>6, FailsType, FaultType DEF AnswerFails, Fails, TypeOK
<1>7. CASE OperationAnswered
  <2> PICK i \in Ids : /\ Carries(i)
                       /\ rpc' = [rpc EXCEPT !.at = "poll", !.id = i]
                       /\ UNCHANGED <<state, private, faults, told, dirty, due>>
    BY <1>7 DEF OperationAnswered
  <2>1. rpc' \in RpcType
    <3>1. i \in 0 .. MaxIds
      BY Constants DEF Ids
    <3>2. QED
      BY <3>1, RpcTypes
  <2>2. QED
    BY <2>1, CarriesType DEF Carries, TypeOK
<1>8. CASE OperationLost
  <2> PICK i \in Ids : /\ Fault("lost")
                       /\ Carries(i)
                       /\ rpc' = IF MayRetry THEN [rpc EXCEPT !.tries = @ + 1] ELSE Idle
                       /\ told' = told \cup {i}
                       /\ dirty' = TRUE
                       /\ due' = TRUE
                       /\ UNCHANGED <<state, private>>
    BY <1>8 DEF OperationLost
  <2>1. rpc' \in RpcType
    BY RpcTypes
  <2>2. told' \in SUBSET Ids
    BY DEF TypeOK
  <2>3. QED
    BY <2>1, <2>2, CarriesType, FaultType DEF Carries, TypeOK
<1>9. CASE OperationDone
  <2>1. rpc.id \in Ids /\ rpc.id \in 0 .. MaxIds
    BY <1>9 DEF OperationDone, RpcInv, TypeOK, RpcType, Ids
  <2>2. state' \in StateType /\ rpc' \in RpcType /\ private' \in Ephs \cup {None}
    BY <1>9, <2>1 DEF OperationDone, TypeOK, StateType, Idle, RpcType
  <2>3. told' \in SUBSET Ids
    <3>1. CASE Rejected
      <4>1. state.id \in Ids
        <5>1. state # NoState /\ state.id \in 0 .. MaxIds
          BY <3>1 DEF Rejected, RpcInv, TypeOK, StateType
        <5>2. QED
          BY <5>1 DEF StateInv, Ids
      <4>2. QED
        BY <1>9, <3>1, <4>1 DEF OperationDone, TypeOK
    <3>2. CASE ~Rejected
      BY <1>9, <3>2 DEF OperationDone, TypeOK
    <3>3. QED
      BY <3>1, <3>2
  <2>4. QED
    BY <1>9, <2>2, <2>3 DEF OperationDone, TypeOK
<1>10. CASE DeleteAnswered
  <2>1. rpc' \in RpcType
    BY <1>10 DEF DeleteAnswered, TypeOK, RpcType
  <2>2. remote' \in [Ids -> Effect \cup {None}]
    BY <1>10 DEF DeleteAnswered, Undoes, TypeOK
  <2>3. QED
    BY <1>10, <2>1, <2>2 DEF DeleteAnswered, Undoes, TypeOK
<1>11. CASE DeleteLost
  <2>1. rpc' \in RpcType
    BY <1>11, RpcTypes DEF DeleteLost
  <2>2. remote' \in [Ids -> Effect \cup {None}]
    BY <1>11 DEF DeleteLost, Undoes, TypeOK
  <2>3. QED
    BY <1>11, <2>1, <2>2, FaultType DEF DeleteLost, Undoes, TypeOK
<1>12. CASE DeleteNotFound
  BY <1>12, FailsType DEF DeleteNotFound, Fails, TypeOK
<1>13. CASE DeleteDone
  BY <1>13 DEF DeleteDone, TypeOK, NoState, StateType, Idle, RpcType
<1>14. CASE UNCHANGED vars
  BY <1>14 DEF vars, TypeOK
<1>15. QED
  BY <1>1, <1>2, <1>3, <1>4, <1>5, <1>6, <1>7, <1>8, <1>9, <1>10, <1>11, <1>12, <1>13, <1>14
     DEF Next, RpcStep, CreateOrUpdate, Delete

(* --------------------------- the RPC in progress ------------------------ *)

LEMMA StateStep == TypeOK /\ RpcInv /\ StateInv /\ [Next]_vars => StateInv'
<1> SUFFICES ASSUME TypeOK, RpcInv, StateInv, [Next]_vars PROVE StateInv'
  OBVIOUS
<1>1. CASE OperationDone
  <2>1. config.body # None
    BY Constants, NoneAssumption DEF TypeOK
  <2>2. QED
    BY <1>1, <2>1 DEF OperationDone, StateInv, RpcInv
<1>2. CASE DeleteDone \/ DeleteNothing
  BY <1>2 DEF DeleteDone, DeleteNothing, StateInv
<1>3. CASE UNCHANGED state
  BY <1>3 DEF StateInv
<1>4. QED
  BY <1>1, <1>2, <1>3
     DEF Next, ChangeConfig, Crash, Apply, StartCreate, StartUpdate, StartDelete, Start, RpcStep,
         CreateOrUpdate, OperationAnswered, OperationLost, Delete, DeleteAnswered, DeleteLost,
         DeleteNotFound, RefusedOnce, Refused, AnswerFails, Fails, vars

(* An RPC that ends leaves RpcInv with nothing to say. *)
LEMMA IdleRpc == rpc' = Idle => RpcInv'
BY DEF Idle, RpcInv, Operating

LEMMA RpcStepInv == TypeOK /\ RpcInv /\ StateInv /\ [Next]_vars => RpcInv'
<1> SUFFICES ASSUME TypeOK, RpcInv, StateInv, [Next]_vars PROVE RpcInv'
  OBVIOUS
<1>1. CASE rpc' = Idle
  BY <1>1, IdleRpc
<1>2. ASSUME NEW op \in {"create", "update", "delete"}, Start(op),
             op # "delete" => config.present,
             op = "create" => state = NoState,
             op # "create" => state # NoState,
             op = "delete" => ~config.present /\ Methods.delete # "none"
      PROVE  RpcInv'
  <2>1. rpc'.op = op /\ rpc'.at = "call" /\ rpc'.id = 0 /\ config' = config /\ state' = state
    BY <1>2 DEF Start, Idle, Outside
  <2>2. QED
    BY <1>2, <2>1 DEF RpcInv, Operating, Methods
<1>3. CASE StartCreate \/ StartUpdate \/ StartDelete
  BY <1>2, <1>3 DEF StartCreate, StartUpdate, StartDelete
<1>4. ASSUME rpc' = [rpc EXCEPT !.tries = @ + 1], rpc.at = "call",
             UNCHANGED <<state, config>>
      PROVE  RpcInv'
  <2>1. rpc'.op = rpc.op /\ rpc'.at = "call" /\ rpc'.id = rpc.id /\ rpc.op # "none"
    BY <1>4 DEF TypeOK, RpcType, RpcInv, Idle
  <2>2. QED
    BY <1>4, <2>1 DEF RpcInv, Operating, Methods
<1>5. CASE RefusedOnce
  BY <1>4, <1>5 DEF RefusedOnce, Outside
<1>6. CASE OperationLost
  BY <1>1, <1>4, <1>6 DEF OperationLost, Carries, Outside
<1>7. CASE DeleteLost
  BY <1>1, <1>4, <1>7 DEF DeleteLost, Undoes, Outside
<1>8. CASE OperationAnswered
  <2> PICK i \in Ids : /\ Carries(i)
                       /\ rpc' = [rpc EXCEPT !.at = "poll", !.id = i]
                       /\ UNCHANGED <<state, private, faults, told, dirty, due>>
    BY <1>8 DEF OperationAnswered
  <2>1. rpc'.op = rpc.op /\ rpc'.at = "poll" /\ rpc'.id = i /\ i # 0
    BY Constants DEF TypeOK, RpcType, Ids
  <2>2. remote'[i] = Request /\ Operating /\ UNCHANGED <<state, config>>
    BY DEF Carries, TypeOK, Outside
  <2>3. QED
    BY <2>1, <2>2 DEF RpcInv, Operating, Request, Methods
<1>9. CASE DeleteAnswered
  <2>1. rpc'.op = "delete" /\ rpc'.at = "poll" /\ rpc'.id = rpc.id /\ rpc.op = "delete" /\ rpc.at = "call"
    BY <1>9 DEF DeleteAnswered, Undoes, TypeOK, RpcType
  <2>2. state.id \in Ids /\ state # NoState
    <3>1. state # NoState /\ state.id \in 0 .. MaxIds
      BY <2>1 DEF RpcInv, TypeOK, StateType
    <3>2. QED
      BY <3>1 DEF StateInv, Ids
  <2>3. remote'[state.id] = None /\ UNCHANGED <<state, config>>
    BY <1>9, <2>2 DEF DeleteAnswered, Undoes, DeleteTarget, TypeOK, Outside
  <2>4. QED
    BY <2>1, <2>2, <2>3 DEF RpcInv, Operating, Methods
<1>10. CASE ChangeConfig \/ DeleteNothing
  <2>1. rpc' = Idle
    BY <1>10 DEF ChangeConfig, DeleteNothing
  <2>2. QED
    BY <2>1, IdleRpc
<1>11. CASE UNCHANGED vars
  BY <1>11 DEF vars, RpcInv, Operating, Request, Methods
<1>12. QED
  BY <1>1, <1>3, <1>5, <1>6, <1>7, <1>8, <1>9, <1>10, <1>11
     DEF Next, Crash, Apply, RpcStep, CreateOrUpdate, OperationDone, Delete, DeleteNotFound,
         DeleteDone, Refused, AnswerFails, Fails

(* ------------------------ every effect is accounted --------------------- *)

LEMMA AccountedStep == TypeOK /\ RpcInv /\ StateInv /\ Accounted /\ [Next]_vars => Accounted'
<1> SUFFICES ASSUME TypeOK, RpcInv, StateInv, Accounted, [Next]_vars PROVE Accounted'
  OBVIOUS
<1>1. ASSUME UNCHANGED <<config, remote, state, told>>, rpc'.id = rpc.id PROVE Accounted'
  BY <1>1 DEF Accounted, Live, Methods
<1>2. CASE ChangeConfig
  BY <1>2 DEF ChangeConfig, Accounted, Live, Methods, Alternatives
<1>3. CASE Fails /\ UNCHANGED <<config, remote>>
  BY <1>3 DEF Fails, Accounted, Live, Methods, Idle
<1>4. CASE DeleteNothing
  BY <1>4 DEF DeleteNothing, Outside, Accounted, Methods
<1>5. CASE StartCreate \/ StartUpdate \/ StartDelete
  BY <1>1, <1>5 DEF StartCreate, StartUpdate, StartDelete, Start, Idle, Outside, TypeOK, RpcType
<1>6. CASE RefusedOnce
  BY <1>1, <1>6 DEF RefusedOnce, Outside, TypeOK, RpcType
<1>7. ASSUME NEW i \in Ids, Carries(i) PROVE Live' \subseteq Live \cup {i} /\ config' = config /\ rpc.id = 0
  <2>1. rpc.id = 0
    BY <1>7 DEF Carries, RpcInv
  <2>2. QED
    BY <1>7, <2>1 DEF Carries, Live, TypeOK, Outside
<1>8. CASE OperationAnswered
  <2> PICK i \in Ids : /\ Carries(i)
                       /\ rpc' = [rpc EXCEPT !.at = "poll", !.id = i]
                       /\ UNCHANGED <<state, private, faults, told, dirty, due>>
    BY <1>8 DEF OperationAnswered
  <2>1. rpc'.id = i
    BY DEF TypeOK, RpcType
  <2>2. Live' \subseteq Live \cup {i} /\ config' = config /\ rpc.id = 0 /\ 0 \notin Live
    BY <1>7, Constants DEF Live, Ids
  <2>3. state' = state /\ told' = told
    OBVIOUS
  <2>4. ASSUME NEW j \in Live', Methods'.delete # "none" PROVE j \in {state.id, i} \cup told
    <3>1. Methods.delete # "none"
      BY <2>2, <2>4 DEF Methods
    <3>2. j \in {state.id, 0, i} \cup told
      BY <2>2, <2>4, <3>1 DEF Accounted
    <3>3. j # 0
      BY <2>4, Constants DEF Live, Ids
    <3>4. QED
      BY <3>2, <3>3
  <2>5. QED
    BY <2>1, <2>3, <2>4 DEF Accounted
<1>9. CASE OperationLost
  <2> PICK i \in Ids : /\ Carries(i)
                       /\ told' = told \cup {i}
                       /\ UNCHANGED <<state, private>>
    BY <1>9 DEF OperationLost
  <2>1. Live' \subseteq Live \cup {i} /\ config' = config /\ rpc.id = 0
    BY <1>7
  <2>2. ASSUME NEW j \in Live', Methods'.delete # "none" PROVE j \in {state.id} \cup told'
    <3>1. j \in {state.id, 0} \cup told \cup {i}
      BY <2>1, <2>2 DEF Accounted, Methods
    <3>2. j # 0
      BY <2>2, Constants DEF Live, Ids
    <3>3. QED
      BY <3>1, <3>2
  <2>3. QED
    BY <2>2 DEF Accounted
<1>10. CASE OperationDone
  <2>1. rpc.op = "create" => state.id = 0
    BY DEF RpcInv, NoState
  <2>2. state'.id = rpc.id /\ rpc'.id = 0 /\ UNCHANGED <<config, remote>>
    BY <1>10 DEF OperationDone, Idle, Outside
  <2>3. ASSUME NEW j \in Live', Methods'.delete # "none" PROVE j \in {state'.id} \cup told'
    <3>1. j \in {state.id, rpc.id} \cup told /\ j # 0
      BY <2>2, <2>3, Constants DEF Accounted, Live, Methods, Ids
    <3>2. CASE j = rpc.id
      BY <2>2, <3>2
    <3>3. CASE j # rpc.id /\ j \in told
      BY <1>10, <3>3 DEF OperationDone
    <3>4. CASE j # rpc.id /\ j = state.id
      BY <1>10, <2>1, <3>1, <3>4 DEF OperationDone, Rejected, Operating
    <3>5. QED
      BY <3>1, <3>2, <3>3, <3>4
  <2>4. QED
    BY <2>3 DEF Accounted
<1>11. ASSUME Undoes PROVE Live' \subseteq Live /\ config' = config
  BY <1>11 DEF Undoes, Live, TypeOK, Outside
<1>12. CASE DeleteAnswered
  <2>1. rpc'.id = rpc.id
    BY <1>12 DEF DeleteAnswered, TypeOK, RpcType
  <2>2. QED
    BY <1>11, <1>12, <2>1 DEF DeleteAnswered, Accounted, Methods
<1>13. CASE DeleteLost
  <2>1. rpc'.id = 0 /\ rpc.id = 0
    BY <1>13 DEF DeleteLost, Undoes, TypeOK, RpcType, RpcInv, Operating, Idle
  <2>2. QED
    BY <1>11, <1>13, <2>1 DEF DeleteLost, Accounted, Methods
<1>14. CASE DeleteDone
  <2>1. rpc.id = 0 /\ rpc'.id = 0 /\ remote[state.id] = None /\ state.id \notin Live
    BY <1>14 DEF DeleteDone, RpcInv, Operating, Idle, Live
  <2>2. UNCHANGED <<config, remote, told>>
    BY <1>14 DEF DeleteDone, Outside
  <2>3. QED
    BY <2>1, <2>2 DEF Accounted, Live, Methods
<1>15. CASE UNCHANGED vars
  BY <1>1, <1>15 DEF vars
<1>16. QED
  BY <1>2, <1>3, <1>4, <1>5, <1>6, <1>8, <1>9, <1>10, <1>12, <1>13, <1>14, <1>15
     DEF Next, Crash, Apply, RpcStep, CreateOrUpdate, Delete, DeleteNotFound, Refused, AnswerFails, Outside

(* ---------------------- the state tells of the effect ------------------- *)

LEMMA TellsStep == TypeOK /\ RpcInv /\ StateInv /\ Tells /\ [Next]_vars => Tells'
<1> SUFFICES ASSUME TypeOK, RpcInv, StateInv, Tells, [Next]_vars PROVE Tells'
  OBVIOUS
<1>1. ASSUME UNCHANGED <<remote, state, private, dirty>>, rpc'.at # "poll" => rpc.at # "poll" PROVE Tells'
  BY <1>1 DEF Tells
<1>2. CASE dirty' \/ state' = NoState
  BY <1>2 DEF Tells
<1>3. CASE ChangeConfig
  BY <1>1, <1>3 DEF ChangeConfig
<1>4. CASE Fails /\ UNCHANGED remote
  <2>1. CASE rpc.at = "poll"
    BY <1>2, <1>4, <2>1 DEF Fails
  <2>2. CASE rpc.at # "poll" /\ ~dirty'
    <3>1. ~dirty
      BY <1>4, <2>2 DEF Fails
    <3>2. QED
      BY <1>4, <2>2, <3>1 DEF Fails, Tells
  <2>3. QED
    BY <1>2, <2>1, <2>2
<1>5. CASE Apply
  <2>1. CASE DeleteNothing
    BY <1>2, <2>1 DEF DeleteNothing
  <2>2. CASE \E op \in {"create", "update", "delete"} : Start(op)
    BY <1>1, <2>2 DEF Start, Idle
  <2>3. QED
    BY <1>5, <2>1, <2>2 DEF Apply, StartCreate, StartUpdate, StartDelete
<1>6. CASE RefusedOnce
  BY <1>1, <1>6 DEF RefusedOnce
<1>7. CASE OperationAnswered \/ DeleteAnswered
  <2>1. rpc'.at = "poll"
    BY <1>7 DEF OperationAnswered, DeleteAnswered, TypeOK, RpcType
  <2>2. QED
    BY <2>1 DEF Tells
<1>8. CASE OperationLost \/ DeleteLost
  BY <1>2, <1>8 DEF OperationLost, DeleteLost
<1>9. CASE OperationDone
  <2>1. remote[rpc.id] = [body |-> config.body, eph |-> config.eph]
    BY <1>9 DEF OperationDone, RpcInv, Request
  <2>2. QED
    BY <1>9, <2>1 DEF OperationDone, Outside, Tells
<1>10. CASE DeleteDone
  BY <1>2, <1>10 DEF DeleteDone
<1>11. CASE UNCHANGED vars
  BY <1>1, <1>11 DEF vars
<1>12. QED
  BY <1>3, <1>4, <1>5, <1>6, <1>7, <1>8, <1>9, <1>10, <1>11
     DEF Next, Crash, RpcStep, CreateOrUpdate, Delete, DeleteNotFound, Refused, AnswerFails

(* ---------------------------- repeated when due ------------------------- *)

LEMMA DueStep == TypeOK /\ RpcInv /\ DueInv /\ [Next]_vars => DueInv'
<1> SUFFICES ASSUME TypeOK, RpcInv, DueInv, [Next]_vars PROVE DueInv'
  OBVIOUS
<1> USE DEF Operating
<1>1. ASSUME UNCHANGED <<config, state, private, due>>, Operating' => Operating PROVE DueInv'
  BY <1>1 DEF DueInv, NothingToPlan, EphemeralDiff
<1>2. CASE due'
  BY <1>2 DEF DueInv
<1>3. CASE ChangeConfig
  BY <1>2, <1>3 DEF ChangeConfig
<1>4. CASE Fails /\ UNCHANGED config
  BY <1>2, <1>4 DEF Fails, Idle, DueInv, NothingToPlan, EphemeralDiff
<1>5. CASE StartCreate \/ StartUpdate
  <2>1. due /\ due' = due
    BY <1>5 DEF StartCreate, StartUpdate, Start, DueInv, NothingToPlan
  <2>2. QED
    BY <1>2, <2>1
<1>6. CASE StartDelete
  BY <1>1, <1>6 DEF StartDelete, Start, Idle, Outside
<1>7. CASE DeleteNothing
  BY <1>7 DEF DeleteNothing, Idle, Outside, DueInv
<1>8. CASE RefusedOnce
  BY <1>1, <1>8 DEF RefusedOnce, Outside, TypeOK, RpcType
<1>9. CASE OperationAnswered
  BY <1>1, <1>9 DEF OperationAnswered, Carries, Outside, TypeOK, RpcType
<1>10. CASE OperationLost
  BY <1>2, <1>10 DEF OperationLost
<1>11. CASE OperationDone
  <2>1. config.present /\ config' = config /\ rpc' = Idle
    BY <1>11 DEF OperationDone, RpcInv, Outside
  <2>2. state'.body = config.body /\ private' = config.eph /\ state'.id # 0
    BY <1>11 DEF OperationDone, RpcInv
  <2>3. QED
    BY <2>1, <2>2 DEF DueInv, NothingToPlan, EphemeralDiff, NoState, Idle
<1>12. CASE DeleteAnswered \/ DeleteLost
  BY <1>1, <1>12 DEF DeleteAnswered, DeleteLost, Undoes, Outside, TypeOK, RpcType, Idle
<1>13. CASE DeleteDone
  <2>1. rpc.op = "delete" /\ rpc' = Idle /\ config' = config
    BY <1>13 DEF DeleteDone, Outside
  <2>2. ~config.present
    BY <2>1 DEF RpcInv
  <2>3. QED
    BY <2>1, <2>2 DEF DueInv, Idle
<1>14. CASE UNCHANGED vars
  BY <1>1, <1>14 DEF vars
<1>15. QED
  BY <1>3, <1>4, <1>5, <1>6, <1>7, <1>8, <1>9, <1>10, <1>11, <1>12, <1>13, <1>14
     DEF Next, Crash, Apply, RpcStep, CreateOrUpdate, Delete, DeleteNotFound, Refused, AnswerFails, Outside

(* ------------------------------ the theorems ---------------------------- *)

LEMMA Inductive == Spec => []IInv
<1>1. IInv /\ [Next]_vars => IInv'
  BY TypeStep, StateStep, RpcStepInv, AccountedStep, TellsStep, DueStep DEF IInv
<1>2. QED
  BY <1>1, InitInv, PTL DEF Spec

(* The variables keep to their types. *)
THEOREM TypeCorrect == Spec => []TypeOK
BY Inductive, PTL DEF IInv

(* No effect of an operation that has a delete_method is forgotten without  *)
(* an error that tells of it (createOrUpdate, Delete).                      *)
THEOREM EffectsTold == Spec => []NoUntoldEffect
<1>1. IInv => NoUntoldEffect
  <2> SUFFICES ASSUME IInv, rpc = Idle, Methods.delete # "none" PROVE Live \subseteq {state.id} \cup told
    BY DEF NoUntoldEffect
  <2>1. Live \subseteq {state.id, 0} \cup told
    BY DEF IInv, Accounted, Idle
  <2>2. 0 \notin Live
    BY Constants DEF Live, Ids
  <2>3. QED
    BY <2>1, <2>2
<1>2. QED
  BY <1>1, Inductive, PTL

(* The state and the private state tell what the API was last given.        *)
THEOREM StateIsTrue == Spec => []StateTellsEffect
<1>1. IInv => StateTellsEffect
  <2> SUFFICES ASSUME IInv, rpc = Idle, ~dirty, state # NoState
               PROVE  state.id \in Live /\ remote[state.id] = [body |-> state.body, eph |-> private]
    BY DEF StateTellsEffect
  <2>1. remote[state.id] = [body |-> state.body, eph |-> private]
    BY DEF IInv, Tells, Idle
  <2>2. state.id \in Ids
    BY Constants DEF IInv, StateInv, TypeOK, StateType, Ids
  <2>3. [body |-> state.body, eph |-> private] # None
    <3>1. state.body \in Bodies /\ private \in Ephs \cup {None}
      BY DEF IInv, StateInv, TypeOK, StateType
    <3>2. [body |-> state.body, eph |-> private] \in [body : Bodies, eph : Ephs \cup {None}]
      BY <3>1
    <3>3. QED
      BY <3>2, NoneAssumption
  <2>4. QED
    BY <2>1, <2>2, <2>3 DEF Live
<1>2. QED
  BY <1>1, Inductive, PTL

(* An unchanged configuration never repeats an operation that has succeeded. *)
THEOREM NeverRepeated == Spec => []OperatesOnlyWhenDue
<1>1. IInv => OperatesOnlyWhenDue
  BY DEF IInv, DueInv, OperatesOnlyWhenDue
<1>2. QED
  BY <1>1, Inductive, PTL

(* --------------------------- the account is kept ------------------------ *)

(* What the ledger sees of the resource. *)
Booked == {state.id} \ {0}
Hand == {rpc.id} \ {0}
Told == IF Methods.delete = "none" THEN Ids ELSE told

LEMMA WhatLedgerSees ==
  ASSUME IInv
  PROVE  /\ Live \subseteq Ids /\ Told \subseteq Ids /\ 0 \notin Ids
         /\ state = NoState => Booked = {}
         /\ state # NoState => state.id \in Ids /\ Booked = {state.id}
         /\ Hand # {} => Operating /\ rpc.at = "poll" /\ rpc.id \in Ids
         /\ rpc.id = 0 \/ rpc.id \in Ids
<1>1. Live \subseteq Ids /\ Told \subseteq Ids /\ 0 \notin Ids
  BY Constants DEF Live, Told, Ids, IInv, TypeOK
<1>2. state.id \in 0 .. MaxIds /\ rpc.id \in 0 .. MaxIds
  BY DEF IInv, TypeOK, StateType, RpcType
<1>3. \A i \in 0 .. MaxIds : i = 0 \/ i \in Ids
  BY Constants DEF Ids
<1>4. state = NoState => Booked = {}
  BY DEF NoState, Booked
<1>5. state # NoState => state.id \in Ids /\ Booked = {state.id}
  BY <1>1, <1>2, <1>3 DEF IInv, StateInv, Booked
<1>6. Hand # {} => Operating /\ rpc.at = "poll" /\ rpc.id \in Ids
  BY <1>2, <1>3 DEF IInv, RpcInv, Hand
<1>7. QED
  BY <1>1, <1>2, <1>3, <1>4, <1>5, <1>6

(* A step that the ledger does not see. *)
SeesNothing == Live' = Live /\ Booked' = Booked /\ Hand' = Hand /\ Told' = Told

LEMMA LedgerStutters ==
  ASSUME SeesNothing
  PROVE  UNCHANGED Books!vars
BY DEF SeesNothing, Booked, Hand, Told, Books!vars

(* The methods do not change, and without a delete_method all is told of.   *)
LEMMA ToldStays == (config' \in Alternatives \/ UNCHANGED config) /\ told' = told => Told' = Told
BY DEF Told, Methods, Alternatives

(* An RPC that fails tells of the effect that it has made. *)
LEMMA FailsLedger ==
  ASSUME IInv, Fails, UNCHANGED <<config, remote>>
  PROVE  Books!Next
<1>1. Live' = Live /\ Booked' = Booked /\ Hand' = {}
  BY DEF Fails, Live, Booked, Hand, Idle
<1>2. Told' = Told \cup Hand
  <2>1. 0 \notin told
    BY Constants DEF IInv, TypeOK, Ids
  <2>2. CASE Methods.delete = "none"
    BY <2>2, WhatLedgerSees DEF Told, Methods, Hand
  <2>3. CASE Methods.delete # "none"
    BY <2>1, <2>3 DEF Fails, Told, Methods, Hand
  <2>4. QED
    BY <2>2, <2>3
<1>3. Books!Tell
  BY <1>1, <1>2 DEF Books!Tell, Booked, Hand, Told
<1>4. QED
  BY <1>3 DEF Books!Next

(* The API has carried the operation out. *)
LEMMA CarriesLedger ==
  ASSUME IInv, NEW i \in Ids, Carries(i)
  PROVE  Live' = Live \cup {i} /\ Hand = {} /\ rpc.id = 0 /\ config' = config
<1>1. Live' = Live \cup {i}
  BY RequestIsEffect DEF Carries, Live, IInv, TypeOK
<1>2. rpc.id = 0
  BY DEF Carries, IInv, RpcInv
<1>3. QED
  BY <1>1, <1>2 DEF Hand, Carries, Outside

(* The effect leaves the state undone, or there is no delete_method. *)
LEMMA UnbookLedger ==
  ASSUME IInv, state # NoState, rpc.id = 0, rpc'.id = 0, state' = NoState,
         UNCHANGED <<config, remote, told>>, state.id \notin Live \/ Methods.delete = "none"
  PROVE  Books!Next
<1>1. /\ Booked = {state.id} /\ Booked' = {} /\ Hand' = Hand /\ Live' = Live /\ Told' = Told
      /\ state.id \in Ids /\ state.id \notin Live' \ Told'
  <2>1. Booked = {state.id} /\ Booked' = {} /\ Hand' = Hand /\ Live' = Live /\ state.id \in Ids
    BY WhatLedgerSees DEF Booked, NoState, Hand, Live
  <2>2. Told' = Told
    BY ToldStays
  <2>3. Methods.delete = "none" => Told = Ids
    BY DEF Told
  <2>4. QED
    BY <2>1, <2>2, <2>3
<1>2. Books!Unbook(state.id)
  BY <1>1 DEF Books!Unbook, Booked, Hand, Told
<1>3. QED
  BY <1>1, <1>2 DEF Books!Next

LEMMA LedgerStep == IInv /\ [Next]_vars => [Books!Next]_(Books!vars)
<1> SUFFICES ASSUME IInv, [Next]_vars PROVE [Books!Next]_(Books!vars)
  OBVIOUS
<1>1. ASSUME UNCHANGED <<state, remote, told>>, config' = config \/ config' \in Alternatives,
             rpc'.id = rpc.id
      PROVE  UNCHANGED Books!vars
  BY <1>1, LedgerStutters, ToldStays DEF SeesNothing, Live, Booked, Hand
<1>2. CASE ChangeConfig
  BY <1>1, <1>2 DEF ChangeConfig
<1>3. CASE Crash \/ Refused \/ AnswerFails \/ DeleteNotFound
  BY <1>3, FailsLedger DEF Crash, Refused, AnswerFails, DeleteNotFound, Outside
<1>4. CASE StartCreate \/ StartUpdate \/ StartDelete
  BY <1>1, <1>4 DEF StartCreate, StartUpdate, StartDelete, Start, Idle, Outside
<1>5. CASE DeleteNothing
  <2>1. rpc.id = 0 /\ rpc'.id = 0
    BY <1>5 DEF DeleteNothing, Idle
  <2>2. QED
    BY <1>5, <2>1, UnbookLedger DEF DeleteNothing, Outside
<1>6. CASE RefusedOnce
  BY <1>1, <1>6 DEF RefusedOnce, Outside, IInv, TypeOK, RpcType
<1>7. CASE OperationAnswered
  <2> PICK i \in Ids : /\ Carries(i)
                       /\ rpc' = [rpc EXCEPT !.at = "poll", !.id = i]
                       /\ UNCHANGED <<state, private, faults, told, dirty, due>>
    BY <1>7 DEF OperationAnswered
  <2>1. rpc'.id = i /\ i # 0
    BY Constants DEF IInv, TypeOK, RpcType, Ids
  <2>2. Live' = Live \cup {i} /\ Hand = {} /\ Hand' = {i} /\ Booked' = Booked /\ Told' = Told
    BY <2>1, CarriesLedger, ToldStays DEF Hand, Booked
  <2>3. Books!Take(i)
    BY <2>2 DEF Books!Take, Hand, Booked, Told
  <2>4. QED
    BY <2>3 DEF Books!Next
<1>8. CASE OperationLost
  <2> PICK i \in Ids : /\ Carries(i)
                       /\ rpc' = IF MayRetry THEN [rpc EXCEPT !.tries = @ + 1] ELSE Idle
                       /\ told' = told \cup {i}
                       /\ state' = state
    BY <1>8 DEF OperationLost
  <2>1. rpc'.id = 0 /\ rpc.id = 0
    BY CarriesLedger DEF IInv, TypeOK, RpcType, Idle
  <2>2. Live' = Live \cup {i} /\ Hand' = Hand /\ Booked' = Booked /\ config' = config
    BY <2>1, CarriesLedger DEF Hand, Booked
  <2>3. Told' = Told \cup {i}
    BY <2>2 DEF Told, Methods
  <2>4. Books!Stray(i)
    BY <2>2, <2>3 DEF Books!Stray, Hand, Booked, Told
  <2>5. QED
    BY <2>4 DEF Books!Next
<1>9. CASE OperationDone
  <2>1. rpc.id \in Ids /\ rpc.id # 0 /\ state'.id = rpc.id /\ rpc'.id = 0
    BY <1>9, WhatLedgerSees DEF OperationDone, IInv, RpcInv, Idle
  <2>2. /\ Hand = {rpc.id} /\ Hand' = {} /\ Booked' = {rpc.id} /\ Live' = Live
        /\ UNCHANGED config
    BY <1>9, <2>1 DEF OperationDone, Outside, Hand, Booked, Live
  <2>3. told' \ {rpc.id} = (told \cup Booked) \ {rpc.id}
    <3>1. CASE rpc.op = "create"
      <4>1. Booked = {} /\ ~Rejected
        BY <3>1, WhatLedgerSees DEF IInv, RpcInv, Rejected
      <4>2. QED
        BY <1>9, <4>1 DEF OperationDone
    <3>2. CASE rpc.op = "update"
      <4>1. Booked = {state.id}
        BY <3>2, WhatLedgerSees DEF IInv, RpcInv
      <4>2. CASE Rejected
        BY <1>9, <4>1, <4>2 DEF OperationDone
      <4>3. CASE ~Rejected
        BY <1>9, <3>2, <4>1, <4>3 DEF OperationDone, Rejected
      <4>4. QED
        BY <4>2, <4>3
    <3>3. QED
      BY <1>9, <3>1, <3>2 DEF OperationDone, Operating
  <2>4. Told' \ {rpc.id} = (Told \cup Booked) \ {rpc.id}
    <3>1. CASE Methods.delete = "none"
      <4>1. Told = Ids /\ Told' = Ids /\ Booked \subseteq Ids
        BY <2>2, <3>1, WhatLedgerSees DEF Told, Methods
      <4>2. QED
        BY <4>1
    <3>2. CASE Methods.delete # "none"
      BY <2>2, <2>3, <3>2 DEF Told, Methods
    <3>3. QED
      BY <3>1, <3>2
  <2>5. Books!Book(rpc.id)
    BY <2>2, <2>4 DEF Books!Book, Hand, Booked, Told
  <2>6. QED
    BY <2>1, <2>5 DEF Books!Next
<1>10. CASE DeleteAnswered \/ DeleteLost
  <2>1. /\ rpc'.id = 0 /\ rpc.id = 0 /\ UNCHANGED <<state, config, told>>
        /\ remote' = [remote EXCEPT ![state.id] = None] /\ state.id \in Ids
    <3>1. Undoes /\ UNCHANGED <<state, told>>
      BY <1>10 DEF DeleteAnswered, DeleteLost
    <3>2. rpc.id = 0 /\ state # NoState
      BY <3>1 DEF Undoes, IInv, RpcInv, Operating
    <3>3. rpc'.id = 0
      BY <1>10, <3>2 DEF DeleteAnswered, DeleteLost, IInv, TypeOK, RpcType, Idle
    <3>4. QED
      BY <3>1, <3>2, <3>3, WhatLedgerSees DEF Undoes, DeleteTarget, Outside
  <2>2. Live' = Live \ {state.id} /\ Hand' = Hand /\ Booked' = Booked /\ Told' = Told
    BY <2>1, ToldStays DEF Live, Hand, Booked, IInv, TypeOK
  <2>3. Books!Vanish(state.id)
    BY <2>2 DEF Books!Vanish, Hand, Booked, Told
  <2>4. QED
    BY <2>1, <2>3 DEF Books!Next
<1>11. CASE DeleteDone
  <2>1. rpc.id = 0 /\ rpc'.id = 0 /\ state # NoState /\ state.id \notin Live
    BY <1>11 DEF DeleteDone, Idle, IInv, RpcInv, Operating, Live
  <2>2. QED
    BY <1>11, <2>1, UnbookLedger DEF DeleteDone, Outside
<1>12. CASE UNCHANGED vars
  BY <1>1, <1>12 DEF vars
<1>13. QED
  BY <1>2, <1>3, <1>4, <1>5, <1>6, <1>7, <1>8, <1>9, <1>10, <1>11, <1>12
     DEF Next, Apply, RpcStep, CreateOrUpdate, Delete

(* EffectsKeepLedger: an effect that is in place is in the state, in the    *)
(* hand of the operation, or told of (as all are without a delete_method);  *)
(* one that the operation replaces under another ID is told of, and a       *)
(* destroy lets go only of an effect that has been undone.                  *)
THEOREM KeepsTheLedger == Spec => EffectsKeepLedger
<1>1. Init => Books!Init
  BY DEF Init, Books!Init, Live, NoState, Idle
<1>2. QED
  BY <1>1, LedgerStep, Inductive, PTL DEF Spec, EffectsKeepLedger, Books!Spec
=============================================================================
