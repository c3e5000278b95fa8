------------------------ MODULE RestResourceProofs --------------------------
(***************************************************************************)
(* The inductive invariants of RestResource, for any configurations, any   *)
(* methods, any faults and any bounds: no object is ever forgotten without *)
(* an error, and what the state says of it is true.                        *)
(***************************************************************************)
EXTENDS RestResource, TLAPS

USE NoneAssumption, ConfigsAssumption, CheckAssumption, BoundsAssumption, FaultsAssumption

(* The constant states and RPCs have their types; 0 is no object's id. *)
LEMMA Constants ==
  /\ NoState \in StateType /\ Idle \in RpcType
  /\ NoState.id = 0 /\ Idle.id = 0 /\ Idle.op = "none" /\ Idle.at = "idle"
  /\ Idle.tries = 0 /\ Idle.adopt = FALSE /\ Idle.new = NoState /\ Idle.pv = None
  /\ Ids \subseteq 0 .. MaxIds /\ 0 \notin Ids
<1>1. 0 \in 0 .. MaxIds /\ 0 \in 0 .. MaxTries
  OBVIOUS
<1>2. NoState \in StateType
  BY <1>1 DEF NoState, StateType
<1>3. Idle \in RpcType
  BY <1>1, <1>2 DEF Idle, RpcType
<1>4. QED
  BY <1>2, <1>3 DEF Ids, Idle, NoState

(* What the plan takes from the configuration leaves the id as it is. *)
LEMMA PlannedType ==
  ASSUME config \in Configs, NEW s \in StateType
  PROVE  Planned(s) \in StateType /\ Planned(s).id = s.id
<1>1. config.body \in Bodies /\ config.patch \in Patches \cup {None} /\ config.force \in BOOLEAN
  BY DEF ConfigType
<1>2. QED
  BY <1>1 DEF Planned, StateType

(* So does a new state of an object that was just made or found. *)
LEMMA PlannedNew ==
  ASSUME config \in Configs, NEW i \in Ids
  PROVE  /\ Planned([NoState EXCEPT !.id = i]) \in StateType
         /\ Planned([NoState EXCEPT !.id = i]).id = i
<1>1. [NoState EXCEPT !.id = i] \in StateType /\ [NoState EXCEPT !.id = i].id = i
  BY Constants DEF StateType, NoState
<1>2. QED
  BY <1>1, PlannedType

(* Moving on leaves everything of the RPC but its place. *)
LEMMA GoType ==
  ASSUME rpc \in RpcType, NEW p \in {"check", "call", "poll", "store", "readback"}, Go(p)
  PROVE  /\ rpc' \in RpcType
         /\ rpc'.at = p
         /\ rpc'.op = rpc.op /\ rpc'.id = rpc.id /\ rpc'.adopt = rpc.adopt /\ rpc'.new = rpc.new
BY DEF RpcType, Go

(* Another attempt counts against the limit and changes nothing else. *)
LEMMA TryType ==
  ASSUME rpc \in RpcType, MayRetry, rpc' = [rpc EXCEPT !.tries = @ + 1]
  PROVE  /\ rpc' \in RpcType
         /\ rpc'.at = rpc.at /\ rpc'.op = rpc.op /\ rpc'.id = rpc.id
         /\ rpc'.adopt = rpc.adopt /\ rpc'.new = rpc.new
<1>1. rpc.tries \in Nat /\ rpc.tries + 1 \in 0 .. MaxTries
  BY DEF RpcType, MayRetry
<1>2. QED
  BY <1>1 DEF RpcType

(* A step that fails at most once keeps within the bound of faults. *)
LEMMA FaultType ==
  ASSUME faults \in 0 .. MaxFaults, NEW k, NoFault \/ Fault(k)
  PROVE  faults' \in 0 .. MaxFaults
BY DEF NoFault, Fault

(* An RPC that has ended owes nothing to what the invariant says of RPCs. *)
LEMMA IdleInv ==
  ASSUME TypeOK', rpc' = Idle, state' = NoState \/ state'.id \in Ids,
         Live' \subseteq {state'.id} \cup excused'
  PROVE  IInv'
<1>1. RpcInv'
  BY Constants DEF RpcInv
<1>2. Accounted'
  BY DEF Accounted
<1>3. QED
  BY <1>1, <1>2 DEF IInv

(* What a step of an RPC that has no effect on the API leaves alone. *)
Frame == UNCHANGED <<config, remote, deleting, made, changes>> /\ faults' \in 0 .. MaxFaults

(* An error that keeps the state keeps the invariant, when it excuses the   *)
(* object that the RPC has made.                                            *)
LEMMA KeepInv ==
  ASSUME IInv, KeepState, config' = config, Live' \subseteq Live, remote' \in [Ids -> Object \cup {None}],
         deleting' \in SUBSET Ids, made' \in 0 .. MaxIds, changes' = changes, faults' \in 0 .. MaxFaults,
         dirty' \in BOOLEAN, excused' \in SUBSET Ids, excused \cup ({rpc.id} \ {0}) \subseteq excused'
  PROVE  IInv'
<1>1. TypeOK'
  BY Constants DEF IInv, TypeOK, KeepState
<1>2. Live' \subseteq {state'.id} \cup excused'
  BY Constants DEF IInv, Accounted, KeepState, Live
<1>3. QED
  BY <1>1, <1>2, IdleInv DEF IInv, RpcInv, KeepState

(* An answer of Create: the object is in the state, or is excused. *)
LEMMA CreateEndsInv ==
  ASSUME IInv, rpc.op = "create", Frame, NEW new \in StateType, NEW failed \in BOOLEAN,
         CreateEnds(new, failed), new = NoState \/ (new.id \in Ids /\ rpc.id \in {0, new.id})
  PROVE  IInv'
<1>1. state = NoState /\ Live \subseteq {rpc.id} \cup excused /\ Live' = Live /\ Live \subseteq Ids
  BY Constants DEF IInv, RpcInv, Accounted, Live, Frame
<1>2. CASE new = NoState
  <2>1. state' = NoState /\ rpc' = Idle /\ private' = None /\ dirty' = dirty
        /\ excused' = (excused \cup {rpc.id}) \ {0}
    BY <1>2, Constants DEF CreateEnds, Save
  <2>2. excused' \in SUBSET Ids
    <3>1. rpc.id \in 0 .. MaxIds /\ excused \subseteq Ids
      BY DEF IInv, TypeOK, RpcType
    <3>2. rpc.id \in {0} \cup Ids
      BY <3>1 DEF Ids
    <3>3. QED
      BY <2>1, <3>1, <3>2
  <2>3. TypeOK'
    BY <2>1, <2>2, Constants DEF IInv, TypeOK, Frame
  <2>4. Live' \subseteq excused'
    BY <1>1, <2>1, Constants
  <2>5. QED
    BY <2>1, <2>3, <2>4, IdleInv
<1>3. CASE new # NoState
  <2> DEFINE new2 == [new EXCEPT !.tainted = failed \/ new.body # config.body]
  <2>1. new2 \in StateType /\ new2.id = new.id
    <3>1. (failed \/ new.body # config.body) \in BOOLEAN
      OBVIOUS
    <3>2. QED
      BY <3>1 DEF StateType
  <2> HIDE DEF new2
  <2>2. new2 # NoState
    BY <2>1, <1>3, Constants
  <2>3. state' = new2 /\ rpc' = Idle /\ private' = rpc.pv /\ dirty' = dirty
        /\ excused' = excused \ {new.id}
    BY <1>3, <2>2 DEF CreateEnds, Save, new2
  <2>4. excused' \in SUBSET Ids /\ private' \in Ephs \cup {None}
    BY <2>3 DEF IInv, TypeOK, RpcType
  <2>5. TypeOK'
    BY <2>1, <2>3, <2>4, Constants DEF IInv, TypeOK, Frame
  <2>6. Live' \subseteq {state'.id} \cup excused'
    BY <1>1, <1>3, <2>1, <2>3, Constants
  <2>7. QED
    BY <1>3, <2>1, <2>3, <2>5, <2>6, IdleInv
<1>4. QED
  BY <1>2, <1>3

(* An answer of Update: the state still speaks of the same object. *)
LEMMA UpdateEndsInv ==
  ASSUME IInv, rpc.op = "update", Frame, NEW new \in StateType, UpdateEnds(new),
         new = NoState \/ new.id = state.id
  PROVE  IInv'
<1>1. state # NoState /\ state.id \in Ids /\ rpc.id = 0 /\ Live' = Live /\ Live \subseteq Ids
      /\ excused' = excused /\ dirty' = dirty
  BY DEF IInv, RpcInv, Live, Frame, UpdateEnds
<1>2. CASE new = NoState
  <2>1. KeepState
    BY <1>2 DEF UpdateEnds
  <2>2. QED
    BY <1>1, <2>1, KeepInv DEF IInv, TypeOK, Frame
<1>3. CASE new # NoState
  <2>1. state' = new /\ rpc' = Idle /\ private' = rpc.pv
    BY <1>3 DEF UpdateEnds, Save
  <2>2. TypeOK'
    BY <1>1, <2>1, Constants DEF IInv, TypeOK, RpcType, Frame
  <2>3. Live' \subseteq {state'.id} \cup excused'
    BY <1>1, <1>3, <2>1, Constants DEF IInv, Accounted
  <2>4. QED
    BY <1>1, <1>3, <2>1, <2>2, <2>3, IdleInv
<1>4. QED
  BY <1>2, <1>3

(* An answer of Read: the object stays in the state, unless it is gone. *)
LEMMA ReadEndsInv ==
  ASSUME IInv, rpc.op = "read", Frame, NEW new \in StateType, ReadEnds(new),
         (new = NoState /\ remote[state.id] = None) \/ new.id = state.id
  PROVE  IInv'
<1>1. state # NoState /\ state.id \in Ids /\ rpc.id = 0 /\ Live' = Live /\ Live \subseteq Ids
      /\ excused' = excused /\ dirty' = dirty
  BY DEF IInv, RpcInv, Live, Frame, ReadEnds
<1>2. state' = new /\ rpc' = Idle /\ private' \in Ephs \cup {None}
  BY DEF ReadEnds, Save, IInv, TypeOK
<1>3. TypeOK'
  BY <1>1, <1>2, Constants DEF IInv, TypeOK, Frame
<1>4. Live' \subseteq {state'.id} \cup excused'
  BY <1>1, <1>2, Constants DEF IInv, Accounted, Live
<1>5. QED
  BY <1>1, <1>2, <1>3, <1>4, IdleInv

(* An answer of Import: the object that is found is tracked from now on. *)
LEMMA ImportEndsInv ==
  ASSUME IInv, rpc.op = "import", Frame, NEW new \in StateType, ImportEnds(new),
         new = NoState \/ new.id \in Ids
  PROVE  IInv'
<1>1. state = NoState /\ rpc.id = 0 /\ Live' = Live /\ Live \subseteq Ids /\ dirty' = dirty
      /\ excused' = excused \ {new.id}
  BY DEF IInv, RpcInv, Live, Frame, ImportEnds
<1>2. CASE new = NoState
  <2>1. KeepState /\ excused' = excused
    BY <1>1, <1>2, Constants DEF ImportEnds, IInv, TypeOK
  <2>2. QED
    BY <1>1, <2>1, KeepInv DEF IInv, TypeOK, Frame
<1>3. CASE new # NoState
  <2>1. state' = new /\ rpc' = Idle /\ private' = None
    BY <1>3 DEF ImportEnds, Save
  <2>2. TypeOK'
    BY <1>1, <2>1, Constants DEF IInv, TypeOK, Frame
  <2>3. Live' \subseteq {state'.id} \cup excused'
    BY <1>1, <1>3, <2>1, Constants DEF IInv, Accounted
  <2>4. QED
    BY <1>3, <2>1, <2>2, <2>3, IdleInv
<1>4. QED
  BY <1>2, <1>3
-----------------------------------------------------------------------------
(* The user, and the world outside the provider: no step of theirs makes an *)
(* object that is neither excused nor in the state.                         *)
LEMMA EnvironmentInv == IInv /\ Environment => IInv'
<1> SUFFICES ASSUME IInv, Environment PROVE IInv'
  OBVIOUS
<1> USE DEF IInv
<1>1. CASE ChangeConfig
  <2>1. TypeOK'
    <3>1. changes' \in 0 .. MaxChanges
      BY <1>1 DEF ChangeConfig, TypeOK
    <3>2. QED
      BY <1>1, <3>1 DEF ChangeConfig, Alternatives, TypeOK
  <2>2. RpcInv' /\ Accounted'
    BY <1>1 DEF ChangeConfig, RpcInv, Accounted, Live
  <2>3. QED
    BY <2>1, <2>2
<1>2. CASE Drift
  <2>1. faults' \in 0 .. MaxFaults
    BY <1>2, FaultType DEF Drift, TypeOK
  <2>2. PICK i \in Live :
          \/ /\ \E b \in Bodies \ {remote[i].body} : remote' = [remote EXCEPT ![i].body = b]
             /\ UNCHANGED deleting
          \/ remote' = [remote EXCEPT ![i] = None] /\ deleting' = deleting \ {i}
    BY <1>2 DEF Drift
  <2>3. i \in Ids /\ remote[i] \in Object
    BY <2>2 DEF Live, TypeOK
  <2>4. remote' \in [Ids -> Object \cup {None}] /\ deleting' \in SUBSET Ids /\ Live' \subseteq Live
    <3>1. CASE remote' = [remote EXCEPT ![i] = None] /\ deleting' = deleting \ {i}
      BY <2>3, <3>1 DEF TypeOK, Live
    <3>2. ASSUME NEW b \in Bodies, remote' = [remote EXCEPT ![i].body = b], UNCHANGED deleting
          PROVE  remote' \in [Ids -> Object \cup {None}] /\ deleting' \in SUBSET Ids /\ Live' \subseteq Live
      <4>1. [remote[i] EXCEPT !.body = b] \in Object
        BY <2>3 DEF Object
      <4>2. remote' = [remote EXCEPT ![i] = [remote[i] EXCEPT !.body = b]]
        BY <3>2
      <4>3. QED
        BY <4>1, <4>2, <3>2, <2>2, <2>3 DEF TypeOK, Live
    <3>3. QED
      BY <2>2, <3>1, <3>2
  <2>5. TypeOK'
    BY <1>2, <2>1, <2>4 DEF Drift, TypeOK
  <2>6. RpcInv' /\ Accounted'
    BY <1>2, <2>4 DEF Drift, RpcInv, Accounted
  <2>7. QED
    BY <2>5, <2>6
<1>3. CASE Foreign
  <2>1. faults' \in 0 .. MaxFaults
    BY <1>3, FaultType DEF Foreign, TypeOK
  <2>2. 1 \in Ids
    BY DEF Ids
  <2>3. remote' \in [Ids -> Object \cup {None}] /\ Live' \subseteq Live \cup {1}
    BY <1>3, <2>2 DEF Foreign, TypeOK, Live
  <2>4. TypeOK'
    BY <1>3, <2>1, <2>2, <2>3 DEF Foreign, TypeOK
  <2>5. RpcInv' /\ Accounted'
    BY <1>3, <2>3 DEF Foreign, RpcInv, Accounted
  <2>6. QED
    BY <2>4, <2>5
<1>4. CASE Vanish
  <2>1. remote' \in [Ids -> Object \cup {None}] /\ deleting' \in SUBSET Ids /\ Live' \subseteq Live
    BY <1>4 DEF Vanish, TypeOK, Live
  <2>2. TypeOK'
    BY <1>4, <2>1 DEF Vanish, TypeOK
  <2>3. RpcInv' /\ Accounted'
    BY <1>4, <2>1 DEF Vanish, RpcInv, Accounted
  <2>4. QED
    BY <2>2, <2>3
<1>5. CASE Crash
  <2>1. faults' \in 0 .. MaxFaults
    BY <1>5, FaultType DEF Crash, TypeOK
  <2>2. excused' = (excused \cup {rpc.id}) \ {0} /\ excused \subseteq Ids /\ rpc.id \in 0 .. MaxIds
    BY <1>5 DEF Crash, TypeOK, RpcType
  <2>3. rpc.id \in {0} \cup Ids /\ 0 \notin Ids
    BY <2>2, Constants DEF Ids
  <2>4. QED
    BY <1>5, <2>1, <2>2, <2>3, KeepInv DEF Crash, TypeOK, Live
<1>6. QED
  BY <1>1, <1>2, <1>3, <1>4, <1>5 DEF Environment

(* The start of an RPC: it finds in the state what it is started for. *)
LEMMA StartInv == IInv /\ (Apply \/ StartRead \/ StartImport) => IInv'
<1> SUFFICES ASSUME IInv, Apply \/ StartRead \/ StartImport PROVE IInv'
  OBVIOUS
<1> USE DEF IInv
<1>1. ASSUME NEW op \in {"create", "read", "update", "delete"},
             NEW place \in {"check", "call", "store", "readback"}, Start(op, place),
             op = "create" => state = NoState /\ place # "readback", op # "create" => state # NoState,
             place = "readback" => op = "read", op = "delete" => place = "call"
      PROVE  IInv'
  <2>1. rpc' \in RpcType /\ rpc'.op = op /\ rpc'.at = place /\ rpc'.id = 0 /\ ~rpc'.adopt
        /\ rpc'.new = state /\ state' = state
    BY <1>1, Constants DEF Start, RpcType, TypeOK
  <2>2. TypeOK'
    BY <1>1, <2>1 DEF Start, TypeOK
  <2>3. RpcInv'
    BY <1>1, <2>1 DEF RpcInv
  <2>4. Accounted'
    BY <1>1, <2>1, Constants DEF Start, Accounted, Live
  <2>5. QED
    BY <2>2, <2>3, <2>4
<1>2. CASE StartCreate
  BY <1>1, <1>2 DEF StartCreate, MustCreate
<1>3. CASE StartRead
  BY <1>1, <1>3 DEF StartRead
<1>4. CASE StartUpdate
  BY <1>1, <1>4 DEF StartUpdate, MustUpdate
<1>5. CASE StartDelete
  BY <1>1, <1>5 DEF StartDelete, MustDelete
<1>6. CASE StartImport
  <2>1. PICK i \in Live : rpc' = [Idle EXCEPT !.op = "import", !.at = "readback", !.new.id = i]
    BY <1>6 DEF StartImport
  <2>2. i \in Ids /\ i \in 0 .. MaxIds
    BY <2>1, Constants DEF Live
  <2>3. [NoState EXCEPT !.id = i] \in StateType /\ [NoState EXCEPT !.id = i].id = i
    BY <2>2, Constants DEF StateType
  <2>4. rpc' = [Idle EXCEPT !.op = "import", !.at = "readback", !.new = [NoState EXCEPT !.id = i]]
    BY <2>1 DEF Idle
  <2>5. rpc' \in RpcType /\ rpc'.op = "import" /\ rpc'.at = "readback" /\ rpc'.id = 0 /\ rpc'.new.id = i
    BY <2>3, <2>4, Constants DEF RpcType
  <2>6. TypeOK'
    BY <1>6, <2>5 DEF StartImport, TypeOK
  <2>7. RpcInv'
    BY <1>6, <2>2, <2>5 DEF StartImport, MustCreate, RpcInv
  <2>8. Accounted'
    BY <1>6, <2>5, Constants DEF StartImport, Accounted, Live, RpcInv
  <2>9. QED
    BY <2>6, <2>7, <2>8
<1>7. QED
  BY <1>2, <1>3, <1>4, <1>5, <1>6 DEF Apply
-----------------------------------------------------------------------------
(* A step of an RPC that goes on and has no effect on the API. *)
LEMMA GoInv ==
  ASSUME IInv, Quiet, remote' = remote, excused' = excused, faults' \in 0 .. MaxFaults,
         dirty' \in BOOLEAN, rpc' \in RpcType, rpc'.op = rpc.op, rpc'.id = rpc.id, RpcInv'
  PROVE  IInv'
<1>1. TypeOK'
  BY DEF IInv, TypeOK, Quiet
<1>2. Accounted'
  BY DEF IInv, Quiet, Accounted, Live
<1>3. QED
  BY <1>1, <1>2 DEF IInv

(* An error before there is anything to save. *)
LEMMA FailsInv ==
  ASSUME IInv, Fails, UNCHANGED <<config, remote, deleting, made, changes>>,
         faults' \in 0 .. MaxFaults
  PROVE  IInv'
<1>1. CASE rpc.op = "create" /\ CreateEnds(NoState, TRUE)
  BY <1>1, CreateEndsInv, Constants DEF Frame
<1>2. CASE rpc.op \in {"update", "delete"} /\ KeepState /\ UNCHANGED excused /\ dirty' \in BOOLEAN
  <2>1. rpc.id = 0
    BY <1>2 DEF IInv, RpcInv
  <2>2. QED
    BY <1>2, <2>1, KeepInv DEF IInv, TypeOK, Live
<1>3. QED
  BY <1>1, <1>2 DEF Fails, IInv, TypeOK

(* Calls that are refused, once or for good, and operations that fail. *)
LEMMA RefusedInv == IInv /\ (RefusedOnce \/ Refused \/ PollFails \/ UpdateNotFound) => IInv'
<1> SUFFICES ASSUME IInv, RefusedOnce \/ Refused \/ PollFails \/ UpdateNotFound PROVE IInv'
  OBVIOUS
<1>1. faults' \in 0 .. MaxFaults
  BY FaultType DEF RefusedOnce, Refused, PollFails, UpdateNotFound, IInv, TypeOK
<1>2. CASE RefusedOnce
  <2>1. /\ rpc' \in RpcType
        /\ rpc'.at = rpc.at /\ rpc'.op = rpc.op /\ rpc'.id = rpc.id
        /\ rpc'.adopt = rpc.adopt /\ rpc'.new = rpc.new
    BY <1>2, TryType DEF RefusedOnce, IInv, TypeOK
  <2>2. RpcInv'
    BY <1>2, <2>1 DEF RefusedOnce, Quiet, IInv, RpcInv
  <2>3. QED
    BY <1>1, <1>2, <2>1, <2>2, GoInv DEF RefusedOnce, IInv, TypeOK
<1>3. CASE Refused \/ PollFails \/ UpdateNotFound
  BY <1>1, <1>3, FailsInv DEF Refused, PollFails, UpdateNotFound
<1>4. QED
  BY <1>2, <1>3

(* What AnswerLost leaves: the RPC as it was, but for its attempts, or no   *)
(* RPC at all.                                                              *)
LEMMA LostType ==
  ASSUME rpc \in RpcType, dirty \in BOOLEAN, AnswerLost
  PROVE  /\ rpc' \in RpcType /\ dirty' \in BOOLEAN /\ state' = state /\ private' = private
         /\ \/ rpc' = Idle
            \/ /\ rpc'.at = rpc.at /\ rpc'.op = rpc.op /\ rpc'.id = rpc.id
               /\ rpc'.adopt = rpc.adopt /\ rpc'.new = rpc.new
<1>1. CASE MayRetry
  BY <1>1, TryType DEF AnswerLost
<1>2. CASE ~MayRetry
  BY <1>2, Constants DEF AnswerLost
<1>3. QED
  BY <1>1, <1>2

(* Steps of Create. *)
LEMMA CreateInv == IInv /\ CreateStep => IInv'
<1> SUFFICES ASSUME IInv, CreateStep PROVE IInv'
  OBVIOUS
<1>1. faults' \in 0 .. MaxFaults
  BY FaultType DEF CreateStep, CheckNotFound, CheckAdopts, CreateAccepted, CreateLost, CreatePolled,
                   IInv, TypeOK
<1>2. CASE CheckNotFound
  <2>1. /\ rpc' \in RpcType /\ rpc'.at = "call"
        /\ rpc'.op = rpc.op /\ rpc'.id = rpc.id /\ rpc'.adopt = rpc.adopt /\ rpc'.new = rpc.new
    BY <1>2, GoType DEF CheckNotFound, IInv, TypeOK
  <2>2. RpcInv'
    BY <1>2, <2>1 DEF CheckNotFound, Doing, Quiet, IInv, RpcInv
  <2>3. QED
    BY <1>1, <1>2, <2>1, <2>2, GoInv DEF CheckNotFound, IInv, TypeOK
<1>3. CASE CheckAdopts
  <2> DEFINE new == Planned([NoState EXCEPT !.id = 1])
  <2>1. new \in StateType /\ new.id = 1
    <3>1. 1 \in Ids
      BY DEF Ids
    <3>2. QED
      BY <3>1, PlannedNew DEF IInv, TypeOK
  <2>2. rpc' = [rpc EXCEPT !.at = "readback", !.adopt = TRUE, !.new = new]
    BY <1>3 DEF CheckAdopts
  <2> HIDE DEF new
  <2>3. /\ rpc' \in RpcType /\ rpc'.at = "readback" /\ rpc'.adopt /\ rpc'.new.id = 1
        /\ rpc'.op = rpc.op /\ rpc'.id = rpc.id
    BY <2>1, <2>2 DEF IInv, TypeOK, RpcType
  <2>4. RpcInv'
    <3>1. 1 \in Ids
      BY DEF Ids
    <3>2. QED
      BY <1>3, <2>3, <3>1 DEF CheckAdopts, Doing, Quiet, IInv, RpcInv
  <2>5. QED
    BY <1>1, <1>3, <2>3, <2>4, GoInv DEF CheckAdopts
<1>4. CASE CreatePolled
  <2> DEFINE new == Planned([NoState EXCEPT !.id = rpc.id])
  <2>1. rpc.id \in Ids /\ rpc.op = "create" /\ ~rpc.adopt
    BY <1>4, Constants DEF CreatePolled, Doing, IInv, RpcInv
  <2>2. new \in StateType /\ new.id = rpc.id
    BY <2>1, PlannedNew DEF IInv, TypeOK
  <2>3. rpc' = [rpc EXCEPT !.at = "readback", !.new = new]
    BY <1>4 DEF CreatePolled
  <2> HIDE DEF new
  <2>4. /\ rpc' \in RpcType /\ rpc'.at = "readback" /\ rpc'.adopt = rpc.adopt /\ rpc'.new.id = rpc.id
        /\ rpc'.op = rpc.op /\ rpc'.id = rpc.id
    BY <2>2, <2>3 DEF IInv, TypeOK, RpcType
  <2>5. RpcInv'
    BY <1>4, <2>1, <2>4 DEF CreatePolled, Quiet, IInv, RpcInv
  <2>6. QED
    BY <1>1, <1>4, <2>4, <2>5, GoInv DEF CreatePolled, IInv, TypeOK
<1>5. CASE CreateLands /\ (CreateAccepted \/ CreateLost)
  <2>1. /\ NewId \in Ids /\ NewId \in 0 .. MaxIds /\ config' = config /\ changes' = changes
        /\ rpc.op = "create" /\ rpc.at = "call" /\ rpc.id = 0 /\ state = NoState
    BY <1>5, Constants DEF CreateLands, Doing, IInv, RpcInv
  <2>2. CreateBody \in Object
    BY DEF CreateBody, Object, ConfigType, IInv, TypeOK
  <2>3. /\ remote' \in [Ids -> Object \cup {None}] /\ deleting' \in SUBSET Ids
        /\ made' \in 0 .. MaxIds /\ Live' \subseteq Live \cup {NewId}
    BY <1>5, <2>1, <2>2 DEF CreateLands, Live, IInv, TypeOK
  <2>4. Live \subseteq excused
    BY <2>1, Constants DEF Live, IInv, Accounted
  <2>5. CASE CreateAccepted
    <3>1. config.eph \in Ephs \cup {None}
      BY DEF ConfigType, IInv, TypeOK
    <3>2. /\ rpc' \in RpcType /\ rpc'.at = "poll" /\ rpc'.id = NewId
          /\ rpc'.op = rpc.op /\ rpc'.adopt = rpc.adopt /\ rpc'.new = rpc.new
      BY <2>1, <2>5, <3>1 DEF CreateAccepted, IInv, TypeOK, RpcType
    <3>3. ~rpc.adopt
      BY <2>1 DEF IInv, RpcInv
    <3>4. TypeOK'
      BY <1>1, <2>1, <2>3, <2>5, <3>2 DEF CreateAccepted, IInv, TypeOK
    <3>5. RpcInv'
      BY <2>1, <2>5, <3>2, <3>3 DEF CreateAccepted, IInv, RpcInv
    <3>6. Accounted'
      BY <2>3, <2>4, <2>5, <3>2 DEF CreateAccepted, Accounted
    <3>7. QED
      BY <3>4, <3>5, <3>6 DEF IInv
  <2>6. CASE CreateLost
    <3>1. /\ rpc' \in RpcType /\ dirty' \in BOOLEAN /\ state' = state /\ private' = private
          /\ \/ rpc' = Idle
             \/ /\ rpc'.at = rpc.at /\ rpc'.op = rpc.op /\ rpc'.id = rpc.id
                /\ rpc'.adopt = rpc.adopt /\ rpc'.new = rpc.new
      BY <2>6, LostType DEF CreateLost, IInv, TypeOK
    <3>2. excused' = excused \cup {NewId}
      BY <2>6 DEF CreateLost
    <3>3. TypeOK'
      BY <1>1, <2>1, <2>3, <3>1, <3>2 DEF IInv, TypeOK
    <3>4. RpcInv'
      BY <2>1, <3>1, Constants DEF IInv, RpcInv
    <3>5. Accounted'
      BY <2>3, <2>4, <3>2 DEF Accounted
    <3>6. QED
      BY <3>3, <3>4, <3>5 DEF IInv
  <2>7. QED
    BY <1>5, <2>5, <2>6
<1>6. QED
  BY <1>2, <1>3, <1>4, <1>5 DEF CreateStep, CreateAccepted, CreateLost

(* Steps of Update. *)
LEMMA UpdateInv == IInv /\ UpdateStep => IInv'
<1> SUFFICES ASSUME IInv, UpdateStep PROVE IInv'
  OBVIOUS
<1>1. faults' \in 0 .. MaxFaults
  BY FaultType DEF UpdateStep, UpdateAccepted, UpdateLost, UpdateNotFound, UpdatePolled, UpdateStored,
                   IInv, TypeOK
<1>2. CASE UpdateNotFound
  BY <1>2, RefusedInv
<1>3. CASE UpdatePolled
  <2>1. /\ rpc' \in RpcType /\ rpc'.at = "store"
        /\ rpc'.op = rpc.op /\ rpc'.id = rpc.id /\ rpc'.adopt = rpc.adopt /\ rpc'.new = rpc.new
    BY <1>3, GoType DEF UpdatePolled, IInv, TypeOK
  <2>2. RpcInv'
    BY <1>3, <2>1 DEF UpdatePolled, Doing, Quiet, IInv, RpcInv
  <2>3. QED
    BY <1>1, <1>3, <2>1, <2>2, GoInv DEF UpdatePolled, IInv, TypeOK
<1>4. CASE UpdateStored
  <2> DEFINE new == Planned(state)
             pv  == IF EphemeralDiff THEN config.eph ELSE None
  <2>1. /\ state.id \in Ids /\ new \in StateType /\ new.id = state.id
        /\ pv \in Ephs \cup {None} /\ rpc.op = "update"
    <3>1. state.id \in Ids /\ rpc.op = "update"
      BY <1>4 DEF UpdateStored, Doing, IInv, RpcInv
    <3>2. new \in StateType /\ new.id = state.id
      BY PlannedType DEF IInv, TypeOK
    <3>3. config.eph \in Ephs \cup {None}
      BY DEF ConfigType, IInv, TypeOK
    <3>4. QED
      BY <3>1, <3>2, <3>3
  <2>2. rpc' = [rpc EXCEPT !.at = "readback", !.new = new, !.pv = pv]
    BY <1>4 DEF UpdateStored
  <2> HIDE DEF new, pv
  <2>3. /\ rpc' \in RpcType /\ rpc'.at = "readback" /\ rpc'.adopt = rpc.adopt
        /\ rpc'.new.id = state.id /\ rpc'.op = rpc.op /\ rpc'.id = rpc.id
    BY <2>1, <2>2 DEF IInv, TypeOK, RpcType
  <2>4. RpcInv'
    BY <1>4, <2>1, <2>3 DEF UpdateStored, Quiet, IInv, RpcInv
  <2>5. QED
    BY <1>1, <1>4, <2>3, <2>4, GoInv DEF UpdateStored, IInv, TypeOK
<1>5. CASE UpdateLands /\ (UpdateAccepted \/ UpdateLost)
  <2>1. /\ config' = config /\ deleting' = deleting /\ made' = made /\ changes' = changes
        /\ excused' = excused /\ rpc.op = "update" /\ rpc.at = "call"
        /\ state # NoState /\ state.id \in Ids /\ remote[state.id] \in Object
    BY <1>5 DEF UpdateLands, Doing, IInv, RpcInv, TypeOK
  <2>2. Updated(remote[state.id]) \in Object
    <3>1. config.body \in Bodies /\ config.patch \in Patches \cup {None} /\ config.eph \in Ephs \cup {None}
      BY DEF ConfigType, IInv, TypeOK
    <3>2. QED
      BY <2>1, <3>1 DEF Updated, Object
  <2>3. remote' \in [Ids -> Object \cup {None}] /\ Live' \subseteq Live
    BY <1>5, <2>1, <2>2 DEF UpdateLands, Live, IInv, TypeOK
  <2>4. /\ rpc' \in RpcType /\ dirty' \in BOOLEAN /\ state' = state /\ private' = private
        /\ \/ rpc' = Idle
           \/ rpc'.op = rpc.op /\ rpc'.id = rpc.id /\ rpc'.new = rpc.new /\ rpc'.at \in {"call", "poll"}
    BY <1>5, <2>1, LostType, GoType DEF UpdateAccepted, UpdateLost, IInv, TypeOK
  <2>5. TypeOK'
    BY <1>1, <2>1, <2>3, <2>4 DEF IInv, TypeOK
  <2>6. RpcInv'
    BY <2>1, <2>4, Constants DEF IInv, RpcInv
  <2>7. Accounted'
    BY <2>1, <2>3, <2>4, Constants DEF IInv, RpcInv, Accounted
  <2>8. QED
    BY <2>5, <2>6, <2>7 DEF IInv
<1>6. QED
  BY <1>2, <1>3, <1>4, <1>5 DEF UpdateStep, UpdateAccepted, UpdateLost

(* Delete answers well only when the object is gone, or a call made it go. *)
LEMMA DeletedInv ==
  ASSUME IInv, rpc.op = "delete", Save(NoState, None), UNCHANGED <<config, made, changes, excused, dirty>>,
         remote' \in [Ids -> Object \cup {None}], Live' \subseteq Live \ {state.id},
         deleting' \in SUBSET Ids, faults' \in 0 .. MaxFaults
  PROVE  IInv'
<1>1. state' = NoState /\ private' = None /\ rpc' = Idle /\ rpc.id = 0
  BY DEF Save, IInv, RpcInv
<1>2. TypeOK'
  BY <1>1, Constants DEF IInv, TypeOK
<1>3. Live' \subseteq {state'.id} \cup excused'
  BY <1>1, Constants DEF IInv, Accounted, Live
<1>4. QED
  BY <1>1, <1>2, <1>3, IdleInv

(* Steps of Delete. *)
LEMMA DeleteInv == IInv /\ DeleteStep => IInv'
<1> SUFFICES ASSUME IInv, DeleteStep PROVE IInv'
  OBVIOUS
<1>1. faults' \in 0 .. MaxFaults
  BY FaultType DEF DeleteStep, DeleteAccepted, DeleteLost, DeleteNotFound, DeleteBusy, DeletePolled,
                   IInv, TypeOK
<1>2. CASE DeleteBusy
  <2>1. /\ rpc' \in RpcType /\ rpc'.at = "poll"
        /\ rpc'.op = rpc.op /\ rpc'.id = rpc.id /\ rpc'.adopt = rpc.adopt /\ rpc'.new = rpc.new
    BY <1>2, GoType DEF DeleteBusy, IInv, TypeOK
  <2>2. RpcInv'
    BY <1>2, <2>1 DEF DeleteBusy, Doing, Quiet, IInv, RpcInv
  <2>3. QED
    BY <1>1, <1>2, <2>1, <2>2, GoInv DEF DeleteBusy, IInv, TypeOK
<1>3. CASE DeleteNotFound \/ DeletePolled
  <2>1. Save(NoState, None) /\ remote[state.id] = None /\ rpc.op = "delete"
        /\ UNCHANGED <<config, remote, deleting, made, changes, excused, dirty>>
    BY <1>3 DEF DeleteNotFound, DeletePolled, Doing, DeleteSucceeds
  <2>2. Live' \subseteq Live \ {state.id}
    BY <2>1 DEF Live
  <2>3. QED
    BY <1>1, <2>1, <2>2, DeletedInv DEF IInv, TypeOK
<1>4. CASE DeleteLands /\ (DeleteAccepted \/ DeleteLost)
  <2>1. /\ config' = config /\ made' = made /\ changes' = changes /\ excused' = excused
        /\ rpc.op = "delete" /\ rpc.at = "call" /\ rpc.id = 0 /\ state # NoState /\ state.id \in Ids
    BY <1>4 DEF DeleteLands, Doing, IInv, RpcInv
  <2>2. /\ remote' \in [Ids -> Object \cup {None}] /\ deleting' \in SUBSET Ids /\ Live' \subseteq Live
        /\ ~PollDelete => Live' \subseteq Live \ {state.id}
    BY <1>4, <2>1 DEF DeleteLands, Live, IInv, TypeOK
  <2>3. CASE Save(NoState, None) /\ ~PollDelete /\ dirty' = dirty
    BY <1>1, <2>1, <2>2, <2>3, DeletedInv
  <2>4. CASE /\ rpc' \in RpcType /\ dirty' \in BOOLEAN /\ state' = state /\ private' = private
             /\ \/ rpc' = Idle
                \/ rpc'.op = rpc.op /\ rpc'.id = rpc.id /\ rpc'.at \in {"call", "poll"}
    <3>1. TypeOK'
      BY <1>1, <2>1, <2>2, <2>4 DEF IInv, TypeOK
    <3>2. RpcInv'
      BY <2>1, <2>4, Constants DEF IInv, RpcInv
    <3>3. Accounted'
      BY <2>1, <2>2, <2>4, Constants DEF IInv, RpcInv, Accounted
    <3>4. QED
      BY <3>1, <3>2, <3>3 DEF IInv
  <2>5. QED
    BY <1>4, <2>1, <2>3, <2>4, LostType, GoType DEF DeleteAccepted, DeleteLost, IInv, TypeOK
<1>5. QED
  BY <1>2, <1>3, <1>4 DEF DeleteStep, DeleteAccepted, DeleteLost

(* Steps of read, with which every other RPC ends as well. *)
LEMMA ReadInv == IInv /\ ReadStep => IInv'
<1> SUFFICES ASSUME IInv, ReadStep PROVE IInv'
  OBVIOUS
<1>1. Frame /\ rpc.at = "readback" /\ rpc.new.id \in Ids /\ rpc.new \in StateType
  BY FaultType DEF ReadStep, ReadNotFound, ReadFails, ReadOk, Frame, IInv, RpcInv, TypeOK, RpcType
<1>2. ASSUME NEW new \in StateType, NEW failed \in BOOLEAN, Ends(new, failed),
             (new = NoState /\ remote[rpc.new.id] = None) \/ new.id = rpc.new.id
      PROVE  IInv'
  <2>1. CASE rpc.op = "create" /\ CreateEnds(new, failed)
    <3>1. rpc.id \in {0, rpc.new.id}
      BY <1>1, <2>1 DEF IInv, RpcInv
    <3>2. QED
      BY <1>1, <1>2, <2>1, <3>1, CreateEndsInv
  <2>2. CASE rpc.op = "update" /\ UpdateEnds(new)
    <3>1. rpc.new.id = state.id
      BY <2>2 DEF IInv, RpcInv
    <3>2. QED
      BY <1>1, <1>2, <2>2, <3>1, UpdateEndsInv
  <2>3. CASE rpc.op = "read" /\ ReadEnds(new)
    <3>1. rpc.new.id = state.id
      BY <2>3 DEF IInv, RpcInv
    <3>2. QED
      BY <1>1, <1>2, <2>3, <3>1, ReadEndsInv
  <2>4. CASE rpc.op = "import" /\ ImportEnds(IF failed THEN NoState ELSE new)
    BY <1>1, <1>2, <2>4, ImportEndsInv, Constants
  <2>5. QED
    BY <1>2, <2>1, <2>2, <2>3, <2>4 DEF Ends
<1>3. CASE ReadNotFound
  BY <1>2, <1>3, Constants DEF ReadNotFound
<1>4. CASE ReadFails
  BY <1>1, <1>2, <1>4 DEF ReadFails
<1>5. CASE ReadOk
  <2> DEFINE o == remote[rpc.new.id]
             body == IF rpc.adopt \/ rpc.op \in {"read", "import"} THEN o.body ELSE rpc.new.body
             out == IF rpc.pv = None THEN o.eph ELSE None
  <2>1. o \in Object
    BY <1>1, <1>5 DEF ReadOk, IInv, TypeOK
  <2>2. o.body \in Bodies /\ o.eph \in Ephs \cup {None} /\ rpc.new.body \in Bodies \cup {None}
    BY <1>1, <2>1 DEF Object, StateType
  <2>3. body \in Bodies \cup {None} /\ out \in Ephs \cup {None}
    BY <2>2
  <2>4. ReadState = [rpc.new EXCEPT !.body = body, !.out = out]
    BY DEF ReadState
  <2> HIDE DEF body, out
  <2>5. ReadState \in StateType /\ ReadState.id = rpc.new.id
    BY <1>1, <2>3, <2>4 DEF StateType
  <2>6. QED
    BY <1>2, <1>5, <2>5 DEF ReadOk
<1>6. QED
  BY <1>3, <1>4, <1>5 DEF ReadStep
-----------------------------------------------------------------------------
LEMMA InitInv == Init => IInv
<1> SUFFICES ASSUME Init PROVE IInv
  OBVIOUS
<1>1. TypeOK
  <2>1. remote \in [Ids -> Object \cup {None}] /\ 0 \in 0 .. MaxIds
    BY DEF Init
  <2>2. 0 \in 0 .. MaxChanges /\ 0 \in 0 .. MaxFaults
    OBVIOUS
  <2>3. state \in StateType /\ rpc \in RpcType
    BY Constants DEF Init
  <2>4. QED
    BY <2>1, <2>2, <2>3 DEF Init, TypeOK
<1>2. RpcInv /\ Accounted
  BY Constants DEF Init, RpcInv, Accounted, Live
<1>3. QED
  BY <1>1, <1>2 DEF IInv

LEMMA StepInv == IInv /\ [Next]_vars => IInv'
<1>1. IInv /\ UNCHANGED vars => IInv'
  BY DEF vars, IInv, TypeOK, RpcInv, Accounted, Live
<1>2. IInv /\ Next => IInv'
  BY EnvironmentInv, StartInv, CreateInv, UpdateInv, DeleteInv, ReadInv, RefusedInv DEF Next, RpcStep
<1>3. QED
  BY <1>1, <1>2

(* Every reachable state satisfies the inductive invariant. *)
THEOREM Invariance == Spec => []IInv
BY InitInv, StepInv, PTL DEF Spec

(* Type correctness: every variable keeps its type, whatever fails. *)
THEOREM TypeCorrect == Spec => []TypeOK
<1>1. IInv => TypeOK
  BY DEF IInv
<1>2. QED
  BY <1>1, Invariance, PTL

(* No RPC ends well and forgets an object that it, or an RPC before it, has *)
(* created: whatever Create, Update, Read, Delete and Import go through.    *)
THEOREM NoOrphan == Spec => []NoUnreportedOrphan
<1>1. IInv => NoUnreportedOrphan
  BY Constants DEF IInv, Accounted, NoUnreportedOrphan, Live
<1>2. QED
  BY <1>1, Invariance, PTL
-----------------------------------------------------------------------------
(***************************************************************************)
(* What the state and the record of the ephemeral body say of the object   *)
(* is true, and an empty plan can be trusted, as long as nothing has       *)
(* happened that the state cannot tell of: TInv is inductive.              *)
(***************************************************************************)

(* Without a state nothing is being deleted. *)
LEMMA NothingDeleted ==
  ASSUME IInv, DeletingInv
  PROVE  /\ state = NoState \/ remote[state.id] = None => deleting = {}
         /\ deleting \subseteq Live /\ deleting \subseteq {state.id}
         /\ ~PollDelete => deleting = {}
BY Constants DEF DeletingInv, Live

(* When no RPC is in progress, the invariant is about the state alone. *)
LEMMA IdleTruth ==
  ASSUME IInv', rpc' = Idle, state' = NoState => private' = None,
         deleting' \subseteq {state'.id} \cap Live', deleting' # {} => PollDelete',
         ~dirty' => deleting' = {} /\ Tells'
  PROVE  TInv'
<1>1. AnswerInv'
  BY Constants DEF AnswerInv
<1>2. DeletingInv'
  BY Constants DEF DeletingInv
<1>3. TruthInv'
  BY Constants DEF TruthInv
<1>4. QED
  BY <1>1, <1>2, <1>3 DEF TInv

(* So it is when an RPC ends without an answer, if it has not touched the   *)
(* object, or if that is told of.                                           *)
LEMMA KeepTruth ==
  ASSUME TInv, IInv', KeepState, UNCHANGED <<config, remote, deleting>>,
         (dirty' = dirty /\ Untouched) \/ dirty' = TRUE
  PROVE  TInv'
<1>1. deleting' \subseteq {state'.id} \cap Live' /\ (deleting' # {} => PollDelete')
  BY DEF TInv, DeletingInv, KeepState, Live, PollDelete
<1>2. state' = NoState => private' = None
  BY DEF TInv, AnswerInv, KeepState
<1>3. ASSUME ~dirty' PROVE deleting' = {} /\ Tells'
  <2>1. ~dirty /\ Untouched
    BY <1>3
  <2>2. deleting = {}
    BY <2>1 DEF TInv, IInv, TypeOK, RpcType, DeletingInv, Untouched
  <2>3. Tells
    BY <2>1 DEF TInv, TruthInv
  <2>4. QED
    BY <2>2, <2>3 DEF Tells, KeepState
<1>4. QED
  BY <1>1, <1>2, <1>3, IdleTruth DEF KeepState
-----------------------------------------------------------------------------
(* A step of someone else's: what it does to the object is told of, or the  *)
(* state and the RPC in progress do not speak of it.                        *)
LEMMA EnvironmentTruth == TInv /\ IInv' /\ Environment => TInv'
<1> SUFFICES ASSUME TInv, IInv', Environment PROVE TInv'
  OBVIOUS
<1>1. CASE ChangeConfig
  <2>1. rpc = Idle /\ UNCHANGED <<state, private, remote, deleting, rpc, dirty>>
        /\ config'.methods = config.methods
    BY <1>1 DEF ChangeConfig, Alternatives
  <2>2. deleting' \subseteq {state'.id} \cap Live' /\ (deleting' # {} => PollDelete')
    BY <2>1 DEF TInv, DeletingInv, Live, PollDelete
  <2>3. ~dirty' => deleting' = {} /\ Tells'
    BY <2>1, Constants DEF TInv, DeletingInv, TruthInv, Untouched, Tells
  <2>4. QED
    BY <2>1, <2>2, <2>3, IdleTruth DEF TInv, AnswerInv
<1>2. CASE Drift
  <2>1. dirty' /\ UNCHANGED <<config, state, private, rpc>>
    BY <1>2 DEF Drift
  <2>2. deleting' \subseteq deleting \cap Live'
    <3>1. PICK i \in Live :
            \/ /\ \E b \in Bodies \ {remote[i].body} : remote' = [remote EXCEPT ![i].body = b]
               /\ UNCHANGED deleting
            \/ remote' = [remote EXCEPT ![i] = None] /\ deleting' = deleting \ {i}
      BY <1>2 DEF Drift
    <3>2. remote \in [Ids -> Object \cup {None}] /\ deleting \subseteq Live /\ i \in Ids
      BY <3>1 DEF TInv, IInv, TypeOK, DeletingInv, Live
    <3>3. CASE remote' = [remote EXCEPT ![i] = None] /\ deleting' = deleting \ {i}
      BY <3>2, <3>3 DEF Live
    <3>4. ASSUME NEW b \in Bodies, remote' = [remote EXCEPT ![i].body = b], UNCHANGED deleting
          PROVE  deleting' \subseteq deleting \cap Live'
      <4>1. remote'[i] = [remote[i] EXCEPT !.body = b] /\ remote[i] \in Object
        BY <3>1, <3>2, <3>4 DEF Live
      <4>2. remote'[i] \in Object
        BY <4>1 DEF Object
      <4>3. remote'[i] # None
        BY <4>2, ObjectAssumption
      <4>4. \A j \in Ids \ {i} : remote'[j] = remote[j]
        BY <3>2, <3>4
      <4>5. QED
        BY <3>2, <3>4, <4>3, <4>4 DEF Live
    <3>5. QED
      BY <3>1, <3>3, <3>4
  <2>3. AnswerInv'
    BY <2>1 DEF TInv, AnswerInv, Planned, EphemeralDiff
  <2>4. DeletingInv'
    BY <2>1, <2>2 DEF TInv, DeletingInv, PollDelete
  <2>5. TruthInv'
    BY <2>1 DEF TruthInv
  <2>6. QED
    BY <2>3, <2>4, <2>5 DEF TInv
<1>3. CASE Foreign
  <2>1. /\ UNCHANGED <<config, state, private, deleting, rpc>> /\ remote[1] = None
        /\ 1 \in Ids /\ \A j \in Ids \ {1} : remote'[j] = remote[j]
        /\ remote'[1] # None /\ dirty' = (dirty \/ state # NoState)
    <3>1. PICK o \in Object : remote' = [remote EXCEPT ![1] = o]
      BY <1>3 DEF Foreign
    <3>2. 1 \in Ids /\ remote \in [Ids -> Object \cup {None}] /\ o # None
      BY ObjectAssumption DEF Ids, TInv, IInv, TypeOK
    <3>3. QED
      BY <1>3, <3>1, <3>2 DEF Foreign
  <2>2. AnswerInv'
    BY <2>1 DEF TInv, AnswerInv, Planned, EphemeralDiff
  <2>3. DeletingInv'
    <3>1. deleting \subseteq Live' /\ (dirty => dirty')
      BY <2>1 DEF TInv, DeletingInv, Live
    <3>2. QED
      BY <2>1, <3>1 DEF TInv, DeletingInv, PollDelete
  <2>4. TruthInv'
    <3>1. SUFFICES ASSUME ~dirty' PROVE TruthInv'
      BY DEF TruthInv
    <3>2. ~dirty /\ state = NoState /\ rpc.op # "update"
      BY <2>1, <3>1 DEF TInv, IInv, RpcInv
    <3>3. Tells'
      BY <2>1, <3>2 DEF Tells
    <3>4. rpc.op = "create" /\ rpc.at \in {"poll", "readback"} /\ ~rpc.adopt =>
            Has(rpc.id, config.body, config.eph)'
      <4>1. SUFFICES ASSUME rpc.op = "create", rpc.at \in {"poll", "readback"}, ~rpc.adopt
                     PROVE  Has(rpc.id, config.body, config.eph)'
        OBVIOUS
      <4>2. Has(rpc.id, config.body, config.eph) /\ rpc.id \in Ids
        BY <3>2, <4>1 DEF TInv, TruthInv, IInv, RpcInv
      <4>3. remote'[rpc.id] = remote[rpc.id]
        BY <2>1, <4>2 DEF Has
      <4>4. QED
        BY <2>1, <4>2, <4>3 DEF Has
    <3>5. QED
      BY <2>1, <3>2, <3>3, <3>4 DEF TruthInv
  <2>5. QED
    BY <2>2, <2>3, <2>4 DEF TInv
<1>4. CASE Vanish
  <2>1. PICK i \in deleting : remote' = [remote EXCEPT ![i] = None] /\ deleting' = deleting \ {i}
    BY <1>4 DEF Vanish
  <2>2. UNCHANGED <<config, state, private, rpc, dirty>>
    BY <1>4 DEF Vanish
  <2>3. AnswerInv'
    BY <2>2 DEF TInv, AnswerInv, Planned, EphemeralDiff
  <2>4. deleting' = {} /\ (~dirty => rpc.op = "delete" /\ ~Untouched)
    BY <2>1 DEF TInv, DeletingInv, Untouched, IInv, TypeOK, RpcType
  <2>5. DeletingInv'
    BY <2>4 DEF DeletingInv
  <2>6. TruthInv'
    BY <2>2, <2>4 DEF TruthInv, Untouched
  <2>7. QED
    BY <2>3, <2>5, <2>6 DEF TInv
<1>5. CASE Crash
  <2>1. KeepState /\ UNCHANGED <<config, remote, deleting>>
        /\ (rpc.op # "create" => dirty') /\ (rpc.op = "create" => dirty' = dirty)
    BY <1>5 DEF Crash, TInv, IInv, TypeOK
  <2>2. QED
    BY <1>5, <2>1, KeepTruth DEF Untouched, Crash
<1>6. QED
  BY <1>1, <1>2, <1>3, <1>4, <1>5 DEF Environment

(* The start of an RPC: the object has what the plan has found in the state. *)
LEMMA StartTruth == TInv /\ IInv' /\ (Apply \/ StartRead \/ StartImport) => TInv'
<1> SUFFICES ASSUME TInv, IInv', Apply \/ StartRead \/ StartImport PROVE TInv'
  OBVIOUS
<1> USE DEF TInv
<1>1. /\ UNCHANGED <<config, state, private, remote, deleting>> /\ rpc = Idle
      /\ dirty' = dirty \/ (rpc'.op = "import" /\ dirty' = FALSE)
  <2>1. CASE StartImport
    <3>1. PICK i \in Live : rpc' = [Idle EXCEPT !.op = "import", !.at = "readback", !.new.id = i]
      BY <2>1 DEF StartImport
    <3>2. rpc'.op = "import"
      BY <3>1 DEF Idle
    <3>3. QED
      BY <2>1, <3>2 DEF StartImport
  <2>2. QED
    BY <2>1 DEF Apply, StartCreate, StartUpdate, StartDelete, StartRead, Start
<1>2. deleting' \subseteq {state'.id} \cap Live' /\ (deleting' # {} => PollDelete' /\ dirty)
  BY <1>1, Constants DEF DeletingInv, Live, PollDelete
<1>3. ~dirty => deleting = {} /\ Tells
  BY <1>1, Constants DEF DeletingInv, TruthInv, Untouched
<1>4. ASSUME NEW op \in {"create", "read", "update", "delete"},
             NEW place \in {"check", "call", "store", "readback"}, Start(op, place),
             op = "create" => state = NoState /\ place \in {"check", "call"},
             op = "read" => place = "readback", op = "delete" => place = "call",
             op = "update" => /\ place \in {"call", "store"} /\ ~state.tainted /\ state # NoState
                              /\ place = "store" => state.body = config.body /\ ~EphemeralDiff
      PROVE  TInv'
  <2>1. /\ rpc'.op = op /\ rpc'.at = place /\ rpc'.tries = 0
        /\ rpc'.new = state /\ rpc'.pv = private /\ dirty' = dirty
    BY <1>4 DEF Start, Idle
  <2>2. AnswerInv'
    BY <1>1, <1>4, <2>1 DEF AnswerInv
  <2>3. DeletingInv'
    BY <1>2, <2>1 DEF DeletingInv
  <2>4. TruthInv'
    <3>1. SUFFICES ASSUME ~dirty PROVE TruthInv'
      BY <2>1 DEF TruthInv
    <3>2. Tells'
      BY <1>1, <1>3, <3>1 DEF Tells
    <3>3. op = "update" => remote'[state'.id] # None /\ remote'[state'.id].body = state'.body
      BY <1>4, <2>1, <1>1, <3>2 DEF Tells
    <3>4. op = "update" /\ place = "store" =>
            Has(state.id, config.body, IF EphemeralDiff THEN config.eph ELSE None)'
      BY <1>1, <1>4, <3>3 DEF Has, EphemeralDiff
    <3>5. QED
      BY <1>4, <2>1, <3>2, <3>3, <3>4 DEF TruthInv
  <2>5. QED
    BY <2>2, <2>3, <2>4
<1>5. CASE StartCreate
  BY <1>4, <1>5 DEF StartCreate, MustCreate
<1>6. CASE StartRead
  BY <1>4, <1>6 DEF StartRead
<1>7. CASE StartUpdate
  BY <1>4, <1>7 DEF StartUpdate, MustUpdate, MustReplace, CallsUpdateAPI
<1>8. CASE StartDelete
  BY <1>4, <1>8 DEF StartDelete
<1>9. CASE StartImport
  <2>1. PICK i \in Live : rpc' = [Idle EXCEPT !.op = "import", !.at = "readback", !.new.id = i]
    BY <1>9 DEF StartImport
  <2>2. rpc'.op = "import" /\ rpc'.at = "readback" /\ state = NoState
    BY <1>9, <2>1 DEF Idle, StartImport, MustCreate
  <2>3. AnswerInv'
    BY <1>1, <2>2 DEF AnswerInv
  <2>4. deleting' = {}
    BY <1>1, <2>2, NothingDeleted
  <2>5. DeletingInv' /\ TruthInv'
    BY <1>1, <2>2, <2>4 DEF DeletingInv, TruthInv, Tells
  <2>6. QED
    BY <2>3, <2>5
<1>10. QED
  BY <1>5, <1>6, <1>7, <1>8, <1>9 DEF Apply
-----------------------------------------------------------------------------
(* Another attempt: the object has what it had, or what the call gives it;  *)
(* the invariant of the next state needs no more than this.                 *)
LEMMA TryAgain ==
  ASSUME rpc \in RpcType, MayRetry, rpc' = [rpc EXCEPT !.tries = @ + 1]
  PROVE  rpc'.tries > 0 /\ rpc'.pv = rpc.pv
<1>1. rpc.tries \in Nat
  BY DEF RpcType
<1>2. QED
  BY <1>1 DEF RpcType

(* A failure before the answer leaves the state as true as it was. *)
LEMMA FailsTruth ==
  ASSUME TInv, IInv', Fails, UNCHANGED <<config, remote, deleting, made, changes>>,
         rpc.at \in {"check", "call", "poll"},
         rpc.op = "update" /\ rpc.at = "check" => FALSE
  PROVE  TInv'
<1>1. CASE rpc.op = "create" /\ CreateEnds(NoState, TRUE)
  <2>1. state = NoState /\ deleting = {} /\ state' = NoState /\ private' = None /\ rpc' = Idle
    BY <1>1, NothingDeleted DEF TInv, IInv, RpcInv, CreateEnds, Save
  <2>2. QED
    BY <2>1, IdleTruth DEF Tells
<1>2. CASE /\ rpc.op \in {"update", "delete"} /\ KeepState
           /\ dirty' = (dirty \/ rpc.at = "poll" \/ rpc.tries > 0)
  <2>1. rpc.at \in {"call", "poll"} /\ dirty \in BOOLEAN /\ (rpc.tries = 0 <=> ~(rpc.tries > 0))
    <3>1. rpc.tries \in Nat /\ dirty \in BOOLEAN
      BY DEF TInv, IInv, TypeOK, RpcType
    <3>2. rpc.at \in {"call", "poll"}
      BY <1>2 DEF TInv, IInv, RpcInv
    <3>3. QED
      BY <3>1, <3>2
  <2>2. (dirty' = dirty /\ Untouched) \/ dirty' = TRUE
    BY <1>2, <2>1, Zenon DEF Untouched
  <2>3. QED
    BY <1>2, <2>2, KeepTruth
<1>3. QED
  BY <1>1, <1>2 DEF Fails

LEMMA RefusedTruth == TInv /\ IInv' /\ (RefusedOnce \/ Refused \/ PollFails) => TInv'
<1> SUFFICES ASSUME TInv, IInv', RefusedOnce \/ Refused \/ PollFails PROVE TInv'
  OBVIOUS
<1>1. CASE RefusedOnce
  <2>1. /\ UNCHANGED <<config, state, private, remote, deleting, dirty>> /\ rpc.at = "call"
        /\ rpc'.at = rpc.at /\ rpc'.op = rpc.op /\ rpc'.id = rpc.id
        /\ rpc'.adopt = rpc.adopt /\ rpc'.new = rpc.new /\ rpc'.tries > 0 /\ rpc'.pv = rpc.pv
    BY <1>1, TryType, TryAgain DEF RefusedOnce, Quiet, TInv, IInv, TypeOK
  <2>2. AnswerInv'
    BY <2>1 DEF TInv, AnswerInv
  <2>3. DeletingInv'
    BY <2>1 DEF TInv, DeletingInv, PollDelete, Live
  <2>4. TruthInv'
    <3>1. Untouched' => Untouched
      BY <2>1, Constants DEF Untouched, TInv, IInv, TypeOK, RpcType
    <3>2. QED
      BY <2>1, <3>1 DEF TInv, TruthInv, Tells
  <2>5. QED
    BY <2>2, <2>3, <2>4 DEF TInv
<1>2. CASE Refused
  <2>1. ~(rpc.op = "update" /\ rpc.at = "check")
    BY DEF TInv, AnswerInv
  <2>2. QED
    BY <1>2, <2>1, FailsTruth DEF Refused
<1>3. CASE PollFails
  BY <1>3, FailsTruth DEF PollFails
<1>4. QED
  BY <1>1, <1>2, <1>3

(* An answer is lost: the call is made again, or the RPC ends with an error *)
(* and the state may be wrong from then on.                                 *)
LEMMA LostTruth ==
  ASSUME TInv, IInv', AnswerLost, config' = config,
         deleting' \subseteq {state.id} \cap Live', deleting' # {} => PollDelete,
         deleting' # {} => dirty \/ rpc.op = "delete", rpc.at = "call",
         rpc.op \in {"create", "update", "delete"},
         rpc.op = "update" /\ ~dirty =>
           remote'[state.id] # None /\ remote'[state.id].body \in {state.body, config.body}
  PROVE  TInv'
<1>1. CASE MayRetry
  <2>1. /\ UNCHANGED <<state, private, dirty>>
        /\ rpc'.at = rpc.at /\ rpc'.op = rpc.op /\ rpc'.id = rpc.id
        /\ rpc'.adopt = rpc.adopt /\ rpc'.new = rpc.new /\ rpc'.tries > 0 /\ rpc'.pv = rpc.pv
    BY <1>1, TryType, TryAgain DEF AnswerLost, TInv, IInv, TypeOK
  <2>2. AnswerInv'
    BY <2>1 DEF TInv, AnswerInv
  <2>3. DeletingInv'
    BY <2>1 DEF DeletingInv, PollDelete
  <2>4. TruthInv'
    <3>1. Untouched' => rpc.op = "create"
      <4>1. rpc'.tries # 0
        BY <2>1
      <4>2. QED
        BY <2>1, <4>1 DEF Untouched
    <3>2. rpc.op = "create" => Tells'
      BY <2>1 DEF Tells, TInv, IInv, RpcInv
    <3>3. QED
      BY <2>1, <3>1, <3>2 DEF TruthInv
  <2>5. QED
    BY <2>2, <2>3, <2>4 DEF TInv
<1>2. CASE ~MayRetry
  <2>1. rpc' = Idle /\ UNCHANGED <<state, private>> /\ dirty' = TRUE
    BY <1>2 DEF AnswerLost
  <2>2. QED
    BY <2>1, IdleTruth DEF TInv, AnswerInv, PollDelete
<1>3. QED
  BY <1>1, <1>2

(* Create: until it has an answer there is no state that could be wrong,    *)
(* and then the object has what was sent.                                   *)
LEMMA CreateTruth == TInv /\ IInv' /\ CreateStep => TInv'
<1> SUFFICES ASSUME TInv, IInv', CreateStep PROVE TInv'
  OBVIOUS
<1> USE DEF TInv
<1>1. rpc.op = "create" /\ state = NoState /\ private = None /\ deleting = {} /\ rpc \in RpcType
      /\ UNCHANGED <<config, state, private>>
  <2>1. rpc.op = "create" /\ rpc \in RpcType /\ config' = config
    BY DEF CreateStep, CheckNotFound, CheckAdopts, CreateAccepted, CreateLost, CreatePolled,
           Doing, Quiet, CreateLands, IInv, TypeOK
  <2>2. state = NoState /\ private = None /\ deleting = {}
    BY <2>1, NothingDeleted DEF IInv, RpcInv, AnswerInv
  <2>3. UNCHANGED <<state, private>>
    BY LostType DEF CreateStep, CheckNotFound, CheckAdopts, CreateAccepted, CreateLost, CreatePolled,
                    Quiet, IInv, TypeOK
  <2>4. QED
    BY <2>1, <2>2, <2>3
<1>2. Tells'
  BY <1>1 DEF Tells
<1>3. CASE CheckNotFound
  <2>1. /\ rpc'.op = "create" /\ rpc'.at = "call" /\ rpc'.pv = rpc.pv /\ deleting' = {}
        /\ rpc.pv = None
    BY <1>1, <1>3 DEF CheckNotFound, Doing, Go, Quiet, RpcType, AnswerInv
  <2>2. AnswerInv' /\ DeletingInv' /\ TruthInv'
    BY <1>1, <1>2, <2>1 DEF AnswerInv, DeletingInv, TruthInv
  <2>3. QED
    BY <2>2
<1>4. CASE CheckAdopts
  <2>1. /\ rpc'.op = "create" /\ rpc'.at = "readback" /\ rpc'.pv = rpc.pv /\ rpc'.adopt
        /\ rpc'.new = Planned([NoState EXCEPT !.id = 1]) /\ deleting' = {} /\ rpc.pv = None
    BY <1>1, <1>4 DEF CheckAdopts, Doing, Quiet, RpcType, AnswerInv
  <2>2. rpc'.new.body = config.body
    BY <2>1 DEF Planned, NoState
  <2>3. AnswerInv' /\ DeletingInv' /\ TruthInv'
    BY <1>1, <1>2, <2>1, <2>2 DEF AnswerInv, DeletingInv, TruthInv
  <2>4. QED
    BY <2>3
<1>5. CASE CreateAccepted
  <2>1. /\ rpc'.op = "create" /\ rpc'.at = "poll" /\ rpc'.pv = config.eph /\ rpc'.id = NewId
        /\ deleting' = {} /\ NewId \in Ids /\ remote'[NewId] = CreateBody /\ ~rpc'.adopt
    BY <1>1, <1>5 DEF CreateAccepted, CreateLands, Doing, RpcType, IInv, TypeOK, RpcInv
  <2>2. CreateBody \in Object
    BY DEF CreateBody, Object, ConfigType, IInv, TypeOK
  <2>3. Has(rpc.id, config.body, config.eph)'
    BY <1>1, <2>1, <2>2, ObjectAssumption DEF Has, CreateBody
  <2>4. AnswerInv' /\ DeletingInv' /\ TruthInv'
    BY <1>1, <1>2, <2>1, <2>3 DEF AnswerInv, DeletingInv, TruthInv
  <2>5. QED
    BY <2>4
<1>6. CASE CreateLost
  BY <1>1, <1>6, LostTruth DEF CreateLost, CreateLands, Doing
<1>7. CASE CreatePolled
  <2>1. /\ rpc'.op = "create" /\ rpc'.at = "readback" /\ rpc'.pv = rpc.pv /\ rpc'.adopt = rpc.adopt
        /\ rpc'.id = rpc.id /\ rpc'.new = Planned([NoState EXCEPT !.id = rpc.id])
        /\ deleting' = {} /\ rpc.at = "poll" /\ UNCHANGED <<remote, dirty>>
    BY <1>1, <1>7 DEF CreatePolled, Doing, Quiet, RpcType
  <2>2. rpc'.new.body = config.body
    BY <2>1 DEF Planned, NoState
  <2>3. AnswerInv'
    BY <1>1, <2>1, <2>2 DEF AnswerInv
  <2>4. DeletingInv'
    BY <2>1 DEF DeletingInv
  <2>5. TruthInv'
    BY <1>1, <1>2, <2>1 DEF TruthInv, Has
  <2>6. QED
    BY <2>3, <2>4, <2>5
<1>8. QED
  BY <1>3, <1>4, <1>5, <1>6, <1>7 DEF CreateStep

(* Update: the call gives the object what the plan has, be it everything or *)
(* what differs from the state, which until then spoke true.                *)
LEMMA UpdateTruth == TInv /\ IInv' /\ UpdateStep => TInv'
<1> SUFFICES ASSUME TInv, IInv', UpdateStep PROVE TInv'
  OBVIOUS
<1> USE DEF TInv
<1> DEFINE eb == IF EphemeralDiff THEN config.eph ELSE None
<1>1. /\ rpc.op = "update" /\ state # NoState /\ state.id \in Ids /\ rpc \in RpcType /\ config' = config
      /\ deleting' = deleting /\ deleting \subseteq {state.id} \cap Live /\ ~state.tainted
      /\ deleting # {} => PollDelete /\ dirty
  <2>1. rpc.op = "update" /\ rpc \in RpcType /\ config' = config /\ deleting' = deleting
    BY DEF UpdateStep, UpdateAccepted, UpdateLost, UpdateNotFound, UpdatePolled, UpdateStored,
           Doing, Quiet, UpdateLands, IInv, TypeOK
  <2>2. QED
    BY <2>1 DEF IInv, RpcInv, DeletingInv, AnswerInv
<1>2. CASE UpdateLands /\ (UpdateAccepted \/ UpdateLost)
  <2>1. /\ rpc.at = "call" /\ remote[state.id] \in Object
        /\ remote' = [remote EXCEPT ![state.id] = Updated(remote[state.id])]
        /\ remote \in [Ids -> Object \cup {None}]
    BY <1>1, <1>2 DEF UpdateLands, Doing, IInv, TypeOK
  <2>2. Updated(remote[state.id]) \in Object
    <3>1. config.body \in Bodies /\ config.patch \in Patches \cup {None} /\ config.eph \in Ephs \cup {None}
      BY DEF ConfigType, IInv, TypeOK
    <3>2. QED
      BY <2>1, <3>1 DEF Updated, Object
  <2>3. remote'[state.id] = Updated(remote[state.id]) /\ remote'[state.id] # None
    BY <1>1, <2>1, <2>2, ObjectAssumption
  <2>4. deleting' \subseteq {state.id} \cap Live'
    BY <1>1, <2>3 DEF Live
  <2>5. ~dirty => remote[state.id].body \in {state.body, config.body}
    BY <1>1, <2>1 DEF TruthInv
  <2>6. ~dirty => remote'[state.id].body = config.body
    BY <2>3, <2>5 DEF Updated
  <2>7. eb # None => remote'[state.id].eph = eb
    BY <2>3 DEF Updated
  <2>8. CASE UpdateLost
    BY <1>1, <2>1, <2>3, <2>4, <2>6, <2>8, LostTruth DEF UpdateLost
  <2>9. CASE UpdateAccepted
    <3>1. /\ rpc'.op = "update" /\ rpc'.at = "poll" /\ UNCHANGED <<state, private, dirty>>
      BY <1>1, <2>9 DEF UpdateAccepted, Go, RpcType
    <3>2. AnswerInv'
      BY <1>1, <3>1 DEF AnswerInv
    <3>3. DeletingInv'
      BY <1>1, <2>4, <3>1 DEF DeletingInv, PollDelete
    <3>4. ~dirty => Has(state.id, config.body, eb)'
      BY <1>1, <2>3, <2>6, <2>7, <3>1 DEF Has, EphemeralDiff
    <3>5. TruthInv'
      BY <1>1, <3>1, <3>4 DEF TruthInv, Untouched
    <3>6. QED
      BY <3>2, <3>3, <3>5
  <2>10. QED
    BY <1>2, <2>8, <2>9
<1>3. CASE UpdateNotFound
  <2>1. dirty
    BY <1>1, <1>3 DEF UpdateNotFound, Doing, TruthInv
  <2>2. rpc.at = "call" /\ KeepState /\ dirty' /\ UNCHANGED <<config, remote, deleting>>
    BY <1>1, <1>3, <2>1 DEF UpdateNotFound, Doing, Fails
  <2>3. dirty' = TRUE
    BY <2>1, <2>2 DEF IInv, TypeOK
  <2>4. QED
    BY <2>2, <2>3, KeepTruth
<1>4. CASE UpdatePolled \/ UpdateStored
  <2>1. /\ UNCHANGED <<config, state, private, remote, deleting, dirty>>
        /\ rpc.at \in {"poll", "store"} /\ rpc'.op = "update" /\ rpc'.at \in {"store", "readback"}
        /\ rpc'.at = "readback" => rpc'.new = Planned(state) /\ rpc'.pv = eb
    BY <1>1, <1>4 DEF UpdatePolled, UpdateStored, Doing, Quiet, Go, RpcType
  <2>2. eb' = eb /\ Planned(state)' = Planned(state)
    BY <2>1 DEF EphemeralDiff, Planned
  <2>3. AnswerInv'
    BY <1>1, <2>1, <2>2 DEF AnswerInv
  <2>4. DeletingInv'
    BY <1>1, <2>1 DEF DeletingInv, Live, PollDelete
  <2>5. ~dirty => Has(state.id, config.body, eb)
    BY <1>1, <2>1 DEF TruthInv
  <2>6. TruthInv'
    BY <2>1, <2>2, <2>5 DEF TruthInv, Untouched, Has
  <2>7. QED
    BY <2>3, <2>4, <2>6
<1>5. QED
  BY <1>2, <1>3, <1>4 DEF UpdateStep, UpdateAccepted, UpdateLost

(* Delete: the state speaks true until the call is made, and is gone when   *)
(* the object is.                                                           *)
LEMMA DeleteTruth == TInv /\ IInv' /\ DeleteStep => TInv'
<1> SUFFICES ASSUME TInv, IInv', DeleteStep PROVE TInv'
  OBVIOUS
<1> USE DEF TInv
<1>1. /\ rpc.op = "delete" /\ state.id \in Ids /\ rpc \in RpcType /\ config' = config
      /\ deleting \subseteq {state.id} \cap Live /\ (deleting # {} => PollDelete)
  <2>1. rpc.op = "delete" /\ rpc \in RpcType /\ config' = config
    BY DEF DeleteStep, DeleteAccepted, DeleteLost, DeleteNotFound, DeleteBusy, DeletePolled,
           Doing, Quiet, DeleteLands, IInv, TypeOK
  <2>2. QED
    BY <2>1 DEF IInv, RpcInv, DeletingInv
<1>2. ASSUME Save(NoState, None), deleting' = {} PROVE TInv'
  BY <1>2, IdleTruth DEF Save, Tells
<1>3. ASSUME UNCHANGED <<state, private, dirty>>, rpc'.op = "delete", rpc'.at = "poll",
             deleting' \subseteq {state.id} \cap Live', deleting' # {} => PollDelete
      PROVE  TInv'
  <2>1. AnswerInv'
    BY <1>1, <1>3 DEF AnswerInv
  <2>2. DeletingInv' /\ TruthInv'
    BY <1>1, <1>3 DEF DeletingInv, TruthInv, Untouched, PollDelete
  <2>3. QED
    BY <2>1, <2>2
<1>4. CASE DeleteBusy
  BY <1>1, <1>3, <1>4 DEF DeleteBusy, Go, Quiet, RpcType, Live
<1>5. CASE DeleteNotFound \/ DeletePolled
  BY <1>2, <1>5, NothingDeleted DEF DeleteNotFound, DeletePolled, DeleteSucceeds
<1>6. CASE DeleteLands /\ (DeleteAccepted \/ DeleteLost)
  <2>1. deleting' \subseteq {state.id} \cap Live' /\ (deleting' # {} => PollDelete)
    <3>1. CASE PollDelete
      BY <1>1, <1>6, <3>1 DEF DeleteLands, Live
    <3>2. CASE ~PollDelete
      BY <1>1, <1>6, <3>2 DEF DeleteLands
    <3>3. QED
      BY <3>1, <3>2
  <2>2. CASE DeleteLost
    BY <1>1, <2>1, <2>2, LostTruth DEF DeleteLost, DeleteLands, Doing
  <2>3. CASE DeleteAccepted /\ PollDelete
    BY <1>1, <1>3, <2>1, <2>3 DEF DeleteAccepted, Go, RpcType
  <2>4. CASE DeleteAccepted /\ ~PollDelete
    BY <1>2, <2>1, <2>4 DEF DeleteAccepted
  <2>5. QED
    BY <1>6, <2>2, <2>3, <2>4
<1>7. QED
  BY <1>4, <1>5, <1>6 DEF DeleteStep, DeleteAccepted, DeleteLost
-----------------------------------------------------------------------------
(* The answers, of which every one comes from read.                         *)

(* Create: what is saved untainted is what the object was given, or what it *)
(* was found to have.                                                       *)
LEMMA CreateEndsTruth ==
  ASSUME TInv, IInv', rpc.op = "create", rpc.at = "readback", UNCHANGED <<config, remote, deleting>>,
         NEW new \in StateType, NEW failed \in BOOLEAN, CreateEnds(new, failed),
         new = NoState \/ (new.id = rpc.new.id /\ new.id \in Ids),
         new # NoState /\ ~failed /\ rpc.adopt =>
           remote[new.id] # None /\ new.body = remote[new.id].body
  PROVE  TInv'
<1>1. /\ state = NoState /\ deleting = {} /\ rpc' = Idle /\ dirty' = dirty
      /\ rpc.pv = IF rpc.adopt THEN None ELSE config.eph
      /\ rpc.new.id = IF rpc.adopt THEN 1 ELSE rpc.id
  <2>1. state = NoState /\ rpc.new.id = IF rpc.adopt THEN 1 ELSE rpc.id
    BY DEF TInv, IInv, RpcInv
  <2>2. rpc.pv = IF rpc.adopt THEN None ELSE config.eph
    BY DEF TInv, AnswerInv
  <2>3. deleting = {}
    BY <2>1, NothingDeleted DEF TInv
  <2>4. rpc' = Idle /\ dirty' = dirty
    BY DEF CreateEnds, Save
  <2>5. QED
    BY <2>1, <2>2, <2>3, <2>4
<1>2. CASE new = NoState
  <2>1. state' = NoState /\ private' = None
    BY <1>2 DEF CreateEnds, Save
  <2>2. QED
    BY <1>1, <2>1, IdleTruth DEF Tells
<1>3. CASE new # NoState
  <2>1. new.id \in Ids
    BY <1>3
  <2> DEFINE new2 == [new EXCEPT !.tainted = failed \/ new.body # config.body]
  <2>2. new2.id = new.id /\ new2.body = new.body
        /\ (~new2.tainted => ~failed /\ new.body = config.body)
    BY DEF StateType
  <2> HIDE DEF new2
  <2>3. new2 # NoState
    BY <2>1, <2>2, Constants
  <2>4. state' = new2 /\ private' = rpc.pv
    BY <1>3, <2>3 DEF CreateEnds, Save, new2
  <2>5. ~dirty /\ ~rpc.adopt => Has(new.id, config.body, config.eph)
    <3>1. SUFFICES ASSUME ~dirty, ~rpc.adopt PROVE Has(new.id, config.body, config.eph)
      OBVIOUS
    <3>2. Has(rpc.id, config.body, config.eph)
      BY <3>1 DEF TInv, TruthInv
    <3>3. new.id = rpc.id
      BY <1>1, <1>3, <3>1
    <3>4. QED
      BY <3>2, <3>3
  <2>6. ~dirty => Tells'
    <3>1. CASE rpc.adopt
      BY <1>1, <1>3, <2>2, <2>4, <3>1 DEF Tells
    <3>2. CASE ~rpc.adopt
      BY <1>1, <2>2, <2>4, <2>5, <3>2 DEF Tells, Has
    <3>3. QED
      BY <3>1, <3>2
  <2>7. QED
    BY <1>1, <2>3, <2>4, <2>6, IdleTruth
<1>4. QED
  BY <1>2, <1>3

(* Steps of read, with which every other RPC ends as well. *)
LEMMA ReadTruth == TInv /\ IInv' /\ ReadStep => TInv'
<1> SUFFICES ASSUME TInv, IInv', ReadStep PROVE TInv'
  OBVIOUS
<1> USE DEF TInv
<1>1. /\ UNCHANGED <<config, remote, deleting>> /\ rpc.at = "readback"
      /\ rpc.new.id \in Ids /\ rpc.new \in StateType /\ rpc.new # NoState
  <2>1. UNCHANGED <<config, remote, deleting>> /\ rpc.at = "readback"
    BY DEF ReadStep, ReadNotFound, ReadFails, ReadOk
  <2>2. rpc.new.id \in Ids /\ rpc.new \in StateType
    BY <2>1 DEF IInv, RpcInv, TypeOK, RpcType
  <2>3. QED
    BY <2>1, <2>2, Constants
<1>2. /\ deleting \subseteq {state.id} \cap Live /\ (deleting # {} => PollDelete)
      /\ (rpc.op # "delete" /\ ~dirty => deleting = {})
  BY DEF DeletingInv
<1>3. ASSUME NEW new \in StateType, NEW failed \in BOOLEAN, Ends(new, failed),
             \/ new = NoState /\ remote[rpc.new.id] = None
             \/ /\ new.id = rpc.new.id /\ new.tainted = rpc.new.tainted
                /\ new.body = rpc.new.body
                   \/ (/\ rpc.adopt \/ rpc.op \in {"read", "import"}
                       /\ new.body = remote[rpc.new.id].body)
                /\ ~failed => /\ remote[rpc.new.id] # None
                              /\ rpc.adopt \/ rpc.op \in {"read", "import"} =>
                                   new.body = remote[rpc.new.id].body
      PROVE  TInv'
  <2>1. CASE rpc.op = "create" /\ CreateEnds(new, failed)
    BY <1>1, <1>3, <2>1, CreateEndsTruth
  <2>2. CASE rpc.op = "update" /\ UpdateEnds(new)
    <3>1. /\ state # NoState /\ state.id \in Ids /\ rpc.new.id = state.id /\ dirty' = dirty
          /\ rpc.new = Planned(state) /\ ~state.tainted /\ state \in StateType
          /\ rpc.pv = IF EphemeralDiff THEN config.eph ELSE None
      BY <1>1, <2>2 DEF IInv, TypeOK, RpcInv, AnswerInv, UpdateEnds
    <3>2. rpc.new.body = config.body /\ rpc.new.tainted = state.tainted
      BY <3>1 DEF Planned, StateType
    <3>3. ~dirty => Has(state.id, config.body, rpc.pv)
      BY <1>1, <2>2, <3>1 DEF TruthInv
    <3>4. CASE new = NoState
      <4>1. dirty /\ KeepState
        BY <1>3, <2>2, <3>1, <3>3, <3>4, Constants DEF Has, UpdateEnds
      <4>2. dirty' = TRUE
        BY <3>1, <4>1 DEF IInv, TypeOK
      <4>3. QED
        BY <1>1, <4>1, <4>2, KeepTruth
    <3>5. CASE new # NoState
      <4>1. state' = new /\ private' = rpc.pv /\ rpc' = Idle
        BY <2>2, <3>5 DEF UpdateEnds, Save
      <4>2. new.id = state.id /\ ~new.tainted /\ (~dirty => new.body = config.body)
        BY <1>3, <3>1, <3>2, <3>3, <3>5 DEF Has
      <4>3. ~dirty => Tells'
        BY <1>1, <3>3, <4>1, <4>2 DEF Tells, Has
      <4>4. deleting' \subseteq {state'.id} \cap Live' /\ (deleting' # {} => PollDelete')
        BY <1>1, <1>2, <4>1, <4>2 DEF Live, PollDelete
      <4>5. QED
        BY <1>1, <1>2, <2>2, <3>1, <3>5, <4>1, <4>3, <4>4, IdleTruth
    <3>6. QED
      BY <3>4, <3>5
  <2>3. CASE rpc.op = "read" /\ ReadEnds(new)
    <3>1. /\ state # NoState /\ rpc.new = state /\ dirty' = dirty /\ rpc' = Idle
          /\ state' = new /\ private' = IF new = NoState THEN None ELSE private
      BY <2>3 DEF IInv, RpcInv, AnswerInv, ReadEnds, Save
    <3>2. ~dirty => Tells
      BY <2>3 DEF TruthInv, Untouched
    <3>3. CASE new = NoState
      <4>1. deleting = {}
        <5>1. remote[state.id] = None
          BY <1>1, <1>3, <3>1, <3>3, Constants
        <5>2. QED
          BY <5>1, NothingDeleted
      <4>2. QED
        BY <1>1, <3>1, <3>3, <4>1, IdleTruth DEF Tells
    <3>4. CASE new # NoState
      <4>1. new.id = state.id /\ new.tainted = state.tainted
            /\ (new.body = state.body \/ new.body = remote[state.id].body)
        BY <1>3, <3>1, <3>4
      <4>2. ~dirty => Tells'
        BY <1>1, <3>1, <3>2, <3>4, <4>1 DEF Tells
      <4>3. deleting' \subseteq {state'.id} \cap Live' /\ (deleting' # {} => PollDelete')
        BY <1>1, <1>2, <3>1, <4>1 DEF Live, PollDelete
      <4>4. QED
        BY <1>1, <1>2, <2>3, <3>1, <3>4, <4>2, <4>3, IdleTruth
    <3>5. QED
      BY <3>3, <3>4
  <2>4. CASE rpc.op = "import" /\ ImportEnds(IF failed THEN NoState ELSE new)
    <3>1. state = NoState /\ deleting = {} /\ private = None /\ dirty' = dirty
      BY <2>4, NothingDeleted DEF IInv, RpcInv, AnswerInv, ImportEnds
    <3>2. CASE failed \/ new = NoState
      <4>1. KeepState
        BY <2>4, <3>2 DEF ImportEnds
      <4>2. QED
        BY <1>1, <3>1, <4>1, IdleTruth DEF KeepState, Tells
    <3>3. CASE ~failed /\ new # NoState
      <4>1. state' = new /\ private' = None /\ rpc' = Idle
        BY <2>4, <3>3 DEF ImportEnds, Save
      <4>2. remote[new.id] # None /\ new.body = remote[new.id].body
        BY <1>3, <2>4, <3>3
      <4>3. Tells'
        BY <1>1, <4>1, <4>2 DEF Tells
      <4>4. QED
        BY <1>1, <3>1, <3>3, <4>1, <4>3, IdleTruth
    <3>4. QED
      BY <3>2, <3>3
  <2>5. QED
    BY <1>3, <2>1, <2>2, <2>3, <2>4 DEF Ends
<1>4. CASE ReadNotFound
  BY <1>3, <1>4, Constants DEF ReadNotFound
<1>5. CASE ReadFails
  BY <1>1, <1>3, <1>5 DEF ReadFails
<1>6. CASE ReadOk
  <2> DEFINE o == remote[rpc.new.id]
             body == IF rpc.adopt \/ rpc.op \in {"read", "import"} THEN o.body ELSE rpc.new.body
             out == IF rpc.pv = None THEN o.eph ELSE None
  <2>1. o \in Object /\ o # None
    BY <1>1, <1>6 DEF ReadOk, IInv, TypeOK
  <2>2. o.body \in Bodies /\ o.eph \in Ephs \cup {None} /\ rpc.new.body \in Bodies \cup {None}
    BY <1>1, <2>1 DEF Object, StateType
  <2>3. body \in Bodies \cup {None} /\ out \in Ephs \cup {None}
    BY <2>2
  <2>4. ReadState = [rpc.new EXCEPT !.body = body, !.out = out]
    BY DEF ReadState
  <2>5. body = rpc.new.body \/ ((rpc.adopt \/ rpc.op \in {"read", "import"}) /\ body = o.body)
    OBVIOUS
  <2>6. rpc.adopt \/ rpc.op \in {"read", "import"} => body = o.body
    OBVIOUS
  <2> HIDE DEF body, out
  <2>7. /\ ReadState \in StateType /\ ReadState.id = rpc.new.id
        /\ ReadState.tainted = rpc.new.tainted /\ ReadState.body = body
    BY <1>1, <2>3, <2>4 DEF StateType
  <2>8. QED
    BY <1>3, <1>6, <2>1, <2>5, <2>6, <2>7 DEF ReadOk
<1>7. QED
  BY <1>4, <1>5, <1>6 DEF ReadStep
-----------------------------------------------------------------------------
LEMMA InitTruth == Init => TInv
<1> SUFFICES ASSUME Init PROVE TInv
  OBVIOUS
<1>1. IInv
  BY InitInv
<1>2. AnswerInv /\ DeletingInv /\ TruthInv
  BY Constants DEF Init, AnswerInv, DeletingInv, TruthInv, Tells
<1>3. QED
  BY <1>1, <1>2 DEF TInv

LEMMA StepTruth == TInv /\ [Next]_vars => TInv'
<1> SUFFICES ASSUME TInv, [Next]_vars PROVE TInv'
  OBVIOUS
<1>1. IInv'
  BY StepInv DEF TInv
<1>2. CASE UNCHANGED vars
  <2>1. UNCHANGED <<config, state, private, remote, deleting, rpc, dirty>>
    BY <1>2 DEF vars
  <2>2. AnswerInv'
    BY <2>1 DEF TInv, AnswerInv, Planned, EphemeralDiff
  <2>3. DeletingInv'
    BY <2>1 DEF TInv, DeletingInv, Live, PollDelete
  <2>4. TruthInv'
    BY <2>1 DEF TInv, TruthInv, Untouched, Tells, Has, EphemeralDiff
  <2>5. QED
    BY <1>1, <2>2, <2>3, <2>4 DEF TInv
<1>3. CASE Next
  BY <1>1, <1>3, EnvironmentTruth, StartTruth, CreateTruth, UpdateTruth, DeleteTruth, ReadTruth,
     RefusedTruth DEF Next, RpcStep
<1>4. QED
  BY <1>2, <1>3

(* Every reachable state satisfies the stronger inductive invariant. *)
THEOREM Truth == Spec => []TInv
BY InitTruth, StepTruth, PTL DEF Spec

(* RecordMatchesRemote: what the private state has the hash of is what the  *)
(* object was last given, whatever Create, Update, Read, Delete and Import  *)
(* go through, unless the state could not tell of what has happened.        *)
THEOREM RecordIsTrue == Spec => []RecordMatchesRemote
<1>1. TInv => RecordMatchesRemote
  <2> SUFFICES ASSUME TInv, rpc = Idle, ~dirty, private # None
               PROVE  state.id \in Live /\ remote[state.id].eph = private
    BY DEF RecordMatchesRemote
  <2>1. state # NoState /\ state.id \in Ids
    BY DEF TInv, IInv, RpcInv, AnswerInv
  <2>2. Tells
    BY Constants DEF TInv, TruthInv, Untouched
  <2>3. QED
    BY <2>1, <2>2 DEF Tells, Live
<1>2. QED
  BY <1>1, Truth, PTL

(* EmptyPlanMeansInPlace: when ModifyPlan finds nothing to change, the      *)
(* object exists and has the body and the ephemeral body of the             *)
(* configuration, unless the state could not tell of what has happened.     *)
THEOREM EmptyPlanIsTrue == Spec => []EmptyPlanMeansInPlace
<1>1. TInv => EmptyPlanMeansInPlace
  <2> SUFFICES ASSUME TInv, rpc = Idle, ~dirty, config.present, NothingToPlan
               PROVE  InPlace
    BY DEF EmptyPlanMeansInPlace
  <2>1. state # NoState /\ state.id \in Ids /\ state \in StateType
    BY DEF NothingToPlan, MustCreate, TInv, IInv, RpcInv, TypeOK
  <2>2. ~MustReplace /\ ~Differs /\ ~EphemeralDiff
    BY <2>1 DEF NothingToPlan, MustDelete, MustUpdate
  <2>3. ~state.tainted /\ private = config.eph
    BY <2>2 DEF MustReplace, EphemeralDiff
  <2>4. state.body = config.body
    <3>1. Planned(state).body = config.body
      BY <2>1 DEF Planned, StateType
    <3>2. QED
      BY <2>2, <3>1 DEF Differs
  <2>5. Tells
    BY Constants DEF TInv, TruthInv, Untouched
  <2>6. QED
    BY <2>1, <2>3, <2>4, <2>5 DEF Tells, InPlace, Live
<1>2. QED
  BY <1>1, Truth, PTL
-----------------------------------------------------------------------------
(* What an RPC that succeeds answers is what was planned.                   *)

(* An RPC that ends, or that goes on under the same configuration with an   *)
(* answer that is not made yet, or not changed.                             *)
LEMMA PlanKept ==
  ASSUME PlanInv,
         \/ rpc' = Idle
         \/ rpc'.op \notin {"create", "update"} /\ ~rpc'.adopt
         \/ /\ config' = config /\ rpc'.op = rpc.op /\ rpc'.adopt = rpc.adopt
            /\ (rpc'.op = "create" => rpc'.at # "readback") \/ (rpc'.new = rpc.new /\ rpc'.at = rpc.at)
  PROVE  PlanInv'
<1>1. CASE rpc' = Idle
  BY <1>1 DEF PlanInv, Idle
<1>2. CASE rpc'.op \notin {"create", "update"} /\ ~rpc'.adopt
  BY <1>2 DEF PlanInv
<1>3. CASE /\ config' = config /\ rpc'.op = rpc.op /\ rpc'.adopt = rpc.adopt
           /\ rpc'.op = "create" => rpc'.at # "readback"
  BY <1>3 DEF PlanInv
<1>4. CASE /\ config' = config /\ rpc'.op = rpc.op /\ rpc'.adopt = rpc.adopt
           /\ rpc'.new = rpc.new /\ rpc'.at = rpc.at
  BY <1>4 DEF PlanInv, Planned
<1>5. QED
  BY <1>1, <1>2, <1>3, <1>4

LEMMA PlanStep == TypeOK /\ PlanInv /\ [Next]_vars => PlanInv'
<1> SUFFICES ASSUME TypeOK, PlanInv, [Next]_vars PROVE PlanInv'
  OBVIOUS
<1>1. rpc \in RpcType
  BY DEF TypeOK
<1>2. CASE Environment
  <2>1. ChangeConfig => rpc' = Idle
    BY DEF ChangeConfig
  <2>2. QED
    BY <1>2, <2>1, PlanKept DEF Environment, Drift, Foreign, Vanish, Crash, KeepState
<1>3. CASE StartRead \/ StartDelete \/ StartImport
  <2>1. rpc'.op \in {"read", "delete", "import"} /\ ~rpc'.adopt
    BY <1>3 DEF StartRead, StartDelete, StartImport, Start, Idle
  <2>2. QED
    BY <2>1, PlanKept
<1>4. CASE StartCreate \/ StartUpdate
  <2>1. config.present /\ config' = config
    BY <1>4 DEF StartCreate, StartUpdate, Start, MustCreate, MustUpdate
  <2>2. ~rpc'.adopt /\ (rpc'.op = "create" => rpc'.at \in {"check", "call"})
    BY <1>4 DEF StartCreate, StartUpdate, Start, Idle
  <2>3. QED
    BY <2>1, <2>2 DEF PlanInv
<1>5. CASE RefusedOnce
  BY <1>1, <1>5, PlanKept DEF RefusedOnce, Quiet, RpcType
<1>6. CASE Refused \/ PollFails \/ UpdateNotFound
  BY <1>6, PlanKept DEF Refused, PollFails, UpdateNotFound, Fails, CreateEnds, Save, KeepState
<1>7. CASE CreateStep
  <2>1. CASE CheckNotFound \/ CreateAccepted
    BY <1>1, <2>1, PlanKept DEF CheckNotFound, CreateAccepted, CreateLands, Go, Quiet, RpcType
  <2>2. CASE CreateLost
    BY <1>1, <2>2, PlanKept DEF CreateLost, CreateLands, Doing, AnswerLost, RpcType
  <2>3. ASSUME NEW i \in 0 .. MaxIds, rpc.op = "create", config' = config, rpc'.op = "create",
               rpc'.new = Planned([NoState EXCEPT !.id = i])
        PROVE  PlanInv'
    <3>1. rpc'.new.id = i
      BY <2>3 DEF Planned, NoState
    <3>2. QED
      BY <2>3, <3>1 DEF PlanInv, Planned
  <2>4. CASE CheckAdopts
    <3>1. rpc'.new = Planned([NoState EXCEPT !.id = 1]) /\ rpc'.op = "create" /\ config' = config
      BY <1>1, <2>4 DEF CheckAdopts, Doing, Quiet, RpcType
    <3>2. QED
      BY <2>3, <2>4, <3>1, Constants DEF CheckAdopts, Doing
  <2>5. CASE CreatePolled
    <3>1. rpc'.new = Planned([NoState EXCEPT !.id = rpc.id]) /\ rpc'.op = "create" /\ config' = config
          /\ rpc.id \in 0 .. MaxIds
      BY <1>1, <2>5 DEF CreatePolled, Doing, Quiet, RpcType
    <3>2. QED
      BY <2>3, <2>5, <3>1 DEF CreatePolled, Doing
  <2>6. QED
    BY <1>7, <2>1, <2>2, <2>4, <2>5 DEF CreateStep
<1>8. CASE UpdateStep /\ ~UpdateNotFound
  <2>1. config' = config /\ rpc.op = "update"
    BY <1>8 DEF UpdateStep, UpdateAccepted, UpdateLost, UpdateLands, UpdatePolled, UpdateStored, Doing, Quiet
  <2>2. rpc' = Idle \/ (rpc'.op = "update" /\ rpc'.adopt = rpc.adopt)
    BY <1>1, <1>8, <2>1 DEF UpdateStep, UpdateAccepted, UpdateLost, UpdatePolled, UpdateStored,
                            AnswerLost, Go, RpcType
  <2>3. QED
    BY <2>1, <2>2, PlanKept
<1>9. CASE DeleteStep
  <2>1. rpc' = Idle \/ (rpc'.op = "delete" /\ rpc.op = "delete" /\ rpc'.adopt = rpc.adopt)
    BY <1>1, <1>9 DEF DeleteStep, DeleteAccepted, DeleteLost, DeleteLands, DeleteNotFound, DeleteBusy,
                      DeletePolled, DeleteSucceeds, Save, AnswerLost, Go, Doing, RpcType
  <2>2. QED
    BY <2>1, PlanKept DEF PlanInv
<1>10. CASE ReadStep
  BY <1>10, PlanKept DEF ReadStep, ReadNotFound, ReadFails, ReadOk, Ends, CreateEnds, UpdateEnds, ReadEnds,
                         ImportEnds, Save, KeepState
<1>11. CASE UNCHANGED vars
  BY <1>11, PlanKept DEF vars
<1>12. QED
  BY <1>2, <1>3, <1>4, <1>5, <1>6, <1>7, <1>8, <1>9, <1>10, <1>11 DEF Next, Apply, RpcStep

(* The plan is empty for a state that it would not change, and for which    *)
(* the hash is the configuration's.                                         *)
LEMMA Settled ==
  ASSUME config' = config, config.present, ~state'.tainted, state'.body = config.body,
         [state' EXCEPT !.body = config.body, !.patch = config.patch, !.force = config.force] = state',
         private' = config.eph, state' # NoState
  PROVE  NothingToPlan'
BY DEF NothingToPlan, MustDelete, MustCreate, MustUpdate, MustReplace, Differs, EphemeralDiff, Planned

(* An RPC that is applied without an error ends in ReadOk.                  *)
LEMMA AppliedReads == TypeOK /\ [Next]_vars /\ Applied => ReadOk
<1> SUFFICES ASSUME TypeOK, [Next]_vars, Applied PROVE ReadOk
  OBVIOUS
<1>0. faults \in Nat
  BY DEF TypeOK
<1>1. rpc.op \in {"create", "update"} /\ rpc.at = "readback" /\ rpc # Idle /\ rpc' = Idle
      /\ faults' = faults /\ ~ReadNotFound
  BY DEF Applied, Idle
<1>2. rpc' # rpc
  BY <1>1
<1>3. \A kind : ~Fault(kind)
  BY <1>0, <1>1 DEF Fault
<1>4. ~UNCHANGED vars /\ ~Environment
  BY <1>2, <1>3 DEF vars, Environment, ChangeConfig, Drift, Foreign, Vanish, Crash
<1>5. ~Apply /\ ~StartRead /\ ~StartImport
  BY <1>1 DEF Apply, StartCreate, StartUpdate, StartDelete, StartRead, StartImport, Start
<1>6. ~RefusedOnce /\ ~Refused /\ ~PollFails /\ ~ReadFails
  BY <1>1, <1>3 DEF RefusedOnce, Refused, PollFails, ReadFails
<1>7. \A place \in {"check", "call", "poll", "store"}, kind \in {"create", "update", "delete"} : ~Doing(kind, place)
  BY <1>1 DEF Doing
<1>8. ~CreateStep /\ ~UpdateStep /\ ~DeleteStep
  <2>1. ~CreateStep
    BY <1>3, <1>7 DEF CreateStep, CheckNotFound, CheckAdopts, CreateAccepted, CreateLost, CreateLands, CreatePolled
  <2>2. ~UpdateStep
    BY <1>3, <1>7 DEF UpdateStep, UpdateAccepted, UpdateLost, UpdateLands, UpdateNotFound, UpdatePolled,
                      UpdateStored
  <2>3. ~DeleteStep
    BY <1>3, <1>7 DEF DeleteStep, DeleteAccepted, DeleteLost, DeleteLands, DeleteNotFound, DeleteBusy,
                      DeletePolled
  <2>4. QED
    BY <2>1, <2>2, <2>3
<1>9. QED
  BY <1>1, <1>4, <1>5, <1>6, <1>8 DEF Next, RpcStep, ReadStep

(* AppliedIsSettled: after a Create or an Update that ends without an error *)
(* ModifyPlan finds nothing to change, but for an ephemeral body that the   *)
(* RPC has not sent.                                                        *)
THEOREM AppliedIsDone == Spec => AppliedIsSettled
<1>1. TInv /\ PlanInv /\ [Next]_vars => [Applied /\ ~NotSent => NothingToPlan']_vars
  <2> SUFFICES ASSUME TInv, PlanInv, [Next]_vars, Applied, ~NotSent
               PROVE  NothingToPlan'
    OBVIOUS
  <2>1. ReadOk /\ config' = config /\ config.present /\ state' # NoState /\ ~state'.tainted
        /\ rpc \in RpcType /\ state \in StateType /\ rpc.at = "readback"
    BY AppliedReads DEF Applied, ReadOk, PlanInv, TInv, IInv, TypeOK
  <2> DEFINE out == IF rpc.pv = None THEN remote[rpc.new.id].eph ELSE None
  <2>2. CASE rpc.op = "create"
    <3>1. CreateEnds(ReadState, FALSE)
      BY <2>1, <2>2 DEF ReadOk, Ends
    <3> DEFINE body == IF rpc.adopt THEN remote[rpc.new.id].body ELSE rpc.new.body
    <3>2. ReadState = [rpc.new EXCEPT !.body = body, !.out = out]
      BY <2>2 DEF ReadState
    <3>3. rpc.new \in StateType /\ rpc.new = Planned([NoState EXCEPT !.id = rpc.new.id])
      BY <2>1, <2>2 DEF RpcType, PlanInv
    <3> HIDE DEF body, out
    <3>4. state' = [ReadState EXCEPT !.tainted = FALSE \/ ReadState.body # config.body] /\ private' = rpc.pv
      BY <2>1, <3>1 DEF CreateEnds, Save
    <3>5. ReadState.body = body /\ state'.body = body /\ body = config.body
      BY <2>1, <3>2, <3>3, <3>4 DEF StateType
    <3>6. [state' EXCEPT !.body = config.body, !.patch = config.patch, !.force = config.force] = state'
      BY <2>1, <3>2, <3>3, <3>4, <3>5 DEF Planned, StateType, NoState
    <3>7. private' = config.eph
      BY <2>1, <2>2, <3>4 DEF TInv, AnswerInv, NotSent
    <3>8. QED
      BY <2>1, <3>5, <3>6, <3>7, Settled
  <2>3. CASE rpc.op = "update"
    <3>1. rpc.new = Planned(state) /\ ~state.tainted
          /\ rpc.pv = (IF EphemeralDiff THEN config.eph ELSE None)
          /\ rpc.new.id \in Ids /\ state.id \in Ids
      BY <2>1, <2>3 DEF TInv, AnswerInv, IInv, RpcInv
    <3>2. ReadState = [Planned(state) EXCEPT !.out = out]
      <4>1. ReadState = [rpc.new EXCEPT !.body = rpc.new.body, !.out = out]
        BY <2>3 DEF ReadState, PlanInv
      <4>2. rpc.new \in StateType
        BY <2>1 DEF RpcType
      <4> HIDE DEF out
      <4>3. QED
        BY <3>1, <4>1, <4>2 DEF StateType
    <3> HIDE DEF out
    <3>3. ReadState.id = state.id /\ ReadState # NoState
      BY <2>1, <3>1, <3>2, Constants DEF Planned, StateType, NoState
    <3>4. state' = ReadState /\ private' = rpc.pv
      BY <2>1, <2>3, <3>3 DEF ReadOk, Ends, UpdateEnds, Save
    <3>5. state'.body = config.body
      BY <2>1, <3>2, <3>4 DEF Planned, StateType
    <3>6. [state' EXCEPT !.body = config.body, !.patch = config.patch, !.force = config.force] = state'
      BY <2>1, <3>2, <3>4 DEF Planned, StateType
    <3>7. private' = config.eph
      BY <2>1, <2>3, <3>1, <3>4 DEF EphemeralDiff, NotSent
    <3>8. QED
      BY <2>1, <3>5, <3>6, <3>7, Settled
  <2>4. QED
    BY <2>2, <2>3 DEF Applied
<1>2. Init => PlanInv
  BY DEF Init, PlanInv, Idle
<1>3. QED
  BY <1>1, <1>2, PlanStep, Truth, PTL DEF Spec, AppliedIsSettled, TInv, IInv
-----------------------------------------------------------------------------
(* The resource keeps the account of Ledger: every step of it is a step of  *)
(* the ledger, or changes nothing of what the ledger tells.                 *)

(* What the ledger sees of the resource. *)
Booked == {state.id} \ {0}
Hand == {rpc.id} \ {0}

(* A step that the ledger does not see. *)
SeesNothing == Live' = Live /\ Booked' = Booked /\ Hand' = Hand /\ excused' = excused

(* What the ledger promises is said of its variables alone. *)
LEMMA LedgerStutters ==
  ASSUME SeesNothing
  PROVE  UNCHANGED Books!vars
BY DEF SeesNothing, Booked, Hand, Books!vars

(* With an RPC that is not Create the hand is empty; Create books nothing   *)
(* before it answers.                                                       *)
LEMMA WhatIsInHand ==
  ASSUME IInv
  PROVE  /\ Live \subseteq Ids /\ excused \subseteq Ids /\ 0 \notin Ids
         /\ state = NoState => Booked = {}
         /\ state # NoState => state.id \in Ids /\ Booked = {state.id}
         /\ rpc.op \in {"create", "import"} => state = NoState
         /\ rpc.op # "create" => rpc.id = 0 /\ Hand = {}
         /\ rpc.id = 0 \/ rpc.id \in Ids
<1>1. Live \subseteq Ids /\ excused \subseteq Ids /\ 0 \notin Ids
  BY Constants DEF Live, IInv, TypeOK
<1>2. rpc.id \in 0 .. MaxIds
  BY DEF IInv, TypeOK, RpcType
<1>3. rpc.id = 0 \/ rpc.id \in Ids
  BY <1>2 DEF Ids
<1>4. QED
  BY <1>1, <1>3, Constants DEF IInv, RpcInv, Booked, Hand

(* The user and the world: an object appears that the state is not asked    *)
(* for, or disappears; a crash is told of.                                  *)
LEMMA EnvironmentLedger == IInv /\ Environment => [Books!Next]_(Books!vars)
<1> SUFFICES ASSUME IInv, Environment PROVE [Books!Next]_(Books!vars)
  OBVIOUS
<1>1. CASE ChangeConfig
  BY <1>1, LedgerStutters DEF ChangeConfig, SeesNothing, Live, Booked, Hand
<1>2. ASSUME NEW i \in Ids, remote' = [remote EXCEPT ![i] = None], UNCHANGED <<state, rpc, excused>>
      PROVE  Books!Next
  <2>1. Live' = Live \ {i}
    BY <1>2 DEF Live, IInv, TypeOK
  <2>2. Books!Vanish(i)
    BY <1>2, <2>1 DEF Books!Vanish
  <2>3. QED
    BY <2>2 DEF Books!Next
<1>3. CASE Vanish
  BY <1>2, <1>3 DEF Vanish, IInv, TypeOK
<1>4. CASE Drift
  <2>1. PICK i \in Live :
          \/ \E b \in Bodies \ {remote[i].body} : remote' = [remote EXCEPT ![i].body = b]
          \/ remote' = [remote EXCEPT ![i] = None]
    BY <1>4 DEF Drift
  <2>2. i \in Ids /\ remote[i] \in Object /\ UNCHANGED <<state, rpc, excused>>
    BY <1>4, <2>1 DEF Live, IInv, TypeOK, Drift
  <2>3. ASSUME NEW b \in Bodies, remote' = [remote EXCEPT ![i].body = b]
        PROVE  Live' = Live
    <3>1. [remote[i] EXCEPT !.body = b] \in Object
      BY <2>2 DEF Object
    <3>2. remote' = [remote EXCEPT ![i] = [remote[i] EXCEPT !.body = b]]
      BY <2>3
    <3>3. QED
      BY <2>1, <2>2, <3>1, <3>2, ObjectAssumption DEF Live, IInv, TypeOK
  <2>4. QED
    BY <1>2, <2>1, <2>2, <2>3, LedgerStutters DEF SeesNothing, Booked, Hand
<1>5. CASE Foreign
  <2>1. 1 \in Ids
    BY DEF Ids
  <2>2. Live' = Live \cup {1}
    BY <1>5, <2>1, ObjectAssumption DEF Foreign, Live, IInv, TypeOK
  <2>3. Books!Stray(1)
    BY <1>5, <2>2 DEF Foreign, Books!Stray
  <2>4. QED
    BY <2>1, <2>3 DEF Books!Next
<1>6. CASE Crash
  <2>1. Hand' = {} /\ Live' = Live /\ state' = state
    BY <1>6, Constants DEF Crash, KeepState, Hand, Live
  <2>2. excused' = excused \cup Hand
    BY <1>6, WhatIsInHand DEF Crash, Hand
  <2>3. Books!Tell
    BY <2>1, <2>2 DEF Books!Tell, Hand
  <2>4. QED
    BY <2>3 DEF Books!Next
<1>7. QED
  BY <1>1, <1>3, <1>4, <1>5, <1>6 DEF Environment

(* The start of an RPC is nothing to the ledger: the hand is empty. *)
LEMMA StartLedger == IInv /\ (Apply \/ StartRead \/ StartImport) => UNCHANGED Books!vars
<1> SUFFICES ASSUME IInv, Apply \/ StartRead \/ StartImport PROVE UNCHANGED Books!vars
  OBVIOUS
<1>1. rpc = Idle /\ UNCHANGED <<state, remote, excused>>
  BY DEF Apply, StartCreate, StartUpdate, StartDelete, StartRead, StartImport, Start
<1>2. rpc'.id = 0
  <2>1. ASSUME NEW op, NEW place, Start(op, place) PROVE rpc'.id = 0
    BY <2>1, Constants DEF Start, RpcType
  <2>2. CASE StartImport
    <3>1. PICK i \in Live : rpc' = [Idle EXCEPT !.op = "import", !.at = "readback", !.new.id = i]
      BY <2>2 DEF StartImport
    <3>2. rpc' = [Idle EXCEPT !.op = "import", !.at = "readback", !.new = [NoState EXCEPT !.id = i]]
      BY <3>1 DEF Idle
    <3>3. QED
      BY <3>2, Constants DEF RpcType
  <2>3. QED
    BY <2>1, <2>2 DEF Apply, StartCreate, StartUpdate, StartDelete, StartRead
<1>3. SeesNothing
  BY <1>1, <1>2, Constants DEF SeesNothing, Live, Booked, Hand
<1>4. QED
  BY <1>3, LedgerStutters

(* An error without a state: of Create, it tells of what Create has made.   *)
LEMMA FailsLedger ==
  ASSUME IInv, Fails, remote' = remote
  PROVE  [Books!Next]_(Books!vars)
<1>1. Live' = Live
  BY DEF Live
<1>2. CASE rpc.op = "create" /\ CreateEnds(NoState, TRUE)
  <2>1. state' = NoState /\ rpc' = Idle /\ excused' = (excused \cup {rpc.id}) \ {0} /\ state = NoState
    BY <1>2, WhatIsInHand, Constants DEF CreateEnds, Save
  <2>2. Hand' = {} /\ excused' = excused \cup Hand
    BY <2>1, WhatIsInHand, Constants DEF Hand
  <2>3. Books!Tell
    BY <1>1, <2>1, <2>2 DEF Books!Tell, Hand
  <2>4. QED
    BY <2>3 DEF Books!Next
<1>3. CASE rpc.op \in {"update", "delete"} /\ KeepState /\ excused' = excused
  <2>1. Hand' = Hand /\ state' = state
    BY <1>3, WhatIsInHand, Constants DEF KeepState, Hand
  <2>2. QED
    BY <1>1, <1>3, <2>1, LedgerStutters DEF SeesNothing, Booked
<1>4. QED
  BY <1>2, <1>3 DEF Fails

(* Calls that are refused, once or for good, and operations that fail. *)
LEMMA RefusedLedger ==
  IInv /\ (RefusedOnce \/ Refused \/ PollFails \/ UpdateNotFound) => [Books!Next]_(Books!vars)
<1> SUFFICES ASSUME IInv, RefusedOnce \/ Refused \/ PollFails \/ UpdateNotFound
             PROVE  [Books!Next]_(Books!vars)
  OBVIOUS
<1>1. CASE RefusedOnce
  <2>1. rpc'.id = rpc.id /\ UNCHANGED <<state, remote, excused>>
    BY <1>1, TryType DEF RefusedOnce, Quiet, IInv, TypeOK
  <2>2. QED
    BY <2>1, LedgerStutters DEF SeesNothing, Live, Booked, Hand
<1>2. CASE Refused \/ PollFails \/ UpdateNotFound
  BY <1>2, FailsLedger DEF Refused, PollFails, UpdateNotFound
<1>3. QED
  BY <1>1, <1>2

(* Create takes the object that the API makes, or loses the answer that     *)
(* names it.                                                                *)
LEMMA CreateLedger == IInv /\ CreateStep => [Books!Next]_(Books!vars)
<1> SUFFICES ASSUME IInv, CreateStep PROVE [Books!Next]_(Books!vars)
  OBVIOUS
<1>1. CASE CheckNotFound \/ CheckAdopts \/ CreatePolled
  <2>1. rpc'.id = rpc.id /\ UNCHANGED <<state, remote, excused>>
    BY <1>1 DEF CheckNotFound, CheckAdopts, CreatePolled, Go, Quiet, RpcType, IInv, TypeOK
  <2>2. QED
    BY <2>1, LedgerStutters DEF SeesNothing, Live, Booked, Hand
<1>2. CASE CreateLands /\ (CreateAccepted \/ CreateLost)
  <2>1. NewId \in Ids /\ rpc.op = "create" /\ rpc.id = 0 /\ rpc \in RpcType
    BY <1>2 DEF CreateLands, Doing, IInv, RpcInv, TypeOK
  <2>2. CreateBody \in Object
    BY DEF CreateBody, Object, ConfigType, IInv, TypeOK
  <2>3. Live' = Live \cup {NewId}
    BY <1>2, <2>1, <2>2, ObjectAssumption DEF CreateLands, Live, IInv, TypeOK
  <2>4. CASE CreateAccepted
    <3>1. rpc'.id = NewId /\ UNCHANGED <<state, excused>>
      BY <2>1, <2>4 DEF CreateAccepted, RpcType
    <3>2. Hand = {} /\ Hand' = {NewId}
      BY <2>1, <3>1, WhatIsInHand DEF Hand
    <3>3. Books!Take(NewId)
      BY <2>3, <3>1, <3>2 DEF Books!Take, Hand
    <3>4. QED
      BY <2>1, <3>3 DEF Books!Next
  <2>5. CASE CreateLost
    <3>1. rpc'.id = 0 /\ state' = state /\ excused' = excused \cup {NewId}
      BY <2>1, <2>5, LostType, Constants DEF CreateLost, IInv, TypeOK
    <3>2. Books!Stray(NewId)
      BY <2>1, <2>3, <3>1 DEF Books!Stray
    <3>3. QED
      BY <2>1, <3>2 DEF Books!Next
  <2>6. QED
    BY <1>2, <2>4, <2>5
<1>3. QED
  BY <1>1, <1>2 DEF CreateStep, CreateAccepted, CreateLost

(* Update changes the object that is in the state. *)
LEMMA UpdateLedger == IInv /\ UpdateStep => [Books!Next]_(Books!vars)
<1> SUFFICES ASSUME IInv, UpdateStep PROVE [Books!Next]_(Books!vars)
  OBVIOUS
<1>1. CASE UpdateNotFound
  BY <1>1, RefusedLedger
<1>2. CASE UpdatePolled \/ UpdateStored
  <2>1. rpc'.id = rpc.id /\ UNCHANGED <<state, remote, excused>>
    BY <1>2 DEF UpdatePolled, UpdateStored, Go, Quiet, RpcType, IInv, TypeOK
  <2>2. QED
    BY <2>1, LedgerStutters DEF SeesNothing, Live, Booked, Hand
<1>3. CASE UpdateLands /\ (UpdateAccepted \/ UpdateLost)
  <2>1. state.id \in Ids /\ remote[state.id] \in Object /\ rpc.op = "update" /\ rpc.id = 0 /\ excused' = excused
    BY <1>3 DEF UpdateLands, Doing, IInv, RpcInv, TypeOK
  <2>2. Updated(remote[state.id]) \in Object
    <3>1. config.body \in Bodies /\ config.patch \in Patches \cup {None} /\ config.eph \in Ephs \cup {None}
      BY DEF ConfigType, IInv, TypeOK
    <3>2. QED
      BY <2>1, <3>1 DEF Updated, Object
  <2>3. Live' = Live
    BY <1>3, <2>1, <2>2, ObjectAssumption DEF UpdateLands, Live, IInv, TypeOK
  <2>4. rpc'.id = 0 /\ state' = state
    BY <1>3, <2>1, LostType, GoType, Constants DEF UpdateAccepted, UpdateLost, IInv, TypeOK
  <2>5. QED
    BY <2>1, <2>3, <2>4, LedgerStutters DEF SeesNothing, Booked, Hand
<1>4. QED
  BY <1>1, <1>2, <1>3 DEF UpdateStep, UpdateAccepted, UpdateLost

(* The object leaves the state with the step that ends its existence, or    *)
(* later.                                                                   *)
LEMMA UnbookLedger ==
  ASSUME IInv, state # NoState, rpc.id = 0, state' = NoState, rpc' = Idle, excused' = excused,
         Live' \in {Live, Live \ {state.id}}, state.id \notin Live'
  PROVE  Books!Next
<1>1. Booked = {state.id} /\ Booked' = {} /\ Hand' = Hand /\ state.id \in Ids
  BY WhatIsInHand, Constants DEF Booked, Hand
<1>2. Books!Unbook(state.id)
  BY <1>1 DEF Books!Unbook, Booked, Hand
<1>3. QED
  BY <1>1, <1>2 DEF Books!Next

(* Delete: the object is gone before the state is. *)
LEMMA DeleteLedger == IInv /\ DeleteStep => [Books!Next]_(Books!vars)
<1> SUFFICES ASSUME IInv, DeleteStep PROVE [Books!Next]_(Books!vars)
  OBVIOUS
<1>1. /\ rpc.op = "delete" /\ rpc.id = 0 /\ state # NoState /\ state.id \in Ids
      /\ rpc \in RpcType /\ remote \in [Ids -> Object \cup {None}]
  BY DEF DeleteStep, DeleteAccepted, DeleteLost, DeleteNotFound, DeleteBusy, DeletePolled,
         DeleteLands, Doing, IInv, RpcInv, TypeOK
<1>2. ASSUME rpc'.id = 0, UNCHANGED <<state, remote, excused>> PROVE UNCHANGED Books!vars
  BY <1>1, <1>2, LedgerStutters DEF SeesNothing, Live, Booked, Hand
<1>3. CASE DeleteBusy
  BY <1>1, <1>2, <1>3 DEF DeleteBusy, Go, Quiet, RpcType
<1>4. CASE DeleteNotFound \/ DeletePolled
  <2>1. /\ state' = NoState /\ rpc' = Idle /\ excused' = excused /\ remote' = remote
        /\ remote[state.id] = None
    BY <1>4 DEF DeleteNotFound, DeletePolled, DeleteSucceeds, Save
  <2>2. Live' = Live /\ state.id \notin Live'
    BY <2>1 DEF Live
  <2>3. QED
    BY <1>1, <2>1, <2>2, UnbookLedger
<1>5. CASE DeleteLands /\ (DeleteAccepted \/ DeleteLost)
  <2>1. excused' = excused /\ (PollDelete => remote' = remote)
        /\ (~PollDelete => remote' = [remote EXCEPT ![state.id] = None])
    BY <1>5 DEF DeleteLands
  <2>2. ~PollDelete => Live' = Live \ {state.id}
    BY <1>1, <2>1 DEF Live
  <2>3. CASE DeleteAccepted /\ PollDelete
    BY <1>1, <1>2, <2>1, <2>3 DEF DeleteAccepted, Go, RpcType
  <2>4. CASE DeleteAccepted /\ ~PollDelete
    BY <1>1, <2>1, <2>2, <2>4, UnbookLedger DEF DeleteAccepted, Save
  <2>5. CASE DeleteLost
    <3>1. rpc'.id = 0 /\ state' = state
      BY <1>1, <2>5, LostType, Constants DEF DeleteLost, IInv, TypeOK
    <3>2. CASE PollDelete
      BY <1>2, <2>1, <3>1, <3>2
    <3>3. CASE ~PollDelete
      <4>1. Books!Vanish(state.id)
        BY <1>1, <2>1, <2>2, <3>1, <3>3 DEF Books!Vanish
      <4>2. QED
        BY <1>1, <4>1 DEF Books!Next
    <3>4. QED
      BY <3>2, <3>3
  <2>6. QED
    BY <1>5, <2>3, <2>4, <2>5
<1>6. QED
  BY <1>3, <1>4, <1>5 DEF DeleteStep, DeleteAccepted, DeleteLost

(* The answers: Create's and Import's book their object, Read's takes one   *)
(* out that does not exist any more.                                        *)
LEMMA BookLedger ==
  ASSUME IInv, state = NoState, NEW x \in Ids, rpc.id \in {0, x}, Live' = Live,
         state'.id = x, rpc' = Idle, excused' = excused \ {x}
  PROVE  Books!Next
<1>1. Booked = {} /\ Booked' = {x} /\ Hand \subseteq {x} /\ Hand' = {}
  BY WhatIsInHand, Constants DEF Booked, Hand
<1>2. Books!Book(x)
  BY <1>1 DEF Books!Book, Booked, Hand
<1>3. QED
  BY <1>2 DEF Books!Next

LEMMA ReadLedger == IInv /\ ReadStep => [Books!Next]_(Books!vars)
<1> SUFFICES ASSUME IInv, ReadStep PROVE [Books!Next]_(Books!vars)
  OBVIOUS
<1>1. /\ remote' = remote /\ Live' = Live /\ rpc.at = "readback"
      /\ rpc.new.id \in Ids /\ rpc.new \in StateType
  <2>1. remote' = remote /\ rpc.at = "readback"
    BY DEF ReadStep, ReadNotFound, ReadFails, ReadOk
  <2>2. rpc.new.id \in Ids /\ rpc.new \in StateType
    BY <2>1 DEF IInv, RpcInv, TypeOK, RpcType
  <2>3. QED
    BY <2>1, <2>2 DEF Live
<1>2. ASSUME NEW new \in StateType, NEW failed \in BOOLEAN, Ends(new, failed),
             (new = NoState /\ remote[rpc.new.id] = None) \/ new.id = rpc.new.id
      PROVE  [Books!Next]_(Books!vars)
  <2>1. CASE rpc.op = "create" /\ CreateEnds(new, failed)
    <3>1. rpc.id \in {0, rpc.new.id} /\ state = NoState
      BY <1>1, <2>1 DEF IInv, RpcInv
    <3>2. CASE new = NoState
      <4>1. Fails
        BY <2>1, <3>2 DEF Fails, CreateEnds
      <4>2. QED
        BY <1>1, <4>1, FailsLedger
    <3>3. CASE new # NoState
      <4> DEFINE new2 == [new EXCEPT !.tainted = failed \/ new.body # config.body]
      <4>1. new2.id = new.id /\ new.id = rpc.new.id
        BY <1>2, <3>3 DEF StateType
      <4> HIDE DEF new2
      <4>2. state' = new2 /\ rpc' = Idle /\ excused' = excused \ {new.id}
        BY <2>1, <3>3 DEF CreateEnds, Save, new2
      <4>3. QED
        BY <1>1, <3>1, <4>1, <4>2, BookLedger
    <3>4. QED
      BY <3>2, <3>3
  <2>2. CASE rpc.op = "update" /\ UpdateEnds(new)
    <3>1. rpc.new.id = state.id /\ rpc.id = 0
      BY <2>2 DEF IInv, RpcInv
    <3>2. rpc' = Idle /\ state'.id = state.id /\ excused' = excused
      BY <1>2, <2>2, <3>1 DEF UpdateEnds, KeepState, Save
    <3>3. QED
      BY <1>1, <3>1, <3>2, LedgerStutters, Constants DEF SeesNothing, Booked, Hand
  <2>3. CASE rpc.op = "read" /\ ReadEnds(new)
    <3>1. rpc.new.id = state.id /\ rpc.id = 0 /\ state # NoState
      BY <2>3 DEF IInv, RpcInv
    <3>2. rpc' = Idle /\ state' = new /\ excused' = excused
      BY <2>3 DEF ReadEnds, Save
    <3>3. CASE new = NoState /\ remote[rpc.new.id] = None
      <4>1. state.id \notin Live'
        BY <1>1, <3>1, <3>3 DEF Live
      <4>2. QED
        BY <1>1, <3>1, <3>2, <3>3, <4>1, UnbookLedger
    <3>4. CASE new.id = rpc.new.id
      BY <1>1, <3>1, <3>2, <3>4, LedgerStutters, Constants DEF SeesNothing, Booked, Hand
    <3>5. QED
      BY <1>2, <3>3, <3>4
  <2>4. CASE rpc.op = "import" /\ ImportEnds(IF failed THEN NoState ELSE new)
    <3>1. rpc.id = 0 /\ state = NoState /\ Hand = {}
      BY <2>4, WhatIsInHand
    <3>2. CASE failed \/ new = NoState
      <4>1. rpc' = Idle /\ state' = state /\ excused' = excused
        BY <2>4, <3>2, WhatIsInHand, Constants DEF ImportEnds, KeepState
      <4>2. QED
        BY <1>1, <3>1, <4>1, LedgerStutters, Constants DEF SeesNothing, Booked, Hand
    <3>3. CASE ~failed /\ new # NoState
      <4>1. rpc' = Idle /\ state' = new /\ excused' = excused \ {new.id} /\ new.id = rpc.new.id
        BY <1>2, <2>4, <3>3 DEF ImportEnds, Save
      <4>2. QED
        BY <1>1, <3>1, <4>1, BookLedger
    <3>4. QED
      BY <3>2, <3>3
  <2>5. QED
    BY <1>2, <2>1, <2>2, <2>3, <2>4 DEF Ends
<1>3. CASE ReadNotFound
  BY <1>2, <1>3, Constants DEF ReadNotFound
<1>4. CASE ReadFails
  BY <1>1, <1>2, <1>4 DEF ReadFails
<1>5. CASE ReadOk
  <2> DEFINE o == remote[rpc.new.id]
             body == IF rpc.adopt \/ rpc.op \in {"read", "import"} THEN o.body ELSE rpc.new.body
             out == IF rpc.pv = None THEN o.eph ELSE None
  <2>1. o \in Object
    BY <1>1, <1>5 DEF ReadOk, IInv, TypeOK
  <2>2. o.body \in Bodies /\ o.eph \in Ephs \cup {None} /\ rpc.new.body \in Bodies \cup {None}
    BY <1>1, <2>1 DEF Object, StateType
  <2>3. body \in Bodies \cup {None} /\ out \in Ephs \cup {None}
    BY <2>2
  <2>4. ReadState = [rpc.new EXCEPT !.body = body, !.out = out]
    BY DEF ReadState
  <2> HIDE DEF body, out
  <2>5. ReadState \in StateType /\ ReadState.id = rpc.new.id
    BY <1>1, <2>3, <2>4 DEF StateType
  <2>6. QED
    BY <1>2, <1>5, <2>5 DEF ReadOk
<1>6. QED
  BY <1>3, <1>4, <1>5 DEF ReadStep

(* KeepsLedger: whatever happens between an RPC and the API, an object that *)
(* exists is in the state, in the hand of Create, or told of, and it leaves *)
(* each of these only for the next; Delete and Read let go of an object     *)
(* that is gone, and of no other.                                           *)
THEOREM KeepsTheLedger == Spec => KeepsLedger
<1>1. Init => Books!Init
  BY Constants DEF Init, Books!Init, Live
<1>2. IInv /\ [Next]_vars => [Books!Next]_(Books!vars)
  <2> SUFFICES ASSUME IInv, [Next]_vars PROVE [Books!Next]_(Books!vars)
    OBVIOUS
  <2>1. CASE UNCHANGED vars
    BY <2>1, LedgerStutters DEF vars, SeesNothing, Live, Booked, Hand
  <2>2. CASE Next
    BY <2>2, EnvironmentLedger, StartLedger, CreateLedger, UpdateLedger, DeleteLedger, ReadLedger,
       RefusedLedger DEF Next, RpcStep
  <2>3. QED
    BY <2>1, <2>2
<1>3. QED
  BY <1>1, <1>2, Invariance, PTL DEF Spec, KeepsLedger, Books!Spec

(* What the ledger promises: nothing exists that nobody knows of; and so,   *)
(* when no RPC is in progress, no object is forgotten.                      *)
THEOREM LedgerBalances == KeepsLedger => [](Books!Balanced /\ NoUnreportedOrphan)
<1>1. Books!Init => Books!Balanced
  BY DEF Books!Init, Books!Balanced
<1>2. Books!Balanced /\ [Books!Next]_(Books!vars) => Books!Balanced'
  BY DEF Books!Balanced, Books!Next, Books!vars, Books!Take, Books!Stray, Books!Vanish, Books!Book,
         Books!Unbook, Books!Tell
<1>3. Books!Balanced => NoUnreportedOrphan
  BY DEF Books!Balanced, NoUnreportedOrphan, Idle
<1>4. QED
  BY <1>1, <1>2, <1>3, PTL DEF KeepsLedger, Books!Spec
=============================================================================
