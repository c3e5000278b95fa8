------------------------ MODULE EphemeralLeaseProofs ------------------------
(***************************************************************************)
(* What holds of the leases of ephemeral resources, for every duration of  *)
(* a lease, latency and expiry_ahead, and any faults.                      *)
(***************************************************************************)
EXTENDS EphemeralLease, TLAPS

USE ConfigsAssumption, TimesAssumption, BoundsAssumption

(* ----------------------------- the constants ---------------------------- *)

LEMMA Constants ==
  /\ Duration \in Nat /\ Latency \in Nat /\ Early \in Nat
  /\ MaxTries \in Nat /\ MaxTries >= 1
  /\ \A i \in 0 .. MaxTries - 1 : i + 1 \in Ids /\ i + 1 \in 0 .. MaxTries
  /\ \A c \in Configs : /\ c.ahead \in Nat
                        /\ c.renew \in BOOLEAN /\ c.close \in BOOLEAN
                        /\ c.expiry \in {"none", "time", "duration"}
                        /\ c.expiry # "none" => c.renew
BY DEF ConfigType, Ids

(* ------------------------- the initial states --------------------------- *)

LEMMA InitInv == Init => IInv
<1> SUFFICES ASSUME Init PROVE IInv
  OBVIOUS
<1>1. TypeOK
  <2>1. expires \in [Ids -> Nat] /\ private \in PrivateType /\ tries \in 0 .. MaxTries - 1
    BY Constants DEF Init, PrivateType
  <2>2. clock \in Nat /\ since \in Nat /\ renewAt \in Int /\ id \in 0 .. MaxTries
    BY Constants DEF Init
  <2>3. config \in Configs /\ pc \in Places /\ timer \in BOOLEAN /\ failed \in BOOLEAN /\ told \in SUBSET Ids
    BY DEF Init, Places
  <2>4. QED
    BY <2>1, <2>2, <2>3 DEF TypeOK
<1>2. RpcInv
  <2>1. pc \notin HeldPlaces /\ ~Calling /\ pc # "closing" /\ ~timer /\ since <= clock
    BY DEF Init, HeldPlaces, Calling
  <2>2. QED
    BY <2>1 DEF RpcInv
<1>3. Accounted
  BY DEF Init, Accounted
<1>4. Margin
  BY DEF Init, Margin
<1>5. QED
  BY <1>1, <1>2, <1>3, <1>4 DEF IInv

(* ------------------------------- the types ------------------------------ *)

LEMMA ExpiryTimeType ==
  ASSUME TypeOK, id \in Ids
  PROVE  ExpiryTime \in Int
BY Constants DEF TypeOK, ExpiryTime

(* The table of the leases stays one when a lease is granted, extended or   *)
(* closed.                                                                  *)
LEMMA LeaseTable ==
  ASSUME TypeOK, NEW i, NEW t \in {0, clock + Duration}
  PROVE  [expires EXCEPT ![i] = t] \in [Ids -> Nat]
<1>1. t \in Nat
  BY Constants DEF TypeOK
<1>2. QED
  BY <1>1 DEF TypeOK

(* Every step keeps the types. *)
LEMMA TypeStep == TypeOK /\ RpcInv /\ [Next]_vars => TypeOK'
<1> SUFFICES ASSUME TypeOK, RpcInv, [Next]_vars PROVE TypeOK'
  OBVIOUS
<1> USE Constants DEF TypeOK, Places
<1>1. CASE Tick
  BY <1>1 DEF Tick
<1>2. CASE Open
  <2>1. CASE OpenCall
    BY <2>1 DEF OpenCall, Call
  <2>2. CASE OpenGranted
    BY <2>2 DEF OpenGranted, Grant, Carried
  <2>3. CASE OpenLost
    BY <2>3 DEF OpenLost, Grant, SentAgain
  <2>4. CASE OpenRefused
    BY <2>4 DEF OpenRefused
  <2>5. CASE OpenDone
    <3>1. id \in Ids /\ ExpiryTime \in Int
      BY <2>5, ExpiryTimeType DEF OpenDone, RpcInv, HeldPlaces
    <3>2. renewAt' \in Int /\ private' \in PrivateType /\ timer' \in BOOLEAN
      BY <2>5, <3>1 DEF OpenDone, PrivateType
    <3>3. QED
      BY <2>5, <3>2 DEF OpenDone
  <2>6. CASE OpenFails
    BY <2>6 DEF OpenFails, RpcInv, HeldPlaces
  <2>7. QED
    BY <1>2, <2>1, <2>2, <2>3, <2>4, <2>5, <2>6 DEF Open
<1>3. CASE Renew
  <2>1. CASE RenewCall
    BY <2>1 DEF RenewCall, Call
  <2>2. CASE RenewCarried
    <3>1. expires' \in [Ids -> Nat]
      BY <2>2, LeaseTable DEF RenewCarried, Extend
    <3>2. QED
      BY <2>2, <3>1 DEF RenewCarried, Extend, Carried
  <2>3. CASE RenewLost
    <3>1. expires' = [expires EXCEPT ![private.renew] = clock + Duration]
      BY <2>3 DEF RenewLost, Extend
    <3>2. expires' \in [Ids -> Nat]
      BY <3>1, LeaseTable
    <3>3. tries' \in 0 .. MaxTries - 1 /\ since' \in Nat /\ pc' \in Places
      BY <2>3 DEF RenewLost, Extend, SentAgain, StopRenewing
    <3>4. timer' \in BOOLEAN /\ failed' \in BOOLEAN
      BY <2>3 DEF RenewLost, StopRenewing
    <3>5. QED
      BY <2>3, <3>2, <3>3, <3>4 DEF RenewLost
  <2>4. CASE RenewDone
    BY <2>4, ExpiryTimeType DEF RenewDone, RpcInv, HeldPlaces
  <2>5. CASE RenewFails
    BY <2>5 DEF RenewFails, StopRenewing
  <2>6. QED
    BY <1>3, <2>1, <2>2, <2>3, <2>4, <2>5 DEF Renew
<1>4. CASE Close
  <2>1. CASE CloseCall
    BY <2>1 DEF CloseCall, Call
  <2>2. CASE CloseDone
    BY <2>2 DEF CloseDone, Release, Carried
  <2>3. CASE CloseEnds
    BY <2>3 DEF CloseEnds
  <2>4. CASE CloseLost
    <3>1. expires' \in [Ids -> Nat]
      BY <2>4, LeaseTable DEF CloseLost, Release
    <3>2. QED
      BY <2>4, <3>1 DEF CloseLost, Release, SentAgain
  <2>5. CASE CloseFails
    <3>1. private.close \in Ids
      BY <2>5 DEF CloseFails, RpcInv, HeldPlaces, Ids
    <3>2. QED
      BY <2>5, <3>1 DEF CloseFails
  <2>6. QED
    BY <1>4, <2>1, <2>2, <2>3, <2>4, <2>5 DEF Close
<1>5. CASE UNCHANGED vars
  BY <1>5 DEF vars
<1>6. QED
  BY <1>1, <1>2, <1>3, <1>4, <1>5 DEF Next

(* ---------------------- the control and the account --------------------- *)

(* Every step keeps the account of the leases: one that Open is granted is  *)
(* held, told of when its answer is lost, and closed by its own id.         *)
LEMMA AccountStep ==
  TypeOK /\ RpcInv /\ Accounted /\ [Next]_vars => RpcInv' /\ Accounted'
<1> SUFFICES ASSUME TypeOK, RpcInv, Accounted, [Next]_vars PROVE RpcInv' /\ Accounted'
  OBVIOUS
<1> USE Constants DEF TypeOK, RpcInv, Accounted, HeldPlaces, Calling
<1>1. CASE Tick
  BY <1>1 DEF Tick
<1>2. CASE Open
  <2>1. CASE OpenCall
    BY <2>1 DEF OpenCall, Call
  <2>2. CASE OpenGranted
    BY <2>2 DEF OpenGranted, Grant, Carried
  <2>3. CASE OpenLost
    BY <2>3 DEF OpenLost, Grant, SentAgain
  <2>4. CASE OpenRefused
    BY <2>4 DEF OpenRefused
  <2>5. CASE OpenDone
    BY <2>5 DEF OpenDone
  <2>6. CASE OpenFails
    BY <2>6 DEF OpenFails
  <2>7. QED
    BY <1>2, <2>1, <2>2, <2>3, <2>4, <2>5, <2>6 DEF Open
<1>3. CASE Renew
  <2>1. CASE RenewCall
    BY <2>1 DEF RenewCall, Call
  <2>2. CASE RenewCarried
    BY <2>2 DEF RenewCarried, Extend, Carried, Ids
  <2>3. CASE RenewLost
    BY <2>3 DEF RenewLost, Extend, SentAgain, StopRenewing, Ids
  <2>4. CASE RenewDone
    BY <2>4 DEF RenewDone
  <2>5. CASE RenewFails
    BY <2>5 DEF RenewFails, StopRenewing
  <2>6. QED
    BY <1>3, <2>1, <2>2, <2>3, <2>4, <2>5 DEF Renew
<1>4. CASE Close
  <2>1. CASE CloseCall
    BY <2>1 DEF CloseCall, Call, Ids
  <2>2. CASE CloseDone
    BY <2>2 DEF CloseDone, Release, Carried, Ids
  <2>3. CASE CloseEnds
    BY <2>3 DEF CloseEnds
  <2>4. CASE CloseLost
    BY <2>4 DEF CloseLost, Release, SentAgain, Ids
  <2>5. CASE CloseFails
    BY <2>5 DEF CloseFails
  <2>6. QED
    BY <1>4, <2>1, <2>2, <2>3, <2>4, <2>5 DEF Close
<1>5. CASE UNCHANGED vars
  BY <1>5 DEF vars
<1>6. QED
  BY <1>1, <1>2, <1>3, <1>4, <1>5 DEF Next

(* ------------------------------ the margin ------------------------------ *)

(* With an expiry_ahead that is prudent, RenewAt leaves the time that the   *)
(* renewal takes to the API, whenever the answer arrives.                   *)
LEMMA ExpiryTimeMargin ==
  ASSUME TypeOK, RpcInv, Prudent, pc \in {"granted", "renewed"}, expires[id] = since + Duration
  PROVE  ExpiryTime + Latency < expires[id] /\ clock + Latency < expires[id]
<1>1. id \in Ids /\ expires[id] \in Nat /\ clock <= since + Latency /\ since \in Nat /\ clock \in Nat
  BY DEF TypeOK, RpcInv, HeldPlaces, Calling
<1>2. CASE config.expiry = "time" /\ config.ahead > Latency
  BY <1>1, <1>2, Constants DEF ExpiryTime, Prudent, TypeOK
<1>3. CASE config.expiry = "duration" /\ config.ahead > 2 * Latency
  BY <1>1, <1>3, Constants DEF ExpiryTime, Prudent, TypeOK
<1>4. QED
  BY <1>2, <1>3 DEF Prudent

LEMMA MarginStep == TypeOK /\ RpcInv /\ Margin /\ [Next]_vars => Margin'
<1> SUFFICES ASSUME TypeOK, RpcInv, Margin, [Next]_vars, Prudent', ~failed'
             PROVE  Margin'
  BY DEF Margin
<1>1. config' = config /\ Prudent /\ ~failed
  BY DEF Next, vars, Tick, Open, OpenCall, OpenGranted, OpenLost, OpenRefused, OpenDone, OpenFails,
     Renew, RenewCall, RenewCarried, RenewLost, RenewDone, RenewFails, StopRenewing,
     Close, CloseCall, CloseDone, CloseEnds, CloseLost, CloseFails, Prudent
<1>2. config.expiry # "none" /\ Duration > 2 * Latency
  BY <1>1 DEF Prudent
<1> USE <1>1, <1>2, Constants DEF TypeOK, RpcInv, Margin, HeldPlaces, Calling
<1>3. CASE Tick
  BY <1>3 DEF Tick
<1>4. CASE Open
  <2>1. CASE OpenCall
    BY <2>1 DEF OpenCall, Call
  <2>2. CASE OpenGranted
    BY <2>2 DEF OpenGranted, Grant, Carried
  <2>3. CASE OpenLost
    BY <2>3 DEF OpenLost, SentAgain
  <2>4. CASE OpenRefused \/ OpenFails
    BY <2>4 DEF OpenRefused, OpenFails
  <2>5. CASE OpenDone
    BY <2>5, ExpiryTimeMargin DEF OpenDone
  <2>6. QED
    BY <1>4, <2>1, <2>2, <2>3, <2>4, <2>5 DEF Open
<1>5. CASE Renew
  <2>1. CASE RenewCall
    BY <2>1 DEF RenewCall, Call
  <2>2. CASE RenewCarried
    BY <2>2 DEF RenewCarried, Extend, Carried, Ids
  <2>3. CASE RenewLost
    <3>1. pc = "renewing" /\ pc' = "renewing" /\ since' = clock /\ timer' = timer
      <4>1. SentAgain /\ UNCHANGED <<timer, failed>>
        BY <2>3 DEF RenewLost, StopRenewing
      <4>2. pc = "renewing"
        BY <2>3 DEF RenewLost, Extend
      <4>3. QED
        BY <4>1, <4>2 DEF SentAgain
    <3>2. private.renew = id /\ id \in Ids
      <4>1. id \in Ids /\ private = [renew |-> IF config.renew THEN id ELSE 0, close |-> IF config.close THEN id ELSE 0]
        BY <3>1
      <4>2. config.renew
        OBVIOUS
      <4>3. QED
        BY <4>1, <4>2
    <3>3. expires'[id] = clock + Duration
      BY <2>3, <3>2 DEF RenewLost, Extend
    <3>4. id' = id /\ since' + Latency < expires'[id]
      BY <2>3, <3>1, <3>3 DEF RenewLost
    <3>5. QED
      BY <2>3, <3>1, <3>4 DEF RenewLost, Extend
  <2>4. CASE RenewDone
    BY <2>4, ExpiryTimeMargin DEF RenewDone
  <2>5. CASE RenewFails
    BY <2>5 DEF RenewFails, StopRenewing
  <2>6. QED
    BY <1>5, <2>1, <2>2, <2>3, <2>4, <2>5 DEF Renew
<1>6. CASE Close
  BY <1>6 DEF Close, CloseCall, CloseDone, CloseEnds, CloseLost, CloseFails, Call, Carried, SentAgain,
     Release
<1>7. CASE UNCHANGED vars
  BY <1>7 DEF vars
<1>8. QED
  BY <1>3, <1>4, <1>5, <1>6, <1>7 DEF Next

(* ------------------------------ the theorems ---------------------------- *)

LEMMA StepInv == IInv /\ [Next]_vars => IInv'
BY TypeStep, AccountStep, MarginStep DEF IInv

THEOREM Invariance == Spec => []IInv
BY InitInv, StepInv, PTL DEF Spec

(* Type correctness of the ephemeral resource. *)
THEOREM LeaseTypes == Spec => []TypeOK
<1>1. IInv => TypeOK
  BY DEF IInv
<1>2. QED
  BY <1>1, Invariance, PTL

(* Open, Renew and Close leave no lease behind in silence. *)
THEOREM LeasesAccounted == Spec => []NoSilentLeak
<1>1. IInv => NoSilentLeak
  <2> SUFFICES ASSUME IInv, pc = "end", NEW i \in Ids, Alive(i)
               PROVE  i \in told \/ ~config.close
    BY DEF NoSilentLeak
  <2>1. expires[i] # 0
    BY DEF IInv, TypeOK, Alive
  <2>2. QED
    BY <2>1 DEF IInv, Accounted, HeldPlaces
<1>2. QED
  BY <1>1, Invariance, PTL

(* A lease in use does not run out while it is renewed, if expiry_ahead     *)
(* covers the latency.                                                      *)
THEOREM LeaseCovers == Spec => []LeaseCoversUse
<1>1. IInv => LeaseCoversUse
  <2> SUFFICES ASSUME IInv, Prudent, InUse, ~failed
               PROVE  Alive(id)
    BY DEF LeaseCoversUse
  <2>1. id \in Ids /\ expires[id] \in Nat /\ clock \in Nat /\ since \in Nat
    BY DEF IInv, TypeOK, RpcInv, HeldPlaces, InUse
  <2>2. CASE pc = "open"
    BY <2>1, <2>2, Constants DEF IInv, Margin, Alive
  <2>3. CASE pc \in {"renewing", "renewed"}
    BY <2>1, <2>3, Constants DEF IInv, Margin, RpcInv, Calling, Alive, Prudent
  <2>4. QED
    BY <2>2, <2>3 DEF InUse
<1>2. QED
  BY <1>1, Invariance, PTL

(* --------------------------- the ledger's account ------------------------ *)

(* A step that the ledger does not see. *)
SeesNothing == Granted' = Granted /\ Kept' = Kept /\ Answered' = Answered /\ Excused' = Excused

LEMMA LedgerStutters ==
  ASSUME SeesNothing
  PROVE  UNCHANGED Books!vars
BY DEF SeesNothing, Books!vars

(* What the ledger sees of a step that leaves the leases alone. *)
LEMMA SameAccount ==
  ASSUME UNCHANGED <<config, id, expires, told>>,
         \/ pc' = pc
         \/ /\ pc \in {"open", "renewing", "renewed", "closing"}
            /\ pc' \in {"open", "renewing", "renewed", "closing"}
         \/ /\ pc \notin {"granted", "open", "renewing", "renewed", "closing"}
            /\ pc' \notin {"granted", "open", "renewing", "renewed", "closing"}
  PROVE  UNCHANGED Books!vars
<1>1. Granted' = Granted /\ Excused' = Excused
  BY DEF Granted, Excused
<1>2. Kept' = Kept /\ Answered' = Answered
  BY DEF Kept, Answered
<1>3. QED
  BY <1>1, <1>2, LedgerStutters DEF SeesNothing

(* A lease that the API grants or extends is a lease afterwards, one that   *)
(* it closes is not.                                                        *)
LEMMA GrantedNow ==
  ASSUME TypeOK, NEW i \in Ids, NEW t \in {0, clock + Duration}, expires' = [expires EXCEPT ![i] = t]
  PROVE  Granted' = (IF t = 0 THEN Granted \ {i} ELSE Granted \cup {i})
<1>1. clock + Duration # 0
  BY Constants DEF TypeOK
<1>2. expires'[i] = t /\ \A j \in Ids \ {i} : expires'[j] = expires[j]
  BY DEF TypeOK
<1>3. QED
  BY <1>1, <1>2 DEF Granted

LEMMA OpenLedger == IInv /\ Open => [Books!Next]_(Books!vars)
<1> SUFFICES ASSUME IInv, Open PROVE [Books!Next]_(Books!vars)
  OBVIOUS
<1>1. TypeOK /\ tries + 1 \in Ids /\ clock + Duration # 0
  BY Constants DEF IInv, TypeOK
<1>2. CASE OpenCall \/ OpenRefused
  BY <1>2, SameAccount DEF OpenCall, Call, OpenRefused
<1>3. CASE OpenGranted
  <2>1. Granted' = Granted \cup {tries + 1}
    BY <1>1, <1>3, GrantedNow DEF OpenGranted, Grant
  <2>2. Answered = {} /\ Answered' = {tries + 1}
    BY <1>3 DEF OpenGranted, Carried, Answered
  <2>3. Kept = {} /\ Kept' = {} /\ Excused' = Excused
    BY <1>3 DEF OpenGranted, Carried, Kept, Excused
  <2>4. Books!Take(tries + 1)
    BY <2>1, <2>2, <2>3 DEF Books!Take
  <2>5. QED
    BY <1>1, <2>4 DEF Books!Next
<1>4. CASE OpenLost
  <2>1. Granted' = Granted \cup {tries + 1}
    BY <1>1, <1>4, GrantedNow DEF OpenLost, Grant
  <2>2. Answered = {} /\ Answered' = {} /\ Kept = {} /\ Kept' = {}
    BY <1>4 DEF OpenLost, SentAgain, Answered, Kept
  <2>3. Excused' = Excused \cup {tries + 1}
    BY <1>1, <1>4 DEF OpenLost, Excused
  <2>4. Books!Stray(tries + 1)
    BY <2>1, <2>2, <2>3 DEF Books!Stray
  <2>5. QED
    BY <1>1, <2>4 DEF Books!Next
<1>5. CASE OpenDone
  <2>1. id \in Ids
    BY <1>5 DEF OpenDone, IInv, RpcInv, HeldPlaces
  <2>2. Granted' = Granted /\ Excused' = Excused
    BY <1>5 DEF OpenDone, Granted, Excused
  <2>3. Answered = {id} /\ Answered' = {} /\ Kept = {} /\ Kept' = {id}
    BY <1>5 DEF OpenDone, Answered, Kept
  <2>4. Books!Book(id)
    BY <2>2, <2>3 DEF Books!Book
  <2>5. QED
    BY <2>1, <2>4 DEF Books!Next
<1>6. CASE OpenFails
  <2>1. id \in Ids
    BY <1>6 DEF OpenFails, IInv, RpcInv, HeldPlaces
  <2>2. Granted' = Granted /\ Excused' = Excused \cup {id}
    BY <1>6, <2>1 DEF OpenFails, Granted, Excused
  <2>3. Answered = {id} /\ Answered' = {} /\ Kept = {} /\ Kept' = {}
    BY <1>6 DEF OpenFails, Answered, Kept
  <2>4. Books!Tell
    BY <2>2, <2>3 DEF Books!Tell
  <2>5. QED
    BY <2>4 DEF Books!Next
<1>7. QED
  BY <1>2, <1>3, <1>4, <1>5, <1>6 DEF Open

(* Renew extends the lease that core has, and makes none. *)
LEMMA RenewLedger == IInv /\ Renew => UNCHANGED Books!vars
<1> SUFFICES ASSUME IInv, Renew PROVE UNCHANGED Books!vars
  OBVIOUS
<1>1. CASE RenewCall \/ RenewDone \/ RenewFails
  BY <1>1, SameAccount DEF RenewCall, RenewDone, RenewFails, Call, StopRenewing
<1>2. CASE RenewCarried \/ RenewLost
  <2>1. pc = "renewing" /\ pc' \in {"open", "renewing", "renewed"} /\ UNCHANGED <<config, id, told>>
    BY <1>2 DEF RenewCarried, RenewLost, Extend, Carried, SentAgain, StopRenewing
  <2>2. Alive(private.renew) /\ expires' = [expires EXCEPT ![private.renew] = clock + Duration]
    BY <1>2 DEF RenewCarried, RenewLost, Extend
  <2>3. id \in Ids /\ private.renew \in {0, id}
    BY <2>1 DEF IInv, RpcInv, HeldPlaces
  <2>4. TypeOK /\ clock + Duration # 0
    BY Constants DEF IInv, TypeOK
  <2>5. Granted' = Granted
    <3>1. CASE private.renew \notin Ids
      BY <2>2, <2>4, <3>1 DEF TypeOK, Granted
    <3>2. CASE private.renew \in Ids
      <4>1. private.renew \in Granted
        BY <2>2, <2>4, <3>2 DEF TypeOK, Alive, Granted
      <4>2. PICK i \in Ids : i = private.renew
        BY <3>2
      <4>3. expires' = [expires EXCEPT ![i] = clock + Duration]
        BY <2>2, <4>2
      <4>4. Granted' = Granted \cup {i}
        BY <2>4, <4>3, GrantedNow
      <4>5. QED
        BY <4>1, <4>2, <4>4
    <3>3. QED
      BY <3>1, <3>2
  <2>6. Kept' = Kept /\ Answered' = Answered /\ Excused' = Excused
    BY <2>1 DEF Kept, Answered, Excused
  <2>7. QED
    BY <2>5, <2>6, LedgerStutters DEF SeesNothing
<1>3. QED
  BY <1>1, <1>2 DEF Renew

LEMMA CloseLedger == IInv /\ Close => [Books!Next]_(Books!vars)
<1> SUFFICES ASSUME IInv, Close PROVE [Books!Next]_(Books!vars)
  OBVIOUS
<1>1. TypeOK /\ (pc \in {"open", "closing"} => id \in Ids /\ Kept = {id} /\ Answered = {})
  BY DEF IInv, RpcInv, HeldPlaces, Kept, Answered
<1>2. pc \in {"open", "closing"} => private.close = (IF config.close THEN id ELSE 0)
  BY DEF IInv, RpcInv, HeldPlaces
<1>3. Granted \subseteq Ids /\ 0 \notin Ids
  BY DEF Granted, Ids
<1>4. CASE CloseCall
  <2>1. CASE private.close # 0
    BY <1>4, <2>1, SameAccount DEF CloseCall, Call
  <2>2. CASE private.close = 0
    <3>1. ~config.close /\ pc = "open" /\ pc' = "end"
      BY <1>1, <1>2, <1>3, <1>4, <2>2 DEF CloseCall
    <3>2. Granted' = Granted /\ Excused' = Excused /\ Excused = Ids
      BY <1>4, <3>1 DEF CloseCall, Granted, Excused
    <3>3. Kept' = {} /\ Answered' = {}
      BY <3>1 DEF Kept, Answered
    <3>4. Books!Unbook(id)
      BY <1>1, <1>3, <3>1, <3>2, <3>3 DEF Books!Unbook
    <3>5. QED
      BY <1>1, <3>1, <3>4 DEF Books!Next
  <2>3. QED
    BY <2>1, <2>2
<1>5. CASE CloseDone \/ CloseLost
  <2>1. pc = "closing" /\ UNCHANGED <<config, id, told>>
    BY <1>5 DEF CloseDone, CloseLost, Release
  <2>2. private.close = id
    BY <1>2, <2>1 DEF IInv, RpcInv
  <2>3. Granted' = Granted \ {id}
    BY <1>1, <1>5, <2>1, <2>2, GrantedNow DEF CloseDone, CloseLost, Release
  <2>4. Excused' = Excused /\ Answered' = {}
    BY <1>5, <2>1 DEF CloseDone, CloseLost, Release, Carried, SentAgain, Excused, Answered
  <2>5. CASE pc' = "closing"
    <3>1. Kept' = Kept
      BY <2>1, <2>5 DEF Kept
    <3>2. Books!Vanish(id)
      BY <1>1, <2>1, <2>3, <2>4, <3>1 DEF Books!Vanish
    <3>3. QED
      BY <1>1, <2>1, <3>2 DEF Books!Next
  <2>6. CASE pc' \in {"closed", "end"}
    <3>1. Kept' = {}
      BY <2>6 DEF Kept
    <3>2. Books!Unbook(id)
      BY <1>1, <2>1, <2>3, <2>4, <3>1 DEF Books!Unbook
    <3>3. QED
      BY <1>1, <2>1, <3>2 DEF Books!Next
  <2>7. QED
    BY <1>5, <2>1, <2>5, <2>6 DEF CloseDone, CloseLost, Carried, SentAgain
<1>6. CASE CloseEnds
  BY <1>6, SameAccount DEF CloseEnds
<1>7. CASE CloseFails
  <2>1. pc = "closing" /\ private.close = id
    BY <1>2, <1>7 DEF CloseFails, IInv, RpcInv
  <2>2. Granted' = Granted /\ Excused' = Excused \cup {id}
    BY <1>1, <1>7, <2>1 DEF CloseFails, Granted, Excused
  <2>3. Kept' = {} /\ Answered' = {}
    BY <1>7 DEF CloseFails, Kept, Answered
  <2>4. Books!Unbook(id)
    BY <1>1, <2>1, <2>2, <2>3 DEF Books!Unbook
  <2>5. QED
    BY <1>1, <2>1, <2>4 DEF Books!Next
<1>8. QED
  BY <1>4, <1>5, <1>6, <1>7 DEF Close

(* LeasesKeepLedger: every step of Open, Renew and Close is a step of the   *)
(* ledger, or is not seen by it: a lease that is granted leaves core's hand *)
(* only when it is closed or told of, or when there is no close_method.     *)
THEOREM LeaseKeepsLedger == Spec => LeasesKeepLedger
<1>1. Init => Books!Init
  <2> SUFFICES ASSUME Init PROVE Books!Init
    OBVIOUS
  <2>1. Granted = {} /\ Kept = {} /\ Answered = {}
    BY DEF Init, Granted, Kept, Answered
  <2>2. Excused \in {{}, Ids}
    BY DEF Init, Excused
  <2>3. QED
    BY <2>1, <2>2 DEF Books!Init
<1>2. IInv /\ [Next]_vars => [Books!Next]_(Books!vars)
  <2>1. Tick \/ UNCHANGED vars => UNCHANGED Books!vars
    BY SameAccount DEF Tick, vars
  <2>2. QED
    BY <2>1, OpenLedger, RenewLedger, CloseLedger DEF Next
<1>3. QED
  BY <1>1, <1>2, Invariance, PTL DEF Spec, LeasesKeepLedger, Books!Spec
=============================================================================
