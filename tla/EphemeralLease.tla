--------------------------- MODULE EphemeralLease ---------------------------
(***************************************************************************)
(* An ephemeral resource (internal/provider/ephemeral_resource.go) as a    *)
(* lease: Open obtains it from the API, Renew extends it whenever core's   *)
(* timer says so, Close ends it; RenewAt comes from GetExpiryTime          *)
(* (ephemeral_resource_expiry.go).                                         *)
(*                                                                         *)
(* Core is external: it sets a timer for the RenewAt of an answer, stops   *)
(* renewing after an error, closes what was opened without an error, and   *)
(* runs one RPC of the instance at a time.  So is the API: a lease lasts   *)
(* Duration after the call that grants or renews it is carried out.        *)
(***************************************************************************)
EXTENDS Integers

CONSTANTS
  Configs,   \* the configurations, see ConfigType
  Duration,  \* how long a lease lasts after it was granted or renewed
  Latency,   \* a call is carried out, and answered, within this time each
  Early,     \* core calls Renew at most this long before RenewAt
  Faults,    \* "error": a call is refused, an answer cannot be used; "lost": an answer is
  MaxTries,  \* bound: attempts of one call
  MaxTime    \* bound: time

(* `expiry_type` ("none" when it is not set), `expiry_ahead`, and whether   *)
(* `renew_method` and `close_method` are set.                               *)
ConfigType == [expiry : {"none", "time", "duration"}, ahead : Nat, renew : BOOLEAN, close : BOOLEAN]

(* The schema requires renew_method for expiry_type. *)
ASSUME ConfigsAssumption == Configs \subseteq ConfigType /\ \A c \in Configs : c.expiry # "none" => c.renew
(* A lease lasts for some time, and so is never over when it is granted. *)
ASSUME TimesAssumption == {Duration, Latency, Early} \subseteq Nat /\ Duration # 0
ASSUME BoundsAssumption == MaxTries \in Nat \ {0} /\ MaxTime \in Nat
ASSUME FaultsAssumption == Faults \subseteq {"error", "lost"}

VARIABLES
  config,   \* the configuration
  clock,    \* the time
  pc,       \* where core and the RPC in progress are
  since,    \* when the last thing happened to the call in progress
  tries,    \* attempts of the call in progress that went before
  id,       \* the lease of the answer to Open
  expires,  \* the API's leases: when each ends, 0 when it was not granted or is closed
  timer,    \* core has a timer for renewAt
  renewAt,  \* RenewAt of the last answer
  private,  \* the private data, see PrivateType
  failed,   \* history: an error of Renew has told that the lease is not renewed
  told      \* history: leases that an error, or a lost answer, accounts for

vars == <<config, clock, pc, since, tries, id, expires, timer, renewAt, private, failed, told>>

Ids == 1 .. MaxTries

(* pkRenew and pkClose of the private data: the lease their paths name, or 0 *)
(* when the key is not set.                                                 *)
PrivateType == [renew : 0 .. MaxTries, close : 0 .. MaxTries]

Places == {"start", "opening", "granted", "open", "renewing", "renewed", "closing", "closed", "end"}

TypeOK ==
  /\ config \in Configs
  /\ clock \in Nat
  /\ pc \in Places
  /\ since \in Nat
  /\ tries \in 0 .. MaxTries - 1
  /\ id \in 0 .. MaxTries
  /\ expires \in [Ids -> Nat]
  /\ timer \in BOOLEAN
  /\ renewAt \in Int
  /\ private \in PrivateType
  /\ failed \in BOOLEAN
  /\ told \in SUBSET Ids

Init ==
  /\ config \in Configs
  /\ clock = 0
  /\ pc = "start"
  /\ since = 0
  /\ tries = 0
  /\ id = 0
  /\ expires = [i \in Ids |-> 0]
  /\ timer = FALSE
  /\ renewAt = 0
  /\ private = [renew |-> 0, close |-> 0]
  /\ failed = FALSE
  /\ told = {}

Alive(i) == expires[i] > clock

(* A call that is on its way, or whose answer is. *)
Calling == pc \in {"opening", "granted", "renewing", "renewed", "closing", "closed"}

(* Time passes, but not beyond the latency of a call, and not beyond the    *)
(* time for which core's timer is set.                                      *)
Tick ==
  /\ clock < MaxTime
  /\ Calling => clock < since + Latency
  /\ pc = "open" /\ timer => clock < renewAt
  /\ clock' = clock + 1
  /\ UNCHANGED <<config, pc, since, tries, id, expires, timer, renewAt, private, failed, told>>

(* The RPC begins its call. *)
Call(place) == pc' = place /\ since' = clock /\ tries' = 0

(* The call has been carried out and its answer arrives ... *)
Carried(place) == pc' = place /\ since' = clock /\ UNCHANGED tries

(* Mutant of SentAgain: the attempts are not counted against the limit. *)
SentOnAndOn == tries' = tries + 1 /\ since' = clock /\ UNCHANGED pc

(* ... or is lost, and the client sends the call again. *)
SentAgain == tries + 1 < MaxTries /\ tries' = tries + 1 /\ since' = clock /\ UNCHANGED pc
-----------------------------------------------------------------------------
(* Open                                                                     *)

OpenCall ==
  /\ pc = "start"
  /\ Call("opening")
  /\ UNCHANGED <<config, clock, id, expires, timer, renewAt, private, failed, told>>

(* Each attempt that the API carries out grants another lease. *)
Grant == expires' = [expires EXCEPT ![tries + 1] = clock + Duration]

OpenGranted ==
  /\ pc = "opening"
  /\ Grant
  /\ id' = tries + 1
  /\ Carried("granted")
  /\ UNCHANGED <<config, clock, timer, renewAt, private, failed, told>>

OpenLost ==
  /\ "lost" \in Faults
  /\ pc = "opening"
  /\ Grant
  /\ SentAgain \/ (pc' = "end" /\ UNCHANGED <<since, tries>>)
  /\ told' = told \cup {tries + 1}
  /\ UNCHANGED <<config, clock, id, timer, renewAt, private, failed>>

OpenRefused ==
  /\ "error" \in Faults
  /\ pc = "opening"
  /\ pc' = "end"
  /\ UNCHANGED <<config, clock, since, tries, id, expires, timer, renewAt, private, failed, told>>

(* Mutant of ExpiryTime: the duration is not advanced by expiry_ahead. *)
ExpiryTimeLate ==
  IF config.expiry = "time" THEN expires[id] - config.ahead ELSE clock + Duration

(* GetExpiryTime: the time that the API tells, or the duration from the     *)
(* moment at which the answer is handled, less expiry_ahead.                *)
ExpiryTime ==
  IF config.expiry = "time" THEN expires[id] - config.ahead ELSE clock + Duration - config.ahead

(* Mutant of OpenDone: the close data is only set beside the renew data. *)
OpenDoneNested ==
  /\ pc = "granted"
  /\ timer' = (config.expiry # "none")
  /\ renewAt' = IF config.expiry # "none" THEN ExpiryTime ELSE 0
  /\ private' = [renew |-> IF config.renew THEN id ELSE 0,
                 close |-> IF config.renew /\ config.close THEN id ELSE 0]
  /\ pc' = "open"
  /\ UNCHANGED <<config, clock, since, tries, id, expires, failed, told>>

(* The answer is handled: RenewAt, the output, and the private data with    *)
(* the paths, expanded from the answer's body, for Renew and for Close.     *)
OpenDone ==
  /\ pc = "granted"
  /\ timer' = (config.expiry # "none")
  /\ renewAt' = IF config.expiry # "none" THEN ExpiryTime ELSE 0
  /\ private' = [renew |-> IF config.renew THEN id ELSE 0,
                 close |-> IF config.close THEN id ELSE 0]
  /\ pc' = "open"
  /\ UNCHANGED <<config, clock, since, tries, id, expires, failed, told>>

(* The expiry, the output or a path cannot be made out of the answer: Open  *)
(* fails although the lease is granted, and core never closes it.           *)
OpenFails ==
  /\ "error" \in Faults
  /\ pc = "granted"
  /\ pc' = "end"
  /\ told' = told \cup {id}
  /\ UNCHANGED <<config, clock, since, tries, id, expires, timer, renewAt, private, failed>>
-----------------------------------------------------------------------------
(* Renew                                                                    *)

(* Core's timer fires.  Without a pkRenew, Renew would do nothing. *)
RenewCall ==
  /\ pc = "open"
  /\ timer
  /\ clock + Early >= renewAt
  /\ private.renew # 0
  /\ Call("renewing")
  /\ UNCHANGED <<config, clock, id, expires, timer, renewAt, private, failed, told>>

(* The API extends a lease that has not ended. *)
Extend ==
  /\ pc = "renewing"
  /\ Alive(private.renew)
  /\ expires' = [expires EXCEPT ![private.renew] = clock + Duration]

RenewCarried ==
  /\ Extend
  /\ Carried("renewed")
  /\ UNCHANGED <<config, clock, id, timer, renewAt, private, failed, told>>

(* Core does not renew after an error. *)
StopRenewing == pc' = "open" /\ timer' = FALSE /\ failed' = TRUE /\ UNCHANGED <<since, tries>>

RenewLost ==
  /\ "lost" \in Faults
  /\ Extend
  /\ (SentAgain /\ UNCHANGED <<timer, failed>>) \/ StopRenewing
  /\ UNCHANGED <<config, clock, id, renewAt, private, told>>

RenewDone ==
  /\ pc = "renewed"
  /\ renewAt' = ExpiryTime
  /\ pc' = "open"
  /\ UNCHANGED <<config, clock, since, tries, id, expires, timer, private, failed, told>>

(* The API refuses, as it does when the lease has ended, or the expiry      *)
(* cannot be read from its answer.                                          *)
RenewFails ==
  /\ pc \in {"renewing", "renewed"}
  /\ "error" \in Faults \/ (pc = "renewing" /\ ~Alive(private.renew))
  /\ StopRenewing
  /\ UNCHANGED <<config, clock, id, expires, renewAt, private, told>>
-----------------------------------------------------------------------------
(* Close                                                                    *)

(* Core does not need the value any more.  Without a pkClose, Close does    *)
(* nothing.                                                                 *)
CloseCall ==
  /\ pc = "open"
  /\ IF private.close = 0 THEN pc' = "end" /\ UNCHANGED <<since, tries>> ELSE Call("closing")
  /\ UNCHANGED <<config, clock, id, expires, timer, renewAt, private, failed, told>>

Release ==
  /\ pc = "closing"
  /\ expires' = [expires EXCEPT ![private.close] = 0]

CloseDone ==
  /\ Release
  /\ Carried("closed")
  /\ UNCHANGED <<config, clock, id, timer, renewAt, private, failed, told>>

CloseEnds ==
  /\ pc = "closed"
  /\ pc' = "end"
  /\ UNCHANGED <<config, clock, since, tries, id, expires, timer, renewAt, private, failed, told>>

CloseLost ==
  /\ "lost" \in Faults
  /\ Release
  /\ SentAgain \/ (pc' = "end" /\ UNCHANGED <<since, tries>>)
  /\ UNCHANGED <<config, clock, id, timer, renewAt, private, failed, told>>

CloseFails ==
  /\ pc = "closing"
  /\ "error" \in Faults \/ ~Alive(private.close)
  /\ pc' = "end"
  /\ told' = told \cup {private.close}
  /\ UNCHANGED <<config, clock, since, tries, id, expires, timer, renewAt, private, failed>>
-----------------------------------------------------------------------------
Open == OpenCall \/ OpenGranted \/ OpenLost \/ OpenRefused \/ OpenDone \/ OpenFails

Renew == RenewCall \/ RenewCarried \/ RenewLost \/ RenewDone \/ RenewFails

Close == CloseCall \/ CloseDone \/ CloseEnds \/ CloseLost \/ CloseFails

Next == Tick \/ Open \/ Renew \/ Close

Spec == Init /\ [][Next]_vars
-----------------------------------------------------------------------------
(* When core has ended, a lease that is left has been told of by an error   *)
(* or a lost answer, or there is no close_method: none is left in silence,  *)
(* also when its renewals have failed in between.                           *)
NoSilentLeak == pc = "end" => \A i \in Ids : Alive(i) => i \in told \/ ~config.close

(* The same of every step: the instance keeps the account of Ledger, in      *)
(* which core has a lease from the answer of Open to the end of Close.       *)
Granted == {i \in Ids : expires[i] # 0}

Kept == IF pc \in {"open", "renewing", "renewed", "closing"} THEN {id} ELSE {}

Answered == IF pc = "granted" THEN {id} ELSE {}

Excused == IF config.close THEN told ELSE Ids

Books == INSTANCE Ledger WITH
  Things <- Ids, there <- Granted, booked <- Kept, hand <- Answered, told <- Excused

LeasesKeepLedger == Books!Spec

(* expiry_ahead covers the way of the renewal to the API, and, as a         *)
(* duration counts from the moment the answer is handled, the answer's way. *)
Prudent ==
  /\ Duration > 2 * Latency
  /\ \/ config.expiry = "time" /\ config.ahead > Latency
     \/ config.expiry = "duration" /\ config.ahead > 2 * Latency

InUse == pc \in {"open", "renewing", "renewed"}

(* While core uses the value its lease does not run out, whatever answers   *)
(* are lost, unless an error of Renew has told so.                          *)
LeaseCoversUse == Prudent /\ InUse /\ ~failed => Alive(id)
-----------------------------------------------------------------------------
(* The strengthening that makes NoSilentLeak inductive.                     *)

(* The lease that the answer to Open has named is core's until it ends. *)
HeldPlaces == {"granted", "open", "renewing", "renewed", "closing"}

RpcInv ==
  /\ since <= clock
  /\ Calling => clock <= since + Latency
  /\ pc \in HeldPlaces => id \in Ids
  /\ pc \in HeldPlaces \ {"granted"} =>
       private = [renew |-> IF config.renew THEN id ELSE 0, close |-> IF config.close THEN id ELSE 0]
  /\ pc = "closing" => config.close
  /\ timer => config.renew

(* Every other lease that has been granted is told of or closed. *)
Accounted ==
  \A i \in Ids : expires[i] # 0 =>
    i \in told \/ (i = id /\ (pc \in HeldPlaces \/ (pc = "end" /\ ~config.close)))

(* The strengthening that makes LeaseCoversUse inductive: a renewal that is *)
(* due leaves time for its way to the API, and so does one that has begun.  *)
Margin ==
  Prudent /\ ~failed =>
    /\ pc \in {"granted", "renewed"} => expires[id] = since + Duration
    /\ pc = "open" => timer /\ renewAt + Latency < expires[id] /\ clock + Latency < expires[id]
    /\ pc = "renewing" => since + Latency < expires[id]
    /\ pc \in {"renewing", "renewed"} => timer

IInv == TypeOK /\ RpcInv /\ Accounted /\ Margin
=============================================================================
