------------------------------ MODULE Precheck ------------------------------
(***************************************************************************)
(* precheck (internal/provider/precheck.go) and the way every operation    *)
(* that calls the API uses it: run the checks of a list in order, call the *)
(* API, and give the mutexes back through the deferred unlockFunc.  The    *)
(* operations are concurrent RPCs of one provider process; each may be     *)
(* called again after it has returned.                                     *)
(***************************************************************************)
EXTENDS MutexKV

CONSTANTS
  Api,      \* an element of a list of checks that polls an API
  Checks,   \* Checks[o]: the precheck list of operation o
  Faults    \* which faults the environment produces: "apicheck", "cancel"

ASSUME ApiAssumption == Api \notin Keys
ASSUME ChecksAssumption == Checks \in [Ops -> Seq(Keys \cup {Api})]
ASSUME FaultsAssumption == Faults \subseteq {"apicheck", "cancel"}

VARIABLES
  pc,       \* control state of each operation
  next,     \* number of the check it is at (i of the loop, from 1)
  locked,   \* lockedNames, without the names unlockFunc has unlocked already
  ctxDone,  \* operations whose context has ended
  lost      \* keys that precheck had locked when it returned an error

opVars == <<pc, next, locked, ctxDone, lost>>
vars == <<kvVars, opVars>>

PCs == {"idle", "check", "locking", "call", "unwind", "unlocking"}

TypeOK ==
  /\ KVTypeOK
  /\ pc \in [Ops -> PCs]
  /\ next \in [Ops -> Nat \ {0}]
  /\ locked \in [Ops -> Seq(Keys)]
  /\ ctxDone \in SUBSET Ops
  /\ lost \in SUBSET Keys

Init ==
  /\ KVInit
  /\ pc = [o \in Ops |-> "idle"]
  /\ next = [o \in Ops |-> 1]
  /\ locked = [o \in Ops |-> <<>>]
  /\ ctxDone = {}
  /\ lost = {}

Owned(o) == {locked[o][i] : i \in DOMAIN locked[o]}

Top(o) == locked[o][Len(locked[o])]

Pop(s) == SubSeq(s, 1, Len(s) - 1)

(* The key of the call of Lock or Unlock that operation o is in. *)
Key(o) == IF pc[o] = "locking" THEN Checks[o][next[o]] ELSE Top(o)

MoveTo(o, place) == pc' = [pc EXCEPT ![o] = place]

AtCheck(o) == pc[o] = "check" /\ next[o] <= Len(Checks[o])

(* The RPC starts: precheck begins with an empty lockedNames. *)
Begin(o) ==
  /\ pc[o] = "idle"
  /\ MoveTo(o, "check")
  /\ UNCHANGED <<kvVars, next, locked, ctxDone, lost>>

(* case !check.Mutex.IsNull(): locks.Lock(ctx, key) is called ... *)
MutexCheck(o) ==
  /\ AtCheck(o)
  /\ Checks[o][next[o]] # Api
  /\ Enter(o)
  /\ MoveTo(o, "locking")
  /\ UNCHANGED <<next, locked, ctxDone, lost>>

(* Mutant of MutexLocked: the name is not appended. *)
MutexLockedUnrecorded(o) ==
  /\ pc[o] = "locking"
  /\ Receive(o)
  /\ next' = [next EXCEPT ![o] = @ + 1]
  /\ MoveTo(o, "check")
  /\ UNCHANGED <<locked, ctxDone, lost>>

(* Mutant of MutexLocked: the loop does not go on to the next check. *)
MutexLockedAgain(o) ==
  /\ pc[o] = "locking"
  /\ Receive(o)
  /\ locked' = [locked EXCEPT ![o] = Append(@, Key(o))]
  /\ MoveTo(o, "check")
  /\ UNCHANGED <<next, ctxDone, lost>>

(* ... and returns nil: the name is appended to lockedNames. *)
MutexLocked(o) ==
  /\ pc[o] = "locking"
  /\ Receive(o)
  /\ locked' = [locked EXCEPT ![o] = Append(@, Key(o))]
  /\ next' = [next EXCEPT ![o] = @ + 1]
  /\ MoveTo(o, "check")
  /\ UNCHANGED <<ctxDone, lost>>

(* precheck returns an error, so its caller returns before it has a        *)
(* unlockFunc to defer: nothing unlocks the names locked so far.           *)
PrecheckError(o) ==
  /\ lost' = lost \cup Owned(o)
  /\ locked' = [locked EXCEPT ![o] = <<>>]
  /\ next' = [next EXCEPT ![o] = 1]
  /\ ctxDone' = ctxDone \ {o}
  /\ MoveTo(o, "idle")

(* Mutant of MutexCancelled: the wait for the token ignores the context. *)
MutexNotCancelled(o) ==
  /\ pc[o] = "locking" /\ at[o] = "chan"
  /\ o \in ctxDone
  /\ chans[ch[o]] = 1
  /\ GiveUp(o)
  /\ PrecheckError(o)

(* ... or returns ctx.Err(): a select with both cases ready takes either. *)
MutexCancelled(o) ==
  /\ pc[o] = "locking"
  /\ o \in ctxDone
  /\ GiveUp(o)
  /\ PrecheckError(o)

(* case !check.Api.IsNull(): PollUntilDone returns nil, or an error that   *)
(* the API or the end of the context causes.                               *)
ApiCheckPassed(o) ==
  /\ AtCheck(o)
  /\ Checks[o][next[o]] = Api
  /\ next' = [next EXCEPT ![o] = @ + 1]
  /\ UNCHANGED <<kvVars, pc, locked, ctxDone, lost>>

ApiCheckFailed(o) ==
  /\ AtCheck(o)
  /\ Checks[o][next[o]] = Api
  /\ "apicheck" \in Faults \/ o \in ctxDone
  /\ PrecheckError(o)
  /\ UNCHANGED kvVars

(* All checks passed: the caller defers unlockFunc and calls the API. *)
PrecheckDone(o) ==
  /\ pc[o] = "check"
  /\ next[o] > Len(Checks[o])
  /\ MoveTo(o, "call")
  /\ UNCHANGED <<kvVars, next, locked, ctxDone, lost>>

(* Mutant of CallEnds: the caller did not defer unlockFunc. *)
CallEndsNoDefer(o) ==
  /\ pc[o] = "call"
  /\ MoveTo(o, "idle")
  /\ next' = [next EXCEPT ![o] = 1]
  /\ locked' = [locked EXCEPT ![o] = <<>>]
  /\ UNCHANGED <<kvVars, ctxDone, lost>>

(* The API call, its polling and its follow-up reads end, well or badly. *)
CallEnds(o) ==
  /\ pc[o] = "call"
  /\ MoveTo(o, "unwind")
  /\ UNCHANGED <<kvVars, next, locked, ctxDone, lost>>

(* unlockFunc unlocks the names from the last to the first. *)
UnlockNext(o) ==
  /\ pc[o] = "unwind"
  /\ locked[o] # <<>>
  /\ Enter(o)
  /\ MoveTo(o, "unlocking")
  /\ UNCHANGED <<next, locked, ctxDone, lost>>

Unlocked(o) ==
  /\ pc[o] = "unlocking"
  /\ Send(o)
  /\ locked' = [locked EXCEPT ![o] = Pop(@)]
  /\ MoveTo(o, "unwind")
  /\ UNCHANGED <<next, ctxDone, lost>>

Return(o) ==
  /\ pc[o] = "unwind"
  /\ locked[o] = <<>>
  /\ next' = [next EXCEPT ![o] = 1]
  /\ ctxDone' = ctxDone \ {o}
  /\ MoveTo(o, "idle")
  /\ UNCHANGED <<kvVars, locked, lost>>

(* Terraform stops the provider, or the RPC's deadline passes. *)
Cancel(o) ==
  /\ "cancel" \in Faults
  /\ pc[o] # "idle"
  /\ o \notin ctxDone
  /\ ctxDone' = ctxDone \cup {o}
  /\ UNCHANGED <<kvVars, pc, next, locked, lost>>

InLocks(o) ==
  /\ pc[o] \in {"locking", "unlocking"}
  /\ GetOrCreate(o, Key(o))
  /\ UNCHANGED opVars

(* The steps an operation takes by itself once it has been called. *)
Step(o) ==
  \/ InLocks(o)
  \/ MutexCheck(o) \/ MutexLocked(o) \/ MutexCancelled(o)
  \/ ApiCheckPassed(o) \/ ApiCheckFailed(o)
  \/ PrecheckDone(o) \/ CallEnds(o)
  \/ UnlockNext(o) \/ Unlocked(o) \/ Return(o)

Next == \E o \in Ops : Begin(o) \/ Step(o) \/ Cancel(o)

Spec == Init /\ [][Next]_vars

(***************************************************************************)
(* Fairness.  The Go scheduler runs every goroutine that can run (weak     *)
(* fairness of each step).  A channel hands its token to waiters in FIFO   *)
(* order and sync.Mutex ends starvation after a millisecond, so a waiter   *)
(* is not overtaken for ever (strong fairness of the two acquisitions).    *)
(* That an API check and the API call itself come to an end is assumed of  *)
(* the server.                                                             *)
(***************************************************************************)
Fairness ==
  \A o \in Ops :
    /\ WF_vars(Step(o))
    /\ SF_vars(MutexLocked(o))
    /\ SF_vars(InLocks(o) /\ mu = NoOp)

FairSpec == Spec /\ Fairness
-----------------------------------------------------------------------------
(* A mutex of the configuration is held by one operation at a time, through *)
(* its later checks, its API call and until its turn in unlockFunc comes.   *)
MutualExclusion ==
  \A o1, o2 \in Ops : o1 # o2 => Owned(o1) \cap Owned(o2) = {}

(* An operation holds the mutexes listed before check n, and has locked     *)
(* them in the order of the list.                                           *)
HoldsListed(o, n) ==
  /\ Owned(o) = {Checks[o][m] : m \in 1 .. n - 1} \ {Api}
  /\ \A i, j \in DOMAIN locked[o] : \A m1, m2 \in 1 .. n - 1 :
       locked[o][i] = Checks[o][m1] /\ locked[o][j] = Checks[o][m2] /\ m1 < m2 => i < j

(* While an operation runs a check or calls the API it holds exactly the    *)
(* mutexes listed before the check it is at, locked in the order of the     *)
(* list: an API check placed after a mutex is made under it, the API call   *)
(* is made under all of them, and unlockFunc gives the last one back first. *)
HoldsEarlierMutexes ==
  \A o \in Ops : pc[o] \in {"check", "locking", "call"} => HoldsListed(o, next[o])

(* unlockFunc never blocks on a full channel: the channel of a key that an  *)
(* operation is about to unlock has no token.                               *)
UnlockNeverBlocks ==
  \A o \in Ops : pc[o] = "unlocking" /\ at[o] = "chan" => chans[ch[o]] = 0

(* An operation that can neither take the token it waits for nor give back  *)
(* the one it has.                                                          *)
Blocked(o) ==
  /\ at[o] = "chan"
  /\ chans[ch[o]] = IF pc[o] = "locking" THEN 0 ELSE 1

(* Some rank of the mutexes goes down along every list of checks, so that   *)
(* all lists name their mutexes in one order, and none names one twice.     *)
ListedBy(rank) ==
  \A o \in Ops : \A i, j \in DOMAIN Checks[o] :
    i < j /\ Checks[o][i] # Api /\ Checks[o][j] # Api
      => rank[Checks[o][j]] < rank[Checks[o][i]]

(* Where all lists of checks name their mutexes in one order, operations    *)
(* never block each other in a circle, nor themselves: in every group of    *)
(* blocked operations, one waits for a mutex that an operation outside the  *)
(* group holds, or that precheck has lost.                                  *)
NoCircularWait ==
  \A group \in SUBSET {o \in Ops : Blocked(o)} :
    group # {} =>
      \E o \in group : Key(o) \in lost \/ \E p \in Ops \ group : Key(o) \in Owned(p)

(* Tokens are conserved: a key's channel is empty exactly when an operation *)
(* holds the key or precheck has lost it by returning an error.             *)
TokenConservation ==
  \A k \in Keys :
    (\E o \in Ops : k \in Owned(o)) \/ k \in lost
      <=> store[k] # 0 /\ chans[store[k]] = 0

(* "The resource will keep waiting until this mutex is held": an operation  *)
(* that waits for a mutex gets it, unless its context ends.                 *)
WaiterGetsMutex ==
  \A o \in Ops : pc[o] = "locking" ~> pc[o] = "check" \/ o \in ctxDone

(* Every operation that is called returns, whatever the other operations    *)
(* with the same mutexes do in between and whenever a context ends, unless  *)
(* a failed precheck loses a mutex.                                         *)
EveryCallReturns ==
  [](lost = {}) => \A o \in Ops : pc[o] = "check" ~> pc[o] = "idle"

(* Ending the context gets an operation out of the wait for a mutex, even   *)
(* if the mutex never becomes free.                                         *)
CancelEndsWait ==
  \A o \in Ops : pc[o] = "locking" /\ o \in ctxDone ~> pc[o] # "locking"

(* The locks package, as precheck uses it, behaves as the table of LockTable. *)
Table == INSTANCE LockTable WITH holds <- [o \in Ops |-> Owned(o)], gone <- lost

ImplementsTable == Table!Spec
-----------------------------------------------------------------------------
(* The strengthening that makes mutual exclusion and the conservation of    *)
(* tokens inductive.                                                        *)

(* mu is held exactly inside getOrCreate; an operation is inside the locks  *)
(* package, with a mutex name to lock or unlock, exactly when pc says so.   *)
ControlInv ==
  \A o \in Ops :
    /\ at[o] \in {"get", "make", "leave"} <=> mu = o
    /\ pc[o] \in {"locking", "unlocking"} <=> at[o] # "out"
    /\ pc[o] = "locking" => next[o] <= Len(Checks[o]) /\ Checks[o][next[o]] # Api
    /\ pc[o] = "unlocking" => locked[o] # <<>>
    /\ pc[o] = "idle" => locked[o] = <<>>

(* No two keys share a channel; the channel an operation waits on is its    *)
(* key's, and a key about to be given a channel has none.                   *)
ChannelInv ==
  /\ \A k1, k2 \in Keys : store[k1] = store[k2] /\ store[k1] # 0 => k1 = k2
  /\ \A o \in Ops :
       /\ at[o] = "make" => store[Key(o)] = 0
       /\ at[o] \in {"leave", "chan"} => ch[o] = store[Key(o)] /\ ch[o] # 0

(* A key is locked once at most, and never both owned and lost.             *)
OwnerInv ==
  /\ MutualExclusion
  /\ \A o \in Ops : Owned(o) \cap lost = {}
  /\ \A o \in Ops : \A i, j \in DOMAIN locked[o] : locked[o][i] = locked[o][j] => i = j

IInv == TypeOK /\ ControlInv /\ ChannelInv /\ OwnerInv /\ TokenConservation

(* The same for HoldsEarlierMutexes: precheck begins at the first check.    *)
ListInv == HoldsEarlierMutexes /\ \A o \in Ops : pc[o] = "idle" => next[o] = 1
=============================================================================
