--------------------------- MODULE PrecheckProofs ---------------------------
(***************************************************************************)
(* The inductive invariant of Precheck, for any set of operations, any     *)
(* mutex names and any lists of checks: mutual exclusion and the           *)
(* conservation of tokens.                                                 *)
(***************************************************************************)
EXTENDS Precheck, TLAPS, WellFoundedInduction

USE NoOpAssumption, ApiAssumption, ChecksAssumption, FaultsAssumption

(* Appending a name to a list of names adds that name to the ones it holds. *)
LEMMA AppendRange ==
  ASSUME NEW S, NEW s \in Seq(S), NEW x \in S
  PROVE  /\ Append(s, x) \in Seq(S)
         /\ DOMAIN Append(s, x) = DOMAIN s \cup {Len(s) + 1}
         /\ \A i \in DOMAIN s : Append(s, x)[i] = s[i]
         /\ Append(s, x)[Len(s) + 1] = x
         /\ Len(s) + 1 \notin DOMAIN s
OBVIOUS

(* Popping the last name of a list keeps the others where they are. *)
LEMMA PopRange ==
  ASSUME NEW S, NEW s \in Seq(S), s # <<>>
  PROVE  /\ Pop(s) \in Seq(S)
         /\ DOMAIN s = DOMAIN Pop(s) \cup {Len(s)}
         /\ Len(s) \notin DOMAIN Pop(s)
         /\ \A i \in DOMAIN Pop(s) : Pop(s)[i] = s[i]
         /\ s[Len(s)] \in S
<1>1. Len(s) \in Nat \ {0}
  OBVIOUS
<1>2. DOMAIN Pop(s) = 1 .. Len(s) - 1 /\ \A i \in 1 .. Len(s) - 1 : Pop(s)[i] = s[i]
  BY <1>1 DEF Pop
<1>3. Pop(s) \in Seq(S)
  BY <1>1 DEF Pop
<1>4. DOMAIN s = 1 .. Len(s) /\ s[Len(s)] \in S
  BY <1>1
<1>5. DOMAIN s = DOMAIN Pop(s) \cup {Len(s)} /\ Len(s) \notin DOMAIN Pop(s)
  BY <1>1, <1>2, <1>4
<1>6. QED
  BY <1>2, <1>3, <1>4, <1>5

LEMMA InitInv == Init => IInv
<1> SUFFICES ASSUME Init PROVE IInv
  OBVIOUS
<1> USE DEF Init, KVInit
<1>1. TypeOK
  BY DEF TypeOK, KVTypeOK, Places, PCs
<1>2. ControlInv
  BY DEF ControlInv
<1>3. ChannelInv
  BY DEF ChannelInv
<1>4. \A o \in Ops : Owned(o) = {}
  <2>1. DOMAIN <<>> = {}
    OBVIOUS
  <2>2. QED
    BY <2>1 DEF Owned
<1>5. OwnerInv
  BY <1>4 DEF OwnerInv, MutualExclusion
<1>6. TokenConservation
  BY <1>4 DEF TokenConservation
<1>7. QED
  BY <1>1, <1>2, <1>3, <1>5, <1>6 DEF IInv

(* The name of the mutex an operation is locking or unlocking. *)
LEMMA KeyType ==
  ASSUME TypeOK, ControlInv, NEW o \in Ops, at[o] # "out"
  PROVE  Key(o) \in Keys
<1>1. CASE pc[o] = "locking"
  <2>1. next[o] \in 1 .. Len(Checks[o]) /\ Checks[o] \in Seq(Keys \cup {Api}) /\ Checks[o][next[o]] # Api
    BY <1>1 DEF TypeOK, ControlInv
  <2>2. QED
    BY <1>1, <2>1 DEF Key
<1>2. CASE pc[o] = "unlocking"
  <2>1. locked[o] \in Seq(Keys) /\ locked[o] # <<>>
    BY <1>2 DEF TypeOK, ControlInv
  <2>2. QED
    BY <1>2, <2>1, PopRange DEF Key, Top
<1>3. QED
  BY <1>1, <1>2 DEF ControlInv

(* A step inside getOrCreate leaves what operations own as it was. *)
LEMMA InLocksInv ==
  ASSUME IInv, NEW o \in Ops, InLocks(o)
  PROVE  IInv'
<1> USE DEF IInv
<1> DEFINE k == Key(o)
<1>1. pc[o] \in {"locking", "unlocking"} /\ at[o] # "out" /\ k \in Keys
  BY KeyType DEF InLocks, ControlInv
<1>2. UNCHANGED opVars /\ \A p \in Ops : Key(p)' = Key(p) /\ Owned(p)' = Owned(p)
  BY DEF InLocks, opVars, Key, Top, Owned
<1>3. CASE LockMu(o)
  <2>1. TypeOK'
    BY <1>2, <1>3 DEF TypeOK, KVTypeOK, LockMu, Go, Places, opVars
  <2>2. ControlInv'
    BY <1>2, <1>3 DEF TypeOK, KVTypeOK, ControlInv, LockMu, Go, opVars
  <2>3. ChannelInv'
    BY <1>2, <1>3 DEF TypeOK, KVTypeOK, ChannelInv, LockMu, Go, opVars
  <2>4. QED
    BY <1>2, <1>3, <2>1, <2>2, <2>3 DEF OwnerInv, MutualExclusion, TokenConservation, LockMu, opVars
<1>4. CASE LookUp(o, k)
  <2>1. TypeOK'
    BY <1>1, <1>2, <1>4 DEF TypeOK, KVTypeOK, LookUp, Go, Places, opVars
  <2>2. ControlInv'
    BY <1>2, <1>4 DEF TypeOK, KVTypeOK, ControlInv, LookUp, Go, opVars
  <2>3. ChannelInv'
    BY <1>1, <1>2, <1>4 DEF TypeOK, KVTypeOK, ChannelInv, LookUp, Go, opVars
  <2>4. QED
    BY <1>2, <1>4, <2>1, <2>2, <2>3 DEF OwnerInv, MutualExclusion, TokenConservation, LookUp, opVars
<1>5. CASE Make(o, k)
  <2> DEFINE n == Len(chans) + 1
  <2>1. /\ chans' \in Seq({0, 1}) /\ Len(chans') = n /\ chans'[n] = 1
        /\ \A i \in 1 .. Len(chans) : chans'[i] = chans[i]
        /\ Len(chans) \in Nat
    BY <1>5, AppendRange DEF TypeOK, KVTypeOK, Make
  <2>2. /\ store[k] = 0 /\ store' = [store EXCEPT ![k] = n]
        /\ mu = o /\ mu' = o /\ at[o] = "make"
        /\ at' = [at EXCEPT ![o] = "leave"] /\ ch' = [ch EXCEPT ![o] = n]
    BY <1>5 DEF ChannelInv, ControlInv, Make, Go
  <2>3. TypeOK'
    BY <1>1, <1>2, <2>1, <2>2 DEF TypeOK, KVTypeOK, Places, opVars
  <2>4. ControlInv'
    BY <1>2, <2>2 DEF TypeOK, KVTypeOK, ControlInv, opVars
  <2>5. ChannelInv'
    <3>1. \A k1, k2 \in Keys : store'[k1] = store'[k2] /\ store'[k1] # 0 => k1 = k2
      BY <1>1, <2>1, <2>2 DEF TypeOK, KVTypeOK, ChannelInv
    <3>2. \A p \in Ops : at'[p] = "make" => store'[Key(p)] = 0
      <4> SUFFICES ASSUME NEW p \in Ops, at'[p] = "make" PROVE FALSE
        OBVIOUS
      <4>1. p # o /\ at[p] = "make"
        BY <2>2 DEF TypeOK, KVTypeOK
      <4>2. QED
        BY <4>1, <2>2 DEF ControlInv
    <3>3. \A p \in Ops : at'[p] \in {"leave", "chan"} => ch'[p] = store'[Key(p)] /\ ch'[p] # 0
      <4> SUFFICES ASSUME NEW p \in Ops, at'[p] \in {"leave", "chan"}
                   PROVE  ch'[p] = store'[Key(p)] /\ ch'[p] # 0
        OBVIOUS
      <4>1. CASE p = o
        BY <4>1, <1>1, <2>1, <2>2 DEF TypeOK, KVTypeOK
      <4>2. CASE p # o
        <5>1. ch'[p] = ch[p] /\ ch[p] = store[Key(p)] /\ ch[p] # 0 /\ at[p] # "out"
          BY <4>2, <2>2 DEF TypeOK, KVTypeOK, ChannelInv
        <5>2. Key(p) \in Keys /\ Key(p) # k
          BY <5>1, <2>2, KeyType
        <5>3. QED
          BY <5>1, <5>2, <2>2 DEF TypeOK, KVTypeOK
      <4>3. QED
        BY <4>1, <4>2
    <3>4. QED
      BY <3>1, <3>2, <3>3, <1>2 DEF ChannelInv
  <2>6. TokenConservation'
    <3> SUFFICES ASSUME NEW q \in Keys
                 PROVE  (\E p \in Ops : q \in Owned(p)) \/ q \in lost
                          <=> store'[q] # 0 /\ chans'[store'[q]] = 0
      BY <1>2 DEF TokenConservation, opVars
    <3>1. CASE q = k
      <4>1. ~ ((\E p \in Ops : q \in Owned(p)) \/ q \in lost)
        BY <3>1, <2>2 DEF TokenConservation
      <4>2. store'[q] = n /\ chans'[store'[q]] = 1
        BY <3>1, <2>1, <2>2 DEF TypeOK, KVTypeOK
      <4>3. QED
        BY <4>1, <4>2
    <3>2. CASE q # k
      <4>1. store'[q] = store[q] /\ store[q] \in 0 .. Len(chans)
        BY <3>2, <2>2 DEF TypeOK, KVTypeOK
      <4>2. store[q] # 0 => chans'[store[q]] = chans[store[q]]
        BY <4>1, <2>1
      <4>3. QED
        BY <4>1, <4>2 DEF TokenConservation
    <3>3. QED
      BY <3>1, <3>2
  <2>7. OwnerInv'
    BY <1>2 DEF OwnerInv, MutualExclusion, opVars
  <2>8. QED
    BY <2>3, <2>4, <2>5, <2>6, <2>7
<1>6. CASE UnlockMu(o)
  <2>1. TypeOK'
    BY <1>2, <1>6 DEF TypeOK, KVTypeOK, UnlockMu, Go, Places, opVars
  <2>2. ControlInv'
    BY <1>2, <1>6 DEF TypeOK, KVTypeOK, ControlInv, UnlockMu, Go, opVars
  <2>3. ChannelInv'
    BY <1>2, <1>6 DEF TypeOK, KVTypeOK, ChannelInv, UnlockMu, Go, opVars
  <2>4. QED
    BY <1>2, <1>6, <2>1, <2>2, <2>3 DEF OwnerInv, MutualExclusion, TokenConservation, UnlockMu, opVars
<1>7. QED
  BY <1>3, <1>4, <1>5, <1>6 DEF InLocks, GetOrCreate

(* Lock returns nil: the operation owns one key more, which was free. *)
LEMMA LockTakes ==
  ASSUME IInv, NEW o \in Ops, MutexLocked(o)
  PROVE  /\ Key(o) \in Keys /\ Key(o) \notin lost /\ lost' = lost
         /\ \A p \in Ops : Key(o) \notin Owned(p)
         /\ Owned(o)' = Owned(o) \cup {Key(o)}
         /\ \A p \in Ops \ {o} : Owned(p)' = Owned(p)
<1> USE DEF IInv
<1> DEFINE k == Key(o)
<1>1. /\ pc[o] = "locking" /\ at[o] = "chan" /\ k \in Keys
      /\ store[k] # 0 /\ ch[o] = store[k] /\ chans[store[k]] = 1
      /\ store[k] \in 1 .. Len(chans)
  BY KeyType DEF MutexLocked, Receive, ChannelInv, TypeOK, KVTypeOK
<1>2. /\ chans' = [chans EXCEPT ![store[k]] = 0] /\ at' = [at EXCEPT ![o] = "out"]
      /\ ch' = [ch EXCEPT ![o] = 0] /\ mu' = mu /\ store' = store
      /\ pc' = [pc EXCEPT ![o] = "check"] /\ next' = [next EXCEPT ![o] = @ + 1]
      /\ locked' = [locked EXCEPT ![o] = Append(@, k)]
      /\ ctxDone' = ctxDone /\ lost' = lost
  BY <1>1 DEF MutexLocked, Receive, Leave, Go, MoveTo
<1>3. /\ locked'[o] = Append(locked[o], k) /\ locked'[o] \in Seq(Keys)
      /\ DOMAIN locked'[o] = DOMAIN locked[o] \cup {Len(locked[o]) + 1}
      /\ \A i \in DOMAIN locked[o] : locked'[o][i] = locked[o][i]
      /\ locked'[o][Len(locked[o]) + 1] = k
      /\ Len(locked[o]) + 1 \notin DOMAIN locked[o]
  BY <1>1, <1>2, AppendRange DEF TypeOK
<1>4. Owned(o)' = Owned(o) \cup {k}
  BY <1>3 DEF Owned
<1>5. \A p \in Ops \ {o} : Owned(p)' = Owned(p) /\ locked'[p] = locked[p] /\ Key(p)' = Key(p)
  BY <1>2 DEF TypeOK, Owned, Key, Top
<1>6. (\A p \in Ops : k \notin Owned(p)) /\ k \notin lost
  BY <1>1 DEF TokenConservation
<1>7. QED
  BY <1>1, <1>2, <1>4, <1>5, <1>6

(* Lock returns nil: the token of the key becomes the operation's. *)
LEMMA MutexLockedInv ==
  ASSUME IInv, NEW o \in Ops, MutexLocked(o)
  PROVE  IInv'
<1> USE DEF IInv
<1> DEFINE k == Key(o)
<1>1. /\ pc[o] = "locking" /\ at[o] = "chan" /\ k \in Keys
      /\ store[k] # 0 /\ ch[o] = store[k] /\ chans[store[k]] = 1
      /\ store[k] \in 1 .. Len(chans)
  BY KeyType DEF MutexLocked, Receive, ChannelInv, TypeOK, KVTypeOK
<1>2. /\ chans' = [chans EXCEPT ![store[k]] = 0] /\ at' = [at EXCEPT ![o] = "out"]
      /\ ch' = [ch EXCEPT ![o] = 0] /\ mu' = mu /\ store' = store
      /\ pc' = [pc EXCEPT ![o] = "check"] /\ next' = [next EXCEPT ![o] = @ + 1]
      /\ locked' = [locked EXCEPT ![o] = Append(@, k)]
      /\ ctxDone' = ctxDone /\ lost' = lost
  BY <1>1 DEF MutexLocked, Receive, Leave, Go, MoveTo
<1>3. /\ locked'[o] = Append(locked[o], k) /\ locked'[o] \in Seq(Keys)
      /\ DOMAIN locked'[o] = DOMAIN locked[o] \cup {Len(locked[o]) + 1}
      /\ \A i \in DOMAIN locked[o] : locked'[o][i] = locked[o][i]
      /\ locked'[o][Len(locked[o]) + 1] = k
      /\ Len(locked[o]) + 1 \notin DOMAIN locked[o]
  BY <1>1, <1>2, AppendRange DEF TypeOK
<1>4. Owned(o)' = Owned(o) \cup {k}
  BY LockTakes
<1>5. \A p \in Ops \ {o} : Owned(p)' = Owned(p) /\ locked'[p] = locked[p] /\ Key(p)' = Key(p)
  BY <1>2 DEF TypeOK, Owned, Key, Top
<1>6. (\A p \in Ops : k \notin Owned(p)) /\ k \notin lost
  BY LockTakes
<1>7. /\ chans' \in Seq({0, 1}) /\ Len(chans') = Len(chans) /\ chans'[store[k]] = 0
      /\ \A i \in 1 .. Len(chans) : i # store[k] => chans'[i] = chans[i]
  BY <1>1, <1>2 DEF TypeOK, KVTypeOK
<1>8. TypeOK'
  BY <1>2, <1>3, <1>7 DEF TypeOK, KVTypeOK, Places, PCs
<1>9. ControlInv'
  BY <1>1, <1>2, <1>3 DEF TypeOK, KVTypeOK, ControlInv
<1>10. ChannelInv'
  BY <1>1, <1>2, <1>5 DEF TypeOK, KVTypeOK, ChannelInv
<1>11. OwnerInv'
  <2>1. MutualExclusion'
    BY <1>4, <1>5, <1>6 DEF OwnerInv, MutualExclusion
  <2>2. \A p \in Ops : Owned(p)' \cap lost' = {}
    <3>1. lost' = lost /\ \A p \in Ops : Owned(p) \cap lost = {}
      BY <1>2 DEF OwnerInv
    <3>2. Owned(o)' \cap lost' = {}
      BY <3>1, <1>4, <1>6
    <3>3. \A p \in Ops \ {o} : Owned(p)' \cap lost' = {}
      BY <3>1, <1>5
    <3>4. QED
      BY <3>2, <3>3
  <2>3. \A i \in DOMAIN locked[o] : locked[o][i] # k
    BY <1>6 DEF Owned
  <2>4. \A p \in Ops : \A i, j \in DOMAIN locked'[p] : locked'[p][i] = locked'[p][j] => i = j
    <3> SUFFICES ASSUME NEW p \in Ops, NEW i \in DOMAIN locked'[p], NEW j \in DOMAIN locked'[p],
                        locked'[p][i] = locked'[p][j]
                 PROVE  i = j
      OBVIOUS
    <3>1. CASE p = o
      BY <3>1, <1>3, <2>3 DEF OwnerInv
    <3>2. CASE p # o
      BY <3>2, <1>5 DEF OwnerInv
    <3>3. QED
      BY <3>1, <3>2
  <2>5. QED
    BY <2>1, <2>2, <2>4 DEF OwnerInv
<1>12. TokenConservation'
  <2> SUFFICES ASSUME NEW q \in Keys
               PROVE  (\E p \in Ops : q \in Owned(p)') \/ q \in lost'
                        <=> store'[q] # 0 /\ chans'[store'[q]] = 0
    BY DEF TokenConservation
  <2>1. CASE q = k
    BY <2>1, <1>1, <1>2, <1>4, <1>7
  <2>2. CASE q # k
    <3>1. store[q] # 0 => chans'[store[q]] = chans[store[q]]
      BY <2>2, <1>1, <1>7 DEF ChannelInv, TypeOK, KVTypeOK
    <3>2. \A p \in Ops : q \in Owned(p)' <=> q \in Owned(p)
      BY <2>2, <1>4, <1>5
    <3>3. QED
      BY <3>1, <3>2, <1>2 DEF TokenConservation
  <2>3. QED
    BY <2>1, <2>2
<1>13. QED
  BY <1>8, <1>9, <1>10, <1>11, <1>12

(* Unlock returns: the operation owns one key less, and nobody has it. *)
LEMMA UnlockGives ==
  ASSUME IInv, NEW o \in Ops, Unlocked(o)
  PROVE  /\ Top(o) \in Keys /\ Top(o) \in Owned(o) /\ Top(o) \notin lost /\ lost' = lost
         /\ \A p \in Ops \ {o} : Top(o) \notin Owned(p)
         /\ Owned(o)' = Owned(o) \ {Top(o)}
         /\ \A p \in Ops \ {o} : Owned(p)' = Owned(p)
<1> USE DEF IInv
<1> DEFINE k == Top(o)
<1>1. /\ pc[o] = "unlocking" /\ at[o] = "chan" /\ k \in Keys /\ k = Key(o)
      /\ store[k] # 0 /\ ch[o] = store[k] /\ chans[store[k]] = 0
      /\ store[k] \in 1 .. Len(chans) /\ locked[o] # <<>>
  BY KeyType DEF Unlocked, Send, Key, ChannelInv, ControlInv, TypeOK, KVTypeOK
<1>2. /\ chans' = [chans EXCEPT ![store[k]] = 1] /\ at' = [at EXCEPT ![o] = "out"]
      /\ ch' = [ch EXCEPT ![o] = 0] /\ mu' = mu /\ store' = store
      /\ pc' = [pc EXCEPT ![o] = "unwind"] /\ next' = next
      /\ locked' = [locked EXCEPT ![o] = Pop(@)]
      /\ ctxDone' = ctxDone /\ lost' = lost
  BY <1>1 DEF Unlocked, Send, Leave, Go, MoveTo
<1>3. /\ locked'[o] = Pop(locked[o]) /\ locked'[o] \in Seq(Keys)
      /\ DOMAIN locked[o] = DOMAIN locked'[o] \cup {Len(locked[o])}
      /\ Len(locked[o]) \notin DOMAIN locked'[o]
      /\ \A i \in DOMAIN locked'[o] : locked'[o][i] = locked[o][i]
      /\ locked[o][Len(locked[o])] = k
  <2>1. locked[o] \in Seq(Keys) /\ locked[o] # <<>> /\ locked'[o] = Pop(locked[o])
    BY <1>1, <1>2 DEF TypeOK
  <2>2. /\ Pop(locked[o]) \in Seq(Keys)
        /\ DOMAIN locked[o] = DOMAIN Pop(locked[o]) \cup {Len(locked[o])}
        /\ Len(locked[o]) \notin DOMAIN Pop(locked[o])
        /\ \A i \in DOMAIN Pop(locked[o]) : Pop(locked[o])[i] = locked[o][i]
    BY <2>1, PopRange
  <2>3. QED
    BY <2>1, <2>2 DEF Top
<1>4. Owned(o)' = Owned(o) \ {k} /\ k \in Owned(o)
  <2>1. \A i \in DOMAIN locked'[o] : locked'[o][i] # k
    BY <1>3 DEF OwnerInv
  <2>2. k \in Owned(o)
    BY <1>3 DEF Owned
  <2>3. \A q : q \in Owned(o) <=> q = k \/ \E i \in DOMAIN locked'[o] : q = locked[o][i]
    BY <1>3 DEF Owned
  <2>4. \A q : q \in Owned(o)' <=> \E i \in DOMAIN locked'[o] : q = locked[o][i]
    BY <1>3 DEF Owned
  <2>5. QED
    BY <1>3, <2>1, <2>2, <2>3, <2>4
<1>5. \A p \in Ops \ {o} : Owned(p)' = Owned(p) /\ locked'[p] = locked[p] /\ Key(p)' = Key(p)
  BY <1>2 DEF TypeOK, Owned, Key, Top
<1>6. (\A p \in Ops \ {o} : k \notin Owned(p)) /\ k \notin lost
  BY <1>4 DEF OwnerInv, MutualExclusion
<1>7. QED
  BY <1>1, <1>2, <1>4, <1>5, <1>6

(* Unlock returns: the token of the last name locked goes back. *)
LEMMA UnlockedInv ==
  ASSUME IInv, NEW o \in Ops, Unlocked(o)
  PROVE  IInv'
<1> USE DEF IInv
<1> DEFINE k == Top(o)
<1>1. /\ pc[o] = "unlocking" /\ at[o] = "chan" /\ k \in Keys /\ k = Key(o)
      /\ store[k] # 0 /\ ch[o] = store[k] /\ chans[store[k]] = 0
      /\ store[k] \in 1 .. Len(chans) /\ locked[o] # <<>>
  BY KeyType DEF Unlocked, Send, Key, ChannelInv, ControlInv, TypeOK, KVTypeOK
<1>2. /\ chans' = [chans EXCEPT ![store[k]] = 1] /\ at' = [at EXCEPT ![o] = "out"]
      /\ ch' = [ch EXCEPT ![o] = 0] /\ mu' = mu /\ store' = store
      /\ pc' = [pc EXCEPT ![o] = "unwind"] /\ next' = next
      /\ locked' = [locked EXCEPT ![o] = Pop(@)]
      /\ ctxDone' = ctxDone /\ lost' = lost
  BY <1>1 DEF Unlocked, Send, Leave, Go, MoveTo
<1>3. /\ locked'[o] = Pop(locked[o]) /\ locked'[o] \in Seq(Keys)
      /\ DOMAIN locked[o] = DOMAIN locked'[o] \cup {Len(locked[o])}
      /\ Len(locked[o]) \notin DOMAIN locked'[o]
      /\ \A i \in DOMAIN locked'[o] : locked'[o][i] = locked[o][i]
      /\ locked[o][Len(locked[o])] = k
  <2>1. locked[o] \in Seq(Keys) /\ locked[o] # <<>> /\ locked'[o] = Pop(locked[o])
    BY <1>1, <1>2 DEF TypeOK
  <2>2. /\ Pop(locked[o]) \in Seq(Keys)
        /\ DOMAIN locked[o] = DOMAIN Pop(locked[o]) \cup {Len(locked[o])}
        /\ Len(locked[o]) \notin DOMAIN Pop(locked[o])
        /\ \A i \in DOMAIN Pop(locked[o]) : Pop(locked[o])[i] = locked[o][i]
    BY <2>1, PopRange
  <2>3. QED
    BY <2>1, <2>2 DEF Top
<1>4. Owned(o)' = Owned(o) \ {k} /\ k \in Owned(o)
  BY UnlockGives
<1>5. \A p \in Ops \ {o} : Owned(p)' = Owned(p) /\ locked'[p] = locked[p] /\ Key(p)' = Key(p)
  BY <1>2 DEF TypeOK, Owned, Key, Top
<1>6. (\A p \in Ops \ {o} : k \notin Owned(p)) /\ k \notin lost
  BY UnlockGives
<1>7. /\ chans' \in Seq({0, 1}) /\ Len(chans') = Len(chans) /\ chans'[store[k]] = 1
      /\ \A i \in 1 .. Len(chans) : i # store[k] => chans'[i] = chans[i]
  BY <1>1, <1>2 DEF TypeOK, KVTypeOK
<1>8. TypeOK'
  BY <1>2, <1>3, <1>7 DEF TypeOK, KVTypeOK, Places, PCs
<1>9. ControlInv'
  BY <1>1, <1>2 DEF TypeOK, KVTypeOK, ControlInv
<1>10. ChannelInv'
  BY <1>1, <1>2, <1>5 DEF TypeOK, KVTypeOK, ChannelInv
<1>11. OwnerInv'
  <2>1. MutualExclusion'
    BY <1>4, <1>5 DEF OwnerInv, MutualExclusion
  <2>2. \A p \in Ops : Owned(p)' \cap lost' = {}
    BY <1>2, <1>4, <1>5 DEF OwnerInv
  <2>3. \A p \in Ops : \A i, j \in DOMAIN locked'[p] : locked'[p][i] = locked'[p][j] => i = j
    <3> SUFFICES ASSUME NEW p \in Ops, NEW i \in DOMAIN locked'[p], NEW j \in DOMAIN locked'[p],
                        locked'[p][i] = locked'[p][j]
                 PROVE  i = j
      OBVIOUS
    <3>1. CASE p = o
      BY <3>1, <1>3 DEF OwnerInv
    <3>2. CASE p # o
      BY <3>2, <1>5 DEF OwnerInv
    <3>3. QED
      BY <3>1, <3>2
  <2>4. QED
    BY <2>1, <2>2, <2>3 DEF OwnerInv
<1>12. TokenConservation'
  <2> SUFFICES ASSUME NEW q \in Keys
               PROVE  (\E p \in Ops : q \in Owned(p)') \/ q \in lost'
                        <=> store'[q] # 0 /\ chans'[store'[q]] = 0
    BY DEF TokenConservation
  <2>1. CASE q = k
    <3>1. store'[q] # 0 /\ chans'[store'[q]] = 1
      BY <2>1, <1>1, <1>2, <1>7
    <3>2. (\A p \in Ops : q \notin Owned(p)') /\ q \notin lost'
      BY <2>1, <1>2, <1>4, <1>5, <1>6
    <3>3. QED
      BY <3>1, <3>2
  <2>2. CASE q # k
    <3>1. store[q] # 0 => chans'[store[q]] = chans[store[q]]
      BY <2>2, <1>1, <1>7 DEF ChannelInv, TypeOK, KVTypeOK
    <3>2. \A p \in Ops : q \in Owned(p)' <=> q \in Owned(p)
      BY <2>2, <1>4, <1>5
    <3>3. QED
      BY <3>1, <3>2, <1>2 DEF TokenConservation
  <2>3. QED
    BY <2>1, <2>2
<1>13. QED
  BY <1>8, <1>9, <1>10, <1>11, <1>12

(* precheck returns an error: what the operation owned becomes lost. *)
LEMMA PrecheckErrorInv ==
  ASSUME IInv, NEW o \in Ops, MutexCancelled(o) \/ ApiCheckFailed(o)
  PROVE  IInv'
<1> USE DEF IInv
<1>1. /\ chans' = chans /\ store' = store /\ mu' = mu
      /\ lost' = lost \cup Owned(o) /\ locked' = [locked EXCEPT ![o] = <<>>]
      /\ next' = [next EXCEPT ![o] = 1] /\ ctxDone' = ctxDone \ {o}
      /\ pc' = [pc EXCEPT ![o] = "idle"]
  BY DEF MutexCancelled, ApiCheckFailed, GiveUp, Leave, PrecheckError, MoveTo, kvVars
<1>2. /\ at \in [Ops -> Places] /\ at' = [at EXCEPT ![o] = "out"]
      /\ ch' \in [Ops -> 0 .. Len(chans)] /\ \A p \in Ops \ {o} : ch'[p] = ch[p]
      /\ at[o] \in {"chan", "out"}
  <2>1. CASE MutexCancelled(o)
    BY <2>1 DEF MutexCancelled, GiveUp, Leave, Go, TypeOK, KVTypeOK
  <2>2. CASE ApiCheckFailed(o)
    BY <2>2 DEF ApiCheckFailed, AtCheck, kvVars, TypeOK, KVTypeOK, ControlInv
  <2>3. QED
    BY <2>1, <2>2
<1>3. locked'[o] = <<>> /\ Owned(o)' = {}
  <2>1. DOMAIN <<>> = {}
    OBVIOUS
  <2>2. QED
    BY <1>1, <2>1 DEF TypeOK, Owned
<1>4. \A p \in Ops \ {o} : Owned(p)' = Owned(p) /\ locked'[p] = locked[p] /\ Key(p)' = Key(p)
  BY <1>1 DEF TypeOK, Owned, Key, Top
<1>5. TypeOK'
  <2>1. Owned(o) \subseteq Keys
    BY DEF Owned, TypeOK
  <2>2. locked' \in [Ops -> Seq(Keys)]
    BY <1>1 DEF TypeOK
  <2>3. KVTypeOK'
    BY <1>1, <1>2 DEF TypeOK, KVTypeOK, Places
  <2>4. QED
    BY <1>1, <2>1, <2>2, <2>3 DEF TypeOK, PCs
<1>6. ControlInv'
  BY <1>1, <1>2 DEF TypeOK, KVTypeOK, ControlInv
<1>7. ChannelInv'
  BY <1>1, <1>2, <1>4 DEF TypeOK, KVTypeOK, ChannelInv
<1>8. OwnerInv'
  <2>1. MutualExclusion'
    BY <1>3, <1>4 DEF OwnerInv, MutualExclusion
  <2>2. \A p \in Ops : Owned(p)' \cap lost' = {}
    BY <1>1, <1>3, <1>4 DEF OwnerInv, MutualExclusion
  <2>3. \A p \in Ops : \A i, j \in DOMAIN locked'[p] : locked'[p][i] = locked'[p][j] => i = j
    <3>1. DOMAIN <<>> = {}
      OBVIOUS
    <3>2. QED
      BY <1>3, <1>4, <3>1 DEF OwnerInv
  <2>4. QED
    BY <2>1, <2>2, <2>3 DEF OwnerInv
<1>9. TokenConservation'
  <2> SUFFICES ASSUME NEW q \in Keys
               PROVE  (\E p \in Ops : q \in Owned(p)') \/ q \in lost'
                        <=> store'[q] # 0 /\ chans'[store'[q]] = 0
    BY DEF TokenConservation
  <2>1. (\E p \in Ops : q \in Owned(p)') \/ q \in lost' <=> (\E p \in Ops : q \in Owned(p)) \/ q \in lost
    BY <1>1, <1>3, <1>4
  <2>2. QED
    BY <2>1, <1>1 DEF TokenConservation
<1>10. QED
  BY <1>5, <1>6, <1>7, <1>8, <1>9

(* The steps that move no token and change no list of locked names. *)
LEMMA QuietInv ==
  ASSUME IInv, NEW o \in Ops,
         \/ Begin(o) \/ MutexCheck(o) \/ ApiCheckPassed(o) \/ PrecheckDone(o)
         \/ CallEnds(o) \/ UnlockNext(o) \/ Return(o) \/ Cancel(o)
  PROVE  IInv'
<1> USE DEF IInv
<1>1. /\ chans' = chans /\ store' = store /\ mu' = mu /\ ch' = ch
      /\ locked' = locked /\ lost' = lost
  BY DEF Begin, MutexCheck, ApiCheckPassed, PrecheckDone, CallEnds, UnlockNext, Return, Cancel, Enter, kvVars
<1>2. \A p \in Ops : Owned(p)' = Owned(p)
  BY <1>1 DEF Owned
<1>3. OwnerInv' /\ TokenConservation'
  BY <1>1, <1>2 DEF OwnerInv, MutualExclusion, TokenConservation
<1>4. CASE Begin(o)
  <2>1. TypeOK'
    BY <1>4 DEF Begin, MoveTo, TypeOK, KVTypeOK, PCs, kvVars
  <2>2. ControlInv' /\ ChannelInv'
    BY <1>4 DEF Begin, MoveTo, TypeOK, KVTypeOK, ControlInv, ChannelInv, Key, Top, kvVars
  <2>3. QED
    BY <1>3, <2>1, <2>2
<1>5. CASE MutexCheck(o)
  <2>1. TypeOK'
    BY <1>5 DEF MutexCheck, Enter, Go, MoveTo, TypeOK, KVTypeOK, PCs, Places
  <2>2. ControlInv'
    BY <1>5 DEF MutexCheck, AtCheck, Enter, Go, MoveTo, TypeOK, KVTypeOK, ControlInv
  <2>3. ChannelInv'
    BY <1>5 DEF MutexCheck, AtCheck, Enter, Go, MoveTo, TypeOK, KVTypeOK, ControlInv, ChannelInv, Key, Top
  <2>4. QED
    BY <1>3, <2>1, <2>2, <2>3
<1>6. CASE ApiCheckPassed(o)
  <2>1. TypeOK'
    BY <1>6 DEF ApiCheckPassed, TypeOK, KVTypeOK, kvVars
  <2>2. ControlInv' /\ ChannelInv'
    BY <1>6 DEF ApiCheckPassed, AtCheck, TypeOK, KVTypeOK, ControlInv, ChannelInv, Key, Top, kvVars
  <2>3. QED
    BY <1>3, <2>1, <2>2
<1>7. CASE PrecheckDone(o)
  <2>1. TypeOK'
    BY <1>7 DEF PrecheckDone, MoveTo, TypeOK, KVTypeOK, PCs, kvVars
  <2>2. ControlInv' /\ ChannelInv'
    BY <1>7 DEF PrecheckDone, MoveTo, TypeOK, KVTypeOK, ControlInv, ChannelInv, Key, Top, kvVars
  <2>3. QED
    BY <1>3, <2>1, <2>2
<1>8. CASE CallEnds(o)
  <2>1. TypeOK'
    BY <1>8 DEF CallEnds, MoveTo, TypeOK, KVTypeOK, PCs, kvVars
  <2>2. ControlInv' /\ ChannelInv'
    BY <1>8 DEF CallEnds, MoveTo, TypeOK, KVTypeOK, ControlInv, ChannelInv, Key, Top, kvVars
  <2>3. QED
    BY <1>3, <2>1, <2>2
<1>9. CASE UnlockNext(o)
  <2>1. TypeOK'
    BY <1>9 DEF UnlockNext, Enter, Go, MoveTo, TypeOK, KVTypeOK, PCs, Places
  <2>2. ControlInv'
    BY <1>9 DEF UnlockNext, Enter, Go, MoveTo, TypeOK, KVTypeOK, ControlInv
  <2>3. ChannelInv'
    BY <1>9 DEF UnlockNext, Enter, Go, MoveTo, TypeOK, KVTypeOK, ControlInv, ChannelInv, Key, Top
  <2>4. QED
    BY <1>3, <2>1, <2>2, <2>3
<1>10. CASE Return(o)
  <2>1. TypeOK'
    BY <1>10 DEF Return, MoveTo, TypeOK, KVTypeOK, PCs, kvVars
  <2>2. ControlInv' /\ ChannelInv'
    BY <1>10 DEF Return, MoveTo, TypeOK, KVTypeOK, ControlInv, ChannelInv, Key, Top, kvVars
  <2>3. QED
    BY <1>3, <2>1, <2>2
<1>11. CASE Cancel(o)
  <2>1. TypeOK'
    BY <1>11 DEF Cancel, TypeOK, KVTypeOK, kvVars
  <2>2. ControlInv' /\ ChannelInv'
    BY <1>11 DEF Cancel, TypeOK, KVTypeOK, ControlInv, ChannelInv, Key, Top, kvVars
  <2>3. QED
    BY <1>3, <2>1, <2>2
<1>12. QED
  BY <1>4, <1>5, <1>6, <1>7, <1>8, <1>9, <1>10, <1>11

LEMMA StutterInv == IInv /\ UNCHANGED vars => IInv'
<1> SUFFICES ASSUME IInv, UNCHANGED vars PROVE IInv'
  OBVIOUS
<1> USE DEF IInv, vars, kvVars, opVars
<1>1. \A o \in Ops : Owned(o)' = Owned(o) /\ Key(o)' = Key(o)
  BY DEF Owned, Key, Top
<1>2. TypeOK'
  BY DEF TypeOK, KVTypeOK
<1>3. ControlInv'
  BY DEF ControlInv
<1>4. ChannelInv'
  BY <1>1 DEF ChannelInv
<1>5. OwnerInv' /\ TokenConservation'
  BY <1>1 DEF OwnerInv, MutualExclusion, TokenConservation
<1>6. QED
  BY <1>2, <1>3, <1>4, <1>5

LEMMA StepInv == IInv /\ [Next]_vars => IInv'
<1> SUFFICES ASSUME IInv, [Next]_vars PROVE IInv'
  OBVIOUS
<1>1. CASE Next
  <2>1. PICK o \in Ops : Begin(o) \/ Step(o) \/ Cancel(o)
    BY <1>1 DEF Next
  <2>2. QED
    BY <2>1, InLocksInv, MutexLockedInv, UnlockedInv, PrecheckErrorInv, QuietInv DEF Step
<1>2. QED
  BY <1>1, StutterInv

(* Every behaviour keeps the inductive invariant. *)
THEOREM Invariance == Spec => []IInv
BY InitInv, StepInv, PTL DEF Spec

(* The variables of the locks package and of precheck keep their types. *)
THEOREM TypeCorrect == Spec => []TypeOK
<1>1. IInv => TypeOK
  BY DEF IInv
<1>2. QED
  BY <1>1, Invariance, PTL

(* Two operations never hold the same mutex, however many operations there *)
(* are, whatever their precheck lists and wherever they fail or are cancelled. *)
THEOREM Exclusion == Spec => []MutualExclusion
<1>1. IInv => MutualExclusion
  BY DEF IInv, OwnerInv
<1>2. QED
  BY <1>1, Invariance, PTL

(* A mutex without a token is owned by an operation, or was lost by a *)
(* precheck that returned an error: no other step drops or forges a token. *)
THEOREM Tokens == Spec => []TokenConservation
<1>1. IInv => TokenConservation
  BY DEF IInv
<1>2. QED
  BY <1>1, Invariance, PTL

(* unlockFunc never blocks: the buffer it sends to is empty. *)
THEOREM UnlockProceeds == Spec => []UnlockNeverBlocks
<1>1. IInv => UnlockNeverBlocks
  <2> SUFFICES ASSUME IInv, NEW o \in Ops, pc[o] = "unlocking", at[o] = "chan"
               PROVE  chans[ch[o]] = 0
    BY DEF UnlockNeverBlocks
  <2>1. Key(o) \in Keys /\ Key(o) = Top(o) /\ ch[o] = store[Key(o)] /\ ch[o] # 0
    BY KeyType DEF IInv, ChannelInv, Key
  <2>2. Top(o) \in Owned(o)
    BY PopRange DEF IInv, ControlInv, TypeOK, Owned, Top
  <2>3. QED
    BY <2>1, <2>2 DEF IInv, TokenConservation
<1>2. QED
  BY <1>1, Invariance, PTL

LEMMA QuietOwned ==
  ASSUME NEW o \in Ops,
         \/ Begin(o) \/ MutexCheck(o) \/ ApiCheckPassed(o) \/ PrecheckDone(o)
         \/ CallEnds(o) \/ UnlockNext(o) \/ Return(o) \/ Cancel(o) \/ InLocks(o)
  PROVE  locked' = locked /\ lost' = lost
BY DEF Begin, MutexCheck, ApiCheckPassed, PrecheckDone, CallEnds, UnlockNext, Return, Cancel,
       InLocks, opVars

(* The channels, the mutex and the unlockFunc of the code behave as a table *)
(* of owners in which only free keys are taken and only held keys given back. *)
THEOREM Refinement == Spec => ImplementsTable
<1> DEFINE held == [p \in Ops |-> Owned(p)]
<1>1. Init => Table!Init
  <2> SUFFICES ASSUME Init PROVE Table!Init
    OBVIOUS
  <2>1. DOMAIN <<>> = {}
    OBVIOUS
  <2>2. \A p \in Ops : Owned(p) = {}
    BY <2>1 DEF Init, Owned
  <2>3. QED
    BY <2>2 DEF Init, Table!Init
<1>2. IInv /\ [Next]_vars => [Table!Next]_Table!vars
  <2> SUFFICES ASSUME IInv, [Next]_vars PROVE [Table!Next]_Table!vars
    OBVIOUS
  <2>1. locked' = locked /\ lost' = lost => UNCHANGED Table!vars
    BY DEF Table!vars, Owned
  <2>2. CASE UNCHANGED vars
    BY <2>1, <2>2 DEF vars, opVars
  <2>3. CASE Next
    <3>1. PICK o \in Ops : Begin(o) \/ Step(o) \/ Cancel(o)
      BY <2>3 DEF Next
    <3>2. CASE MutexLocked(o)
      <4>1. /\ Key(o) \in Keys /\ Key(o) \notin lost /\ lost' = lost
            /\ \A p \in Ops : Key(o) \notin Owned(p)
            /\ held' = [held EXCEPT ![o] = Owned(o) \cup {Key(o)}]
        BY <3>2, LockTakes
      <4>2. Table!Acquire(o, Key(o))
        BY <4>1 DEF Table!Acquire
      <4>3. QED
        BY <4>1, <4>2 DEF Table!Next
    <3>3. CASE Unlocked(o)
      <4>1. /\ Top(o) \in Keys /\ Top(o) \in Owned(o) /\ lost' = lost
            /\ held' = [held EXCEPT ![o] = Owned(o) \ {Top(o)}]
        BY <3>3, UnlockGives
      <4>2. Table!Release(o, Top(o))
        BY <4>1 DEF Table!Release
      <4>3. QED
        BY <4>1, <4>2 DEF Table!Next
    <3>4. CASE MutexCancelled(o) \/ ApiCheckFailed(o)
      <4>1. lost' = lost \cup Owned(o) /\ locked' = [locked EXCEPT ![o] = <<>>]
        BY <3>4 DEF MutexCancelled, ApiCheckFailed, PrecheckError
      <4>2. DOMAIN <<>> = {} /\ locked \in [Ops -> Seq(Keys)]
        BY DEF IInv, TypeOK
      <4>3. held' = [held EXCEPT ![o] = {}]
        BY <4>1, <4>2 DEF Owned
      <4>4. Table!Abandon(o)
        BY <4>1, <4>3 DEF Table!Abandon
      <4>5. QED
        BY <4>4 DEF Table!Next
    <3>5. QED
      BY <3>1, <3>2, <3>3, <3>4, <2>1, QuietOwned DEF Step
  <2>4. QED
    BY <2>2, <2>3
<1>3. QED
  BY <1>1, <1>2, Invariance, PTL DEF Spec, ImplementsTable, Table!Spec
-----------------------------------------------------------------------------
(* The mutexes held are those listed before the check that is next.         *)

(* Lock returns nil: the list held is one check longer. *)
LEMMA LockExtends ==
  ASSUME IInv, NEW o \in Ops, MutexLocked(o), HoldsListed(o, next[o])
  PROVE  HoldsListed(o, next[o])'
<1> DEFINE k == Key(o)
           len == Len(locked[o])
<1>1. /\ k \in Keys /\ k \notin Owned(o) /\ Owned(o)' = Owned(o) \cup {k}
      /\ k = Checks[o][next[o]] /\ next[o] \in Nat \ {0} /\ next'[o] = next[o] + 1
      /\ locked[o] \in Seq(Keys) /\ locked'[o] = Append(locked[o], k)
  BY LockTakes DEF MutexLocked, Key, IInv, TypeOK
<1>2. /\ DOMAIN locked'[o] = DOMAIN locked[o] \cup {len + 1}
      /\ \A i \in DOMAIN locked[o] : locked'[o][i] = locked[o][i]
      /\ locked'[o][len + 1] = k
      /\ len + 1 \notin DOMAIN locked[o] /\ DOMAIN locked[o] = 1 .. len /\ len \in Nat
  BY <1>1, AppendRange
<1> HIDE DEF k, len
<1>3. 1 .. (next[o] + 1) - 1 = (1 .. next[o] - 1) \cup {next[o]}
  BY <1>1
<1>4. Owned(o)' = {Checks[o][m] : m \in 1 .. (next[o] + 1) - 1} \ {Api}
  BY <1>1, <1>3 DEF HoldsListed
<1>5. \A m \in 1 .. next[o] - 1 : Checks[o][m] # k
  BY <1>1 DEF HoldsListed
<1>6. ASSUME NEW i \in DOMAIN locked'[o], NEW j \in DOMAIN locked'[o],
             NEW m1 \in 1 .. (next[o] + 1) - 1, NEW m2 \in 1 .. (next[o] + 1) - 1,
             locked'[o][i] = Checks[o][m1], locked'[o][j] = Checks[o][m2], m1 < m2
      PROVE  i < j
  <2>1. m1 \in 1 .. next[o] - 1
    BY <1>1, <1>6
  <2>2. i \in 1 .. len
    BY <1>2, <1>5, <1>6, <2>1
  <2>3. CASE j = len + 1
    BY <1>2, <2>2, <2>3
  <2>4. CASE j \in DOMAIN locked[o]
    <3>1. locked[o][j] \in Owned(o)
      BY <2>4 DEF Owned
    <3>2. m2 \in 1 .. next[o] - 1
      BY <1>1, <1>2, <1>3, <1>6, <2>4, <3>1
    <3>3. QED
      BY <1>2, <1>6, <2>1, <2>2, <2>4, <3>2 DEF HoldsListed
  <2>5. QED
    BY <1>2, <2>3, <2>4
<1>7. QED
  BY <1>1, <1>4, <1>6 DEF HoldsListed

(* An API check passes: it is passed over in the list. *)
LEMMA ApiExtends ==
  ASSUME IInv, NEW o \in Ops, ApiCheckPassed(o), HoldsListed(o, next[o])
  PROVE  HoldsListed(o, next[o] + 1)
<1>1. /\ Checks[o][next[o]] = Api /\ next[o] \in Nat \ {0} /\ locked[o] \in Seq(Keys)
  BY DEF ApiCheckPassed, IInv, TypeOK
<1>2. 1 .. (next[o] + 1) - 1 = (1 .. next[o] - 1) \cup {next[o]}
  BY <1>1
<1>3. \A i \in DOMAIN locked[o] : locked[o][i] # Api
  BY <1>1
<1>4. QED
  BY <1>1, <1>2, <1>3 DEF HoldsListed

(* An operation whose list does not change holds what it held. *)
LEMMA SameListed ==
  ASSUME NEW o \in Ops, next'[o] = next[o], locked'[o] = locked[o], HoldsListed(o, next[o])
  PROVE  HoldsListed(o, next[o])'
BY DEF HoldsListed, Owned

(* Every step keeps what is held and what is listed together. *)
LEMMA ListStep == IInv /\ ListInv /\ [Next]_vars => ListInv'
<1> SUFFICES ASSUME IInv, ListInv, [Next]_vars PROVE ListInv'
  OBVIOUS
<1>1. CASE UNCHANGED vars
  BY <1>1, SameListed DEF vars, opVars, ListInv, HoldsEarlierMutexes
<1>2. CASE Next
  <2>1. PICK o \in Ops : Begin(o) \/ Step(o) \/ Cancel(o)
    BY <1>2 DEF Next
  <2>2. \A p \in Ops \ {o} :
          pc'[p] = pc[p] /\ next'[p] = next[p] /\ locked'[p] = locked[p]
    BY <2>1 DEF IInv, TypeOK, Step, Begin, InLocks, MutexCheck, MutexLocked, MutexCancelled,
                ApiCheckPassed, ApiCheckFailed, PrecheckDone, CallEnds, UnlockNext, Unlocked, Return,
                Cancel, PrecheckError, MoveTo, opVars
  <2>3. (pc'[o] \in {"check", "locking", "call"} => HoldsListed(o, next[o])')
        /\ (pc'[o] = "idle" => next'[o] = 1)
    <3>1. CASE Begin(o)
      <4>1. next'[o] = 1 /\ locked'[o] = <<>> /\ pc'[o] = "check"
        BY <3>1 DEF Begin, MoveTo, ListInv, IInv, TypeOK, ControlInv
      <4>2. DOMAIN <<>> = {} /\ 1 .. 1 - 1 = {}
        OBVIOUS
      <4>3. QED
        BY <4>1, <4>2 DEF HoldsListed, Owned
    <3>2. CASE MutexLocked(o)
      <4>1. pc[o] = "locking" /\ pc'[o] = "check"
        BY <3>2 DEF MutexLocked, MoveTo, IInv, TypeOK
      <4>2. QED
        BY <3>2, <4>1, LockExtends DEF ListInv, HoldsEarlierMutexes
    <3>3. CASE ApiCheckPassed(o)
      <4>1. pc[o] = "check" /\ pc'[o] = "check" /\ next'[o] = next[o] + 1 /\ locked' = locked
        BY <3>3 DEF ApiCheckPassed, AtCheck, IInv, TypeOK
      <4>2. HoldsListed(o, next[o] + 1)
        BY <3>3, <4>1, ApiExtends DEF ListInv, HoldsEarlierMutexes
      <4>3. QED
        BY <4>1, <4>2 DEF HoldsListed, Owned
    <3>4. CASE InLocks(o) \/ MutexCheck(o) \/ PrecheckDone(o) \/ Cancel(o)
      <4>1. /\ locked' = locked /\ next' = next /\ (pc[o] = "idle" <=> pc'[o] = "idle")
            /\ pc'[o] \in {"check", "locking", "call"} => pc[o] \in {"check", "locking", "call"}
        BY <3>4 DEF InLocks, MutexCheck, AtCheck, PrecheckDone, Cancel, MoveTo, IInv, TypeOK, opVars
      <4>2. QED
        BY <4>1, SameListed DEF ListInv, HoldsEarlierMutexes
    <3>5. CASE CallEnds(o) \/ UnlockNext(o) \/ Unlocked(o)
      BY <3>5 DEF CallEnds, UnlockNext, Unlocked, MoveTo, IInv, TypeOK
    <3>6. CASE MutexCancelled(o) \/ ApiCheckFailed(o) \/ Return(o)
      BY <3>6 DEF MutexCancelled, ApiCheckFailed, Return, PrecheckError, MoveTo, IInv, TypeOK
    <3>7. QED
      BY <2>1, <3>1, <3>2, <3>3, <3>4, <3>5, <3>6 DEF Step
  <2>4. HoldsEarlierMutexes'
    <3>1. ASSUME NEW p \in Ops \ {o}, pc'[p] \in {"check", "locking", "call"}
          PROVE  HoldsListed(p, next[p])'
      BY <2>2, <3>1, SameListed DEF ListInv, HoldsEarlierMutexes
    <3>2. QED
      BY <2>3, <3>1 DEF HoldsEarlierMutexes
  <2>5. QED
    BY <2>2, <2>3, <2>4 DEF ListInv
<1>3. QED
  BY <1>1, <1>2

(* Every check and every API call is made under exactly the mutexes listed *)
(* before it, in the order of the list, for any lists of checks.           *)
THEOREM EarlierMutexes == Spec => []HoldsEarlierMutexes
<1>1. Init => ListInv
  BY DEF Init, ListInv, HoldsEarlierMutexes
<1>2. ListInv => HoldsEarlierMutexes
  BY DEF ListInv
<1>3. QED
  BY <1>1, <1>2, ListStep, Invariance, PTL DEF Spec
-----------------------------------------------------------------------------
(* Operations whose lists name the mutexes in one order do not deadlock.    *)

(* A set of numbers that is not empty has a least one. *)
LEMMA LeastNumber ==
  ASSUME NEW T \in SUBSET Nat, T # {}
  PROVE  \E x \in T : \A y \in T : x <= y
<1> DEFINE below == OpToRel(<, Nat)
<1>1. \A x, y \in Nat : x < y => <<x, y>> \in below
  BY DEF OpToRel
<1>2. IsWellFoundedOn(below, Nat)
  BY NatLessThanWellFounded
<1> HIDE DEF below
<1>3. \E x \in T : \A y \in T : ~ (<<y, x>> \in below)
  BY <1>2, WFMin, Zenon
<1>4. PICK x \in T : \A y \in T : <<y, x>> \notin below
  BY <1>3
<1>5. \A y \in T : ~(y < x)
  BY <1>1, <1>4, Zenon
<1>6. \A y \in T : x <= y
  BY <1>5
<1>7. QED
  BY <1>6

(* The key that a blocked operation waits for is owned, or lost; the one it *)
(* gives back is never the cause of a wait.                                 *)
LEMMA BlockedWaits ==
  ASSUME IInv, NEW o \in Ops, Blocked(o)
  PROVE  /\ pc[o] = "locking" /\ Key(o) \in Keys /\ Key(o) = Checks[o][next[o]]
         /\ Key(o) \in lost \/ \E p \in Ops : Key(o) \in Owned(p)
<1>1. at[o] = "chan" /\ Key(o) \in Keys /\ ch[o] = store[Key(o)] /\ ch[o] # 0
  BY KeyType DEF Blocked, IInv, ChannelInv
<1>2. pc[o] = "locking"
  <2> SUFFICES ASSUME pc[o] # "locking" PROVE FALSE
    OBVIOUS
  <2>1. pc[o] = "unlocking" /\ chans[ch[o]] = 1 /\ Key(o) = Top(o)
    BY <1>1 DEF Blocked, IInv, ControlInv, Key
  <2>2. Top(o) \in Owned(o)
    BY <2>1, PopRange DEF IInv, ControlInv, TypeOK, Owned, Top
  <2>3. QED
    BY <1>1, <2>1, <2>2 DEF IInv, TokenConservation
<1>3. chans[store[Key(o)]] = 0
  BY <1>1, <1>2 DEF Blocked
<1>4. QED
  BY <1>1, <1>2, <1>3 DEF Key, IInv, TokenConservation

(* An operation that waits for a mutex holds only mutexes of higher rank. *)
LEMMA WaitsDownwards ==
  ASSUME IInv, ListInv, NEW rank \in [Keys -> Nat], ListedBy(rank),
         NEW p \in Ops, pc[p] = "locking", NEW k \in Owned(p)
  PROVE  rank[Key(p)] < rank[k]
<1>1. /\ next[p] \in 1 .. Len(Checks[p]) /\ Checks[p] \in Seq(Keys \cup {Api})
      /\ Key(p) = Checks[p][next[p]] /\ Key(p) # Api
  BY DEF IInv, TypeOK, ControlInv, Key
<1>2. PICK m \in 1 .. next[p] - 1 : k = Checks[p][m] /\ k # Api
  BY DEF ListInv, HoldsEarlierMutexes, HoldsListed
<1>3. m \in DOMAIN Checks[p] /\ next[p] \in DOMAIN Checks[p] /\ m < next[p]
  BY <1>1, <1>2
<1>4. QED
  BY <1>1, <1>2, <1>3 DEF ListedBy

(* Where the lists name the mutexes in one order, no group of operations    *)
(* blocks itself: for any operations, mutexes and lists, of which only one  *)
(* rank of the mutexes that goes down along every list is asked.            *)
THEOREM NoDeadlock ==
  ASSUME NEW rank \in [Keys -> Nat], ListedBy(rank)
  PROVE  Spec => []NoCircularWait
<1>1. IInv /\ ListInv => NoCircularWait
  <2> SUFFICES ASSUME IInv, ListInv,
                      NEW group \in SUBSET {o \in Ops : Blocked(o)}, group # {}
               PROVE  \E o \in group : Key(o) \in lost \/ \E p \in Ops \ group : Key(o) \in Owned(p)
    BY DEF NoCircularWait
  <2> DEFINE ranks == {rank[Key(o)] : o \in group}
  <2>1. \A o \in group : pc[o] = "locking" /\ Key(o) \in Keys
    BY BlockedWaits
  <2>2. ranks \in SUBSET Nat /\ ranks # {}
    BY <2>1
  <2>3. PICK o \in group : \A p \in group : rank[Key(o)] <= rank[Key(p)]
    <3>1. PICK x \in ranks : \A y \in ranks : x <= y
      BY <2>2, LeastNumber
    <3>2. PICK o \in group : x = rank[Key(o)]
      OBVIOUS
    <3>3. \A p \in group : rank[Key(p)] \in ranks
      OBVIOUS
    <3>4. QED
      BY <3>1, <3>2, <3>3
  <2>4. \A p \in group : Key(o) \notin Owned(p)
    <3> SUFFICES ASSUME NEW p \in group, Key(o) \in Owned(p) PROVE FALSE
      OBVIOUS
    <3>1. rank[Key(p)] < rank[Key(o)]
      BY <2>1, WaitsDownwards
    <3>2. rank[Key(o)] \in Nat /\ rank[Key(p)] \in Nat
      BY <2>1
    <3>3. QED
      BY <2>3, <3>1, <3>2
  <2>5. Key(o) \in lost \/ \E p \in Ops : Key(o) \in Owned(p)
    BY BlockedWaits
  <2>6. QED
    BY <2>4, <2>5
<1>2. Init => ListInv
  BY DEF Init, ListInv, HoldsEarlierMutexes
<1>3. QED
  BY <1>1, <1>2, ListStep, Invariance, PTL DEF Spec
=============================================================================
