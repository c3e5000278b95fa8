------------------------------ MODULE MutexKV ------------------------------
(***************************************************************************)
(* The keyed mutex of internal/locks/lock.go.  A key's lock is a buffered  *)
(* channel of capacity one that holds a token while the lock is free.  The *)
(* map from keys to channels is filled on first use, under the mutex mu.   *)
(*                                                                         *)
(* The module gives the steps of one call of Lock or Unlock; the caller    *)
(* supplies the key.  at[o] is the place of operation o inside the         *)
(* package ("out" when it is not inside), ch[o] its local variable ch.     *)
(***************************************************************************)
EXTENDS Naturals, Sequences

CONSTANTS
  Ops,    \* operations (provider RPCs) that may call the package concurrently
  Keys,   \* mutex names
  NoOp    \* the value of mu when nobody holds it

ASSUME NoOpAssumption == NoOp \notin Ops

VARIABLES
  mu,     \* the operation that holds m.mu, or NoOp
  store,  \* m.store: the number of a key's channel, 0 when it has none
  chans,  \* the channels made so far: the number of tokens in each buffer
  at,     \* place of each operation inside the package
  ch      \* local variable ch of each operation, 0 before it is set

kvVars == <<mu, store, chans, at, ch>>

Places == {"out", "mu", "get", "make", "leave", "chan"}

KVTypeOK ==
  /\ mu \in Ops \cup {NoOp}
  /\ chans \in Seq({0, 1})
  /\ store \in [Keys -> 0 .. Len(chans)]
  /\ at \in [Ops -> Places]
  /\ ch \in [Ops -> 0 .. Len(chans)]

KVInit ==
  /\ mu = NoOp
  /\ store = [k \in Keys |-> 0]
  /\ chans = <<>>
  /\ at = [o \in Ops |-> "out"]
  /\ ch = [o \in Ops |-> 0]

Go(o, place) == at' = [at EXCEPT ![o] = place]

(* Lock and Unlock both begin with getOrCreate, which first takes mu. *)
Enter(o) ==
  /\ at[o] = "out"
  /\ Go(o, "mu")
  /\ UNCHANGED <<mu, store, chans, ch>>

(* Mutant of LockMu: getOrCreate does not take mu. *)
LockMuUnguarded(o) ==
  /\ at[o] = "mu"
  /\ mu' = o
  /\ Go(o, "get")
  /\ UNCHANGED <<store, chans, ch>>

LockMu(o) ==
  /\ at[o] = "mu"
  /\ mu = NoOp
  /\ mu' = o
  /\ Go(o, "get")
  /\ UNCHANGED <<store, chans, ch>>

(* ch, ok := m.store[key] *)
LookUp(o, k) ==
  /\ at[o] = "get"
  /\ ch' = [ch EXCEPT ![o] = store[k]]
  /\ Go(o, IF store[k] = 0 THEN "make" ELSE "leave")
  /\ UNCHANGED <<mu, store, chans>>

(* Mutants of Make: the channel has two tokens; it is not put in the store. *)
MakeTwoTokens(o, k) ==
  /\ at[o] = "make"
  /\ chans' = Append(chans, 2)
  /\ store' = [store EXCEPT ![k] = Len(chans) + 1]
  /\ ch' = [ch EXCEPT ![o] = Len(chans) + 1]
  /\ Go(o, "leave")
  /\ UNCHANGED mu

MakeUnstored(o, k) ==
  /\ at[o] = "make"
  /\ chans' = Append(chans, 1)
  /\ ch' = [ch EXCEPT ![o] = Len(chans) + 1]
  /\ Go(o, "leave")
  /\ UNCHANGED <<mu, store>>

(* A channel made with its token in it becomes the channel of the key. *)
Make(o, k) ==
  /\ at[o] = "make"
  /\ chans' = Append(chans, 1)
  /\ store' = [store EXCEPT ![k] = Len(chans) + 1]
  /\ ch' = [ch EXCEPT ![o] = Len(chans) + 1]
  /\ Go(o, "leave")
  /\ UNCHANGED mu

(* The deferred m.mu.Unlock() of getOrCreate. *)
UnlockMu(o) ==
  /\ at[o] = "leave"
  /\ mu' = NoOp
  /\ Go(o, "chan")
  /\ UNCHANGED <<store, chans, ch>>

Leave(o) ==
  /\ Go(o, "out")
  /\ ch' = [ch EXCEPT ![o] = 0]
  /\ UNCHANGED <<mu, store>>

(* case <-ch of the select in Lock *)
Receive(o) ==
  /\ at[o] = "chan"
  /\ chans[ch[o]] = 1
  /\ chans' = [chans EXCEPT ![ch[o]] = 0]
  /\ Leave(o)

(* Mutant of GiveUp: the token is consumed although Lock fails. *)
GiveUpWithToken(o) ==
  /\ at[o] = "chan"
  /\ chans' = [chans EXCEPT ![ch[o]] = 0]
  /\ Leave(o)

(* case <-ctx.Done() of the select in Lock; the caller knows the context. *)
GiveUp(o) ==
  /\ at[o] = "chan"
  /\ Leave(o)
  /\ UNCHANGED chans

(* ch <- struct{}{} in Unlock, which blocks while the buffer is full. *)
Send(o) ==
  /\ at[o] = "chan"
  /\ chans[ch[o]] = 0
  /\ chans' = [chans EXCEPT ![ch[o]] = 1]
  /\ Leave(o)

GetOrCreate(o, k) == LockMu(o) \/ LookUp(o, k) \/ Make(o, k) \/ UnlockMu(o)
=============================================================================
