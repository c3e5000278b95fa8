----------------------------- MODULE LockTable -----------------------------
(***************************************************************************)
(* What the locks package promises the operations that use it, with        *)
(* nothing said of channels: a key belongs to one operation at most, an    *)
(* operation takes a key that is free and gives back a key it holds.  An   *)
(* operation may also end without giving back what it holds; those keys    *)
(* are lost, and no later operation ever takes one of them.                *)
(***************************************************************************)
CONSTANTS Ops, Keys

VARIABLES holds, gone

vars == <<holds, gone>>

Init ==
  /\ holds = [o \in Ops |-> {}]
  /\ gone = {}

Acquire(o, k) ==
  /\ k \notin gone
  /\ \A p \in Ops : k \notin holds[p]
  /\ holds' = [holds EXCEPT ![o] = @ \cup {k}]
  /\ UNCHANGED gone

Release(o, k) ==
  /\ k \in holds[o]
  /\ holds' = [holds EXCEPT ![o] = @ \ {k}]
  /\ UNCHANGED gone

Abandon(o) ==
  /\ holds' = [holds EXCEPT ![o] = {}]
  /\ gone' = gone \cup holds[o]

Next == \E o \in Ops : Abandon(o) \/ \E k \in Keys : Acquire(o, k) \/ Release(o, k)

Spec == Init /\ [][Next]_vars
=============================================================================
