------------------------------- MODULE Ledger -------------------------------
(***************************************************************************)
(* What a resource promises of the things that it makes at an API, with    *)
(* nothing said of its RPCs: a thing that exists is in Terraform's state,  *)
(* or in the hand of the RPC that has just made it, or told of by an       *)
(* error; it leaves the hand only into the state or into an error, and the *)
(* state only when it is gone or told of.                                  *)
(***************************************************************************)
CONSTANT Things

VARIABLES
  there,   \* the things that exist
  booked,  \* what the state names, one thing at most
  hand,    \* what the RPC in progress has made and not answered yet
  told     \* what an error, a lost answer or another owner accounts for

vars == <<there, booked, hand, told>>

(* Of a resource that never deletes everything is told of beforehand. *)
Init ==
  /\ there = {} /\ booked = {} /\ hand = {}
  /\ told \in {{}, Things}

(* A call has made the thing, or changed it. *)
Take(x) ==
  /\ hand = {} /\ hand' = {x}
  /\ there' = there \cup {x}
  /\ UNCHANGED <<booked, told>>

(* The answer is lost, or someone else has made the thing. *)
Stray(x) ==
  /\ there' = there \cup {x}
  /\ told' = told \cup {x}
  /\ UNCHANGED <<booked, hand>>

Vanish(x) == there' = there \ {x} /\ UNCHANGED <<booked, hand, told>>

(* The RPC answers.  Another thing that was booked is told of. *)
Book(x) ==
  /\ hand \subseteq {x} /\ hand' = {}
  /\ booked' = {x}
  /\ told' \ {x} = (told \cup booked) \ {x}
  /\ UNCHANGED there

(* The thing leaves the state, gone or told of. *)
Unbook(x) ==
  /\ booked = {x} /\ booked' = {}
  /\ there' \in {there, there \ {x}}
  /\ told' \ {x} = told \ {x}
  /\ x \notin there' \ told'
  /\ UNCHANGED hand

(* The RPC fails. *)
Tell ==
  /\ hand' = {}
  /\ told' = told \cup hand
  /\ UNCHANGED <<there, booked>>

Next == Tell \/ \E x \in Things : Take(x) \/ Stray(x) \/ Vanish(x) \/ Book(x) \/ Unbook(x)

Spec == Init /\ [][Next]_vars

(* Nothing exists that nobody knows of. *)
Balanced == there \subseteq booked \cup hand \cup told
=============================================================================
