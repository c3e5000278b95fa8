----------------------------- MODULE MCPrecheck -----------------------------
(***************************************************************************)
(* Instances of Precheck: two mutexes, and two or three operations that    *)
(* use them.                                                               *)
(***************************************************************************)
EXTENDS Precheck, TLC

CONSTANTS o1, o2, o3, a, b

(* All operations list their mutexes in the order a, b, with an API check   *)
(* before, between or after them.                                           *)
OrderedChecks == [o \in Ops |-> CASE o = o1 -> <<a, Api, b>> [] o = o2 -> <<a, b>> [] OTHER -> <<b, Api>>]

(* An API check after a mutex. *)
ApiLastChecks == o1 :> <<a, Api>> @@ o2 :> <<a>>

(* The lists of every run name a before b: their premise of NoCircularWait. *)
ASSUME OrderAssumption == ListedBy(a :> 2 @@ b :> 1)
=============================================================================
