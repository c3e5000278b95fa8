---------------------------- MODULE ClientTable -----------------------------
(***************************************************************************)
(* What a table that is built once promises to those who use it in         *)
(* parallel, with nothing said of who builds it and what fails meanwhile:  *)
(* an entry is made once; nothing changes after the table is given out;    *)
(* nobody is given anything before; and everybody is given the entry of    *)
(* the name that he wants.                                                 *)
(***************************************************************************)
CONSTANTS
  Names,
  Lenient,  \* names that may be given out without an entry
  Entries,
  Nothing,  \* where there is no entry
  Users

VARIABLES
  table,
  final,  \* the table is given out
  wants,  \* the name that a user wants
  served, \* the users that have been given what they want
  got

vars == <<table, final, wants, served, got>>

Init ==
  /\ table = [n \in Names |-> Nothing]
  /\ final = FALSE
  /\ wants \in [Users -> Names]
  /\ served = {}
  /\ got = [u \in Users |-> Nothing]

Enter(n) ==
  /\ ~final
  /\ table[n] = Nothing
  /\ table'[n] \in Entries
  /\ table' = [table EXCEPT ![n] = table'[n]]
  /\ UNCHANGED <<final, wants, served, got>>

GiveOut ==
  /\ ~final
  /\ final' = TRUE
  /\ UNCHANGED <<table, wants, served, got>>

Serve(u) ==
  /\ final
  /\ u \notin served
  /\ wants[u] \in Lenient \/ table[wants[u]] # Nothing
  /\ served' = served \cup {u}
  /\ got' = [got EXCEPT ![u] = table[wants[u]]]
  /\ UNCHANGED <<table, final, wants>>

Next ==
  \/ \E n \in Names : Enter(n)
  \/ GiveOut
  \/ \E u \in Users : Serve(u)

Spec == Init /\ [][Next]_vars
=============================================================================
