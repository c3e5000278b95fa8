--------------------------- MODULE MCRestResource ---------------------------
(***************************************************************************)
(* Instances of RestResource: two bodies, one or two ephemeral bodies and  *)
(* a patch, in the sets of configurations that each run needs.             *)
(***************************************************************************)
EXTENDS RestResource

CONSTANTS b1, b2, e1, e2, p1

Uses(create, update, check, poll) ==
  [create |-> create, update |-> update, check |-> check, pollDelete |-> poll]

(* Blocks with one of the parts in each set, and the block's removal. *)
Blocks(bs, es, ps, fs, ms) ==
  [present : {TRUE}, body : bs, eph : es, patch : ps, force : fs, methods : ms]
    \cup [present : {FALSE}, body : {b1}, eph : {None}, patch : {None}, force : {FALSE}, methods : ms]

(* The API names the objects, or they are at their path, where one that is  *)
(* there already is adopted or replaced.                                    *)
SafetyMethods ==
  {Uses("POST", "PATCH", FALSE, FALSE), Uses("POST", "PUT", FALSE, TRUE),
   Uses("PUT", "PUT", TRUE, TRUE), Uses("PUT", "PATCH", FALSE, FALSE)}

(* Bodies, ephemeral bodies that come and go, and force_new_attrs. *)
SafetyConfigs ==
  Blocks({b1, b2}, {None, e1}, {None}, {FALSE}, SafetyMethods) \cup Blocks({b1}, {e1}, {None}, {TRUE}, SafetyMethods)

(* With PUT all of a configuration's parts change; with PATCH and POST the  *)
(* ephemeral body stays what it is.                                         *)
LivenessConfigs ==
  Blocks({b1, b2}, {None, e1, e2}, {None, p1}, BOOLEAN, {Uses("PUT", "PUT", FALSE, TRUE)})
    \cup Blocks({b1, b2}, {e1}, {None}, BOOLEAN, {Uses("PUT", "PATCH", FALSE, TRUE), Uses("POST", "PATCH", FALSE, FALSE)})

(* An update of the body beside an ephemeral body that stays. *)
UpdateConfigs(ms) == [present : {TRUE}, body : {b1, b2}, eph : {e1}, patch : {None}, force : {FALSE}, methods : ms]

PatchConfigs == UpdateConfigs({Uses("POST", "PATCH", FALSE, FALSE)})
=============================================================================
