-------------------------- MODULE MCEphemeralLease --------------------------
(***************************************************************************)
(* Instance of EphemeralLease: both types of expiry with an expiry_ahead   *)
(* that is just enough and with one that is not, and resources that are    *)
(* not renewed or not closed.                                              *)
(***************************************************************************)
EXTENDS EphemeralLease

LeaseConfigs ==
  [expiry : {"time"}, ahead : {0, 2}, renew : {TRUE}, close : BOOLEAN]
    \cup [expiry : {"duration"}, ahead : {2, 3}, renew : {TRUE}, close : BOOLEAN]
    \cup [expiry : {"none"}, ahead : {0}, renew : BOOLEAN, close : BOOLEAN]
=============================================================================
