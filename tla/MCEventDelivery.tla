--------------------------- MODULE MCEventDelivery ---------------------------
(***************************************************************************)
(* Two events, two relays and two consumers of EventDelivery for TLC.      *)
(* Liveness is checked, so no symmetry is used.                            *)
(***************************************************************************)
EXTENDS EventDelivery
==============================================================================
