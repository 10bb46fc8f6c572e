-------------------------- MODULE MCConnectionUse --------------------------
(* Small instances of ConnectionUse for TLC. *)
EXTENDS ConnectionUse, TLC

UserSymmetry == Permutations(Users)
=============================================================================
