----------------------- MODULE MCDynamicRegistration -----------------------
(* Small instances of DynamicRegistration for TLC. *)
EXTENDS DynamicRegistration, TLC

CONSTANTS small, large

MCConnections == (small :> 1) @@ (large :> 2)

RegistrationSymmetry == Permutations(Registrars) \cup Permutations(Queries)
=============================================================================
