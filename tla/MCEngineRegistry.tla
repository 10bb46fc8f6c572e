-------------------------- MODULE MCEngineRegistry --------------------------
(* Small instances of EngineRegistry for TLC: a database with a primary and a *)
(* replica, and another one.                                                  *)
EXTENDS EngineRegistry, TLC

CONSTANTS aPrimary, aReplica, bPrimary

MCKeys == {aPrimary, aReplica, bPrimary}
MCDatabaseOf == (aPrimary :> "a") @@ (aReplica :> "a") @@ (bPrimary :> "b")

RegistrySymmetry == Permutations(Tasks) \cup Permutations(Engines)
=============================================================================
