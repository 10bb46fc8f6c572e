-------------------------- MODULE MCThreadedCalls --------------------------
EXTENDS ThreadedCalls, TLC

\* The second settings have two calls in the database at once and leave reads unbounded.
LimitChoice ==
  "s1" :> [t \in Tiers |-> 1] @@
  "s2" :> [t \in Tiers |-> CASE t = "database" -> 2 [] t = "reads" -> 0 [] OTHER -> 1]
PoolChoice == "s1" :> 2 @@ "s2" :> 1
CallerSymmetry == Permutations(Callers)
=============================================================================
