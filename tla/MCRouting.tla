----------------------------- MODULE MCRouting -----------------------------
EXTENDS Routing

ReplicaChoice == 1 :> <<"r1", "r2">> @@ 2 :> <<"r2">> @@ 3 :> <<>>
WeightChoice == "r1" :> 0 @@ "r2" :> 3

\* 1 and True are one key to a dictionary, and hashed by different texts.
ValueChoice == "1" :> 1 @@ "True" :> 1 @@ "5" :> 5
BucketChoice == "1" :> "b0" @@ "True" :> "b1" @@ "5" :> "b1"
KindChoice == {[resolver |-> "single", selector |-> "round_robin"],
               [resolver |-> "hash", selector |-> "weighted"],
               [resolver |-> "range", selector |-> "weighted"],
               [resolver |-> "directory", selector |-> "weighted"]}
RangeChoice == <<[upper |-> 5, shard |-> "high"], [upper |-> 2, shard |-> "low"]>>
MoveChoice == {<<"1", "b0">>, <<"True", "b1">>}
ThreadSymmetry == Permutations(Threads)
=============================================================================
