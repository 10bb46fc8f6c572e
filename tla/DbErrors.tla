------------------------------ MODULE DbErrors ------------------------------
(***************************************************************************)
(* The error classes of dbkit/_core/errors/base.py, named without their    *)
(* Database...Error affixes, with the three attributes the resilience code *)
(* reads: the category, the retryable flag and transaction_state_unknown.  *)
(* "Cancelled" stands for anything that is not a DatabaseError and passes  *)
(* through `except DatabaseError`: above all asyncio.CancelledError.       *)
(***************************************************************************)

\* Each class and its default category.
Category ==
  [Database |-> "availability",      Configuration |-> "configuration",
   Routing |-> "routing",            Unavailable |-> "availability",
   Connection |-> "connection",      PoolTimeout |-> "pool",
   QueryTimeout |-> "timeout",       LockTimeout |-> "lock",
   Deadlock |-> "lock",              Serialization |-> "concurrency",
   Integrity |-> "integrity",        Programming |-> "programming",
   Permission |-> "permission",      Transaction |-> "transaction",
   CommitUnknown |-> "transaction",  Cancellation |-> "cancelled",
   Result |-> "result",              CircuitOpen |-> "resilience",
   Overloaded |-> "concurrency",     Unsupported |-> "unsupported"]

ErrorClasses == DOMAIN Category

RetryableClasses ==
  {"Unavailable", "Connection", "PoolTimeout", "LockTimeout", "Deadlock",
   "Serialization", "CircuitOpen", "Overloaded"}

\* transaction_state_unknown is set by the constructor of one class only.
UnknownOutcomeClasses == {"CommitUnknown"}

Cancelled == "Cancelled"

\* circuit.py: the categories that count toward opening the breaker.
TrippingCategories == {"availability", "connection", "pool", "timeout"}

CountsAsFailure(e) == Category[e] \in TrippingCategories
=============================================================================
