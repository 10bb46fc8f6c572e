------------------------- MODULE MCTransactionBlock -------------------------
(* Small instances of TransactionBlock for TLC. *)
EXTENDS TransactionBlock

\* A query with no timeout, one with a tight timeout that sets a loose limit, and one
\* with a timeout of less than a millisecond.
QueryChoice ==
  {[method |-> "execute",  timeout |-> None, setting |-> None],
   [method |-> "one",      timeout |-> 4,    setting |-> 9],
   [method |-> "optional", timeout |-> 1,    setting |-> None]}
=============================================================================
