------------------------------ MODULE BulkWrite ------------------------------
(***************************************************************************)
(* insert_many and upsert_many (_bulk_write and _bulk_best_effort of       *)
(* dbkit/_async/database.py): rows go to a table in batches, in one        *)
(* transaction ("atomic"), in one per batch ("best_effort"), or in one per *)
(* batch and, if that fails, in one per row ("split_on_failure").          *)
(*                                                                         *)
(* One call, over and over, against anybody else who writes to the table:  *)
(* calls share nothing but the rows they commit.  A row is represented by  *)
(* its key; `kind` says what the table does with a key it already has.     *)
(* The outcome of a COMMIT whose connection is lost, or which is           *)
(* cancelled, is open.                                                     *)
(***************************************************************************)
EXTENDS Integers, Sequences, FiniteSets

CONSTANTS
  Keys,        \* what a row is known by to the table
  Inputs,      \* what a call may be given, sequences of keys
  Refused,     \* keys of rows the database never takes
  Modes,       \* failure modes
  Kinds,       \* tables: "plain" takes any row, "unique" refuses a key it has,
               \* "upsert" leaves such a row out or updates it (ON CONFLICT)
  Keyed,       \* whether a target has a shard key its resolver insists on
  BatchRows    \* resolve_batch_rows(...)

ASSUME BulkAssumption ==
  /\ Inputs \subseteq Seq(Keys) /\ Refused \subseteq Keys
  /\ Modes \subseteq {"atomic", "best_effort", "split_on_failure"}
  /\ Kinds \subseteq {"plain", "unique", "upsert"}
  /\ Keyed \subseteq BOOLEAN
  /\ BatchRows \in Nat \ {0}

VARIABLES
  kind,    \* the kind of the table
  table,   \* keys that are committed
  bulk     \* the call that is under way, or the last one

vars == <<kind, table, bulk>>

Causes == {"lost", "cancelled", "refused"}
Ended == {"idle", "returned", "raised", "cancelled"}

\* Rows of a call are known by their positions.  `row` is 0 but while a failed batch is
\* written row by row.  History: how often each row was committed, and the rows whose
\* COMMIT failed, with the cause.
TypeOK ==
  /\ kind \in Kinds
  /\ table \subseteq Keys
  /\ LET b == bulk  rows == DOMAIN b.rows IN
       /\ b.pc \in Ended \cup {"starting", "opening", "executing", "committing"}
       /\ b.mode \in Modes /\ b.keyed \in BOOLEAN /\ b.rows \in Inputs \cup {<<>>}
       /\ b.next \in 0 .. Len(b.rows) /\ b.row \in 0 .. BatchRows
       /\ b.open \subseteq rows /\ b.dropped \subseteq rows
       /\ b.written \in 0 .. 2 * Len(b.rows)
       /\ b.times \in [rows -> 0 .. 2]
       /\ b.failedCommits \subseteq Causes \X rows

NewCall(pc, mode, keyed, s) ==
  [pc |-> pc, mode |-> mode, keyed |-> keyed, rows |-> s, next |-> 0, row |-> 0, open |-> {},
   written |-> 0, dropped |-> {}, times |-> [p \in DOMAIN s |-> 0], failedCommits |-> {}]

Init ==
  /\ kind \in Kinds
  /\ table = {}
  /\ \E mode \in Modes : bulk = NewCall("idle", mode, FALSE, <<>>)

-----------------------------------------------------------------------------
(* Batches and statements of a call b *)

\* Mutant: batches overlap by a row.
Batch_Overlap(b) ==
  {p \in DOMAIN b.rows : b.next <= p /\ p <= b.next + BatchRows}

\* iter_batches: the batch that comes after the first b.next rows.
Batch(b) == {p \in DOMAIN b.rows : b.next < p /\ p <= b.next + BatchRows}

\* What the next statement writes.
Current(b) == IF b.row = 0 THEN Batch(b) ELSE {b.next + b.row}

KeysAt(b, P) == {b.rows[p] : p \in P}

\* Keys the statement finds in the table.
Present(b) == table \cup KeysAt(b, b.open)

\* The database refuses the statement.
Offends(b) ==
  \E p \in Current(b) :
    \/ b.rows[p] \in Refused
    \/ kind = "unique" /\ b.rows[p] \in Present(b) \cup {b.rows[q] : q \in Current(b) \ {p}}

\* Mutant: the size of the batches instead of the length of this one.
Counted_Nominal(b) == {BatchRows}

\* What the statement adds to `written`: the rowcount of the driver, or the length of
\* the batch if that is 0 or not known.
Counted(b) ==
  LET rowcount == Cardinality(IF kind = "upsert" THEN KeysAt(b, Current(b)) \ Present(b)
                                                 ELSE Current(b))
  IN  {Cardinality(Current(b))} \cup IF b.row = 0 /\ rowcount > 0 THEN {rowcount} ELSE {}

-----------------------------------------------------------------------------
(* How the loops go on *)

\* The next batch, or the end of the call.
NextBatch(b) ==
  LET done == b.next + Cardinality(Batch(b))
  IN  [b EXCEPT !.next = done, !.row = 0, !.open = {},
                !.pc = IF done = Len(b.rows) THEN "returned" ELSE "opening"]

\* A scope of a batch or a row is over.
NextScope(b) ==
  IF b.row \in 1 .. Cardinality(Batch(b)) - 1
    THEN [b EXCEPT !.row = @ + 1, !.open = {}, !.pc = "opening"]
    ELSE NextBatch(b)

\* Logged, and counted as BULK_ROWS_DROPPED.
Dropped(b) == [b EXCEPT !.dropped = @ \cup Current(b)]

\* Mutant: the `continue` of best_effort is missing.
Fails_NoContinue(b) ==
  CASE b.mode = "atomic" -> [b EXCEPT !.pc = "raised", !.open = {}]
    [] b.mode # "atomic" /\ b.row = 0 -> [b EXCEPT !.row = 1, !.open = {}, !.pc = "opening"]
    [] OTHER -> NextScope(Dropped(b))

\* Mutant: a row that fails is left out without a trace.
Fails_Silent(b) ==
  CASE b.mode = "atomic" -> [b EXCEPT !.pc = "raised", !.open = {}]
    [] b.mode = "split_on_failure" /\ b.row = 0 ->
         [b EXCEPT !.row = 1, !.open = {}, !.pc = "opening"]
    [] OTHER -> NextScope(b)

\* An Exception reaches the loop: it is raised, or the batch is written row by row, or
\* what failed is dropped.
Fails(b) ==
  CASE b.mode = "atomic" -> [b EXCEPT !.pc = "raised", !.open = {}]
    [] b.mode = "split_on_failure" /\ b.row = 0 ->
         [b EXCEPT !.row = 1, !.open = {}, !.pc = "opening"]
    [] OTHER -> NextScope(Dropped(b))

Becomes(b) == bulk' = b /\ UNCHANGED kind

-----------------------------------------------------------------------------
(* The steps of a call *)

\* insert_many is called; without rows it returns at once.
Submit ==
  /\ bulk.pc \in Ended
  /\ \E mode \in Modes, keyed \in Keyed, s \in Inputs :
       Becomes(NewCall(IF s = <<>> THEN "returned" ELSE "starting", mode, keyed, s))
  /\ UNCHANGED table

\* The engine is there, the rows are cut into batches and the limiter lets the call in.
Starts ==
  /\ bulk.pc = "starting"
  /\ Becomes([bulk EXCEPT !.pc = "opening"])
  /\ UNCHANGED table

\* Routing, the strategy or the limiter refuses the call, in any mode.
StartFails ==
  /\ bulk.pc = "starting"
  /\ Becomes([bulk EXCEPT !.pc = "raised"])
  /\ UNCHANGED table

\* The transaction or the scope is entered.  The scopes of the two other modes are
\* entered for a target without the shard key, which a keyed resolver refuses.
Opens ==
  /\ bulk.pc = "opening"
  /\ bulk.mode = "atomic" \/ ~bulk.keyed
  /\ Becomes([bulk EXCEPT !.pc = "executing"])
  /\ UNCHANGED table

\* Routing, the pool or the server refuses it.
OpenFails ==
  /\ bulk.pc = "opening"
  /\ Becomes(Fails(bulk))
  /\ UNCHANGED table

\* The statement of the current batch or row returns; rows are counted before their COMMIT.
Executes ==
  LET b == bulk
      open == b.open \cup Current(b)
      done == b.next + Cardinality(Batch(b))
  IN  /\ b.pc = "executing"
      /\ ~Offends(b)
      /\ \E n \in Counted(b) :
           Becomes(IF b.mode = "atomic"
             THEN [b EXCEPT !.open = open, !.written = @ + n, !.next = done,
                            !.pc = IF done = Len(b.rows) THEN "committing" ELSE "executing"]
             ELSE [b EXCEPT !.open = open, !.written = @ + n, !.pc = "committing"])
      /\ UNCHANGED table

\* Mutant: an atomic call leaves out a batch that fails and goes on.
ExecuteFails_Skips ==
  LET b == bulk
      done == b.next + Cardinality(Batch(b))
  IN  /\ b.pc = "executing"
      /\ Becomes(IF b.mode = "atomic"
           THEN [b EXCEPT !.next = done,
                          !.pc = IF done = Len(b.rows) THEN "committing" ELSE "executing"]
           ELSE Fails(b))
      /\ UNCHANGED table

\* It raises: an offending row, a timeout, a deadlock, a lost connection.
ExecuteFails ==
  /\ bulk.pc = "executing"
  /\ Becomes(Fails(bulk))
  /\ UNCHANGED table

\* The rows of the open transaction are in the table.
Stored(b) == [b EXCEPT !.times = [p \in DOMAIN @ |-> IF p \in b.open THEN @[p] + 1 ELSE @[p]]]

Commits ==
  LET b == bulk
  IN  /\ b.pc = "committing"
      /\ table' = table \cup KeysAt(b, b.open)
      /\ Becomes(IF b.mode = "atomic" THEN [Stored(b) EXCEPT !.pc = "returned", !.open = {}]
                                      ELSE NextScope(Stored(b)))

\* COMMIT fails: refused by the server, its connection lost (DatabaseCommitUnknownError)
\* or cut by a cancellation, which is classified as a DatabaseError.  In the last two
\* cases it may have been done.  The loops treat it like any other exception.
CommitFails ==
  LET b == bulk
  IN  /\ b.pc = "committing"
      /\ \E cause \in Causes, stored \in BOOLEAN :
           /\ cause = "refused" => ~stored
           /\ table' = IF stored THEN table \cup KeysAt(b, b.open) ELSE table
           /\ Becomes(Fails([IF stored THEN Stored(b) ELSE b EXCEPT
                                  !.failedCommits = @ \cup ({cause} \X b.open)]))

\* CancelledError passes through `except Exception`; what is open is rolled back.
Cancel ==
  /\ bulk.pc \in {"starting", "opening", "executing"}
  /\ Becomes([bulk EXCEPT !.pc = "cancelled", !.open = {}])
  /\ UNCHANGED table

\* Another transaction commits a row of key k.
OthersWrite(k) ==
  /\ k \in Keys \ (table \cup Refused)
  /\ kind = "plain" \/ k \notin KeysAt(bulk, bulk.open)
  /\ table' = table \cup {k}
  /\ UNCHANGED <<kind, bulk>>

Next ==
  \/ Submit \/ Starts \/ StartFails \/ Opens \/ OpenFails
  \/ Executes \/ ExecuteFails \/ Commits \/ CommitFails \/ Cancel
  \/ \E k \in Keys : OthersWrite(k)

Spec == Init /\ [][Next]_vars

-----------------------------------------------------------------------------
(* Properties *)

Rows == DOMAIN bulk.rows

FailedBy(causes) == {p \in Rows : \E cause \in causes : <<cause, p>> \in bulk.failedCommits}

\* Rows whose COMMIT may or may not have been done.
InDoubt == FailedBy({"lost", "cancelled"})

\* An atomic call writes all its rows or none of them: all if it returns, none if it is
\* cancelled or raises, unless the outcome of its COMMIT is open.
AtomicAllOrNothing ==
  bulk.mode = "atomic" /\ bulk.pc \in Ended =>
    LET written == {p \in Rows : bulk.times[p] = 1}
    IN  /\ written \in {{}, Rows}
        /\ bulk.pc = "returned" => written = Rows
        /\ written # {} => bulk.pc = "returned" \/ InDoubt = Rows

\* A call that returns has written every row or reported it as dropped (README.md:275),
\* and no row that is certainly in the table is reported so.
EveryRowAccounted ==
  bulk.pc = "returned" =>
    \A p \in Rows :
      /\ p \in bulk.dropped \/ bulk.times[p] > 0
      /\ p \in bulk.dropped /\ bulk.times[p] > 0 => p \in InDoubt

\* A row is written twice only by split_on_failure, when it repeats the rows of a batch
\* whose COMMIT may have been done.
WrittenTwiceOnlyInDoubt ==
  \A p \in Rows : bulk.times[p] > 1 => bulk.mode = "split_on_failure" /\ p \in InDoubt

\* No row is lost from sight, and none is repeated without a reason to doubt it.
RowsAccounted == TypeOK /\ EveryRowAccounted /\ WrittenTwiceOnlyInDoubt

\* row_count of a call none of whose COMMITs failed is the number of rows it wrote, and
\* with the dropped ones these are all its rows; where an existing row is left out
\* silently, row_count says nothing more exact than that something was executed.
CountedRight ==
  bulk.pc = "returned" /\ kind # "upsert" /\ bulk.failedCommits = {} =>
      /\ bulk.written = Cardinality({p \in Rows : bulk.times[p] > 0})
      /\ bulk.written + Cardinality(bulk.dropped) = Len(bulk.rows)

=============================================================================
