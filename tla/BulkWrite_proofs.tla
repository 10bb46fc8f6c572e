--------------------------- MODULE BulkWrite_proofs ---------------------------
(***************************************************************************)
(* Proofs about BulkWrite, for any rows, keys and size of batches: an      *)
(* atomic call writes all or nothing, every row is accounted for, a row is *)
(* written twice only where a COMMIT was in doubt, and row_count is right. *)
(***************************************************************************)
EXTENDS BulkWrite, FiniteSetTheorems, SequenceTheorems, TLAPS

Running == {"starting", "opening", "executing", "committing"}

\* b is a record of a call.
IsCall(b) ==
  b = [pc |-> b.pc, mode |-> b.mode, keyed |-> b.keyed, rows |-> b.rows, next |-> b.next,
       row |-> b.row, open |-> b.open, written |-> b.written, dropped |-> b.dropped,
       times |-> b.times, failedCommits |-> b.failedCommits]

CallTyped(b) ==
  /\ IsCall(b)
  /\ b.pc \in Ended \cup Running /\ b.mode \in Modes /\ b.keyed \in BOOLEAN
  /\ b.rows \in Inputs \cup {<<>>}
  /\ b.next \in Nat /\ b.next <= Len(b.rows) /\ b.row \in Nat /\ b.written \in Nat
  /\ b.open \subseteq DOMAIN b.rows /\ b.dropped \subseteq DOMAIN b.rows
  /\ b.times \in [DOMAIN b.rows -> Nat]
  /\ b.failedCommits \subseteq Causes \X DOMAIN b.rows

\* The size of the present batch.
Size(b) == IF b.next + BatchRows <= Len(b.rows) THEN BatchRows ELSE Len(b.rows) - b.next

\* Rows up to this one are done with.
Past(b) == IF b.row = 0 THEN b.next ELSE (b.next + b.row) - 1

-----------------------------------------------------------------------------
(* What has become of row p *)

\* A COMMIT of it may have been done.
Doubt(b, p) == \E cause \in {"lost", "cancelled"} : <<cause, p>> \in b.failedCommits

\* Nothing has happened to it.
Untouched(b, p) ==
  p \notin b.dropped /\ b.times[p] = 0 /\ \A cause \in Causes : <<cause, p>> \notin b.failedCommits

\* It belongs to a batch that failed and that is written row by row.
Again(b, p) ==
  p \notin b.dropped /\ b.times[p] <= 1 /\ (b.times[p] = 1 => Doubt(b, p))

\* It is in the table only by a COMMIT in doubt, so it may be dropped.
Droppable(b, p) ==
  /\ b.times[p] <= 2 /\ (b.times[p] > 0 => Doubt(b, p))
  /\ b.times[p] > 1 => b.mode = "split_on_failure"

\* It is done with: written, or dropped and not known to be written.
Settled(b, p) ==
  /\ b.times[p] <= 2 /\ (p \in b.dropped \/ b.times[p] > 0)
  /\ p \in b.dropped /\ b.times[p] > 0 => Doubt(b, p)
  /\ b.times[p] > 1 => b.mode = "split_on_failure" /\ Doubt(b, p)

-----------------------------------------------------------------------------
(* The inductive invariant *)

\* What counted rows are bounded by: all rows past, twice, and those of the present batch,
\* once as a batch and once as rows.
Bound(b) ==
  2 * b.next + (IF b.row = 0 THEN 0 ELSE (Size(b) + b.row) - 1)
    + (IF b.pc # "committing" THEN 0 ELSE IF b.row = 0 THEN Size(b) ELSE 1)

RowsInv(b) ==
  \A p \in DOMAIN b.rows :
    /\ p <= Past(b) => Settled(b, p)
    /\ p > Past(b) => Untouched(b, p) \/ (b.row > 0 /\ p <= b.next + Size(b) /\ Again(b, p))

\* Where a call is that writes batch by batch.
BatchesInv(b) ==
  /\ RowsInv(b)
  /\ b.row > 0 => b.mode = "split_on_failure" /\ b.row <= Size(b)
  /\ b.open = IF b.pc = "committing" THEN Current(b) ELSE {}
  /\ b.pc = "returned" => b.row = 0 /\ b.next = Len(b.rows)
  /\ b.pc = "committing" => b.next < Len(b.rows)
  /\ b.written <= Bound(b)

\* Where a call is that writes all rows in one transaction.
AtomicInv(b) ==
  /\ b.row = 0 /\ b.dropped = {} /\ b.written <= b.next
  /\ b.open = IF b.pc \in {"executing", "committing"} THEN {p \in DOMAIN b.rows : p <= b.next}
                                                      ELSE {}
  /\ b.pc \in {"returned", "committing"} => b.next = Len(b.rows)
  /\ b.pc = "opening" => b.next = 0
  /\ IF b.pc = "returned" THEN \A p \in DOMAIN b.rows : b.times[p] = 1
     ELSE \/ \A p \in DOMAIN b.rows : b.times[p] = 0
          \/ b.pc = "raised" /\ \A p \in DOMAIN b.rows : b.times[p] = 1 /\ Doubt(b, p)

CallInv(b) ==
  /\ b.pc \in Running => b.rows # <<>>
  /\ b.pc = "starting" => b.next = 0 /\ b.row = 0
  /\ b.pc \in {"opening", "executing"} => b.next < Len(b.rows)
  /\ IF b.mode = "atomic" THEN AtomicInv(b) ELSE BatchesInv(b)

\* What is counted is written or about to be, as long as no COMMIT fails.
CountInv(b) ==
  kind # "upsert" /\ b.failedCommits = {} /\ b.pc \notin {"raised", "cancelled"} =>
    b.written = Cardinality({p \in DOMAIN b.rows : b.times[p] > 0}) + Cardinality(b.open)

IInv ==
  /\ kind \in Kinds /\ table \subseteq Keys
  /\ CallTyped(bulk) /\ CallInv(bulk) /\ CountInv(bulk)

(***************************************************************************)
(* Batches                                                                 *)
(***************************************************************************)

LEMMA RowsTyped ==
  ASSUME NEW b, CallTyped(b)
  PROVE  /\ b.rows \in Seq(Keys) /\ Len(b.rows) \in Nat /\ DOMAIN b.rows = 1 .. Len(b.rows)
         /\ b.rows # <<>> => Len(b.rows) > 0
<1>1. b.rows \in Seq(Keys)
  BY BulkAssumption DEF CallTyped
<1> QED
  BY <1>1, LenProperties, EmptySeq

\* A batch is the interval of the rows that come next.
LEMMA BatchIs ==
  ASSUME NEW b, CallTyped(b)
  PROVE  /\ Size(b) \in Nat /\ Size(b) <= BatchRows /\ b.next + Size(b) <= Len(b.rows)
         /\ b.next < Len(b.rows) => Size(b) > 0
         /\ Batch(b) = (b.next + 1) .. (b.next + Size(b))
         /\ IsFiniteSet(Batch(b)) /\ Cardinality(Batch(b)) = Size(b)
<1> DEFINE n == Len(b.rows)
<1>1. n \in Nat /\ DOMAIN b.rows = 1 .. n
  BY RowsTyped
<1>2. b.next \in Nat /\ b.next <= n /\ BatchRows \in Nat \ {0}
  BY BulkAssumption DEF CallTyped
<1>3. Size(b) = IF b.next + BatchRows <= n THEN BatchRows ELSE n - b.next
  BY DEF Size
<1> HIDE DEF n
<1>4. /\ Size(b) \in Nat /\ Size(b) <= BatchRows /\ b.next + Size(b) <= n
      /\ b.next < n => Size(b) > 0
  BY <1>1, <1>2, <1>3
<1>5. Batch(b) = {p \in 1 .. n : b.next < p /\ p <= b.next + BatchRows}
  BY <1>1 DEF Batch
<1>6. Batch(b) = (b.next + 1) .. (b.next + Size(b))
  BY <1>1, <1>2, <1>3, <1>5
<1>7. b.next + 1 \in Int /\ b.next + Size(b) \in Int
  BY <1>2, <1>4
<1>8. /\ IsFiniteSet(Batch(b))
      /\ Cardinality(Batch(b)) = IF b.next + 1 > b.next + Size(b) THEN 0
                                 ELSE ((b.next + Size(b)) - (b.next + 1)) + 1
  BY <1>6, <1>7, FS_Interval
<1>9. Cardinality(Batch(b)) = Size(b)
  BY <1>2, <1>4, <1>8
<1> QED
  BY <1>4, <1>6, <1>8, <1>9 DEF n

\* What a statement writes is not empty, comes after what is past, and is in the batch.
LEMMA CurrentIs ==
  ASSUME NEW b, CallTyped(b), b.next < Len(b.rows), b.row <= Size(b)
  PROVE  /\ Current(b) \subseteq DOMAIN b.rows /\ Current(b) # {}
         /\ IsFiniteSet(Current(b))
         /\ Cardinality(Current(b)) = IF b.row = 0 THEN Size(b) ELSE 1
         /\ \A p \in Current(b) : p > Past(b) /\ p <= b.next + Size(b)
         /\ \A p \in DOMAIN b.rows : p > Past(b) /\ p \notin Current(b) /\ p <= b.next + Size(b) =>
              b.row > 0 /\ p > b.next + b.row
<1>1. /\ Size(b) \in Nat /\ b.next + Size(b) <= Len(b.rows) /\ Size(b) > 0
      /\ Batch(b) = (b.next + 1) .. (b.next + Size(b))
      /\ IsFiniteSet(Batch(b)) /\ Cardinality(Batch(b)) = Size(b)
  BY BatchIs
<1>2. /\ b.next \in Nat /\ b.row \in Nat /\ Len(b.rows) \in Nat
      /\ DOMAIN b.rows = 1 .. Len(b.rows)
  BY RowsTyped DEF CallTyped
<1>3. CASE b.row = 0
  <2>1. Current(b) = (b.next + 1) .. (b.next + Size(b)) /\ Past(b) = b.next
    BY <1>1, <1>3 DEF Current, Past
  <2>2. b.next + 1 \in Current(b)
    BY <1>1, <1>2, <2>1
  <2>3. /\ Current(b) \subseteq DOMAIN b.rows
        /\ \A p \in Current(b) : p > Past(b) /\ p <= b.next + Size(b)
        /\ \A p \in DOMAIN b.rows : p > Past(b) /\ p <= b.next + Size(b) => p \in Current(b)
    BY <1>1, <1>2, <2>1
  <2>4. IsFiniteSet(Current(b)) /\ Cardinality(Current(b)) = Size(b)
    BY <1>1, <2>1
  <2> QED
    BY <1>3, <2>2, <2>3, <2>4
<1>4. CASE b.row # 0
  <2>1. Current(b) = {b.next + b.row} /\ Past(b) = (b.next + b.row) - 1
    BY <1>4 DEF Current, Past
  <2>2. IsFiniteSet(Current(b)) /\ Cardinality(Current(b)) = 1
    BY <2>1, FS_Singleton
  <2>3. b.next + b.row \in DOMAIN b.rows
    BY <1>1, <1>2, <1>4
  <2>4. /\ \A p \in Current(b) : p > Past(b) /\ p <= b.next + Size(b)
        /\ \A p \in DOMAIN b.rows : p > Past(b) /\ p \notin Current(b) => p > b.next + b.row
    BY <1>1, <1>2, <1>4, <2>1
  <2>5. b.row > 0
    BY <1>2, <1>4
  <2> QED
    BY <1>4, <2>1, <2>2, <2>3, <2>4, <2>5
<1> QED
  BY <1>3, <1>4

-----------------------------------------------------------------------------
(* The records the operators on calls return *)

\* c differs from b at most in where it stands.
SameRows(b, c) ==
  /\ c.mode = b.mode /\ c.keyed = b.keyed /\ c.rows = b.rows /\ c.written = b.written
  /\ c.dropped = b.dropped /\ c.times = b.times /\ c.failedCommits = b.failedCommits

\* c stands where the loops go when a scope of b is over.
Moved(b, c) ==
  /\ c.open = {}
  /\ IF b.row > 0 /\ b.row < Size(b)
       THEN c.row = b.row + 1 /\ c.next = b.next /\ c.pc = "opening"
       ELSE /\ c.row = 0 /\ c.next = b.next + Size(b)
            /\ c.pc = IF b.next + Size(b) = Len(b.rows) THEN "returned" ELSE "opening"

LEMMA NextBatchIs ==
  ASSUME NEW b, CallTyped(b)
  PROVE  LET done == b.next + Size(b) IN
         NextBatch(b) =
           [pc |-> IF done = Len(b.rows) THEN "returned" ELSE "opening", mode |-> b.mode,
            keyed |-> b.keyed, rows |-> b.rows, next |-> done, row |-> 0, open |-> {},
            written |-> b.written, dropped |-> b.dropped, times |-> b.times,
            failedCommits |-> b.failedCommits]
<1> DEFINE done == b.next + Size(b)
           to == IF done = Len(b.rows) THEN "returned" ELSE "opening"
<1>0. Cardinality(Batch(b)) = Size(b)
  BY BatchIs
<1>1. NextBatch(b) = [b EXCEPT !.next = done, !.row = 0, !.open = {}, !.pc = to]
  BY <1>0 DEF NextBatch
<1>2. IsCall(b)
  BY DEF CallTyped
<1> HIDE DEF done, to
<1>3. NextBatch(b) =
        [pc |-> to, mode |-> b.mode, keyed |-> b.keyed, rows |-> b.rows, next |-> done,
         row |-> 0, open |-> {}, written |-> b.written, dropped |-> b.dropped,
         times |-> b.times, failedCommits |-> b.failedCommits]
  BY <1>1, <1>2 DEF IsCall
<1> QED
  BY <1>3 DEF done, to

LEMMA NextScopeIs ==
  ASSUME NEW b, CallTyped(b)
  PROVE  /\ IsCall(NextScope(b)) /\ SameRows(b, NextScope(b))
         /\ Moved(b, NextScope(b))
<1> DEFINE n == b.row + 1
<1>1. Size(b) \in Nat /\ Cardinality(Batch(b)) = Size(b) /\ b.row \in Nat
  BY BatchIs DEF CallTyped
<1>2. b.row \in 1 .. Cardinality(Batch(b)) - 1 <=> b.row > 0 /\ b.row < Size(b)
  BY <1>1
<1>3. CASE b.row > 0 /\ b.row < Size(b)
  <2>1. NextScope(b) = [b EXCEPT !.row = n, !.open = {}, !.pc = "opening"]
    BY <1>2, <1>3 DEF NextScope
  <2>2. IsCall(b)
    BY DEF CallTyped
  <2> HIDE DEF n
  <2>3. NextScope(b) =
          [pc |-> "opening", mode |-> b.mode, keyed |-> b.keyed, rows |-> b.rows,
           next |-> b.next, row |-> n, open |-> {}, written |-> b.written,
           dropped |-> b.dropped, times |-> b.times, failedCommits |-> b.failedCommits]
    BY <2>1, <2>2 DEF IsCall
  <2>4. IsCall(NextScope(b)) /\ SameRows(b, NextScope(b))
    BY <2>3 DEF IsCall, SameRows
  <2>5. /\ NextScope(b).open = {} /\ NextScope(b).row = n /\ NextScope(b).next = b.next
        /\ NextScope(b).pc = "opening"
    BY <2>3
  <2> QED
    BY <1>3, <2>4, <2>5 DEF Moved, n
<1>4. CASE ~(b.row > 0 /\ b.row < Size(b))
  <2> DEFINE done == b.next + Size(b)
             to == IF done = Len(b.rows) THEN "returned" ELSE "opening"
  <2>1. NextScope(b) =
          [pc |-> to, mode |-> b.mode, keyed |-> b.keyed, rows |-> b.rows, next |-> done,
           row |-> 0, open |-> {}, written |-> b.written, dropped |-> b.dropped,
           times |-> b.times, failedCommits |-> b.failedCommits]
    BY <1>2, <1>4, NextBatchIs DEF NextScope
  <2> HIDE DEF done, to
  <2>2. IsCall(NextScope(b)) /\ SameRows(b, NextScope(b))
    BY <2>1 DEF IsCall, SameRows
  <2>3. /\ NextScope(b).open = {} /\ NextScope(b).row = 0 /\ NextScope(b).next = done
        /\ NextScope(b).pc = to
    BY <2>1
  <2> QED
    BY <1>4, <2>2, <2>3 DEF Moved, done, to
<1> QED
  BY <1>3, <1>4

LEMMA DroppedIs ==
  ASSUME NEW b, IsCall(b)
  PROVE  Dropped(b) =
           [pc |-> b.pc, mode |-> b.mode, keyed |-> b.keyed, rows |-> b.rows, next |-> b.next,
            row |-> b.row, open |-> b.open, written |-> b.written,
            dropped |-> b.dropped \cup Current(b), times |-> b.times,
            failedCommits |-> b.failedCommits]
<1> DEFINE e == b.dropped \cup Current(b)
<1>1. Dropped(b) = [b EXCEPT !.dropped = e]
  BY DEF Dropped
<1> HIDE DEF e
<1>2. Dropped(b) =
        [pc |-> b.pc, mode |-> b.mode, keyed |-> b.keyed, rows |-> b.rows, next |-> b.next,
         row |-> b.row, open |-> b.open, written |-> b.written, dropped |-> e,
         times |-> b.times, failedCommits |-> b.failedCommits]
  BY <1>1 DEF IsCall
<1> QED
  BY <1>2 DEF e

\* One more COMMIT of the open rows.
Added(b) == [p \in DOMAIN b.times |-> IF p \in b.open THEN b.times[p] + 1 ELSE b.times[p]]

LEMMA StoredIs ==
  ASSUME NEW b, IsCall(b)
  PROVE  Stored(b) =
           [pc |-> b.pc, mode |-> b.mode, keyed |-> b.keyed, rows |-> b.rows, next |-> b.next,
            row |-> b.row, open |-> b.open, written |-> b.written, dropped |-> b.dropped,
            times |-> Added(b), failedCommits |-> b.failedCommits]
<1>1. Stored(b) = [b EXCEPT !.times = Added(b)]
  BY DEF Stored, Added
<1> QED
  BY <1>1 DEF IsCall

\* What Fails returns, by mode.
LEMMA FailsIs ==
  ASSUME NEW b
  PROVE  /\ b.mode = "atomic" => Fails(b) = [b EXCEPT !.pc = "raised", !.open = {}]
         /\ b.mode = "split_on_failure" /\ b.row = 0 =>
              Fails(b) = [b EXCEPT !.row = 1, !.open = {}, !.pc = "opening"]
         /\ b.mode # "atomic" /\ ~(b.mode = "split_on_failure" /\ b.row = 0) =>
              Fails(b) = NextScope(Dropped(b))
  BY DEF Fails

-----------------------------------------------------------------------------
(* The end of a scope *)

\* Where a call is, batch by batch, when what it last tried is over.
Trying(b) ==
  /\ CallTyped(b) /\ b.mode # "atomic" /\ b.next < Len(b.rows)
  /\ b.row > 0 => b.mode = "split_on_failure" /\ b.row <= Size(b)
  /\ \A p \in DOMAIN b.rows :
       /\ p <= Past(b) => Settled(b, p)
       /\ p > Past(b) /\ p \notin Current(b) =>
            Untouched(b, p) \/ (b.row > 0 /\ p <= b.next + Size(b) /\ Again(b, p))
  /\ b.written <= 2 * b.next + (IF b.row = 0 THEN Size(b) ELSE Size(b) + b.row)

\* If the rows of the statement are settled, the call goes on.
LEMMA GoesOn ==
  ASSUME NEW b, Trying(b), \A p \in Current(b) : Settled(b, p)
  PROVE  /\ CallTyped(NextScope(b)) /\ CallInv(NextScope(b))
         /\ SameRows(b, NextScope(b)) /\ NextScope(b).open = {}
<1> DEFINE c == NextScope(b)
<1>1. CallTyped(b) /\ b.next < Len(b.rows) /\ b.mode # "atomic"
  BY DEF Trying
<1>2. /\ Size(b) \in Nat /\ b.next + Size(b) <= Len(b.rows) /\ Size(b) > 0
      /\ Size(b) <= BatchRows
  BY <1>1, BatchIs
<1>3. b.next \in Nat /\ b.row \in Nat /\ b.written \in Nat /\ b.row <= Size(b)
  BY <1>1, <1>2 DEF CallTyped, Trying
<1>4. DOMAIN b.rows = 1 .. Len(b.rows) /\ Len(b.rows) \in Nat
  BY <1>1, RowsTyped
<1>5. IsCall(c) /\ SameRows(b, c) /\ Moved(b, c)
  BY <1>1, NextScopeIs
<1> HIDE DEF c
<1>6. DOMAIN c.rows = DOMAIN b.rows /\ Len(c.rows) = Len(b.rows) /\ c.mode # "atomic"
  BY <1>1, <1>5 DEF SameRows
<1>7. c.next \in Nat /\ c.next <= Len(c.rows) /\ c.row \in Nat
  BY <1>2, <1>3, <1>5, <1>6 DEF Moved
<1>8. c.pc \in {"opening", "returned"} /\ c.open = {}
  BY <1>5 DEF Moved
<1>9. CallTyped(c)
  BY <1>1, <1>5, <1>6, <1>7, <1>8 DEF CallTyped, SameRows, Ended, Running
<1>10. \A p : /\ Settled(b, p) => Settled(c, p)
              /\ Untouched(b, p) => Untouched(c, p)
              /\ Again(b, p) => Again(c, p)
  BY <1>5 DEF SameRows, Settled, Untouched, Again, Doubt
<1>11. b.written = c.written
  BY <1>5 DEF SameRows
<1>12. \A p \in DOMAIN b.rows : p > Past(b) /\ p \notin Current(b) /\ p <= b.next + Size(b) =>
          b.row > 0 /\ p > b.next + b.row
  BY <1>1, <1>3, CurrentIs
<1>13. \A p \in Current(b) : p <= b.next + Size(b)
  BY <1>1, <1>3, CurrentIs
<1>14. Past(b) \in Int /\ Past(b) <= b.next + Size(b)
  BY <1>2, <1>3 DEF Past
<1>15. CASE b.row > 0 /\ b.row < Size(b)
  <2>1. c.row = b.row + 1 /\ c.next = b.next /\ c.pc = "opening"
    BY <1>5, <1>15 DEF Moved
  <2>2. Size(c) = Size(b)
    BY <1>6, <2>1 DEF Size
  <2>3. Past(c) = b.next + b.row
    BY <1>3, <2>1 DEF Past
  <2>4. Past(b) = (b.next + b.row) - 1 /\ Current(b) = {b.next + b.row}
    BY <1>3, <1>15 DEF Past, Current
  <2>5. ASSUME NEW p \in DOMAIN c.rows
        PROVE  /\ p <= Past(c) => Settled(c, p)
               /\ p > Past(c) =>
                    Untouched(c, p) \/ (c.row > 0 /\ p <= c.next + Size(c) /\ Again(c, p))
    <3>1. p \in DOMAIN b.rows /\ p \in Nat
      BY <1>4, <1>6
    <3>2. CASE p <= Past(c)
      <4>1. p <= Past(b) \/ p \in Current(b)
        BY <1>3, <2>3, <2>4, <3>1, <3>2
      <4>2. ~(p > Past(c))
        BY <1>3, <2>3, <3>1, <3>2
      <4> QED
        BY <1>10, <3>1, <4>1, <4>2 DEF Trying
    <3>3. CASE p > Past(c)
      <4>1. p > Past(b) /\ p \notin Current(b) /\ ~(p <= Past(c))
        BY <1>3, <2>3, <2>4, <3>1, <3>3
      <4>2. Untouched(b, p) \/ (p <= b.next + Size(b) /\ Again(b, p))
        BY <3>1, <4>1 DEF Trying
      <4>3. c.row > 0
        BY <1>3, <2>1
      <4> QED
        BY <1>10, <2>1, <2>2, <4>1, <4>2, <4>3
    <3> QED
      BY <1>3, <2>3, <3>1, <3>2, <3>3
  <2>6. RowsInv(c)
    BY <2>5 DEF RowsInv
  <2>7. b.written <= 2 * b.next + (Size(b) + b.row)
    BY <1>15 DEF Trying
  <2>8. Bound(c) = 2 * b.next + ((Size(b) + (b.row + 1)) - 1)
    BY <1>2, <1>3, <2>1, <2>2 DEF Bound
  <2>9. c.written <= Bound(c)
    BY <1>2, <1>3, <1>11, <2>7, <2>8
  <2>10. c.mode = "split_on_failure" /\ c.row <= Size(c)
    BY <1>2, <1>3, <1>5, <1>15, <2>1, <2>2 DEF Trying, SameRows
  <2>11. BatchesInv(c)
    BY <1>8, <2>1, <2>6, <2>9, <2>10 DEF BatchesInv
  <2>12. c.rows # <<>>
    BY <1>1, <1>4, <1>6, <1>9, EmptySeq, <1>2, <1>3
  <2> QED
    BY <1>1, <1>5, <1>6, <1>9, <2>1, <2>11, <2>12, <1>8 DEF CallInv, c
<1>16. CASE ~(b.row > 0 /\ b.row < Size(b))
  <2>1. /\ c.row = 0 /\ c.next = b.next + Size(b)
        /\ c.pc = IF b.next + Size(b) = Len(b.rows) THEN "returned" ELSE "opening"
    BY <1>5, <1>16 DEF Moved
  <2>2. Past(c) = b.next + Size(b)
    BY <2>1 DEF Past
  <2>3. ASSUME NEW p \in DOMAIN c.rows
        PROVE  /\ p <= Past(c) => Settled(c, p)
               /\ p > Past(c) =>
                    Untouched(c, p) \/ (c.row > 0 /\ p <= c.next + Size(c) /\ Again(c, p))
    <3>1. p \in DOMAIN b.rows /\ p \in Nat
      BY <1>4, <1>6
    <3>2. CASE p <= Past(c)
      <4>1. p <= Past(b) \/ p \in Current(b)
        <5>1. SUFFICES ASSUME p > Past(b), p \notin Current(b)
                       PROVE  FALSE
          BY <1>14, <3>1
        <5>2. b.row > 0 /\ p > b.next + b.row /\ p <= b.next + Size(b)
          BY <1>12, <2>2, <3>1, <3>2, <5>1
        <5> QED
          BY <1>2, <1>3, <1>16, <3>1, <5>2
      <4>2. ~(p > Past(c))
        BY <1>2, <1>3, <2>2, <3>1, <3>2
      <4> QED
        BY <1>10, <3>1, <4>1, <4>2 DEF Trying
    <3>3. CASE p > Past(c)
      <4>1. p > Past(b) /\ p \notin Current(b) /\ ~(p <= Past(c)) /\ ~(p <= b.next + Size(b))
        BY <1>2, <1>3, <1>13, <1>14, <2>2, <3>1, <3>3
      <4>2. Untouched(b, p)
        BY <3>1, <4>1 DEF Trying
      <4> QED
        BY <1>10, <4>1, <4>2
    <3> QED
      BY <1>2, <1>3, <2>2, <3>1, <3>2, <3>3
  <2>4. RowsInv(c)
    BY <2>3 DEF RowsInv
  <2>5. b.written <= 2 * b.next + (IF b.row = 0 THEN Size(b) ELSE Size(b) + b.row)
    BY DEF Trying
  <2>6. Bound(c) = 2 * (b.next + Size(b))
    BY <1>2, <1>3, <2>1 DEF Bound
  <2>7. c.written <= Bound(c)
    BY <1>2, <1>3, <1>11, <2>5, <2>6
  <2>8. /\ ~(c.row > 0) /\ c.pc # "committing"
        /\ c.pc = "returned" => c.next = Len(c.rows)
        /\ c.pc = "opening" => c.next < Len(c.rows)
    BY <1>2, <1>3, <1>4, <1>6, <2>1
  <2>9. BatchesInv(c)
    BY <1>8, <2>1, <2>4, <2>7, <2>8 DEF BatchesInv
  <2>10. c.rows # <<>>
    BY <1>1, <1>4, <1>6, <1>9, EmptySeq, <1>2, <1>3
  <2> QED
    BY <1>1, <1>5, <1>6, <1>9, <2>8, <2>9, <2>10, <1>8 DEF CallInv, c
<1> QED
  BY <1>15, <1>16

\* The bound on what is counted is a number.
LEMMA BoundIsNumber ==
  ASSUME NEW b, b.next \in Nat, b.row \in Nat, Size(b) \in Nat
  PROVE  Bound(b) \in Int
<1> DEFINE part == IF b.row = 0 THEN 0 ELSE (Size(b) + b.row) - 1
           more == IF b.pc # "committing" THEN 0 ELSE IF b.row = 0 THEN Size(b) ELSE 1
<1>1. part \in Int
  OBVIOUS
<1>2. more \in Int
  OBVIOUS
<1>3. Bound(b) = (2 * b.next + part) + more
  BY DEF Bound
<1> HIDE DEF part, more
<1> QED
  BY <1>1, <1>2, <1>3

\* A call that is about to write, or has just written, tries the rows that come next.
LEMMA Tries ==
  ASSUME NEW b, CallTyped(b), CallInv(b), b.mode # "atomic",
         b.pc \in {"opening", "executing", "committing"}
  PROVE  /\ Trying(b)
         /\ \A p \in Current(b) : Untouched(b, p) \/ (b.row > 0 /\ Again(b, p))
<1>1. BatchesInv(b) /\ b.next < Len(b.rows)
  BY DEF CallInv, BatchesInv
<1>2. /\ Size(b) \in Nat /\ b.next \in Nat /\ b.row \in Nat /\ b.written \in Nat
      /\ b.row <= Size(b)
  BY <1>1, BatchIs DEF CallTyped, BatchesInv
<1>3. Bound(b) <= 2 * b.next + (IF b.row = 0 THEN Size(b) ELSE Size(b) + b.row)
  BY <1>2 DEF Bound
<1>4. Bound(b) \in Int
  BY <1>2, BoundIsNumber
<1>5. b.written <= 2 * b.next + (IF b.row = 0 THEN Size(b) ELSE Size(b) + b.row)
  BY <1>1, <1>2, <1>3, <1>4 DEF BatchesInv
<1>6. Trying(b)
  BY <1>1, <1>5 DEF Trying, BatchesInv, RowsInv
<1>7. \A p \in Current(b) : p \in DOMAIN b.rows /\ p > Past(b)
  BY <1>1, <1>2, CurrentIs
<1> QED
  BY <1>1, <1>6, <1>7 DEF BatchesInv, RowsInv

\* c differs from b at most in where it stands and in the rows that are dropped.
SameWritten(b, c) ==
  /\ c.mode = b.mode /\ c.rows = b.rows /\ c.written = b.written
  /\ c.times = b.times /\ c.failedCommits = b.failedCommits

\* If the rows of the statement may be dropped, and may be tried again where a batch is
\* split, the call goes on.
LEMMA FailsOn ==
  ASSUME NEW b, Trying(b),
         \A p \in Current(b) : Droppable(b, p) /\ (b.row = 0 => Untouched(b, p) \/ Again(b, p))
  PROVE  /\ CallTyped(Fails(b)) /\ CallInv(Fails(b))
         /\ SameWritten(b, Fails(b)) /\ Fails(b).open = {}
<1>1. CallTyped(b) /\ b.next < Len(b.rows) /\ b.mode # "atomic" /\ IsCall(b)
  BY DEF Trying, CallTyped
<1>2. /\ Size(b) \in Nat /\ Size(b) > 0
  BY <1>1, BatchIs
<1>3. b.next \in Nat /\ b.row \in Nat /\ b.written \in Nat /\ b.row <= Size(b)
  BY <1>1, <1>2 DEF CallTyped, Trying
<1>4. DOMAIN b.rows = 1 .. Len(b.rows) /\ Len(b.rows) \in Nat
  BY <1>1, RowsTyped
<1>5. Past(b) \in Int
  BY <1>3 DEF Past
<1>6. /\ Current(b) \subseteq DOMAIN b.rows
      /\ \A p \in Current(b) : p > Past(b) /\ p <= b.next + Size(b)
  BY <1>1, <1>3, CurrentIs
<1>7. \A p \in DOMAIN b.rows : p > Past(b) /\ p \notin Current(b) /\ p <= b.next + Size(b) =>
         b.row > 0 /\ p > b.next + b.row
  BY <1>1, <1>3, CurrentIs
<1>8. CASE b.mode = "split_on_failure" /\ b.row = 0
  <2> DEFINE c == Fails(b)
  <2>0. c = [b EXCEPT !.row = 1, !.open = {}, !.pc = "opening"]
    BY <1>8, FailsIs
  <2>1. c = [pc |-> "opening", mode |-> b.mode, keyed |-> b.keyed, rows |-> b.rows,
             next |-> b.next, row |-> 1, open |-> {}, written |-> b.written,
             dropped |-> b.dropped, times |-> b.times, failedCommits |-> b.failedCommits]
    BY <1>1, <2>0 DEF IsCall
  <2>2. /\ IsCall(c) /\ SameRows(b, c) /\ c.row = 1 /\ c.open = {} /\ c.next = b.next
        /\ c.pc = "opening"
    BY <2>1 DEF IsCall, SameRows
  <2> HIDE DEF c
  <2>3. CallTyped(c)
    BY <1>1, <2>2 DEF CallTyped, SameRows, Ended, Running
  <2>4. Size(c) = Size(b) /\ Past(c) = b.next /\ Past(b) = b.next
    BY <1>3, <1>8, <2>2 DEF Size, Past, SameRows
  <2>5. ASSUME NEW p \in DOMAIN c.rows
        PROVE  /\ p <= Past(c) => Settled(c, p)
               /\ p > Past(c) =>
                    Untouched(c, p) \/ (c.row > 0 /\ p <= c.next + Size(c) /\ Again(c, p))
    <3>1. p \in DOMAIN b.rows /\ p \in Nat
      BY <1>4, <2>2 DEF SameRows
    <3>2. p <= Past(b) => Settled(b, p)
      BY <3>1 DEF Trying
    <3>3. p > Past(b) => Untouched(b, p) \/ (p \in Current(b) /\ Again(b, p))
      BY <1>3, <1>8, <3>1 DEF Trying
    <3>4. p \in Current(b) => p <= b.next + Size(b)
      BY <1>6
    <3>5. /\ Settled(b, p) => Settled(c, p)
          /\ Untouched(b, p) => Untouched(c, p)
          /\ Again(b, p) => Again(c, p)
      BY <2>2 DEF SameRows, Settled, Untouched, Again, Doubt
    <3>6. c.row > 0
      BY <2>2
    <3> QED
      BY <2>2, <2>4, <3>2, <3>3, <3>4, <3>5, <3>6
  <2>6. RowsInv(c)
    BY <2>5 DEF RowsInv
  <2>7. c.row <= Size(c) /\ c.mode = "split_on_failure"
    BY <1>2, <1>8, <2>2, <2>4 DEF SameRows
  <2>8. b.written <= 2 * b.next + Size(b)
    BY <1>8 DEF Trying
  <2>9. Bound(c) = 2 * b.next + ((Size(b) + 1) - 1) + 0
    BY <2>2, <2>4 DEF Bound
  <2>10. c.written <= Bound(c)
    BY <1>2, <1>3, <2>2, <2>8, <2>9 DEF SameRows
  <2>11. BatchesInv(c)
    BY <2>2, <2>6, <2>7, <2>10 DEF BatchesInv
  <2>12. c.rows # <<>> /\ c.next < Len(c.rows) /\ c.mode # "atomic"
    BY <1>1, <1>3, <2>2, <2>3, RowsTyped, EmptySeq DEF SameRows
  <2> QED
    BY <2>2, <2>3, <2>11, <2>12 DEF CallInv, SameRows, SameWritten, c
<1>9. CASE ~(b.mode = "split_on_failure" /\ b.row = 0)
  <2> DEFINE c == Dropped(b)
  <2>1. Fails(b) = NextScope(c)
    BY <1>1, <1>9, FailsIs
  <2>2. /\ IsCall(c) /\ c.pc = b.pc /\ c.mode = b.mode /\ c.keyed = b.keyed
        /\ c.rows = b.rows /\ c.next = b.next /\ c.row = b.row /\ c.open = b.open
        /\ c.written = b.written /\ c.dropped = b.dropped \cup Current(b)
        /\ c.times = b.times /\ c.failedCommits = b.failedCommits
    BY <1>1, DroppedIs DEF IsCall
  <2> HIDE DEF c
  <2>3. CallTyped(c)
    BY <1>1, <1>6, <2>2 DEF CallTyped
  <2>4. Size(c) = Size(b) /\ Past(c) = Past(b) /\ Current(c) = Current(b)
    BY <2>2 DEF Size, Past, Current, Batch
  <2>5. \A p : /\ p \notin Current(b) /\ Settled(b, p) => Settled(c, p)
               /\ p \in Current(b) /\ Droppable(b, p) => Settled(c, p)
               /\ p \notin Current(b) /\ Untouched(b, p) => Untouched(c, p)
               /\ p \notin Current(b) /\ Again(b, p) => Again(c, p)
    <3> TAKE p
    <3>1. p \notin Current(b) => (p \in c.dropped <=> p \in b.dropped)
      BY <2>2
    <3>2. p \in Current(b) => p \in c.dropped
      BY <2>2
    <3>3. Doubt(c, p) <=> Doubt(b, p)
      BY <2>2 DEF Doubt
    <3>4. p \notin Current(b) /\ Settled(b, p) => Settled(c, p)
      BY <2>2, <3>1, <3>3 DEF Settled
    <3>5. ASSUME p \in Current(b), Droppable(b, p) PROVE Settled(c, p)
      <4>1. b.times[p] > 1 => b.times[p] > 0
        BY <1>1, <1>6, <3>5 DEF CallTyped
      <4> QED
        BY <2>2, <3>2, <3>3, <3>5, <4>1 DEF Settled, Droppable
    <3>6. p \notin Current(b) /\ Untouched(b, p) => Untouched(c, p)
      BY <2>2, <3>1 DEF Untouched
    <3>7. p \notin Current(b) /\ Again(b, p) => Again(c, p)
      BY <2>2, <3>1, <3>3 DEF Again
    <3> QED
      BY <3>4, <3>5, <3>6, <3>7
  <2>6. ASSUME NEW p \in DOMAIN c.rows
        PROVE  /\ p <= Past(c) => Settled(c, p)
               /\ p > Past(c) /\ p \notin Current(c) =>
                    Untouched(c, p) \/ (c.row > 0 /\ p <= c.next + Size(c) /\ Again(c, p))
    <3>1. p \in DOMAIN b.rows /\ p \in Nat
      BY <1>4, <2>2
    <3>2. p <= Past(b) => p \notin Current(b)
      BY <1>5, <1>6, <3>1
    <3> QED
      BY <2>2, <2>4, <2>5, <3>1, <3>2 DEF Trying
  <2>7. Trying(c)
    BY <2>2, <2>3, <2>4, <2>6 DEF Trying
  <2>8. \A p \in Current(c) : Settled(c, p)
    BY <2>4, <2>5
  <2>9. /\ CallTyped(NextScope(c)) /\ CallInv(NextScope(c))
        /\ SameRows(c, NextScope(c)) /\ NextScope(c).open = {}
    BY <2>7, <2>8, GoesOn
  <2> QED
    BY <2>1, <2>2, <2>9 DEF SameRows, SameWritten
<1> QED
  BY <1>8, <1>9

-----------------------------------------------------------------------------
(* COMMIT *)

\* The call after a COMMIT that failed by `cause`, done or not.
Failed(b, cause, stored) ==
  [IF stored THEN Stored(b) ELSE b EXCEPT !.failedCommits = @ \cup ({cause} \X b.open)]

LEMMA FailedIs ==
  ASSUME NEW b, CallTyped(b), NEW cause \in Causes, NEW stored \in BOOLEAN
  PROVE  Failed(b, cause, stored) =
           [pc |-> b.pc, mode |-> b.mode, keyed |-> b.keyed, rows |-> b.rows, next |-> b.next,
            row |-> b.row, open |-> b.open, written |-> b.written, dropped |-> b.dropped,
            times |-> IF stored THEN Added(b) ELSE b.times,
            failedCommits |-> b.failedCommits \cup ({cause} \X b.open)]
<1> DEFINE f == b.failedCommits \cup ({cause} \X b.open)
<1>1. IsCall(b)
  BY DEF CallTyped
<1>2. CASE stored
  <2> DEFINE c == Stored(b)
  <2>1. c = [pc |-> b.pc, mode |-> b.mode, keyed |-> b.keyed, rows |-> b.rows,
             next |-> b.next, row |-> b.row, open |-> b.open, written |-> b.written,
             dropped |-> b.dropped, times |-> Added(b), failedCommits |-> b.failedCommits]
    BY <1>1, StoredIs
  <2> HIDE DEF c
  <2>2. c.failedCommits \cup ({cause} \X b.open) = f
    BY <2>1
  <2>3. Failed(b, cause, stored) = [c EXCEPT !.failedCommits = f]
    BY <1>2, <2>2 DEF Failed, c
  <2> HIDE DEF f
  <2>4. Failed(b, cause, stored) =
          [pc |-> b.pc, mode |-> b.mode, keyed |-> b.keyed, rows |-> b.rows, next |-> b.next,
           row |-> b.row, open |-> b.open, written |-> b.written, dropped |-> b.dropped,
           times |-> Added(b), failedCommits |-> f]
    BY <2>1, <2>3
  <2> QED
    BY <1>2, <2>4 DEF f
<1>3. CASE ~stored
  <2>1. Failed(b, cause, stored) = [b EXCEPT !.failedCommits = f]
    BY <1>3 DEF Failed
  <2> HIDE DEF f
  <2>2. Failed(b, cause, stored) =
          [pc |-> b.pc, mode |-> b.mode, keyed |-> b.keyed, rows |-> b.rows, next |-> b.next,
           row |-> b.row, open |-> b.open, written |-> b.written, dropped |-> b.dropped,
           times |-> b.times, failedCommits |-> f]
    BY <1>1, <2>1 DEF IsCall
  <2> QED
    BY <1>3, <2>2 DEF f
<1> QED
  BY <1>2, <1>3

LEMMA AddedIs ==
  ASSUME NEW b, CallTyped(b)
  PROVE  /\ Added(b) \in [DOMAIN b.rows -> Nat]
         /\ \A p \in DOMAIN b.rows :
              Added(b)[p] = IF p \in b.open THEN b.times[p] + 1 ELSE b.times[p]
<1>1. b.times \in [DOMAIN b.rows -> Nat]
  BY DEF CallTyped
<1>2. Added(b) = [p \in DOMAIN b.rows |-> IF p \in b.open THEN b.times[p] + 1 ELSE b.times[p]]
  BY <1>1 DEF Added
<1> QED
  BY <1>1, <1>2

LEMMA StoredTyped ==
  ASSUME NEW b, CallTyped(b)
  PROVE  CallTyped(Stored(b))
<1>1. IsCall(b)
  BY DEF CallTyped
<1>2. Stored(b) =
        [pc |-> b.pc, mode |-> b.mode, keyed |-> b.keyed, rows |-> b.rows, next |-> b.next,
         row |-> b.row, open |-> b.open, written |-> b.written, dropped |-> b.dropped,
         times |-> Added(b), failedCommits |-> b.failedCommits]
  BY <1>1, StoredIs
<1>3. Added(b) \in [DOMAIN b.rows -> Nat]
  BY AddedIs
<1>4. IsCall(Stored(b))
  BY <1>2 DEF IsCall
<1> QED
  BY <1>2, <1>3, <1>4 DEF CallTyped

LEMMA FailedTyped ==
  ASSUME NEW b, CallTyped(b), NEW cause \in Causes, NEW stored \in BOOLEAN
  PROVE  CallTyped(Failed(b, cause, stored))
<1> DEFINE c == Failed(b, cause, stored)
           f == b.failedCommits \cup ({cause} \X b.open)
           t == IF stored THEN Added(b) ELSE b.times
<1>1. c = [pc |-> b.pc, mode |-> b.mode, keyed |-> b.keyed, rows |-> b.rows, next |-> b.next,
           row |-> b.row, open |-> b.open, written |-> b.written, dropped |-> b.dropped,
           times |-> t, failedCommits |-> f]
  BY FailedIs
<1>2. t \in [DOMAIN b.rows -> Nat]
  BY AddedIs DEF CallTyped
<1>3. f \subseteq Causes \X DOMAIN b.rows
  BY DEF CallTyped
<1> HIDE DEF c, f, t
<1>4. IsCall(c)
  BY <1>1 DEF IsCall
<1>5. CallTyped(c)
  BY <1>1, <1>2, <1>3, <1>4 DEF CallTyped
<1> QED
  BY <1>5 DEF c

\* A COMMIT of a batch or a row leaves a call that tries, with its rows settled.
LEMMA CommitTries ==
  ASSUME NEW b, CallTyped(b), CallInv(b), b.mode # "atomic", b.pc = "committing"
  PROVE  Trying(Stored(b)) /\ \A p \in Current(Stored(b)) : Settled(Stored(b), p)
<1> DEFINE c == Stored(b)
<1>1. IsCall(b)
  BY DEF CallTyped
<1>2. /\ c.pc = b.pc /\ c.mode = b.mode /\ c.rows = b.rows /\ c.next = b.next
      /\ c.row = b.row /\ c.written = b.written /\ c.dropped = b.dropped
      /\ c.times = Added(b) /\ c.failedCommits = b.failedCommits
  BY <1>1, StoredIs
<1>3. CallTyped(c)
  BY StoredTyped
<1> HIDE DEF c
<1>4. /\ Trying(b) /\ b.open = Current(b) /\ b.open \subseteq DOMAIN b.rows
      /\ \A p \in Current(b) : Untouched(b, p) \/ (b.row > 0 /\ Again(b, p))
  BY Tries DEF CallInv, BatchesInv, CallTyped
<1>5. Size(c) = Size(b) /\ Past(c) = Past(b) /\ Current(c) = Current(b)
  BY <1>2 DEF Size, Past, Current, Batch
<1>6. \A p \in DOMAIN b.rows :
         c.times[p] = IF p \in Current(b) THEN b.times[p] + 1 ELSE b.times[p]
  BY <1>2, <1>4, AddedIs
<1>7. \A p : Doubt(c, p) <=> Doubt(b, p)
  BY <1>2 DEF Doubt
<1>8. \A p \in DOMAIN b.rows \ Current(b) :
         /\ Settled(b, p) => Settled(c, p)
         /\ Untouched(b, p) => Untouched(c, p)
         /\ Again(b, p) => Again(c, p)
  BY <1>2, <1>6, <1>7 DEF Settled, Untouched, Again
<1>9. ASSUME NEW p \in Current(b) PROVE Settled(c, p)
  <2>1. p \in DOMAIN b.rows /\ b.times[p] \in Nat
    BY <1>4 DEF CallTyped
  <2>2. c.times[p] = b.times[p] + 1
    BY <1>6, <2>1
  <2>3. CASE Untouched(b, p)
    BY <1>2, <2>1, <2>2, <2>3 DEF Untouched, Settled
  <2>4. CASE b.row > 0 /\ Again(b, p)
    <3>1. p \notin c.dropped /\ c.mode = "split_on_failure"
      BY <1>2, <1>4, <2>4 DEF Again, Trying
    <3>2. b.times[p] <= 1 /\ (b.times[p] = 1 => Doubt(c, p))
      BY <1>7, <2>4 DEF Again
    <3>3. c.times[p] <= 2 /\ c.times[p] > 0 /\ (c.times[p] > 1 => Doubt(c, p))
      BY <2>1, <2>2, <3>2
    <3> QED
      BY <3>1, <3>3 DEF Settled
  <2> QED
    BY <1>4, <2>3, <2>4
<1>10. ASSUME NEW p \in DOMAIN c.rows
       PROVE  /\ p <= Past(c) => Settled(c, p)
              /\ p > Past(c) /\ p \notin Current(c) =>
                   Untouched(c, p) \/ (c.row > 0 /\ p <= c.next + Size(c) /\ Again(c, p))
  BY <1>2, <1>4, <1>5, <1>8, <1>9 DEF Trying
<1>11. Trying(c)
  BY <1>2, <1>3, <1>4, <1>5, <1>10 DEF Trying
<1> QED
  BY <1>5, <1>9, <1>11 DEF c

\* A COMMIT of a batch or a row that fails leaves a call that tries, with rows that may be
\* dropped or tried again.
LEMMA FailedTries ==
  ASSUME NEW b, CallTyped(b), CallInv(b), b.mode # "atomic", b.pc = "committing",
         NEW cause \in Causes, NEW stored \in BOOLEAN, cause = "refused" => ~stored
  PROVE  LET c == Failed(b, cause, stored) IN
         /\ Trying(c)
         /\ \A p \in Current(c) :
              Droppable(c, p) /\ (c.row = 0 => Untouched(c, p) \/ Again(c, p))
<1> DEFINE c == Failed(b, cause, stored)
<1>2. /\ c.pc = b.pc /\ c.mode = b.mode /\ c.rows = b.rows /\ c.next = b.next
      /\ c.row = b.row /\ c.written = b.written /\ c.dropped = b.dropped
      /\ c.times = (IF stored THEN Added(b) ELSE b.times)
      /\ c.failedCommits = b.failedCommits \cup ({cause} \X b.open)
  BY FailedIs
<1>3. CallTyped(c)
  BY FailedTyped
<1> HIDE DEF c
<1>4. /\ Trying(b) /\ b.open = Current(b) /\ b.open \subseteq DOMAIN b.rows
      /\ \A p \in Current(b) : Untouched(b, p) \/ (b.row > 0 /\ Again(b, p))
  BY Tries DEF CallInv, BatchesInv, CallTyped
<1>5. Size(c) = Size(b) /\ Past(c) = Past(b) /\ Current(c) = Current(b)
  BY <1>2 DEF Size, Past, Current, Batch
<1>6. \A p \in DOMAIN b.rows :
         c.times[p] = IF stored /\ p \in Current(b) THEN b.times[p] + 1 ELSE b.times[p]
  BY <1>2, <1>4, AddedIs
<1>7. \A p : Doubt(b, p) => Doubt(c, p)
  BY <1>2 DEF Doubt
<1>8. \A p \in DOMAIN b.rows \ Current(b) :
         /\ Settled(b, p) => Settled(c, p)
         /\ Untouched(b, p) => Untouched(c, p)
         /\ Again(b, p) => Again(c, p)
  <2> TAKE p \in DOMAIN b.rows \ Current(b)
  <2>1. c.times[p] = b.times[p]
    BY <1>6
  <2>2. \A x : <<x, p>> \in c.failedCommits <=> <<x, p>> \in b.failedCommits
    BY <1>2, <1>4
  <2> QED
    BY <1>2, <1>7, <2>1, <2>2 DEF Settled, Untouched, Again
<1>9. ASSUME NEW p \in Current(b)
      PROVE  Droppable(c, p) /\ (c.row = 0 => Again(c, p))
  <2>1. p \in DOMAIN b.rows /\ b.times[p] \in Nat
    BY <1>4 DEF CallTyped
  <2>2. c.times[p] = IF stored THEN b.times[p] + 1 ELSE b.times[p]
    BY <1>6, <2>1
  <2>3. ASSUME stored PROVE Doubt(c, p)
    <3>1. cause \in {"lost", "cancelled"}
      BY <2>3 DEF Causes
    <3>2. <<cause, p>> \in c.failedCommits
      BY <1>2, <1>4
    <3> QED
      BY <3>1, <3>2 DEF Doubt
  <2>4. CASE Untouched(b, p)
    <3>1. p \notin c.dropped /\ c.times[p] <= 1 /\ (c.times[p] > 0 => stored)
      BY <1>2, <2>2, <2>4 DEF Untouched
    <3>2. c.times[p] \in Nat
      BY <2>1, <2>2
    <3>3. c.times[p] <= 2 /\ ~(c.times[p] > 1) /\ (c.times[p] = 1 => c.times[p] > 0)
      BY <3>1, <3>2
    <3> QED
      BY <2>3, <3>1, <3>3 DEF Droppable, Again
  <2>5. CASE b.row > 0 /\ Again(b, p)
    <3>1. c.mode = "split_on_failure" /\ c.row # 0
      BY <1>2, <1>4, <2>5 DEF Trying
    <3>2. b.times[p] <= 1 /\ (b.times[p] = 1 => Doubt(c, p))
      BY <1>7, <2>5 DEF Again
    <3>3. c.times[p] <= 2 /\ (c.times[p] > 0 => Doubt(c, p))
      BY <2>1, <2>2, <2>3, <3>2
    <3> QED
      BY <3>1, <3>3 DEF Droppable
  <2> QED
    BY <1>4, <2>4, <2>5
<1>10. ASSUME NEW p \in DOMAIN c.rows
       PROVE  /\ p <= Past(c) => Settled(c, p)
              /\ p > Past(c) /\ p \notin Current(c) =>
                   Untouched(c, p) \/ (c.row > 0 /\ p <= c.next + Size(c) /\ Again(c, p))
  <2>1. p \in DOMAIN b.rows
    BY <1>2
  <2>2. p <= Past(b) => p \notin Current(b)
    <3>1. b.next < Len(b.rows) /\ b.row <= Size(b) /\ b.row \in Nat /\ b.next \in Nat
      BY <1>4, BatchIs DEF Trying, CallTyped
    <3>2. \A q \in Current(b) : q > Past(b)
      BY <3>1, CurrentIs
    <3>3. p \in Int /\ Past(b) \in Int
      BY <2>1, <3>1, RowsTyped DEF Past
    <3> QED
      BY <3>2, <3>3
  <2> QED
    BY <1>2, <1>4, <1>5, <1>8, <2>1, <2>2 DEF Trying
<1>11. Trying(c)
  BY <1>2, <1>3, <1>4, <1>5, <1>10 DEF Trying
<1>12. /\ Trying(c)
       /\ \A p \in Current(c) :
            Droppable(c, p) /\ (c.row = 0 => Untouched(c, p) \/ Again(c, p))
  BY <1>5, <1>9, <1>11
<1> QED
  BY <1>12 DEF c

-----------------------------------------------------------------------------
(* Counting *)

\* Disjoint finite sets add up.
LEMMA AddsUp ==
  ASSUME NEW S, NEW T, IsFiniteSet(S), IsFiniteSet(T), S \cap T = {}
  PROVE  /\ IsFiniteSet(S \cup T)
         /\ Cardinality(S \cup T) = Cardinality(S) + Cardinality(T)
<1>1. /\ IsFiniteSet(S \cup T)
      /\ Cardinality(S \cup T) = Cardinality(S) + Cardinality(T) - Cardinality(S \cap T)
  BY FS_Union
<1>2. Cardinality(S \cap T) = 0
  BY FS_EmptySet
<1>3. Cardinality(S) \in Nat /\ Cardinality(T) \in Nat
  BY FS_CardinalityType
<1> QED
  BY <1>1, <1>2, <1>3

\* The rows that were committed.
Done(b) == {p \in DOMAIN b.rows : b.times[p] > 0}

LEMMA RowsFinite ==
  ASSUME NEW b, CallTyped(b)
  PROVE  /\ \A S \in SUBSET DOMAIN b.rows : IsFiniteSet(S) /\ Cardinality(S) \in Nat
         /\ Cardinality(DOMAIN b.rows) = Len(b.rows)
<1>1. DOMAIN b.rows = 1 .. Len(b.rows) /\ Len(b.rows) \in Nat
  BY RowsTyped
<1>2. /\ IsFiniteSet(1 .. Len(b.rows))
      /\ Cardinality(1 .. Len(b.rows)) = IF 1 > Len(b.rows) THEN 0 ELSE (Len(b.rows) - 1) + 1
  BY <1>1, FS_Interval
<1>3. Cardinality(1 .. Len(b.rows)) = Len(b.rows)
  BY <1>1, <1>2
<1>4. \A S \in SUBSET (1 .. Len(b.rows)) : IsFiniteSet(S) /\ Cardinality(S) \in Nat
  BY <1>2, FS_Subset, FS_CardinalityType
<1> QED
  BY <1>1, <1>3, <1>4

\* What a statement counts: at most its rows, and unless rows are left out all of them.
LEMMA CountedIs ==
  ASSUME NEW b, CallTyped(b), b.next < Len(b.rows), b.row <= Size(b), NEW n \in Counted(b)
  PROVE  /\ n \in Nat /\ n <= (IF b.row = 0 THEN Size(b) ELSE 1)
         /\ kind # "upsert" => n = Cardinality(Current(b))
<1> DEFINE new == KeysAt(b, Current(b)) \ Present(b)
<1>1. /\ IsFiniteSet(Current(b)) /\ Current(b) \subseteq DOMAIN b.rows
      /\ Cardinality(Current(b)) = IF b.row = 0 THEN Size(b) ELSE 1
  BY CurrentIs
<1>2. Size(b) \in Nat
  BY BatchIs
<1>3. IsFiniteSet(new) /\ Cardinality(new) \in Nat /\ Cardinality(new) <= Cardinality(Current(b))
  <2> DEFINE f == [p \in Current(b) |-> b.rows[p]]
  <2>1. f \in Surjection(Current(b), KeysAt(b, Current(b)))
    BY DEF Surjection, KeysAt
  <2> HIDE DEF f
  <2>2. /\ IsFiniteSet(KeysAt(b, Current(b)))
        /\ Cardinality(KeysAt(b, Current(b))) <= Cardinality(Current(b))
    BY <1>1, <2>1, FS_Surjection
  <2>3. new \in SUBSET KeysAt(b, Current(b))
    OBVIOUS
  <2> HIDE DEF new
  <2>4. IsFiniteSet(new) /\ Cardinality(new) <= Cardinality(KeysAt(b, Current(b)))
    BY <2>2, <2>3, FS_Subset
  <2>5. /\ Cardinality(new) \in Nat /\ Cardinality(Current(b)) \in Nat
        /\ Cardinality(KeysAt(b, Current(b))) \in Nat
    BY <1>1, <2>2, <2>4, FS_CardinalityType
  <2> QED
    BY <2>2, <2>4, <2>5
<1>4. \/ n = Cardinality(Current(b))
      \/ b.row = 0 /\ n = Cardinality(IF kind = "upsert" THEN new ELSE Current(b))
  BY DEF Counted
<1> HIDE DEF new
<1> QED
  BY <1>1, <1>2, <1>3, <1>4

\* Rows that are written for the first time are counted once, and only those are when no
\* COMMIT has failed.
LEMMA OpenIsNew ==
  ASSUME NEW b, CallTyped(b), CallInv(b), b.pc \in Running, b.failedCommits = {}
  PROVE  /\ b.open \cap Done(b) = {}
         /\ b.pc \in {"opening", "executing"} => Current(b) \cap (Done(b) \cup b.open) = {}
<1>1. \A p : ~Doubt(b, p)
  BY DEF Doubt
<1>2. \A p \in DOMAIN b.rows : b.times[p] \in Nat
  BY DEF CallTyped
<1>3. b.open \subseteq DOMAIN b.rows
  BY DEF CallTyped
<1>4. CASE b.mode = "atomic"
  <2>1. /\ b.row = 0 /\ \A p \in DOMAIN b.rows : b.times[p] = 0
        /\ \A p \in b.open : p <= b.next
    BY <1>4 DEF CallInv, AtomicInv, Running
  <2>2. Done(b) = {}
    BY <2>1 DEF Done
  <2>3. Current(b) = {p \in DOMAIN b.rows : b.next < p /\ p <= b.next + BatchRows}
    BY <2>1 DEF Current, Batch
  <2>4. b.next \in Nat /\ \A p \in DOMAIN b.rows : p \in Nat
    BY RowsTyped DEF CallTyped
  <2>5. Current(b) \cap b.open = {}
    BY <1>3, <2>1, <2>3, <2>4
  <2> QED
    BY <2>2, <2>5
<1>5. CASE b.mode # "atomic"
  <2>1. BatchesInv(b)
    BY <1>5 DEF CallInv
  <2>2. CASE b.pc = "starting"
    BY <2>1, <2>2 DEF BatchesInv
  <2>3. CASE b.pc \in {"opening", "executing", "committing"}
    <3>1. Trying(b) /\ \A p \in Current(b) : Untouched(b, p) \/ Again(b, p)
      BY <1>5, <2>3, Tries
    <3>2. b.row <= Size(b) /\ b.next < Len(b.rows)
      BY <3>1, BatchIs DEF Trying, CallTyped
    <3>3. Current(b) \subseteq DOMAIN b.rows
      BY <3>2, CurrentIs
    <3>4. \A p \in Current(b) : ~(b.times[p] > 0)
      <4> TAKE p \in Current(b)
      <4>1. b.times[p] \in Nat
        BY <1>2, <3>3
      <4>2. b.times[p] = 0 \/ (b.times[p] <= 1 /\ b.times[p] # 1)
        BY <1>1, <3>1 DEF Untouched, Again
      <4> QED
        BY <4>1, <4>2
    <3>5. Current(b) \cap Done(b) = {}
      BY <3>4 DEF Done
    <3>6. b.open = IF b.pc = "committing" THEN Current(b) ELSE {}
      BY <2>1 DEF BatchesInv
    <3> QED
      BY <3>5, <3>6
  <2> QED
    BY <2>2, <2>3 DEF Running
<1> QED
  BY <1>4, <1>5

(***************************************************************************)
(* The steps                                                               *)
(***************************************************************************)

\* A new call, or none yet.
LEMMA NewCallRight ==
  ASSUME NEW pc, NEW mode \in Modes, NEW keyed \in BOOLEAN, NEW s \in Inputs \cup {<<>>},
         pc \in {"idle", "starting", "returned"},
         pc = "starting" => s # <<>>, pc = "returned" => s = <<>>
  PROVE  LET b == NewCall(pc, mode, keyed, s) IN
         CallTyped(b) /\ CallInv(b) /\ CountInv(b)
<1> DEFINE b == NewCall(pc, mode, keyed, s)
<1>1. /\ IsCall(b) /\ b.pc = pc /\ b.mode = mode /\ b.keyed = keyed /\ b.rows = s
      /\ b.next = 0 /\ b.row = 0 /\ b.open = {} /\ b.written = 0 /\ b.dropped = {}
      /\ b.times = [p \in DOMAIN s |-> 0] /\ b.failedCommits = {}
  BY DEF NewCall, IsCall
<1> HIDE DEF b
<1>2. s \in Seq(Keys) /\ Len(s) \in Nat /\ DOMAIN s = 1 .. Len(s) /\ (s = <<>> => Len(s) = 0)
  BY BulkAssumption, LenProperties, EmptySeq
<1>3. CallTyped(b)
  BY <1>1, <1>2 DEF CallTyped, Ended, Running
<1>4. \A p \in DOMAIN b.rows : p > 0 /\ Untouched(b, p)
  BY <1>1, <1>2 DEF Untouched
<1>5. Past(b) = 0 /\ \A p \in DOMAIN b.rows : p \in Nat
  BY <1>1, <1>2 DEF Past
<1>6. RowsInv(b)
  BY <1>4, <1>5 DEF RowsInv
<1>7. Bound(b) = 0
  BY <1>1 DEF Bound
<1>8. BatchesInv(b)
  BY <1>1, <1>2, <1>6, <1>7 DEF BatchesInv
<1>9. pc = "returned" => DOMAIN b.rows = {} /\ b.next = Len(b.rows)
  BY <1>1, <1>2
<1>10. \A p \in DOMAIN b.rows : b.times[p] = 0
  BY <1>1
<1>11. b.pc \notin {"executing", "committing", "opening"} /\ (b.pc = "returned" <=> pc = "returned")
  BY <1>1
<1>12. AtomicInv(b)
  BY <1>1, <1>9, <1>10, <1>11 DEF AtomicInv
<1>13. CallInv(b)
  BY <1>1, <1>8, <1>12 DEF CallInv, Running
<1>14. Done(b) = {}
  BY <1>10 DEF Done
<1>15. Cardinality(Done(b)) = 0 /\ Cardinality(b.open) = 0
  BY <1>1, <1>14, FS_EmptySet
<1>16. b.written = Cardinality(Done(b)) + Cardinality(b.open)
  BY <1>1, <1>15
<1>17. CountInv(b)
  BY <1>16 DEF CountInv, Done
<1> QED
  BY <1>3, <1>13, <1>17 DEF b

LEMMA Initial == Init => IInv
<1>1. ASSUME Init PROVE IInv
  <2>1. PICK mode \in Modes : bulk = NewCall("idle", mode, FALSE, <<>>)
    BY <1>1 DEF Init
  <2>2. LET b == NewCall("idle", mode, FALSE, <<>>) IN
        CallTyped(b) /\ CallInv(b) /\ CountInv(b)
    BY NewCallRight
  <2> QED
    BY <1>1, <2>1, <2>2 DEF Init, IInv
<1> QED
  BY <1>1

\* A step to c does not touch what is counted.
LEMMA SameCount ==
  ASSUME IInv, NEW c, SameWritten(bulk, c), Cardinality(c.open) = Cardinality(bulk.open),
         c.pc \in {"raised", "cancelled"} \/ bulk.pc \notin {"raised", "cancelled"}
  PROVE  CountInv(c)
  BY DEF IInv, CountInv, SameWritten

LEMMA SubmitKeeps == IInv /\ Submit => IInv'
<1>1. ASSUME IInv, Submit PROVE IInv'
  <2>1. PICK mode \in Modes, keyed \in Keyed, s \in Inputs :
          bulk' = NewCall(IF s = <<>> THEN "returned" ELSE "starting", mode, keyed, s)
    BY <1>1 DEF Submit, Becomes
  <2> DEFINE pc == IF s = <<>> THEN "returned" ELSE "starting"
  <2>2. LET b == NewCall(pc, mode, keyed, s) IN
        CallTyped(b) /\ CallInv(b) /\ CountInv(b)
    BY NewCallRight, BulkAssumption
  <2>3. kind' = kind /\ table' = table
    BY <1>1 DEF Submit, Becomes
  <2>4. CallTyped(bulk') /\ CallInv(bulk') /\ CountInv(bulk')
    BY <2>1, <2>2
  <2> QED
    BY <1>1, <2>3, <2>4 DEF IInv, CountInv
<1> QED
  BY <1>1

\* A step that only goes on, or ends the call, and leaves open what is open.
LEMMA Goes ==
  ASSUME IInv, NEW pc \in Running \cup Ended, NEW c, c = [bulk EXCEPT !.pc = pc]
  PROVE  /\ CallTyped(c) /\ SameRows(bulk, c) /\ c.pc = pc
         /\ c.next = bulk.next /\ c.row = bulk.row /\ c.open = bulk.open
<1>1. CallTyped(bulk) /\ IsCall(bulk)
  BY DEF IInv, CallTyped
<1>2. c = [pc |-> pc, mode |-> bulk.mode, keyed |-> bulk.keyed, rows |-> bulk.rows,
           next |-> bulk.next, row |-> bulk.row, open |-> bulk.open, written |-> bulk.written,
           dropped |-> bulk.dropped, times |-> bulk.times, failedCommits |-> bulk.failedCommits]
  BY <1>1 DEF IsCall
<1>3. /\ IsCall(c) /\ SameRows(bulk, c) /\ c.pc = pc
      /\ c.next = bulk.next /\ c.row = bulk.row /\ c.open = bulk.open
  BY <1>2 DEF IsCall, SameRows
<1> QED
  BY <1>1, <1>3 DEF CallTyped, SameRows

\* The same where nothing stays open.
LEMMA Ends ==
  ASSUME NEW b, CallTyped(b), NEW pc \in Running \cup Ended,
         NEW c, c = [b EXCEPT !.pc = pc, !.open = {}]
  PROVE  /\ CallTyped(c) /\ SameRows(b, c) /\ c.pc = pc
         /\ c.next = b.next /\ c.row = b.row /\ c.open = {}
<1>1. IsCall(b)
  BY DEF CallTyped
<1>2. c = [pc |-> pc, mode |-> b.mode, keyed |-> b.keyed, rows |-> b.rows, next |-> b.next,
           row |-> b.row, open |-> {}, written |-> b.written, dropped |-> b.dropped,
           times |-> b.times, failedCommits |-> b.failedCommits]
  BY <1>1 DEF IsCall
<1>3. /\ IsCall(c) /\ SameRows(b, c) /\ c.pc = pc
      /\ c.next = b.next /\ c.row = b.row /\ c.open = {}
  BY <1>2 DEF IsCall, SameRows
<1> QED
  BY <1>3 DEF CallTyped, SameRows

\* Rows that do not change keep what is known of them.
LEMMA SameRowsInv ==
  ASSUME NEW b, NEW c, SameRows(b, c), c.next = b.next, c.row = b.row, RowsInv(b)
  PROVE  RowsInv(c) /\ Size(c) = Size(b)
<1>1. Size(c) = Size(b) /\ Past(c) = Past(b)
  BY DEF Size, Past, SameRows
<1>2. \A p : /\ Settled(b, p) => Settled(c, p)
             /\ Untouched(b, p) => Untouched(c, p)
             /\ Again(b, p) => Again(c, p)
  BY DEF SameRows, Settled, Untouched, Again, Doubt
<1> QED
  BY <1>1, <1>2 DEF RowsInv, SameRows

LEMMA StartsKeeps == IInv /\ (Starts \/ StartFails) => IInv'
<1>1. ASSUME IInv, Starts \/ StartFails PROVE IInv'
  <2> DEFINE c == bulk'
  <2>1. PICK pc \in {"opening", "raised"} : c = [bulk EXCEPT !.pc = pc]
    BY <1>1 DEF Starts, StartFails, Becomes
  <2>2. kind' = kind /\ table' = table /\ bulk.pc = "starting"
    BY <1>1 DEF Starts, StartFails, Becomes
  <2>3. /\ CallTyped(c) /\ SameRows(bulk, c) /\ c.pc = pc
        /\ c.next = bulk.next /\ c.row = bulk.row /\ c.open = bulk.open
    BY <1>1, <2>1, Goes DEF Running, Ended
  <2> HIDE DEF c
  <2>4. CallTyped(bulk) /\ CallInv(bulk)
    BY <1>1 DEF IInv
  <2>5. /\ bulk.rows # <<>> /\ bulk.next = 0 /\ bulk.row = 0 /\ Len(bulk.rows) > 0
    BY <2>2, <2>4, RowsTyped DEF CallInv, Running
  <2>6. ASSUME bulk.mode = "atomic" PROVE CallInv(c)
    <3>1. AtomicInv(bulk)
      BY <2>4, <2>6 DEF CallInv
    <3>2. AtomicInv(c)
      BY <2>1, <2>2, <2>3, <2>5, <3>1 DEF AtomicInv, SameRows
    <3>3. CallInv(c)
      BY <2>1, <2>3, <2>5, <2>6, <3>2 DEF CallInv, SameRows
    <3> QED
      BY <3>3
  <2>7. ASSUME bulk.mode # "atomic" PROVE CallInv(c)
    <3>1. BatchesInv(bulk)
      BY <2>4, <2>7 DEF CallInv
    <3>2. RowsInv(c) /\ Size(c) = Size(bulk)
      BY <2>3, <3>1, SameRowsInv DEF BatchesInv
    <3>3. Bound(c) = Bound(bulk)
      BY <2>1, <2>2, <2>3, <3>2 DEF Bound
    <3>4. BatchesInv(c)
      BY <2>1, <2>2, <2>3, <2>5, <3>1, <3>2, <3>3 DEF BatchesInv, SameRows
    <3> QED
      BY <2>1, <2>3, <2>5, <2>7, <3>4 DEF CallInv, SameRows
  <2>8. CallInv(c)
    BY <2>6, <2>7
  <2>9. CountInv(c)
    BY <1>1, <2>1, <2>2, <2>3, SameCount DEF SameRows, SameWritten
  <2> QED
    BY <1>1, <2>2, <2>3, <2>8, <2>9 DEF IInv, CountInv, c
<1> QED
  BY <1>1

LEMMA OpensKeeps == IInv /\ Opens => IInv'
<1>1. ASSUME IInv, Opens PROVE IInv'
  <2> DEFINE c == bulk'
  <2>1. c = [bulk EXCEPT !.pc = "executing"] /\ bulk.pc = "opening"
    BY <1>1 DEF Opens, Becomes
  <2>2. kind' = kind /\ table' = table
    BY <1>1 DEF Opens, Becomes
  <2>3. /\ CallTyped(c) /\ SameRows(bulk, c) /\ c.pc = "executing"
        /\ c.next = bulk.next /\ c.row = bulk.row /\ c.open = bulk.open
    BY <1>1, <2>1, Goes DEF Running, Ended
  <2> HIDE DEF c
  <2>4. CallTyped(bulk) /\ CallInv(bulk)
    BY <1>1 DEF IInv
  <2>5. bulk.rows # <<>> /\ bulk.next < Len(bulk.rows)
    BY <2>1, <2>4 DEF CallInv, Running
  <2>6. ASSUME bulk.mode = "atomic" PROVE CallInv(c)
    <3>1. AtomicInv(bulk)
      BY <2>4, <2>6 DEF CallInv
    <3>2. {p \in DOMAIN c.rows : p <= c.next} = {}
      BY <2>1, <2>3, <2>4, <3>1, RowsTyped DEF AtomicInv, SameRows
    <3>3. AtomicInv(c)
      BY <2>1, <2>3, <3>1, <3>2 DEF AtomicInv, SameRows
    <3> QED
      BY <2>3, <2>5, <2>6, <3>3 DEF CallInv, SameRows
  <2>7. ASSUME bulk.mode # "atomic" PROVE CallInv(c)
    <3>1. BatchesInv(bulk)
      BY <2>4, <2>7 DEF CallInv
    <3>2. RowsInv(c) /\ Size(c) = Size(bulk)
      BY <2>3, <3>1, SameRowsInv DEF BatchesInv
    <3>3. Bound(c) = Bound(bulk)
      BY <2>1, <2>3, <3>2 DEF Bound
    <3>4. BatchesInv(c)
      BY <2>1, <2>3, <3>1, <3>2, <3>3 DEF BatchesInv, SameRows
    <3> QED
      BY <2>3, <2>5, <2>7, <3>4 DEF CallInv, SameRows
  <2>8. CallInv(c)
    BY <2>6, <2>7
  <2>9. CountInv(c)
    BY <1>1, <2>1, <2>3, SameCount DEF SameRows, SameWritten
  <2> QED
    BY <1>1, <2>2, <2>3, <2>8, <2>9 DEF IInv, CountInv, c
<1> QED
  BY <1>1

\* An atomic call that fails raises.
LEMMA Raises ==
  ASSUME NEW b, CallTyped(b), b.mode = "atomic"
  PROVE  /\ CallTyped(Fails(b)) /\ SameRows(b, Fails(b)) /\ Fails(b).pc = "raised"
         /\ Fails(b).next = b.next /\ Fails(b).row = b.row /\ Fails(b).open = {}
<1>1. Fails(b) = [b EXCEPT !.pc = "raised", !.open = {}]
  BY FailsIs
<1>2. "raised" \in Running \cup Ended
  BY DEF Ended
<1> DEFINE c == [b EXCEPT !.pc = "raised", !.open = {}]
<1>3. /\ CallTyped(c) /\ SameRows(b, c) /\ c.pc = "raised"
      /\ c.next = b.next /\ c.row = b.row /\ c.open = {}
  BY <1>2, Ends
<1> QED
  BY <1>1, <1>3

\* An atomic call that fails has written nothing, unless its COMMIT is in doubt.
LEMMA AtomicFails ==
  ASSUME NEW b, CallTyped(b), b.mode = "atomic",
         b.row = 0, b.dropped = {}, b.written <= b.next,
         \/ \A p \in DOMAIN b.rows : b.times[p] = 0
         \/ \A p \in DOMAIN b.rows : b.times[p] = 1 /\ Doubt(b, p)
  PROVE  CallTyped(Fails(b)) /\ CallInv(Fails(b)) /\ CountInv(Fails(b))
<1> DEFINE c == Fails(b)
<1>2. /\ CallTyped(c) /\ SameRows(b, c) /\ c.pc = "raised"
      /\ c.next = b.next /\ c.row = b.row /\ c.open = {}
  BY Raises
<1> HIDE DEF c
<1>3. \A p : Doubt(b, p) => Doubt(c, p)
  BY <1>2 DEF Doubt, SameRows
<1>4. AtomicInv(c)
  BY <1>2, <1>3 DEF AtomicInv, SameRows
<1>5. CallInv(c) /\ CountInv(c)
  BY <1>2, <1>4 DEF CallInv, CountInv, SameRows, Running
<1> QED
  BY <1>2, <1>5 DEF c

\* What fails before its COMMIT.
LEMMA FailsRight ==
  ASSUME IInv, bulk.pc \in {"opening", "executing"}
  PROVE  CallTyped(Fails(bulk)) /\ CallInv(Fails(bulk)) /\ CountInv(Fails(bulk))
<1>1. CallTyped(bulk) /\ CallInv(bulk)
  BY DEF IInv
<1>2. CASE bulk.mode = "atomic"
  <2>1. AtomicInv(bulk)
    BY <1>1, <1>2 DEF CallInv
  <2> QED
    BY <1>1, <1>2, <2>1, AtomicFails DEF AtomicInv
<1>3. CASE bulk.mode # "atomic"
  <2>1. /\ Trying(bulk)
        /\ \A p \in Current(bulk) : Untouched(bulk, p) \/ (bulk.row > 0 /\ Again(bulk, p))
    BY <1>1, <1>3, Tries
  <2>2. Current(bulk) \subseteq DOMAIN bulk.rows
    BY <1>1, CurrentIs, <2>1, BatchIs DEF Trying, CallTyped
  <2>3. \A p \in Current(bulk) : Droppable(bulk, p)
    <3> TAKE p \in Current(bulk)
    <3>1. bulk.times[p] \in Nat
      BY <1>1, <2>2 DEF CallTyped
    <3>2. bulk.times[p] = 0 \/ (bulk.times[p] = 1 /\ Doubt(bulk, p))
      BY <2>1, <3>1 DEF Untouched, Again
    <3> QED
      BY <3>2 DEF Droppable
  <2>4. /\ CallTyped(Fails(bulk)) /\ CallInv(Fails(bulk))
        /\ SameWritten(bulk, Fails(bulk)) /\ Fails(bulk).open = {}
    BY <2>1, <2>3, FailsOn
  <2>5. bulk.open = {}
    BY <1>1, <1>3 DEF CallInv, BatchesInv
  <2>6. CountInv(Fails(bulk))
    BY <2>4, <2>5, SameCount
  <2> QED
    BY <2>4, <2>6
<1> QED
  BY <1>2, <1>3

LEMMA BecomesKeeps ==
  ASSUME IInv, NEW c, Becomes(c), CallTyped(c), CallInv(c), CountInv(c),
         table' \subseteq Keys
  PROVE  IInv'
<1>1. bulk' = c /\ kind' = kind
  BY DEF Becomes
<1> QED
  BY <1>1 DEF IInv, CountInv

LEMMA FailuresKeep == IInv /\ (OpenFails \/ ExecuteFails) => IInv'
<1>1. ASSUME IInv, OpenFails \/ ExecuteFails PROVE IInv'
  <2>1. bulk.pc \in {"opening", "executing"} /\ Becomes(Fails(bulk)) /\ table' = table
    BY <1>1 DEF OpenFails, ExecuteFails
  <2>2. CallTyped(Fails(bulk)) /\ CallInv(Fails(bulk)) /\ CountInv(Fails(bulk))
    BY <1>1, <2>1, FailsRight
  <2>3. table' \subseteq Keys
    BY <1>1, <2>1 DEF IInv
  <2> QED
    BY <1>1, <2>1, <2>2, <2>3, BecomesKeeps
<1> QED
  BY <1>1

LEMMA CancelKeeps == IInv /\ Cancel => IInv'
<1>1. ASSUME IInv, Cancel PROVE IInv'
  <2> DEFINE c == [bulk EXCEPT !.pc = "cancelled", !.open = {}]
  <2>1. bulk.pc \in {"starting", "opening", "executing"} /\ Becomes(c) /\ table' = table
    BY <1>1 DEF Cancel
  <2>2. CallTyped(bulk) /\ CallInv(bulk)
    BY <1>1 DEF IInv
  <2>3. /\ CallTyped(c) /\ SameRows(bulk, c) /\ c.pc = "cancelled"
        /\ c.next = bulk.next /\ c.row = bulk.row /\ c.open = {}
    BY <2>2, Ends DEF Ended
  <2> HIDE DEF c
  <2>4. ASSUME bulk.mode = "atomic" PROVE CallInv(c)
    <3>1. AtomicInv(bulk)
      BY <2>2, <2>4 DEF CallInv
    <3>2. AtomicInv(c)
      BY <2>1, <2>3, <3>1 DEF AtomicInv, SameRows
    <3> QED
      BY <2>3, <2>4, <3>2 DEF CallInv, SameRows, Running
  <2>5. ASSUME bulk.mode # "atomic" PROVE CallInv(c)
    <3>1. BatchesInv(bulk)
      BY <2>2, <2>5 DEF CallInv
    <3>2. RowsInv(c) /\ Size(c) = Size(bulk)
      BY <2>3, <3>1, SameRowsInv DEF BatchesInv
    <3>3. Bound(c) = Bound(bulk)
      BY <2>1, <2>3, <3>2 DEF Bound
    <3>4. BatchesInv(c)
      BY <2>1, <2>3, <3>1, <3>2, <3>3 DEF BatchesInv, SameRows
    <3> QED
      BY <2>3, <2>5, <3>4 DEF CallInv, SameRows, Running
  <2>6. CallInv(c) /\ CountInv(c)
    BY <2>3, <2>4, <2>5 DEF CountInv
  <2>7. table' \subseteq Keys
    BY <1>1, <2>1 DEF IInv
  <2> QED
    BY <1>1, <2>1, <2>3, <2>6, <2>7, BecomesKeeps
<1> QED
  BY <1>1

LEMMA OthersKeep == ASSUME NEW k \in Keys PROVE IInv /\ OthersWrite(k) => IInv'
<1>1. ASSUME IInv, OthersWrite(k) PROVE IInv'
  <2>1. kind' = kind /\ bulk' = bulk /\ table' \subseteq Keys
    BY <1>1 DEF OthersWrite, IInv
  <2> QED
    BY <1>1, <2>1 DEF IInv, CountInv
<1> QED
  BY <1>1

\* COMMIT writes keys.
LEMMA KeysTyped ==
  ASSUME NEW b, CallTyped(b)
  PROVE  KeysAt(b, b.open) \subseteq Keys
<1>1. b.open \subseteq DOMAIN b.rows
  BY DEF CallTyped
<1>2. \A p \in DOMAIN b.rows : b.rows[p] \in Keys
  BY RowsTyped, ElementOfSeq
<1> QED
  BY <1>1, <1>2 DEF KeysAt

LEMMA CommitFailsKeeps == IInv /\ CommitFails => IInv'
<1>1. ASSUME IInv, CommitFails PROVE IInv'
  <2>1. PICK cause \in Causes, stored \in BOOLEAN :
          /\ cause = "refused" => ~stored
          /\ table' = IF stored THEN table \cup KeysAt(bulk, bulk.open) ELSE table
          /\ Becomes(Fails(Failed(bulk, cause, stored)))
    BY <1>1 DEF CommitFails, Failed
  <2> DEFINE c == Failed(bulk, cause, stored)
  <2>2. CallTyped(bulk) /\ CallInv(bulk) /\ bulk.pc = "committing"
    BY <1>1 DEF IInv, CommitFails
  <2>3. CallTyped(c)
    BY <2>2, FailedTyped
  <2>4. /\ c.mode = bulk.mode /\ c.rows = bulk.rows /\ c.next = bulk.next
        /\ c.row = bulk.row /\ c.written = bulk.written /\ c.dropped = bulk.dropped
        /\ c.times = (IF stored THEN Added(bulk) ELSE bulk.times)
        /\ c.failedCommits = bulk.failedCommits \cup ({cause} \X bulk.open)
    BY <2>2, FailedIs
  <2>5. ASSUME bulk.mode = "atomic"
        PROVE  CallTyped(Fails(c)) /\ CallInv(Fails(c)) /\ CountInv(Fails(c))
    <3>1. AtomicInv(bulk)
      BY <2>2, <2>5 DEF CallInv
    <3>2. /\ bulk.next = Len(bulk.rows) /\ bulk.open = DOMAIN bulk.rows
          /\ \A p \in DOMAIN bulk.rows : bulk.times[p] = 0
      BY <2>2, <3>1, RowsTyped DEF AtomicInv
    <3>3. \/ \A p \in DOMAIN c.rows : c.times[p] = 0
          \/ \A p \in DOMAIN c.rows : c.times[p] = 1 /\ Doubt(c, p)
      <4>1. CASE stored
        <5>1. cause \in {"lost", "cancelled"}
          BY <2>1, <4>1 DEF Causes
        <5>2. \A p \in DOMAIN c.rows : Doubt(c, p)
          BY <2>4, <3>2, <5>1 DEF Doubt
        <5>3. \A p \in DOMAIN c.rows : c.times[p] = 0 + 1
          BY <2>2, <2>4, <3>2, <4>1, AddedIs
        <5> QED
          BY <5>2, <5>3
      <4>2. CASE ~stored
        BY <2>4, <3>2, <4>2
      <4> QED
        BY <4>1, <4>2
    <3> HIDE DEF c
    <3>4. c.mode = "atomic" /\ c.row = 0 /\ c.dropped = {} /\ c.written <= c.next
      BY <2>4, <2>5, <3>1 DEF AtomicInv
    <3> QED
      BY <2>3, <3>3, <3>4, AtomicFails
  <2>6. ASSUME bulk.mode # "atomic"
        PROVE  CallTyped(Fails(c)) /\ CallInv(Fails(c)) /\ CountInv(Fails(c))
    <3>1. /\ Trying(c)
          /\ \A p \in Current(c) :
               Droppable(c, p) /\ (c.row = 0 => Untouched(c, p) \/ Again(c, p))
      BY <2>1, <2>2, <2>6, FailedTries
    <3>2. bulk.open = Current(bulk) /\ Trying(bulk)
      BY <2>2, <2>6, Tries DEF CallInv, BatchesInv
    <3>3. bulk.open # {}
      BY <2>2, <3>2, CurrentIs, BatchIs DEF Trying, CallTyped
    <3> HIDE DEF c
    <3>4. c.failedCommits # {}
      <4>1. PICK p \in bulk.open : TRUE
        BY <3>3
      <4>2. <<cause, p>> \in c.failedCommits
        BY <2>4
      <4> QED
        BY <4>2
    <3>5. /\ CallTyped(Fails(c)) /\ CallInv(Fails(c))
          /\ SameWritten(c, Fails(c))
      BY <3>1, FailsOn
    <3>6. CountInv(Fails(c))
      BY <3>4, <3>5 DEF CountInv, SameWritten
    <3> QED
      BY <3>5, <3>6
  <2>7. table' \subseteq Keys
    BY <1>1, <2>1, <2>2, KeysTyped DEF IInv
  <2> HIDE DEF c
  <2>8. CallTyped(Fails(c)) /\ CallInv(Fails(c)) /\ CountInv(Fails(c))
    BY <2>5, <2>6
  <2>9. Becomes(Fails(c))
    BY <2>1 DEF c
  <2> QED
    BY <1>1, <2>7, <2>8, <2>9, BecomesKeeps
<1> QED
  BY <1>1

\* Done rows that do not change stay done.
LEMMA DoneSame ==
  ASSUME NEW b, NEW c, c.rows = b.rows, c.times = b.times
  PROVE  Done(c) = Done(b)
  BY DEF Done

\* CountInv, before and after a step.
LEMMA CountIs ==
  ASSUME NEW b
  PROVE  CountInv(b) <=>
           (kind # "upsert" /\ b.failedCommits = {} /\ b.pc \notin {"raised", "cancelled"} =>
              b.written = Cardinality(Done(b)) + Cardinality(b.open))
  BY DEF CountInv, Done

\* A statement of which n rows are counted keeps the count.
LEMMA CountsOn ==
  ASSUME IInv, bulk.pc = "executing", bulk.next < Len(bulk.rows), bulk.row <= Size(bulk),
         NEW n \in Counted(bulk), NEW c,
         c.rows = bulk.rows, c.times = bulk.times, c.failedCommits = bulk.failedCommits,
         c.written = bulk.written + n, c.open = bulk.open \cup Current(bulk)
  PROVE  CountInv(c)
<1>1. SUFFICES ASSUME kind # "upsert", c.failedCommits = {}
               PROVE  c.written = Cardinality(Done(c)) + Cardinality(c.open)
  BY CountIs
<1>2. CallTyped(bulk) /\ CallInv(bulk) /\ CountInv(bulk)
  BY DEF IInv
<1>3. bulk.written = Cardinality(Done(bulk)) + Cardinality(bulk.open)
  BY <1>1, <1>2, CountIs
<1>4. Done(c) = Done(bulk)
  BY DoneSame
<1>5. n = Cardinality(Current(bulk))
  BY <1>1, <1>2, CountedIs
<1>6. Current(bulk) \cap bulk.open = {}
  BY <1>1, <1>2, OpenIsNew DEF Running
<1>7. IsFiniteSet(Current(bulk)) /\ Current(bulk) \subseteq DOMAIN bulk.rows
  BY <1>2, CurrentIs
<1>8. /\ IsFiniteSet(bulk.open) /\ Cardinality(bulk.open) \in Nat
      /\ Cardinality(Current(bulk)) \in Nat /\ Cardinality(Done(bulk)) \in Nat
  BY <1>2, <1>7, RowsFinite DEF CallTyped, Done
<1>9. Cardinality(c.open) = Cardinality(bulk.open) + Cardinality(Current(bulk))
  BY <1>6, <1>7, <1>8, AddsUp
<1> QED
  BY <1>3, <1>4, <1>5, <1>8, <1>9

LEMMA ExecutesKeeps == IInv /\ Executes => IInv'
<1>1. ASSUME IInv, Executes PROVE IInv'
  <2> DEFINE b == bulk
             c == bulk'
             open == b.open \cup Current(b)
             done == b.next + Cardinality(Batch(b))
             to == IF done = Len(b.rows) THEN "committing" ELSE "executing"
  <2>1. b.pc = "executing" /\ table' = table
    BY <1>1 DEF Executes
  <2>2. PICK n \in Counted(b) :
          Becomes(IF b.mode = "atomic"
                    THEN [b EXCEPT !.open = open, !.written = b.written + n, !.next = done,
                                   !.pc = to]
                    ELSE [b EXCEPT !.open = open, !.written = b.written + n,
                                   !.pc = "committing"])
    BY <1>1 DEF Executes
  <2>3. CallTyped(b) /\ IsCall(b) /\ CallInv(b)
    BY <1>1 DEF IInv, CallTyped
  <2>4. b.next < Len(b.rows) /\ b.rows # <<>>
    BY <2>1, <2>3 DEF CallInv, Running
  <2>5. /\ Size(b) \in Nat /\ b.next + Size(b) <= Len(b.rows) /\ done = b.next + Size(b)
        /\ Batch(b) = (b.next + 1) .. (b.next + Size(b))
    BY <2>3, BatchIs
  <2>6. b.row \in Nat /\ b.next \in Nat /\ b.written \in Nat /\ b.row <= Size(b)
    BY <2>3, <2>5 DEF CallInv, AtomicInv, BatchesInv, CallTyped
  <2>7. /\ n \in Nat /\ n <= (IF b.row = 0 THEN Size(b) ELSE 1)
    BY <2>3, <2>4, <2>6, CountedIs
  <2>8. Current(b) \subseteq DOMAIN b.rows
    BY <2>3, <2>4, <2>6, CurrentIs
  <2>9. open \subseteq DOMAIN b.rows /\ b.written + n \in Nat
    BY <2>3, <2>6, <2>7, <2>8 DEF CallTyped
  <2>10. kind' = kind /\ table' \subseteq Keys
    BY <1>1, <2>1, <2>2 DEF Becomes, IInv
  <2>11. DOMAIN b.rows = 1 .. Len(b.rows) /\ Len(b.rows) \in Nat
    BY <2>3, RowsTyped
  <2>12. ASSUME b.mode = "atomic" PROVE CallTyped(c) /\ CallInv(c) /\ CountInv(c)
    <3> DEFINE w == b.written + n
    <3>1. c = [b EXCEPT !.open = open, !.written = w, !.next = done, !.pc = to]
      BY <2>2, <2>12 DEF Becomes
    <3> HIDE DEF c, open, done, to, w
    <3>2. c = [pc |-> to, mode |-> b.mode, keyed |-> b.keyed, rows |-> b.rows, next |-> done,
               row |-> b.row, open |-> open, written |-> w, dropped |-> b.dropped,
               times |-> b.times, failedCommits |-> b.failedCommits]
      BY <2>3, <3>1 DEF IsCall
    <3>3. /\ IsCall(c) /\ c.pc = to /\ c.mode = b.mode /\ c.keyed = b.keyed
          /\ c.rows = b.rows /\ c.next = done /\ c.row = b.row /\ c.open = open
          /\ c.written = w /\ c.dropped = b.dropped /\ c.times = b.times
          /\ c.failedCommits = b.failedCommits
      BY <3>2 DEF IsCall
    <3>4. done \in Nat /\ done <= Len(b.rows)
      BY <2>5, <2>6
    <3>5. to \in {"executing", "committing"}
      BY DEF to
    <3>6. CallTyped(c)
      BY <2>3, <2>9, <3>3, <3>4, <3>5 DEF CallTyped, Running, w
    <3>7. AtomicInv(b)
      BY <2>3, <2>12 DEF CallInv
    <3>8. open = {p \in DOMAIN b.rows : p <= done}
      <4>1. b.open = {p \in DOMAIN b.rows : p <= b.next} /\ b.row = 0
        BY <2>1, <3>7 DEF AtomicInv
      <4>2. Current(b) = (b.next + 1) .. (b.next + Size(b))
        BY <2>5, <4>1 DEF Current
      <4> QED
        BY <2>5, <2>6, <2>11, <4>1, <4>2 DEF open
    <3>9. w <= done
      BY <2>5, <2>6, <2>7, <3>7 DEF AtomicInv, w
    <3>10. /\ to = "committing" => done = Len(b.rows)
           /\ to = "executing" => done < Len(b.rows)
      BY <2>11, <3>4 DEF to
    <3>11. \A p \in DOMAIN b.rows : b.times[p] = 0
      BY <2>1, <3>7 DEF AtomicInv
    <3>12. AtomicInv(c)
      BY <3>3, <3>5, <3>7, <3>8, <3>9, <3>10, <3>11 DEF AtomicInv
    <3>13. CallInv(c)
      BY <2>4, <2>12, <3>3, <3>5, <3>10, <3>12 DEF CallInv
    <3>14. CountInv(c)
      BY <1>1, <2>1, <2>4, <2>6, <3>3, CountsOn DEF w, open
    <3> QED
      BY <3>6, <3>13, <3>14
  <2>13. ASSUME b.mode # "atomic" PROVE CallTyped(c) /\ CallInv(c) /\ CountInv(c)
    <3> DEFINE w == b.written + n
    <3>1. c = [b EXCEPT !.open = open, !.written = w, !.pc = "committing"]
      BY <2>2, <2>13 DEF Becomes
    <3> HIDE DEF c, open, done, to, w
    <3>2. c = [pc |-> "committing", mode |-> b.mode, keyed |-> b.keyed, rows |-> b.rows,
               next |-> b.next, row |-> b.row, open |-> open, written |-> w,
               dropped |-> b.dropped, times |-> b.times, failedCommits |-> b.failedCommits]
      BY <2>3, <3>1 DEF IsCall
    <3>3. /\ IsCall(c) /\ c.pc = "committing" /\ c.mode = b.mode /\ c.keyed = b.keyed
          /\ c.rows = b.rows /\ c.next = b.next /\ c.row = b.row /\ c.open = open
          /\ c.written = w /\ c.dropped = b.dropped /\ c.times = b.times
          /\ c.failedCommits = b.failedCommits
      BY <3>2 DEF IsCall
    <3>4. CallTyped(c)
      BY <2>3, <2>9, <3>3 DEF CallTyped, Running, w
    <3>5. BatchesInv(b)
      BY <2>3, <2>13 DEF CallInv
    <3>6. Size(c) = Size(b) /\ Past(c) = Past(b) /\ Current(c) = Current(b)
      BY <3>3 DEF Size, Past, Current, Batch
    <3>7. \A p : /\ Settled(b, p) => Settled(c, p)
                 /\ Untouched(b, p) => Untouched(c, p)
                 /\ Again(b, p) => Again(c, p)
      BY <3>3 DEF Settled, Untouched, Again, Doubt
    <3>8. RowsInv(c)
      BY <3>3, <3>5, <3>6, <3>7 DEF RowsInv, BatchesInv
    <3>9. open = Current(b)
      BY <2>1, <3>5 DEF BatchesInv, open
    <3>10. w <= Bound(b) + n
      <4>1. b.written <= Bound(b)
        BY <3>5 DEF BatchesInv
      <4>2. Bound(b) \in Int
        BY <2>5, <2>6, BoundIsNumber
      <4> QED
        BY <2>6, <2>7, <4>1, <4>2 DEF w
    <3>11. Bound(b) + n <= Bound(c)
      BY <2>1, <2>5, <2>6, <2>7, <3>3, <3>6 DEF Bound
    <3>12. w <= Bound(c)
      <4>1. Bound(b) \in Int
        BY <2>5, <2>6, BoundIsNumber
      <4>2. Bound(c) \in Int
        <5>1. c.next \in Nat /\ c.row \in Nat /\ Size(c) \in Nat
          BY <2>5, <2>6, <3>3, <3>6
        <5> HIDE DEF c
        <5> QED
          BY <5>1, BoundIsNumber
      <4>3. w \in Int /\ n \in Int
        BY <2>6, <2>7 DEF w
      <4> QED
        BY <3>10, <3>11, <4>1, <4>2, <4>3
    <3>13. BatchesInv(c)
      BY <2>4, <3>3, <3>5, <3>6, <3>8, <3>9, <3>12 DEF BatchesInv
    <3>14. CallInv(c)
      BY <2>4, <2>13, <3>3, <3>13 DEF CallInv
    <3>15. CountInv(c)
      BY <1>1, <2>1, <2>4, <2>6, <3>3, CountsOn DEF w, open
    <3> QED
      BY <3>4, <3>14, <3>15
  <2>14. CallTyped(c) /\ CallInv(c) /\ CountInv(c)
    BY <2>12, <2>13
  <2> QED
    BY <1>1, <2>10, <2>14 DEF IInv, CountInv
<1> QED
  BY <1>1

\* A COMMIT of rows that are written for the first time keeps the count.
LEMMA CommitCounts ==
  ASSUME IInv, bulk.pc = "committing", NEW c,
         c.rows = bulk.rows, c.times = Added(bulk), c.failedCommits = bulk.failedCommits,
         c.written = bulk.written, c.open = {}
  PROVE  CountInv(c)
<1>1. SUFFICES ASSUME kind # "upsert", c.failedCommits = {}
               PROVE  c.written = Cardinality(Done(c)) + Cardinality(c.open)
  BY CountIs
<1>2. CallTyped(bulk) /\ CallInv(bulk) /\ CountInv(bulk)
  BY DEF IInv
<1>3. bulk.written = Cardinality(Done(bulk)) + Cardinality(bulk.open)
  BY <1>1, <1>2, CountIs
<1>4. bulk.open \cap Done(bulk) = {}
  BY <1>1, <1>2, OpenIsNew DEF Running
<1>5. bulk.open \subseteq DOMAIN bulk.rows /\ Done(bulk) \subseteq DOMAIN bulk.rows
  BY <1>2 DEF CallTyped, Done
<1>6. \A p \in DOMAIN bulk.rows :
         bulk.times[p] \in Nat
         /\ c.times[p] = IF p \in bulk.open THEN bulk.times[p] + 1 ELSE bulk.times[p]
  BY <1>2, AddedIs DEF CallTyped
<1>7. Done(c) = Done(bulk) \cup bulk.open
  <2>1. \A p \in DOMAIN bulk.rows : c.times[p] > 0 <=> bulk.times[p] > 0 \/ p \in bulk.open
    BY <1>6
  <2> QED
    BY <1>5, <2>1 DEF Done
<1>8. Cardinality(Done(c)) = Cardinality(Done(bulk)) + Cardinality(bulk.open)
  BY <1>2, <1>4, <1>5, <1>7, RowsFinite, AddsUp
<1>9. /\ Cardinality(c.open) = 0
      /\ Cardinality(Done(bulk)) \in Nat /\ Cardinality(bulk.open) \in Nat
  BY <1>2, <1>5, RowsFinite, FS_EmptySet
<1> QED
  BY <1>3, <1>8, <1>9

LEMMA CommitsKeeps == IInv /\ Commits => IInv'
<1>1. ASSUME IInv, Commits PROVE IInv'
  <2> DEFINE s == Stored(bulk)
             r == [s EXCEPT !.pc = "returned", !.open = {}]
  <2>1. /\ bulk.pc = "committing" /\ table' = table \cup KeysAt(bulk, bulk.open)
        /\ Becomes(IF bulk.mode = "atomic" THEN r ELSE NextScope(s))
    BY <1>1 DEF Commits
  <2>2. CallTyped(bulk) /\ CallInv(bulk)
    BY <1>1 DEF IInv
  <2>3. CallTyped(s)
    BY <2>2, StoredTyped
  <2>4. /\ s.pc = bulk.pc /\ s.mode = bulk.mode /\ s.rows = bulk.rows /\ s.next = bulk.next
        /\ s.row = bulk.row /\ s.written = bulk.written /\ s.dropped = bulk.dropped
        /\ s.times = Added(bulk) /\ s.failedCommits = bulk.failedCommits
    BY <2>2, StoredIs DEF CallTyped
  <2>5. table' \subseteq Keys
    BY <1>1, <2>1, <2>2, KeysTyped DEF IInv
  <2>6. CASE bulk.mode = "atomic"
    <3>1. "returned" \in Running \cup Ended
      BY DEF Ended
    <3> HIDE DEF s
    <3>2. /\ CallTyped(r) /\ SameRows(s, r) /\ r.pc = "returned"
          /\ r.next = s.next /\ r.row = s.row /\ r.open = {}
      BY <2>3, <3>1, Ends
    <3> HIDE DEF r
    <3>3. AtomicInv(bulk)
      BY <2>2, <2>6 DEF CallInv
    <3>4. /\ bulk.next = Len(bulk.rows) /\ bulk.open = DOMAIN bulk.rows
          /\ \A p \in DOMAIN bulk.rows : bulk.times[p] = 0
      BY <2>1, <2>2, <3>3, RowsTyped DEF AtomicInv
    <3>5. \A p \in DOMAIN r.rows : r.times[p] = 1
      <4>1. \A p \in DOMAIN bulk.rows : Added(bulk)[p] = 0 + 1
        BY <2>2, <3>4, AddedIs
      <4> QED
        BY <2>4, <3>2, <4>1 DEF SameRows
    <3>6. AtomicInv(r)
      BY <2>4, <3>2, <3>3, <3>4, <3>5 DEF AtomicInv, SameRows
    <3>7. CallInv(r)
      BY <2>4, <2>6, <3>2, <3>6 DEF CallInv, SameRows, Running
    <3>8. CountInv(r)
      BY <1>1, <2>1, <2>4, <3>2, CommitCounts DEF SameRows
    <3>9. Becomes(r)
      BY <2>1, <2>6
    <3> QED
      BY <1>1, <2>5, <3>2, <3>7, <3>8, <3>9, BecomesKeeps
  <2>7. CASE bulk.mode # "atomic"
    <3>1. Trying(s) /\ \A p \in Current(s) : Settled(s, p)
      BY <2>1, <2>2, <2>7, CommitTries
    <3> HIDE DEF s
    <3>2. /\ CallTyped(NextScope(s)) /\ CallInv(NextScope(s))
          /\ SameRows(s, NextScope(s)) /\ NextScope(s).open = {}
      BY <3>1, GoesOn
    <3>3. CountInv(NextScope(s))
      BY <1>1, <2>1, <2>4, <3>2, CommitCounts DEF SameRows
    <3>4. Becomes(NextScope(s))
      BY <2>1, <2>7
    <3> QED
      BY <1>1, <2>5, <3>2, <3>3, <3>4, BecomesKeeps
  <2> QED
    BY <2>6, <2>7
<1> QED
  BY <1>1

(***************************************************************************)
(* The theorems                                                            *)
(***************************************************************************)

\* The inductive invariant holds: the rows a call is past are settled, those it is at or has
\* yet to come to are not written but for a batch in doubt that is written row by row, the
\* open transaction holds exactly the rows of the statements executed in it, and what is
\* counted is what is written.
THEOREM Invariance == Spec => []IInv
<1>1. Init => IInv
  BY Initial
<1>2. IInv /\ [Next]_vars => IInv'
  <2> SUFFICES ASSUME IInv, [Next]_vars PROVE IInv'
    OBVIOUS
  <2>1. CASE Submit
    BY <2>1, SubmitKeeps
  <2>2. CASE Starts \/ StartFails
    BY <2>2, StartsKeeps
  <2>3. CASE Opens
    BY <2>3, OpensKeeps
  <2>4. CASE OpenFails \/ ExecuteFails
    BY <2>4, FailuresKeep
  <2>5. CASE Executes
    BY <2>5, ExecutesKeeps
  <2>6. CASE Commits
    BY <2>6, CommitsKeeps
  <2>7. CASE CommitFails
    BY <2>7, CommitFailsKeeps
  <2>8. CASE Cancel
    BY <2>8, CancelKeeps
  <2>9. CASE \E k \in Keys : OthersWrite(k)
    BY <2>9, OthersKeep
  <2>10. CASE UNCHANGED vars
    BY <2>10 DEF vars, IInv, CountInv
  <2> QED
    BY <2>1, <2>2, <2>3, <2>4, <2>5, <2>6, <2>7, <2>8, <2>9, <2>10 DEF Next
<1> QED
  BY <1>1, <1>2, PTL DEF Spec

\* An atomic call writes all its rows or none (_bulk_write, failure_mode "atomic"): all of
\* them if it returns, none if it raises or is cancelled, unless its COMMIT is in doubt.
THEOREM AllOrNothing == Spec => []AtomicAllOrNothing
<1>1. IInv => AtomicAllOrNothing
  <2> SUFFICES ASSUME IInv, bulk.mode = "atomic", bulk.pc \in Ended
               PROVE  LET written == {p \in Rows : bulk.times[p] = 1}
                      IN  /\ written \in {{}, Rows}
                          /\ bulk.pc = "returned" => written = Rows
                          /\ written # {} => bulk.pc = "returned" \/ InDoubt = Rows
    BY DEF AtomicAllOrNothing
  <2> DEFINE written == {p \in Rows : bulk.times[p] = 1}
  <2>1. AtomicInv(bulk)
    BY DEF IInv, CallInv
  <2>2. CASE \A p \in Rows : bulk.times[p] = 0
    <3>1. written = {}
      BY <2>2
    <3>2. bulk.pc = "returned" => Rows = {}
      BY <2>1, <2>2 DEF AtomicInv, Rows
    <3> QED
      BY <3>1, <3>2
  <2>3. CASE bulk.pc = "returned"
    <3>1. written = Rows
      BY <2>1, <2>3 DEF AtomicInv, Rows
    <3> QED
      BY <2>3, <3>1
  <2>4. CASE bulk.pc = "raised" /\ \A p \in Rows : bulk.times[p] = 1 /\ Doubt(bulk, p)
    <3>1. written = Rows
      BY <2>4
    <3>2. InDoubt = Rows
      BY <2>4 DEF InDoubt, FailedBy, Doubt
    <3> QED
      BY <3>1, <3>2
  <2> QED
    BY <2>1, <2>2, <2>3, <2>4 DEF AtomicInv, Rows
<1> QED
  BY <1>1, Invariance, PTL

\* A call that returns has written or dropped every row, a row is written twice only by
\* split_on_failure after a COMMIT in doubt, and never three times.
THEOREM Accounted == Spec => []RowsAccounted
<1>1. ASSUME IInv PROVE RowsAccounted
  <2> DEFINE b == bulk
  <2>1. CallTyped(b) /\ CallInv(b)
    BY <1>1 DEF IInv
  <2>2. DOMAIN b.rows = 1 .. Len(b.rows) /\ Len(b.rows) \in Nat
    BY <2>1, RowsTyped
  <2>3. /\ Size(b) \in Nat /\ Size(b) <= BatchRows /\ b.next + Size(b) <= Len(b.rows)
    BY <2>1, BatchIs
  <2>4. /\ b.next \in Nat /\ b.row \in Nat /\ b.written \in Nat /\ b.next <= Len(b.rows)
        /\ BatchRows \in Nat
    BY <2>1, BulkAssumption DEF CallTyped
  <2>5. \A p \in Rows : b.times[p] \in Nat
    BY <2>1 DEF CallTyped, Rows
  <2>6. \A p : Doubt(b, p) /\ p \in Rows => p \in InDoubt
    BY DEF InDoubt, FailedBy, Doubt
  <2>7. ASSUME NEW p \in Rows
        PROVE  /\ b.times[p] <= 2
               /\ b.times[p] > 1 => b.mode = "split_on_failure" /\ p \in InDoubt
    <3>1. b.times[p] \in Nat
      BY <2>5
    <3>2. CASE b.mode = "atomic"
      <4>1. b.times[p] \in {0, 1}
        BY <2>1, <3>2 DEF CallInv, AtomicInv, Rows
      <4> QED
        BY <4>1
    <3>3. CASE b.mode # "atomic"
      <4>1. RowsInv(b)
        BY <2>1, <3>3 DEF CallInv, BatchesInv
      <4>2. p <= Past(b) \/ p > Past(b)
        BY <2>2, <2>4 DEF Past, Rows
      <4>3. Settled(b, p) \/ Untouched(b, p) \/ Again(b, p)
        BY <4>1, <4>2 DEF RowsInv, Rows
      <4>4. CASE Settled(b, p)
        BY <2>6, <4>4 DEF Settled
      <4>5. CASE Untouched(b, p) \/ Again(b, p)
        <5>1. b.times[p] <= 1
          BY <4>5 DEF Untouched, Again
        <5> QED
          BY <3>1, <5>1
      <4> QED
        BY <4>3, <4>4, <4>5
    <3> QED
      BY <3>2, <3>3
  <2>8. WrittenTwiceOnlyInDoubt
    BY <2>7 DEF WrittenTwiceOnlyInDoubt
  <2>9. b.row <= BatchRows /\ b.written <= 2 * Len(b.rows)
    <3>1. CASE b.mode = "atomic"
      <4>1. b.row = 0 /\ b.written <= b.next
        BY <2>1, <3>1 DEF CallInv, AtomicInv
      <4> QED
        BY <2>2, <2>4, <4>1
    <3>2. CASE b.mode # "atomic"
      <4>1. BatchesInv(b)
        BY <2>1, <3>2 DEF CallInv
      <4>2. b.row <= Size(b)
        BY <2>3, <2>4, <4>1 DEF BatchesInv
      <4>3. Bound(b) <= 2 * (b.next + Size(b)) /\ Bound(b) \in Int
        BY <2>3, <2>4, <4>2 DEF Bound
      <4>4. b.written <= Bound(b)
        BY <4>1 DEF BatchesInv
      <4> QED
        BY <2>2, <2>3, <2>4, <4>2, <4>3, <4>4
    <3> QED
      BY <3>1, <3>2
  <2>10. b.times \in [DOMAIN b.rows -> 0 .. 2]
    <3>1. b.times \in [DOMAIN b.rows -> Nat] /\ \A p \in DOMAIN b.rows : b.times[p] <= 2
      BY <2>1, <2>7 DEF CallTyped, Rows
    <3>2. \A p \in DOMAIN b.rows : b.times[p] \in 0 .. 2
      BY <3>1
    <3> QED
      BY <3>1, <3>2
  <2>11. TypeOK
    <3>1. b.next \in 0 .. Len(b.rows) /\ b.row \in 0 .. BatchRows
      BY <2>2, <2>4, <2>9
    <3>2. b.written \in 0 .. 2 * Len(b.rows)
      BY <2>2, <2>4, <2>9
    <3> QED
      BY <1>1, <2>1, <2>10, <3>1, <3>2 DEF TypeOK, IInv, CallTyped, Running
  <2>12. ASSUME b.pc = "returned", NEW p \in Rows
         PROVE  /\ p \in b.dropped \/ b.times[p] > 0
                /\ p \in b.dropped /\ b.times[p] > 0 => p \in InDoubt
    <3>1. CASE b.mode = "atomic"
      <4>1. b.times[p] = 1 /\ b.dropped = {}
        BY <2>1, <2>12, <3>1 DEF CallInv, AtomicInv, Rows
      <4> QED
        BY <4>1
    <3>2. CASE b.mode # "atomic"
      <4>1. RowsInv(b) /\ b.row = 0 /\ b.next = Len(b.rows)
        BY <2>1, <2>12, <3>2 DEF CallInv, BatchesInv
      <4>2. p <= Past(b)
        BY <2>2, <4>1 DEF Past, Rows
      <4>3. Settled(b, p)
        BY <4>1, <4>2 DEF RowsInv, Rows
      <4> QED
        BY <2>6, <4>3 DEF Settled
    <3> QED
      BY <3>1, <3>2
  <2>13. EveryRowAccounted
    BY <2>12 DEF EveryRowAccounted
  <2> QED
    BY <2>8, <2>11, <2>13 DEF RowsAccounted
<1> QED
  BY <1>1, Invariance, PTL

\* row_count of a call none of whose COMMITs failed is the number of rows it wrote, and
\* together with the dropped ones these are all its rows, unless the table leaves rows out.
THEOREM Counts == Spec => []CountedRight
<1>1. ASSUME IInv, RowsAccounted PROVE CountedRight
  <2> DEFINE b == bulk
  <2> SUFFICES ASSUME b.pc = "returned", kind # "upsert", b.failedCommits = {}
               PROVE  /\ b.written = Cardinality(Done(b))
                      /\ b.written + Cardinality(b.dropped) = Len(b.rows)
    BY DEF CountedRight, Done, Rows
  <2>1. CallTyped(b) /\ CallInv(b) /\ CountInv(b)
    BY <1>1 DEF IInv
  <2>2. b.written = Cardinality(Done(b)) + Cardinality(b.open)
    BY <2>1, CountIs
  <2>3. b.open = {}
    BY <2>1 DEF CallInv, AtomicInv, BatchesInv
  <2>4. Done(b) \in SUBSET DOMAIN b.rows /\ b.dropped \in SUBSET DOMAIN b.rows
    BY <2>1 DEF CallTyped, Done
  <2>5. /\ IsFiniteSet(Done(b)) /\ Cardinality(Done(b)) \in Nat
        /\ IsFiniteSet(b.dropped) /\ Cardinality(b.dropped) \in Nat
        /\ Cardinality(DOMAIN b.rows) = Len(b.rows)
    BY <2>1, <2>4, RowsFinite
  <2>6. b.written = Cardinality(Done(b))
    BY <2>2, <2>3, <2>5, FS_EmptySet
  <2>7. InDoubt = {}
    BY DEF InDoubt, FailedBy
  <2>8. Done(b) \cup b.dropped = DOMAIN b.rows /\ Done(b) \cap b.dropped = {}
    <3>1. \A p \in DOMAIN b.rows :
            /\ p \in b.dropped \/ b.times[p] > 0
            /\ ~(p \in b.dropped /\ b.times[p] > 0)
      BY <1>1, <2>7 DEF RowsAccounted, EveryRowAccounted, Rows
    <3> QED
      BY <2>4, <3>1 DEF Done
  <2>9. Cardinality(DOMAIN b.rows) = Cardinality(Done(b)) + Cardinality(b.dropped)
    BY <2>5, <2>8, AddsUp
  <2> QED
    BY <2>5, <2>6, <2>9
<1> QED
  BY <1>1, Invariance, Accounted, PTL
=============================================================================
