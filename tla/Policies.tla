------------------------------ MODULE Policies ------------------------------
(***************************************************************************)
(* The pure decisions of the call pipeline: what kind of statement a call  *)
(* carries, whether a failed attempt is repeated, how long each step may   *)
(* take, and how bulk rows are cut into batches (dbkit/_core/policies.py,  *)
(* query.py, idempotency_lint.py, bulk.py), as the executor combines them. *)
(***************************************************************************)
EXTENDS ErrorClassification, Integers, SequencesExt, FiniteSetsExt

\* What a caller passes: a Query, or a bare sql(...) statement.  `writes` is what the SQL
\* does, `text` what the lint can see of it; only a Query declares anything.
StatementForms ==
  [form : {"query", "sql"}, writes : BOOLEAN, idempotent : BOOLEAN,
   text : {"select", "insert", "guarded_insert", "update", "core"}]

\* Statements that make sense: text agrees with effect, and a bare statement declares nothing.
IsSensible(s) ==
  /\ s.writes = (s.text # "select")
  /\ s.idempotent => s.form = "query"

-----------------------------------------------------------------------------
(* Repeating an attempt *)

\* query_meta: a bare statement is an "adhoc" read.
DeclaredWrite(s) == s.form = "query" /\ s.writes

DeclaredIdempotent(s) == s.form = "query" /\ s.idempotent

\* Mutant: reads and writes are not told apart.
Repeats_AnyStatement(s, class, attempt, retry) ==
  /\ attempt < retry.attempts
  /\ class \in RetryableClasses \ UnknownOutcomeClasses
  /\ retry.reads \/ retry.writes

\* should_retry, with is_idempotent; the pipeline gives it no idempotent_override.
Repeats(s, class, attempt, retry) ==
  /\ attempt < retry.attempts
  /\ class \in RetryableClasses \ UnknownOutcomeClasses
  /\ IF DeclaredWrite(s) THEN retry.writes /\ DeclaredIdempotent(s) ELSE retry.reads

\* looks_unsafe_to_retry: the flag of `dbkit query-list`.
LooksUnsafeToRetry(s) ==
  DeclaredWrite(s) /\ DeclaredIdempotent(s) /\ s.text = "insert"

-----------------------------------------------------------------------------
(* Timeouts, in ticks; None stands for no timeout *)

\* Mutant: the caller's deadline is for retries only.
EffectiveTimeout_NoDeadline(t, now) == FirstGiven(t.call, FirstGiven(t.query, t.default))

\* resolve_timeout, remaining_deadline and effective_timeout.
EffectiveTimeout(t, now) ==
  LET base == FirstGiven(t.call, FirstGiven(t.query, t.default))
      remaining == t.deadline - now
  IN  IF t.deadline # None /\ remaining < base THEN remaining ELSE base

\* semaphore_acquire: asyncio.wait_for refuses a timeout that is not positive even when
\* a slot is free, threading.Semaphore takes the slot.
SlotInTime(api, wait, timeout) ==
  wait <= timeout \/ (wait = 0 /\ api = "sync")

\* timeout_scope and _maybe_set_timeout: no limit for a timeout of zero or below.
NoLimit == None

LimitOf(timeout) == IF timeout > 0 THEN timeout ELSE NoLimit

\* One attempt: both tiers are waited for with the timeout computed at its start, the
\* scope computes another when it has its slots, and the statement prefers that of its
\* query.  `begins` is when the scope computes its timeout.
Attempt(api, t, waits) ==
  LET first  == EffectiveTimeout(t, 0)
      begins == waits[1] + waits[2]
      scope  == EffectiveTimeout(t, begins)
  IN  [overloaded |-> ~(SlotInTime(api, waits[1], first) /\ SlotInTime(api, waits[2], first)),
       begins     |-> begins,
       limit      |-> LimitOf(FirstGiven(t.query, scope))]

-----------------------------------------------------------------------------
(* Batches *)

AtLeastOne(n) == Max({n, 1})

\* `requested or limits.max_rows`: asking for 0 rows asks for nothing.
Wanted(requested, limits) == IF requested \in {None, 0} THEN limits.rows ELSE requested

\* Mutant: parameters are not counted.
ResolveBatchRows_NoParams(columns, requested, limits, rowBytes) ==
  AtLeastOne(Min({Wanted(requested, limits), limits.rows}))

\* resolve_batch_rows: the bytes of the first row stand for those of every row.
ResolveBatchRows(columns, requested, limits, rowBytes) ==
  LET wanted == Wanted(requested, limits)
      byParams == AtLeastOne(limits.params \div columns)
      byBytes == IF limits.bytes # None /\ rowBytes > 0
                 THEN {AtLeastOne(limits.bytes \div rowBytes)} ELSE {}
  IN  IF columns = 0 THEN AtLeastOne(wanted)
      ELSE AtLeastOne(Min({wanted, limits.rows, byParams} \cup byBytes))

\* iter_batches: contiguous slices.
IterBatches(rows, size) ==
  [i \in 1 .. (Len(rows) + size - 1) \div size |->
     SubSeq(rows, (i - 1) * size + 1, Min({i * size, Len(rows)}))]
=============================================================================
