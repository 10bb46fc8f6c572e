----------------------------- MODULE Decisions -----------------------------
(***************************************************************************)
(* The decisions of the pure core, asked one at a time: what becomes of a  *)
(* failed attempt, how long an attempt may take, how rows are cut into     *)
(* batches, which configuration is accepted.  A question is a state; the   *)
(* properties compare its answer with what the answer is for.              *)
(***************************************************************************)
EXTENDS Policies, Configuration

CONSTANTS
  RetryConfigs,    \* [attempts, reads, writes]
  Timings,         \* [call, query, default, deadline] of a call, None where not given
  Waits,           \* how long a tier of the limiter may be waited for
  BatchLimits,     \* [rows, params, bytes]
  RowSizes,        \* estimated sizes of rows
  MaxRows,         \* bound: rows of a bulk write
  MaxColumns,      \* bound: columns of a row
  Requests,        \* batch sizes a caller may ask for
  RawConfigs       \* mappings to configure from

\* Finitely many databases and targets, with numbers where there should be numbers.
HasNumbers(config) ==
  /\ IsFiniteSet(DOMAIN config.databases)
  /\ config.connection_budget.maximum_per_process \in Int \cup {None}
  /\ \A name \in DOMAIN config.databases :
       LET db == config.databases[name]
       IN  /\ IsFiniteSet(DOMAIN db.targets)
           /\ db.connection_budget.maximum_per_process \in Int \cup {None}
           /\ \A i \in DOMAIN db.targets :
                LET pool == PoolFor(db.targets[i], config.defaults)
                IN  pool.size \in Int /\ pool.max_overflow \in Int

ASSUME DecisionsAssumption ==
  /\ None \notin Int \cup Codes \cup ErrorClasses
  /\ Timings \subseteq [call : Int \cup {None}, query : Int \cup {None}, default : Int,
                        deadline : Int \cup {None}]
  /\ Waits \subseteq Nat /\ RowSizes \subseteq Nat /\ MaxRows \in Nat /\ MaxColumns \in Nat
  /\ BatchLimits \subseteq [rows : Nat, params : Nat, bytes : Nat \cup {None}]
  /\ Requests \subseteq Int \cup {None}
  /\ \A raw \in RawConfigs : Complete(raw) => HasNumbers(BuildConfig(raw))

VARIABLE asked

NoQuestion == [about |-> "nothing"]

DecisionsInit == asked = NoQuestion

\* An attempt of a call ends in an exception, raised by the statement or by COMMIT.
AskFailure ==
  /\ asked = NoQuestion
  /\ \E e \in Exceptions, phase \in {"statement", "commit"}, s \in StatementForms,
        retry \in RetryConfigs, attempt \in 1 .. 2 :
       /\ IsSensible(s)
       /\ phase = "commit" => s.writes /\ e.form # "driver"
       /\ asked' = [about |-> "failure", error |-> e, phase |-> phase, statement |-> s,
                    retry |-> retry, attempt |-> attempt]

AskTiming ==
  /\ asked = NoQuestion
  /\ \E api \in {"sync", "async"}, t \in Timings, database \in Waits, tier \in Waits :
       asked' = [about |-> "timing", api |-> api, timing |-> t, waits |-> <<database, tier>>]

AskBatches ==
  /\ asked = NoQuestion
  /\ \E rows \in BoundedSeq(RowSizes, MaxRows), columns \in 0 .. MaxColumns,
        requested \in Requests, limits \in BatchLimits :
       /\ rows # <<>>
       /\ asked' = [about |-> "batches", rows |-> rows, columns |-> columns,
                    requested |-> requested, limits |-> limits]

AskConfig ==
  /\ asked = NoQuestion
  /\ \E raw \in RawConfigs : asked' = [about |-> "config", raw |-> raw]

Answered == asked # NoQuestion /\ asked' = NoQuestion

DecisionsNext == AskFailure \/ AskTiming \/ AskBatches \/ AskConfig \/ Answered

DecisionsSpec == DecisionsInit /\ [][DecisionsNext]_asked

-----------------------------------------------------------------------------
(* Properties *)

Class(q) == Reported(q.error, q.phase)

Repeated(q) == Repeats(q.statement, Class(q), q.attempt, q.retry)

\* Whether COMMIT may have been carried out when it ends in this exception.
MayBeCommitted(e) ==
  \/ e.form \in {"os", "deadline"} \/ (e.form = "dbapi" /\ e.lost)
  \/ e.code = <<"40", "003">> \/ (e.form = "dbkit" /\ e.class = "CommitUnknown")

\* A COMMIT that may have been carried out is never repeated, whatever the statement and
\* the policy, and no HTTP client is told to come back with the same request.
OutcomeUnknownIsFinal ==
  asked.about = "failure" =>
    (asked.phase = "commit" /\ MayBeCommitted(asked.error) =>
       ~Repeated(asked) /\ Status(Class(asked)) # 503)

\* A statement that writes is repeated only where the policy and the query allow it, or
\* when it is a bare one, which passes for a read; and of those a query declares safe,
\* `dbkit query-list` flags the INSERT without a guard.
WritesRepeatedAsDeclared ==
  asked.about = "failure" =>
    LET s == asked.statement
    IN  Repeated(asked) /\ s.writes /\ s.form = "query" =>
          /\ asked.retry.writes /\ s.idempotent
          /\ s.text = "insert" => LooksUnsafeToRetry(s)

\* A statement that got its slots in time runs under a limit, which ends by the caller's
\* deadline.  It has none when the deadline passed while it waited, or when a timeout is not
\* positive; and the timeout of a query is used as it is, deadline or not.
RunsWithinDeadline ==
  asked.about = "timing" =>
    LET t == asked.timing
        a == Attempt(asked.api, t, asked.waits)
        inTime == t.deadline # None => a.begins < t.deadline
        positive == \A limit \in {t.call, t.query, t.default} : limit # None => limit > 0
    IN  ~a.overloaded /\ inTime /\ positive =>
          /\ a.limit # NoLimit
          /\ t.deadline # None /\ t.query = None => a.begins + a.limit <= t.deadline

\* Every row is in one batch, in order; and a batch of several rows stays within each of
\* the limits, the size of its rows taken to be that of the first row of all.
BatchesFit ==
  asked.about = "batches" =>
    LET q == asked
        size == ResolveBatchRows(q.columns, q.requested, q.limits, Head(q.rows))
        batches == IterBatches(q.rows, size)
    IN  /\ FlattenSeq(batches) = q.rows
        /\ \A i \in DOMAIN batches :
             /\ batches[i] # <<>>
             /\ Len(batches[i]) > 1 /\ q.columns > 0 =>
                  /\ Len(batches[i]) <= q.limits.rows
                  /\ Len(batches[i]) * q.columns <= q.limits.params
                  /\ q.limits.bytes # None =>
                       Len(batches[i]) * Head(q.rows) <= q.limits.bytes

\* What a pool may really open; one that is disabled, or of size 0, has no bound to count.
Opens(pool) ==
  IF pool.disable_pooling \/ pool.size <= 0 THEN 0 ELSE pool.size + pool.max_overflow

\* What the pools of a database may, its primary and its replicas with the pools they get.
DatabaseOpens(db, defaults) ==
  SumFunction([i \in DOMAIN db.targets |-> Opens(PoolFor(db.targets[i], defaults))])

\* A pool of its own with negative numbers, which nothing refuses.
HasNegativePool(config) ==
  \E name \in DOMAIN config.databases :
    \E i \in DOMAIN config.databases[name].targets :
      LET pool == PoolFor(config.databases[name].targets[i], config.defaults)
      IN  pool.size < 0 \/ pool.max_overflow < 0

OpensWithin(config, budget, names) ==
  budget.maximum_per_process # None =>
    SumFunction([name \in names |-> DatabaseOpens(config.databases[name], config.defaults)])
      <= budget.maximum_per_process

\* An accepted configuration that enforces a budget, or that is run outside development
\* without a warning, cannot open more connections than the budget says, of the process
\* and of each database: primary and replicas with the pools they really get.  A process
\* without a budget is warned of.
BudgetHolds ==
  asked.about = "config" =>
    (Accepted(asked.raw) =>
       LET config == BuildConfig(asked.raw)
           silent == config.environment # "development" /\ BudgetWarnings(config) = {}
           Holds(budget, names) ==
             budget.enforce_at_startup \/ silent => OpensWithin(config, budget, names)
       IN  ~HasNegativePool(config) =>
             /\ Holds(config.connection_budget, DOMAIN config.databases)
             /\ \A name \in DOMAIN config.databases :
                  Holds(config.databases[name].connection_budget, {name})
             /\ silent => config.connection_budget.maximum_per_process # None)
=============================================================================
