-------------------------- MODULE TransactionBlock --------------------------
(***************************************************************************)
(* What the body of `db.transaction()` and `db.connection()` may do with   *)
(* its connection, and what the one-shot calls of the facade do with       *)
(* theirs, in both frontends: statements with timeouts and settings,       *)
(* savepoints, advisory locks (dbkit/_sync/connection.py, transaction.py   *)
(* and database.py, generated from their _async twins), against a server   *)
(* that keeps the settings, savepoints and locks.                          *)
(*                                                                         *)
(* ConnectionUse covers cancellations, lost connections and the way back   *)
(* to the pool; here statements fail on a connection that lives.           *)
(* A timeout is counted in half milliseconds and 0 stands for one that is  *)
(* not positive; a server limit is in milliseconds and 0 means no limit.   *)
(***************************************************************************)
EXTENDS Naturals, Sequences, FiniteSets

CONSTANTS
  Keys,            \* advisory lock keys
  Queries,         \* what bodies execute: [method, timeout, setting]
  Timeouts,        \* timeouts a caller may give a block, None included
  LockTimeouts,    \* likewise for lock_timeout
  DefaultTimeout,  \* transaction_timeout_seconds or query_timeout_seconds
  MaxStatements,   \* bound: statements of one block
  MaxDepth,        \* bound: savepoints of one block open at once
  None

Apis == {"sync", "async"}
\* "fetch" and "execute" are the one-shot calls: a single statement, not committed or
\* committed, and an exception goes straight to the caller.
OneShot == {"fetch", "execute"}
Kinds == {"transaction", "connection"} \cup OneShot
Methods == {"all", "one", "optional", "value", "values", "execute"}

ASSUME BlockAssumption ==
  /\ DefaultTimeout \in Nat \ {0}
  /\ MaxStatements \in Nat \ {0} /\ MaxDepth \in Nat
  /\ None \notin Nat
  /\ Timeouts \subseteq Nat \cup {None} /\ LockTimeouts \subseteq Nat \cup {None}
  /\ Queries \subseteq [method : Methods, timeout : Nat \cup {None},
                        setting : (Nat \ {0}) \cup {None}]

VARIABLES
  block,   \* the block a task or thread is in, or its last one
  others   \* keys whose locks other sessions hold

vars == <<block, others>>

Statements == 1 .. MaxStatements

\* `limit`, `failed`, `done`, `locks` and `saved` are the server's: statement_timeout,
\* whether the transaction is aborted, the statements in effect, and what each open
\* savepoint goes back to.  The rest is the client's: `expected` are the statements the
\* body was told succeeded, less those of savepoints it left by an exception, with
\* `outer` what was expected on entering each savepoint; `disputed` took effect but were
\* reported as failed; `caught` says the body went on after an error that had aborted
\* the transaction; `ran` is the last statement's timeout and the bound it ran under.
Savepoints == [limit : Nat, done : SUBSET Statements, locks : SUBSET Keys]

Blocks ==
  [pc : {"idle", "body", "raising", "waiting"}, api : Apis, postgres : BOOLEAN, kind : Kinds,
   default : Nat, lockLimit : Nat, key : Keys \cup {None},
   limit : Nat, failed : BOOLEAN, done : SUBSET Statements, locks : SUBSET Keys,
   saved : Seq(Savepoints), n : 0 .. MaxStatements,
   expected : SUBSET Statements, outer : Seq(SUBSET Statements),
   disputed : SUBSET Statements, kept : SUBSET Keys, caught : BOOLEAN,
   ran : [asked : Nat, bound : Nat],
   verdict : {"none", "returned", "raised"}, tx : {"none", "open", "committed", "aborted"}]

TypeOK ==
  /\ block \in Blocks
  /\ Len(block.saved) = Len(block.outer) /\ Len(block.saved) <= MaxDepth
  /\ others \in SUBSET Keys

-----------------------------------------------------------------------------
(* Timeouts *)

\* apply_statement_timeout_sql and the lock_timeout of _apply_settings: whole
\* milliseconds, and at least one, since 0 would switch the limit off.
Millis(t) == IF t \div 2 > 1 THEN t \div 2 ELSE 1

SetLocal(t, limit) == IF t > 0 THEN Millis(t) ELSE limit

\* The timeout of a scope, and AsyncConnectionScope._resolve: a query's own timeout
\* before that of the scope.
Resolve(t, default) == IF t # None THEN t ELSE default

\* Mutant: settings are applied after the timeout.
LimitFor_SettingsLast(b, q) ==
  IF q.setting # None THEN q.setting
  ELSE IF b.api = "sync" THEN SetLocal(Resolve(q.timeout, b.default), b.limit) ELSE b.limit

\* _apply_local_settings comes first, then _maybe_set_timeout, which is for the sync
\* frontend only: statement_timeout as the statement finds it.
LimitFor(b, q) ==
  LET own == IF q.setting # None THEN q.setting ELSE b.limit
  IN  IF b.api = "sync" /\ b.postgres THEN SetLocal(Resolve(q.timeout, b.default), own)
                                       ELSE own

\* timeout_scope: asyncio.timeout in the async frontend, none for 0 and below.
ClientLimit(b, q) ==
  IF b.api = "async" THEN SetLocal(Resolve(q.timeout, b.default), 0) ELSE 0

Tighter(x, y) == IF x = 0 THEN y ELSE IF y = 0 \/ x < y THEN x ELSE y

\* Result.one(), one_or_none(), scalar_one(), all(): whether the method accepts a result
\* of that many rows.  What it refuses is a DatabaseResultError.
Accepts(method, rows) ==
  CASE method \in {"one", "value"}             -> rows = 1
    [] method = "optional"                     -> rows <= 1
    [] method \in {"all", "values", "execute"} -> TRUE

-----------------------------------------------------------------------------
Fresh(api, postgres, kind) ==
  [pc |-> "idle", api |-> api, postgres |-> postgres, kind |-> kind,
   default |-> 0, lockLimit |-> 0, key |-> None,
   limit |-> 0, failed |-> FALSE, done |-> {}, locks |-> {}, saved |-> <<>>, n |-> 0,
   expected |-> {}, outer |-> <<>>, disputed |-> {}, kept |-> {}, caught |-> FALSE,
   ran |-> [asked |-> 0, bound |-> 0], verdict |-> "none", tx |-> "none"]

Init ==
  /\ block \in {Fresh(api, postgres, "transaction") : api \in Apis, postgres \in BOOLEAN}
  /\ others = {}

Becomes(b) == block' = b /\ UNCHANGED others

\* An exception is on its way out of the body.
Raising(b) == [b EXCEPT !.pc = "raising"]

\* The server refuses a statement: the transaction is aborted.
Aborted(b) == [Raising(b) EXCEPT !.failed = TRUE]

-----------------------------------------------------------------------------
(* Entering a block *)

\* Mutant: __aenter__ leaves the statement timeout to the statements.
EnterTransaction_NoStatementTimeout(timeout, lockTimeout) ==
  /\ block.pc = "idle"
  /\ Becomes([Fresh(block.api, block.postgres, "transaction") EXCEPT
                !.pc = "body", !.tx = "open", !.default = Resolve(timeout, DefaultTimeout)])

\* __aenter__: BEGIN, then SET LOCAL statement_timeout and lock_timeout.
EnterTransaction(timeout, lockTimeout) ==
  /\ block.pc = "idle"
  /\ LET default == Resolve(timeout, DefaultTimeout)
         OnPostgres(t) == IF block.postgres THEN SetLocal(t, 0) ELSE 0
     IN  Becomes([Fresh(block.api, block.postgres, "transaction") EXCEPT
                    !.pc = "body", !.tx = "open", !.default = default,
                    !.limit = OnPostgres(default),
                    !.lockLimit = OnPostgres(Resolve(lockTimeout, 0))])

\* A scope of the executor sets nothing; SQLAlchemy begins with the first statement.
EnterScope(kind, timeout) ==
  /\ block.pc = "idle" /\ kind # "transaction"
  /\ Becomes([Fresh(block.api, block.postgres, kind) EXCEPT
                !.pc = "body", !.tx = "open", !.default = Resolve(timeout, DefaultTimeout)])

-----------------------------------------------------------------------------
(* The body *)

Prepared(b, q) ==
  [b EXCEPT !.n = @ + 1, !.limit = LimitFor(b, q),
            !.ran = [asked |-> Resolve(q.timeout, b.default),
                     bound |-> Tighter(LimitFor(b, q), ClientLimit(b, q))]]

MayExecute(q) ==
  /\ block.pc = "body" /\ ~block.failed
  /\ block.n < (IF block.kind \in OneShot THEN 1 ELSE MaxStatements)
  /\ block.kind \in OneShot => (q.method = "execute") = (block.kind = "execute")

Unsupported(q) == q.setting # None /\ ~block.postgres

\* fetch_all ... execute: the statement takes effect and its result has `rows` rows.
Execute(q, rows) ==
  LET b == Prepared(block, q)
  IN  /\ MayExecute(q) /\ ~Unsupported(q)
      /\ Becomes(IF Accepts(q.method, rows)
                 THEN [b EXCEPT !.done = @ \cup {b.n}, !.expected = @ \cup {b.n}]
                 ELSE [Raising(b) EXCEPT !.done = @ \cup {b.n},
                                         !.disputed = @ \cup {b.n}])

\* The statement fails, or is cut off by one of its limits.
ExecuteFails(q) ==
  /\ MayExecute(q) /\ ~Unsupported(q)
  /\ Becomes(Aborted(Prepared(block, q)))

\* Settings are for PostgreSQL; the database is not asked.
SettingsRefused(q) == MayExecute(q) /\ Unsupported(q) /\ Becomes(Raising(block))

\* In an aborted transaction every statement is refused, SAVEPOINT and SET included.
Refused ==
  /\ block.pc = "body" /\ block.failed /\ block.kind \notin OneShot
  /\ Becomes(Raising(block))

\* savepoint(): SAVEPOINT.
EnterSavepoint ==
  LET b == block
  IN  /\ b.pc = "body" /\ b.kind = "transaction" /\ ~b.failed /\ Len(b.saved) < MaxDepth
      /\ Becomes([b EXCEPT
           !.saved = <<[limit |-> b.limit, done |-> b.done, locks |-> b.locks]>> \o @,
           !.outer = <<b.expected>> \o @])

\* The block of a savepoint ends: RELEASE, which an aborted transaction refuses.
LeaveSavepoint ==
  LET b == [block EXCEPT !.saved = Tail(@), !.outer = Tail(@)]
  IN  /\ block.pc = "body" /\ block.saved # <<>>
      /\ Becomes(IF b.failed THEN Raising(b) ELSE b)

\* Mutant: the savepoint is only forgotten.
SavepointUndone_Forgotten ==
  /\ block.pc = "raising" /\ block.saved # <<>>
  /\ Becomes([block EXCEPT !.saved = Tail(@), !.outer = Tail(@), !.failed = FALSE,
                           !.expected = Head(block.outer)])

\* Mutant: the whole transaction is rolled back and a new one begins.
SavepointUndone_WholeTransaction ==
  /\ block.pc = "raising" /\ block.saved # <<>>
  /\ Becomes([block EXCEPT !.saved = Tail(@), !.outer = Tail(@), !.failed = FALSE,
                           !.done = {}, !.locks = {}, !.expected = Head(block.outer)])

\* An exception leaves it: ROLLBACK TO, which also undoes SET LOCAL and frees the locks
\* taken since, and makes an aborted transaction usable again.
SavepointUndone ==
  LET b == block
      s == Head(b.saved)
  IN  /\ b.pc = "raising" /\ b.saved # <<>>
      /\ Becomes([b EXCEPT
           !.saved = Tail(@), !.outer = Tail(@), !.failed = FALSE, !.limit = s.limit,
           !.done = s.done, !.locks = s.locks, !.expected = Head(b.outer)])

Granted(b, k) ==
  [b EXCEPT !.pc = "body", !.key = None, !.locks = @ \cup {k},
            !.kept = IF b.saved = <<>> THEN @ \cup {k} ELSE @]

MayLock == block.pc = "body" /\ block.kind = "transaction" /\ ~block.failed /\ block.postgres

\* advisory_xact_lock: granted at once, or wait.
Lock(k) ==
  /\ MayLock
  /\ Becomes(IF k \in others THEN [block EXCEPT !.pc = "waiting", !.key = k]
                              ELSE Granted(block, k))

\* try_advisory_xact_lock never waits; when it is refused nothing changes.
TryLock(k) == MayLock /\ k \notin others /\ Becomes(Granted(block, k))

LockGranted ==
  /\ block.pc = "waiting" /\ block.key \notin others
  /\ Becomes(Granted(block, block.key))

\* lock_timeout or statement_timeout ends the wait.
LockWaitCut ==
  LET b == block
  IN  /\ b.pc = "waiting" /\ Tighter(b.limit, b.lockLimit) > 0
      /\ Becomes([Aborted(b) EXCEPT !.key = None])

\* PostgreSQL finds a cycle of waits, which holds a lock of the block, and picks it as
\* the victim.
DeadlockBroken ==
  /\ block.pc = "waiting" /\ block.locks # {}
  /\ Becomes([Aborted(block) EXCEPT !.key = None])

\* The body raises an exception of its own.
BodyRaises == block.pc = "body" /\ block.kind \notin OneShot /\ Becomes(Raising(block))

\* The body catches the exception and goes on.
Catch ==
  LET b == block
  IN  /\ b.pc = "raising" /\ b.kind \notin OneShot
      /\ Becomes([b EXCEPT !.pc = "body", !.caught = @ \/ b.failed])

-----------------------------------------------------------------------------
(* Leaving a block *)

\* The transaction is over on the server: locks and local settings go with it.
Over(b, tx) == [b EXCEPT !.pc = "idle", !.locks = {}, !.limit = 0, !.tx = tx]

\* _commit: COMMIT of an aborted transaction rolls back, and reports no error.
Commit ==
  LET b == block
  IN  /\ b.pc = "body" /\ b.saved = <<>> /\ b.kind # "fetch"
      /\ b.kind \in OneShot => b.n = 1
      /\ Becomes([Over(b, IF b.failed THEN "aborted" ELSE "committed")
                    EXCEPT !.verdict = "returned"])

\* scope(commit=False): close() rolls back, whatever the statement was.
CloseUncommitted ==
  /\ block.pc = "body" /\ block.kind = "fetch" /\ block.n = 1
  /\ Becomes([Over(block, "aborted") EXCEPT !.verdict = "returned"])

Rollback ==
  /\ block.pc = "raising" /\ block.saved = <<>>
  /\ Becomes([Over(block, "aborted") EXCEPT !.verdict = "raised"])

-----------------------------------------------------------------------------
\* Other sessions take and free locks.
OthersLock ==
  /\ \E k \in Keys : others' \in {others \cup {k}, others \ {k}} /\ k \notin block.locks
  /\ UNCHANGED block

Next ==
  \/ \E timeout \in Timeouts, lockTimeout \in LockTimeouts :
       EnterTransaction(timeout, lockTimeout)
  \/ \E kind \in Kinds, timeout \in Timeouts : EnterScope(kind, timeout)
  \/ \E q \in Queries, rows \in 0 .. 2 : Execute(q, rows)
  \/ \E q \in Queries : ExecuteFails(q) \/ SettingsRefused(q)
  \/ Refused \/ EnterSavepoint \/ LeaveSavepoint \/ SavepointUndone
  \/ \E k \in Keys : Lock(k) \/ TryLock(k)
  \/ LockGranted \/ LockWaitCut \/ DeadlockBroken \/ OthersLock
  \/ BodyRaises \/ Catch \/ Commit \/ CloseUncommitted \/ Rollback

Spec == Init /\ [][Next]_vars

-----------------------------------------------------------------------------
(* Properties *)

\* What a block leaves in the database is what its body was told: statements that
\* returned and whose savepoints were not left by an exception are there, and nothing
\* else but those of a refused result.  It is rolled back although the caller is told
\* nothing only when it was a one-shot fetch, or when the body went on after an error
\* that had aborted the transaction.
CommittedAsTold ==
  block.verdict = "returned" =>
    /\ block.tx = "committed" =>
         /\ block.expected \subseteq block.done
         /\ block.done \subseteq block.expected \cup block.disputed
    /\ block.tx = "aborted" => block.caught \/ block.kind = "fetch"

\* A statement with a timeout runs under a limit at least as tight, whatever earlier
\* statements, savepoints and its own settings have made of statement_timeout.  The sync
\* frontend has only the server to enforce it, and asks only PostgreSQL to.
RunsWithinTimeout ==
  block.ran.asked > 0 /\ (block.api = "async" \/ block.postgres) =>
    block.ran.bound > 0 /\ block.ran.bound <= Millis(block.ran.asked)

\* Advisory locks are waited for without a deadline of their own: in a block with a
\* timeout the server's limits must end the wait, whatever was executed before.
LockWaitsBounded == block.pc = "waiting" /\ block.default > 0 => block.limit > 0

\* No statement and no wait of a block with a timeout goes on for ever.
TimeoutsHold == RunsWithinTimeout /\ LockWaitsBounded

\* A lock taken outside the savepoints is held until the block ends, as the docstring of
\* advisory_xact_lock promises of all locks; one taken inside is lost with its savepoint.
LocksKept == block.pc # "idle" => block.kept \subseteq block.locks
=============================================================================
