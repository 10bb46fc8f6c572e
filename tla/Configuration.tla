--------------------------- MODULE Configuration ---------------------------
(***************************************************************************)
(* dbkit/_core/config.py: a mapping, as read from YAML, becomes a DbkitConfig *)
(* or is refused; the connection budget, and the warnings of `dbkit check`. *)
(*                                                                         *)
(* A mapping is a function on the keys it has: a key left out is not one   *)
(* set to null (None).  Of the sections only what is validated or budgeted *)
(* is kept; the others are copied field by field, with the same defaults   *)
(* for a section left out and an empty one.  Environment variables are     *)
(* expanded already.                                                       *)
(***************************************************************************)
EXTENDS Optional, Integers, Functions

\* data.get(key, default)
Get(data, key, default) == IF key \in DOMAIN data THEN data[key] ELSE default

-----------------------------------------------------------------------------
(* Sections *)

\* PoolConfig; timeouts are in ticks.
PoolDefaults == [size |-> 10, max_overflow |-> 5, timeout_seconds |-> 5, disable_pooling |-> FALSE]

\* _pool: None for a section that is left out or null.
PoolOf(data) ==
  IF data = None THEN None ELSE [f \in DOMAIN PoolDefaults |-> Get(data, f, PoolDefaults[f])]

NoBudget == [maximum_per_process |-> None, enforce_at_startup |-> FALSE]

\* _budget, with its older name for the limit.
BudgetOf(data) ==
  IF data = None THEN NoBudget
  ELSE [maximum_per_process |->
          Get(data, "maximum_per_process", Get(data, "maximum_application_share", None)),
        enforce_at_startup |-> Get(data, "enforce_at_startup", FALSE)]

\* _defaults with _retry and _circuit_breaker.
DefaultsOf(data) ==
  LET given == IF data = None THEN <<>> ELSE data
      pool  == PoolOf(Get(given, "pool", None))
  IN  [pool |-> IF pool = None THEN PoolDefaults ELSE pool,
       attempts |-> Get(given, "attempts", 2),
       failure_threshold |-> Get(given, "failure_threshold", 10)]

\* _target.
TargetOf(data) == [url |-> data.url, pool |-> PoolOf(Get(data, "pool", None))]

\* _database: the primary first, as in all_targets.
DatabaseOf(data) ==
  LET raw == <<data.primary>> \o Get(data, "replicas", <<>>)
  IN  [targets |-> [i \in DOMAIN raw |-> TargetOf(raw[i])],
       connection_budget |-> BudgetOf(Get(data, "connection_budget", None))]

\* _build_config
BuildConfig(raw) ==
  [databases |-> [name \in DOMAIN raw.databases |-> DatabaseOf(raw.databases[name])],
   environment |-> Get(raw, "environment", "default"),
   defaults |-> DefaultsOf(Get(raw, "defaults", None)),
   connection_budget |-> BudgetOf(Get(raw, "connection_budget", None))]

\* The keys without which it cannot be built.
Complete(raw) ==
  /\ Get(raw, "databases", None) # None
  /\ \A name \in DOMAIN raw.databases :
       LET data == raw.databases[name]
       IN  /\ "primary" \in DOMAIN data
           /\ \A target \in {data.primary} \cup Range(Get(data, "replicas", <<>>)) :
                "url" \in DOMAIN target

-----------------------------------------------------------------------------
(* The connection budget *)

\* PoolConfig.max_connections: pools of an external pooler do not count.
MaxConnections(pool) == IF pool.disable_pooling THEN 0 ELSE pool.size + pool.max_overflow

\* resolved_pool
PoolFor(target, defaults) == IF target.pool = None THEN defaults.pool ELSE target.pool

\* Mutant: replicas are left out.
DatabaseConnections_PrimaryOnly(db, defaults) == MaxConnections(PoolFor(db.targets[1], defaults))

\* DatabaseConfig.max_connections
DatabaseConnections(db, defaults) ==
  SumFunction([i \in DOMAIN db.targets |-> MaxConnections(PoolFor(db.targets[i], defaults))])

\* max_connections_per_process
ProcessConnections(config) ==
  SumFunction([name \in DOMAIN config.databases |->
                 DatabaseConnections(config.databases[name], config.defaults)])

\* Both enforce_connection_budget.
WithinLimit(budget, connections) ==
  budget.maximum_per_process # None /\ budget.enforce_at_startup =>
    connections <= budget.maximum_per_process

-----------------------------------------------------------------------------
(* Validation *)

ValidPool(pool) == pool.size >= 0 /\ pool.max_overflow >= 0 /\ pool.timeout_seconds > 0

\* Defaults.validate; the pools that targets bring along are not validated.
ValidDefaults(defaults) ==
  ValidPool(defaults.pool) /\ defaults.attempts >= 1 /\ defaults.failure_threshold >= 1

\* TargetConfig.validate: neither empty nor without a scheme.
ValidTarget(target) == target.url \in {"url", "url with sslmode"}

\* DbkitConfig.validate
Valid(config) ==
  /\ ValidDefaults(config.defaults)
  /\ \A name \in DOMAIN config.databases :
       LET db == config.databases[name]
       IN  /\ name # ""
           /\ \A i \in DOMAIN db.targets : ValidTarget(db.targets[i])
           /\ WithinLimit(db.connection_budget, DatabaseConnections(db, config.defaults))
  /\ WithinLimit(config.connection_budget, ProcessConnections(config))

\* from_dict
Accepted(raw) == Complete(raw) /\ Valid(BuildConfig(raw))

-----------------------------------------------------------------------------
(* Warnings *)

Unenforced(budget) == budget.maximum_per_process # None /\ ~budget.enforce_at_startup

\* budget_enforcement_warnings: the names stand for those of databases.
BudgetWarnings(config) ==
  IF config.environment = "development" THEN {}
  ELSE (IF config.connection_budget.maximum_per_process = None THEN {"no budget"}
        ELSE IF Unenforced(config.connection_budget) THEN {"not enforced"} ELSE {})
       \cup {name \in DOMAIN config.databases :
               Unenforced(config.databases[name].connection_budget)}

\* tls_warnings
TlsWarnings(config) ==
  IF config.environment = "development" THEN {}
  ELSE {target \in (DOMAIN config.databases) \X (1 .. 3) :
          LET targets == config.databases[target[1]].targets
          IN  target[2] \in DOMAIN targets /\ targets[target[2]].url # "url with sslmode"}
=============================================================================
