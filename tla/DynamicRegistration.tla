------------------------ MODULE DynamicRegistration ------------------------
(***************************************************************************)
(* Databases registered, replaced, evicted and dropped while queries use   *)
(* them (dbkit/_async/database.py, with the executor's limiters and the    *)
(* engine registry below it).                                              *)
(*                                                                         *)
(* Each database has one target, so the registry holds at most one engine  *)
(* per name; an engine or a limiter is represented by the settings it was  *)
(* made from.  Registrars run register_database, ensure_database and       *)
(* unregister_database; they share the registration lock and are suspended *)
(* only while they wait for it and while an engine is disposed of.         *)
(* Queries take no registration lock; a query is suspended between the     *)
(* registry and the limiter only when its new engine evicts another.       *)
(***************************************************************************)
EXTENDS Naturals, Sequences, FiniteSets, FiniteSetsExt, SequencesExt

CONSTANTS
  Names, Static,     \* databases, and those of them configured at start
  Settings, None,    \* what a database may be configured with
  Connections,       \* connections each of the Settings may open
  Budget,            \* connection_budget.maximum_per_process
  MaxDatabases,      \* max_databases
  EngineCap,         \* max_engines, with evict_lru_engines
  Registrars, Queries,
  CancelledAt        \* the awaits at which a registrar may be cancelled

Awaits == {"waiting", "purging", "evicting", "connecting"}

ASSUME RegistrationAssumption ==
  /\ IsFiniteSet(Names) /\ Static \subseteq Names
  /\ None \notin Settings /\ None \notin Registrars
  /\ Connections \in [Settings -> Nat]
  /\ Budget \in Nat /\ MaxDatabases \in Nat \ {0} /\ EngineCap \in Nat \ {0}
  /\ CancelledAt \subseteq Awaits

VARIABLES
  config,    \* _config.databases
  engines,   \* the engine registry, least recently used first
  limiter,   \* ResilientExecutor._limiters
  dynamic,   \* _dynamic_lru, least recently ensured first
  holder,    \* who holds _registration_lock
  registrar, \* the call each registrar is in and where it is suspended
  query      \* the query each task is in and where it is suspended

registrationVars == <<config, engines, limiter, dynamic, holder, registrar, query>>

\* A registrar between calls, or a query between queries, is at Rest.
Rest == [pc |-> "idle"]

RegistrarStates ==
  {Rest} \cup
  [pc : Awaits, op : {"register", "unregister"},
   name : Names, settings : Settings \cup {None}, connect : BOOLEAN, victim : Names]

QueryStates == {Rest} \cup [pc : {"evicting", "key_error"}, name : Names]

RegistrationTypeOK ==
  /\ config \in [Names -> Settings \cup {None}]
  /\ engines \in Seq([name : Names, settings : Settings])
  /\ limiter \in [Names -> Settings \cup {None}]
  /\ dynamic \in Seq(Names \ Static)
  /\ holder \in Registrars \cup {None}
  /\ registrar \in [Registrars -> RegistrarStates]
  /\ query \in [Queries -> QueryStates]
  /\ \A r \in Registrars :
       holder = r <=> registrar[r].pc \in {"purging", "evicting", "connecting"}

-----------------------------------------------------------------------------
(* What the operations do to the shared state, held in one record w *)

World == [config |-> config, engines |-> engines, limiter |-> limiter, dynamic |-> dynamic]

Becomes(w) ==
  /\ config' = w.config /\ engines' = w.engines
  /\ limiter' = w.limiter /\ dynamic' = w.dynamic

HasEngine(w, n) == \E i \in DOMAIN w.engines : w.engines[i].name = n

\* registry.dispose_database: the engine leaves the registry at once.
WithoutEngine(w, n) ==
  [w EXCEPT !.engines = RemoveFirstMatch(w.engines, LAMBDA x : x.name = n)]

\* registry.get: reuse, or build from the settings in force, evicting at the cap.
Evicts(w, n) == ~HasEngine(w, n) /\ Len(w.engines) >= EngineCap

WithEngine(w, n) ==
  LET kept == IF Evicts(w, n) THEN Tail(w.engines) ELSE WithoutEngine(w, n).engines
      mine == IF HasEngine(w, n) THEN w.engines[SelectInSeq(w.engines, LAMBDA x : x.name = n)]
                                 ELSE [name |-> n, settings |-> w.config[n]]
  IN  [w EXCEPT !.engines = Append(kept, mine)]

\* limiter_for
WithLimiter(w, n) ==
  [w EXCEPT !.limiter[n] = IF @ = None THEN w.config[n] ELSE @]

\* _touch_dynamic
Touched(w, n) ==
  [w EXCEPT !.dynamic = IF n \in Static THEN @ ELSE Append(RemoveFirst(@, n), n)]

\* The end of a purge and the removal from the map, for every name of S.
Removed(w, S) ==
  [w EXCEPT !.config = [n \in Names |-> IF n \in S THEN None ELSE @[n]],
            !.limiter = [n \in Names |-> IF n \in S THEN None ELSE @[n]]]

\* Mutant: the limiter of a replaced database is kept.
Installed_KeepsLimiter(w, n, s) == Touched([w EXCEPT !.config[n] = s], n)

\* The end of a purge and the swap of the map for a registered name.
Installed(w, n, s) == Touched([w EXCEPT !.config[n] = s, !.limiter[n] = None], n)

\* max_connections_per_process of a map.
Worst(map) ==
  MapThenSumSet(LAMBDA n : IF map[n] = None THEN 0 ELSE Connections[map[n]], Names)

RegistrationInit ==
  /\ \E s \in Settings : config = [n \in Names |-> IF n \in Static THEN s ELSE None]
  /\ Worst(config) <= Budget
  /\ engines = <<>>
  /\ limiter = [n \in Names |-> None]
  /\ dynamic = <<>>
  /\ holder = None
  /\ registrar = [r \in Registrars |-> Rest]
  /\ query = [q \in Queries |-> Rest]

-----------------------------------------------------------------------------
(* The registration lock *)

\* r is suspended at an await with the lock held, as x says.
Suspended(r, x) ==
  /\ registrar' = [registrar EXCEPT ![r] = x]
  /\ holder' = r
  /\ UNCHANGED query

\* r leaves the critical section, by returning or by raising.
Released(r) ==
  /\ registrar' = [registrar EXCEPT ![r] = Rest]
  /\ holder' = None
  /\ UNCHANGED query

\* The last part of register_database: eager creation of the engine.  The name may
\* be gone again (registry.get then raises).
Connect(r, x, w) ==
  IF x.connect /\ w.config[x.name] # None
    THEN /\ Becomes(WithEngine(w, x.name))
         /\ IF Evicts(w, x.name) THEN Suspended(r, [x EXCEPT !.pc = "connecting"])
                                 ELSE Released(r)
    ELSE Becomes(w) /\ Released(r)

\* Mutant: the loop stops one database late.
EvictBeyondCap_OffByOne(r, x, w) == Connect(r, x, w)

\* _evict_lru_databases_locked, up to the first victim whose engine is awaited.
EvictBeyondCap(r, x, w) ==
  LET surplus == 1 .. (Len(w.dynamic) - MaxDatabases)
      pooled == {i \in surplus : HasEngine(w, w.dynamic[i])}
      after(i) == SubSeq(w.dynamic, i + 1, Len(w.dynamic))
      names(I) == {w.dynamic[i] : i \in I}
  IN  IF pooled = {}
        THEN Connect(r, x, [Removed(w, names(surplus)) EXCEPT
                              !.dynamic = after(Cardinality(surplus))])
        ELSE LET first == Min(pooled)
                 victim == w.dynamic[first]
             IN  /\ Becomes(WithoutEngine([Removed(w, names({i \in surplus : i < first}))
                                             EXCEPT !.dynamic = after(first)], victim))
                 /\ Suspended(r, [x EXCEPT !.pc = "evicting", !.victim = victim])

\* register_database after the purge of a replaced name.
Install(r, x) == EvictBeyondCap(r, x, Installed(World, x.name, x.settings))

\* unregister_database after the purge.
Drop(r, x) ==
  /\ Becomes([Removed(World, {x.name}) EXCEPT !.dynamic = RemoveFirst(@, x.name)])
  /\ Released(r)

Finish(r, x) == IF x.op = "register" THEN Install(r, x) ELSE Drop(r, x)

\* Mutant: the budget is compared with the map in force instead of the new one.
Enter_OldMap(r, x) ==
  IF IF x.op = "register" THEN Worst(config) > Budget ELSE config[x.name] = None
    THEN Becomes(World) /\ Released(r)
    ELSE IF config[x.name] # None /\ HasEngine(World, x.name)
           THEN /\ Becomes(WithoutEngine(World, x.name))
                /\ Suspended(r, [x EXCEPT !.pc = "purging"])
           ELSE Finish(r, x)

\* The critical section of call x up to its first await.
Enter(r, x) ==
  \/ \* Over budget, or nothing to drop: the call is refused.
     /\ IF x.op = "register" THEN Worst([config EXCEPT ![x.name] = x.settings]) > Budget
                             ELSE config[x.name] = None
     /\ Becomes(World) /\ Released(r)
  \/ /\ IF x.op = "register" THEN Worst([config EXCEPT ![x.name] = x.settings]) <= Budget
                             ELSE config[x.name] # None
     /\ IF config[x.name] # None /\ HasEngine(World, x.name)
          THEN /\ Becomes(WithoutEngine(World, x.name))
               /\ Suspended(r, [x EXCEPT !.pc = "purging"])
          ELSE Finish(r, x)

Waiters == {r \in Registrars : registrar[r].pc = "waiting"}

\* register_database or unregister_database is called: the lock is taken at once
\* when it is free and nobody waits for it.
Call(r, x) ==
  /\ registrar[r] = Rest
  /\ IF holder = None /\ Waiters = {}
       THEN Enter(r, x)
       ELSE /\ registrar' = [registrar EXCEPT ![r] = x]
            /\ UNCHANGED <<config, engines, limiter, dynamic, holder, query>>

NewCall(op, n, s, c) ==
  [pc |-> "waiting", op |-> op, name |-> n, settings |-> s, connect |-> c, victim |-> n]

-----------------------------------------------------------------------------
(* The registrars *)

Register(r, n, s, c) == Call(r, NewCall("register", n, s, c))

Unregister(r, n) == Call(r, NewCall("unregister", n, None, FALSE))

\* ensure_database: nothing but the LRU order when the settings are in force.
Ensure(r, n, s, c) ==
  IF config[n] = s
    THEN /\ registrar[r] = Rest
         /\ Becomes(Touched(World, n))
         /\ UNCHANGED <<holder, registrar, query>>
    ELSE Register(r, n, s, c)

\* The lock is handed to a waiter.
Acquire(r) ==
  /\ r \in Waiters /\ holder = None
  /\ Enter(r, registrar[r])

\* The disposal of the engines of the name itself returns.
Purged(r) ==
  /\ registrar[r].pc = "purging"
  /\ Finish(r, registrar[r])

\* The disposal of the engines of an evicted database returns.
Evicted(r) ==
  /\ registrar[r].pc = "evicting"
  /\ EvictBeyondCap(r, registrar[r], Removed(World, {registrar[r].victim}))

\* Mutant: the lock is not released.
Connected_KeepsLock(r) ==
  /\ registrar[r].pc = "connecting"
  /\ registrar' = [registrar EXCEPT ![r] = Rest]
  /\ UNCHANGED <<config, engines, limiter, dynamic, holder, query>>

\* The engine evicted by the eager creation is disposed of.
Connected(r) ==
  /\ registrar[r].pc = "connecting"
  /\ Released(r)
  /\ Becomes(World)

\* The registrar is cancelled at its await, or engine.dispose() raises there.
Cancel(r) ==
  /\ registrar[r].pc \in CancelledAt
  /\ registrar' = [registrar EXCEPT ![r] = Rest]
  /\ holder' = IF holder = r THEN None ELSE holder
  /\ UNCHANGED <<config, engines, limiter, dynamic, query>>

-----------------------------------------------------------------------------
(* The queries: execute_with_resilience up to its first attempt *)

\* _resolve raises DatabaseRoutingError for an unknown name.
QueryRefused(q, n) ==
  /\ query[q] = Rest
  /\ config[n] = None
  /\ UNCHANGED registrationVars

\* entry() and limiter_for() without an await in between.
QueryReady(q, n) ==
  /\ query[q] = Rest
  /\ config[n] # None
  /\ ~Evicts(World, n)
  /\ Becomes(WithLimiter(WithEngine(World, n), n))
  /\ UNCHANGED <<holder, registrar, query>>

\* entry() evicts another engine and awaits its disposal.
QueryEvicts(q, n) ==
  /\ query[q] = Rest
  /\ config[n] # None
  /\ Evicts(World, n)
  /\ Becomes(WithEngine(World, n))
  /\ query' = [query EXCEPT ![q] = [pc |-> "evicting", name |-> n]]
  /\ UNCHANGED <<holder, registrar>>

\* The disposal returns and limiter_for looks the name up: a KeyError when it has
\* neither a limiter nor settings any more.
QueryContinues(q) ==
  LET n == query[q].name
      known == limiter[n] # None \/ config[n] # None
  IN  /\ query[q].pc = "evicting"
      /\ Becomes(IF known THEN WithLimiter(World, n) ELSE World)
      /\ query' = [query EXCEPT ![q] = IF known THEN Rest ELSE [@ EXCEPT !.pc = "key_error"]]
      /\ UNCHANGED <<holder, registrar>>

\* The caller has seen the KeyError.
QueryFailed(q) ==
  /\ query[q].pc = "key_error"
  /\ query' = [query EXCEPT ![q] = Rest]
  /\ UNCHANGED <<config, engines, limiter, dynamic, holder, registrar>>

Resumes(r) == Acquire(r) \/ Purged(r) \/ Evicted(r) \/ Connected(r)

RegistrationNext ==
  \/ \E r \in Registrars :
       \/ \E n \in Names, s \in Settings, c \in BOOLEAN : Register(r, n, s, c) \/ Ensure(r, n, s, c)
       \/ \E n \in Names : Unregister(r, n)
       \/ Resumes(r) \/ Cancel(r)
  \/ \E q \in Queries :
       \/ \E n \in Names : QueryRefused(q, n) \/ QueryReady(q, n) \/ QueryEvicts(q, n)
       \/ QueryContinues(q) \/ QueryFailed(q)

RegistrationSpec == RegistrationInit /\ [][RegistrationNext]_registrationVars

-----------------------------------------------------------------------------
(* Properties *)

\* A limiter is always one made from the settings in force, although queries make
\* limiters without the lock while a purge is suspended (forget_database comes after
\* the disposal and right before the swap).
LimiterCurrent == \A n \in Names : limiter[n] # None => limiter[n] = config[n]

\* Admission control: the registered databases never exceed the connection budget,
\* whatever registrations overlap (dynamic-registration.md:70).
WithinBudget == Worst(config) <= Budget

\* Between registrations there are at most max_databases dynamic databases.
DynamicCap ==
  holder = None => Cardinality({n \in Names \ Static : config[n] # None}) <= MaxDatabases

\* Registrations that overlap each other, evictions and queries exceed neither cap.
CapsHold == RegistrationTypeOK /\ WithinBudget /\ DynamicCap

=============================================================================
