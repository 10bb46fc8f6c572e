---------------------------- MODULE ThreadedCalls ----------------------------
(***************************************************************************)
(* Calls of the threaded build (dbkit/_sync): the way of a call through    *)
(* the engine registry, the limiters, the tiers of its limiter, the pool   *)
(* and its retries, next to threads that register, unregister and drain.   *)
(*                                                                         *)
(* Threads interleave between any two steps that touch shared state; a     *)
(* step that a lock or one dictionary operation makes atomic is one        *)
(* action.  One database with one target: its engine and its limiter are   *)
(* the only entries of their dictionaries.  The cap and the evictions of   *)
(* the registry are the subject of EngineRegistry, the breaker and the     *)
(* time limits of retries that of ResilientCalls.                          *)
(***************************************************************************)
EXTENDS Naturals, Sequences, FiniteSets

CONSTANTS
  Callers, Admins,   \* threads
  Settings, None,    \* what the database may be configured with
  Limits,            \* Limits[s][tier]: concurrency of settings s, 0 for unbounded
  PoolSize,          \* pool.size + pool.max_overflow of settings s
  Kinds,             \* the kinds of calls that are made
  MaxAttempts,       \* retry.attempts, and the batches of a bulk call
  MaxChanges,        \* bound: how often admins begin something
  Ids                \* identities of engines and of limiters

Tiers == {"database", "reads", "writes", "expensive", "bulk"}

\* The tiers a call takes, outermost first.
Order ==
  [read |-> <<"database", "reads">>,
   write |-> <<"database", "writes">>,
   expensive |-> <<"database", "reads", "expensive">>,
   expensive_write |-> <<"database", "writes", "expensive">>,
   bulk |-> <<"database", "bulk">>]

Objects == [id : Ids, settings : Settings]

ASSUME ThreadsAssumption ==
  /\ None \notin Settings \cup Admins \cup Objects
  /\ Limits \in [Settings -> [Tiers -> Nat]]
  /\ PoolSize \in [Settings -> Nat \ {0}]
  /\ Kinds \subseteq DOMAIN Order
  /\ MaxAttempts \in Nat \ {0} /\ MaxChanges \in Nat
  /\ IsFiniteSet(Callers) /\ IsFiniteSet(Admins) /\ IsFiniteSet(Ids)
  /\ Ids \subseteq Nat /\ Cardinality(Ids) > Cardinality(Callers) + Cardinality(Admins)

VARIABLES
  config,      \* _config.databases[name]
  engine,      \* the registry's engine of the database
  limiter,     \* ResilientExecutor._limiters[name]
  free,        \* free slots of each limiter's semaphores
  call,        \* what each caller is doing
  admin,       \* what each admin is doing
  changes,     \* bounded: what admins have begun
  holder,      \* who holds _registration_lock
  overlapped   \* history: whether lookups have ever met a registration or each other

vars == <<config, engine, limiter, free, call, admin, changes, holder, overlapped>>

\* A caller between calls.
Rest == [pc |-> "idle", kind |-> None, settings |-> None, engine |-> None, limiter |-> None,
         attempt |-> 1, held |-> 0, conn |-> "none", outcome |-> "none"]

AtRest == [pc |-> "idle", settings |-> None, victim |-> None]

\* What the holder of the registration lock is doing.
Registering == {"disposing", "forgetting", "swapping", "eager"}

LookingUp == {"getting", "limiting", "looking", "storing"}

Calls ==
  [pc : {"idle", "scoping", "taking", "connecting", "running", "unwinding"} \cup LookingUp,
   kind : Kinds \cup {None}, settings : Settings \cup {None},
   engine : Objects \cup {None}, limiter : Objects \cup {None},
   attempt : 1..MaxAttempts, held : 0..3, conn : {"none", "pool", "old"},
   outcome : {"none", "retryable", "final", "key_error"}]

TypeOK ==
  /\ config \in Settings \cup {None}
  /\ engine \in Objects \cup {None} /\ limiter \in Objects \cup {None}
  /\ free \in [Ids -> [Tiers -> Nat]]
  /\ call \in [Callers -> Calls]
  /\ \A c \in Callers :
       /\ call[c].pc = "running" => call[c].conn # "none"
       /\ call[c].pc \in {"connecting", "running"} => call[c].engine # None
       /\ call[c].pc \in {"taking", "scoping", "connecting", "running"} => call[c].limiter # None
  /\ admin \in [Admins -> [pc : {"idle", "draining"} \cup Registering,
                           settings : Settings \cup {None}, victim : Objects \cup {None}]]
  /\ changes \in 0..MaxChanges
  /\ holder \in Admins \cup {None}
  /\ \A a \in Admins : holder = a <=> admin[a].pc \notin {"idle", "draining"}
  /\ overlapped \in BOOLEAN

Init ==
  /\ config \in Settings \cup {None}
  /\ engine = None /\ limiter = None
  /\ free = [i \in Ids |-> [t \in Tiers |-> 0]]
  /\ call = [c \in Callers |-> Rest]
  /\ admin = [a \in Admins |-> AtRest]
  /\ changes = 0
  /\ holder = None
  /\ overlapped = FALSE

-----------------------------------------------------------------------------
NewEngine ==
  LET used == {engine} \cup {call[c].engine : c \in Callers} \cup {admin[a].victim : a \in Admins}
  IN  CHOOSE i \in Ids : \A e \in used : e = None \/ e.id # i

NewLimiter ==
  LET used == {limiter} \cup {call[c].limiter : c \in Callers}
  IN  CHOOSE i \in Ids : \A l \in used : l = None \/ l.id # i

Bulk(c) == call[c].kind = "bulk"

\* The tier that comes next, and how many slots its semaphore began with.
Tier(c) == Order[call[c].kind][call[c].held + 1]
Cap(l, t) == Limits[l.settings][t]

Holding(l, t) ==
  {c \in Callers : /\ call[c].limiter # None /\ call[c].limiter.id = l.id
                   /\ \E i \in 1..call[c].held : Order[call[c].kind][i] = t}

\* Connections out of the present pool of an engine.
Out(e) == {c \in Callers : call[c].conn = "pool" /\ call[c].engine.id = e.id}

\* The call of c becomes x.
Goes(c, x) == call' = [call EXCEPT ![c] = x]

Shared == <<config, engine, limiter, free, admin, changes, holder>>

-----------------------------------------------------------------------------
(* Looking up engine and limiter *)

\* execute_with_resilience or _bulk_write: _resolve and _target_for find the database.
Begin(c, k) ==
  /\ call[c].pc = "idle" /\ config # None
  /\ Goes(c, [Rest EXCEPT !.pc = "getting", !.kind = k, !.settings = config])
  /\ UNCHANGED Shared

\* They raise DatabaseRoutingError for an unknown one, and nothing has been taken.
Refused(c) ==
  /\ call[c].pc = "idle" /\ config = None
  /\ UNCHANGED <<call, Shared>>

\* The registry's engine, or a new one from the settings x that were looked up.
Got(x) == IF engine # None THEN engine ELSE [id |-> NewEngine, settings |-> x]

\* registry.get: without the lock when there is an engine, else under it, tested again.
GetEngine(c) ==
  /\ call[c].pc = "getting"
  /\ engine' = Got(call[c].settings)
  /\ Goes(c, [call[c] EXCEPT !.engine = Got(call[c].settings), !.settings = None,
                             !.pc = IF call[c].limiter = None THEN "limiting" ELSE "connecting"])
  /\ UNCHANGED <<config, limiter, free, admin, changes, holder>>

\* limiter_for: _limiters.get.
LimiterGet(c) ==
  /\ call[c].pc = "limiting"
  /\ Goes(c, [call[c] EXCEPT !.limiter = limiter,
                             !.pc = IF limiter # None THEN "taking" ELSE "looking"])
  /\ UNCHANGED Shared

\* limiter_for: a new limiter from the settings in force.
LimiterMade(c) ==
  /\ call[c].pc = "looking" /\ config # None
  /\ Goes(c, [call[c] EXCEPT !.limiter = [id |-> NewLimiter, settings |-> config],
                             !.pc = "storing"])
  /\ free' = [free EXCEPT ![NewLimiter] = Limits[config]]
  /\ UNCHANGED <<config, engine, limiter, admin, changes, holder>>

\* limiter_for: databases[database] is gone, a bare KeyError.
LimiterKeyError(c) ==
  /\ call[c].pc = "looking" /\ config = None
  /\ Goes(c, [call[c] EXCEPT !.outcome = "key_error", !.pc = "unwinding"])
  /\ UNCHANGED Shared

\* limiter_for: the limiter is cached, over whatever is there by now.
LimiterStored(c) ==
  /\ call[c].pc = "storing"
  /\ limiter' = call[c].limiter
  /\ Goes(c, [call[c] EXCEPT !.pc = "taking"])
  /\ UNCHANGED <<config, engine, free, admin, changes, holder>>

-----------------------------------------------------------------------------
(* An attempt *)

\* The semaphore of the next tier has a slot, or there is no semaphore.
HasRoom(c) ==
  LET l == call[c].limiter IN Cap(l, Tier(c)) = 0 \/ free[l.id][Tier(c)] > 0

\* limiter.acquire: a slot of the next tier; after the last, on to the connection. A bulk
\* write looks its engine up again for every scope.
Take(c) ==
  LET l == call[c].limiter
      last == call[c].held + 1 = Len(Order[call[c].kind])
  IN  /\ call[c].pc = "taking" /\ HasRoom(c)
      /\ free' = IF Cap(l, Tier(c)) = 0 THEN free
                 ELSE [free EXCEPT ![l.id][Tier(c)] = free[l.id][Tier(c)] - 1]
      /\ Goes(c, [call[c] EXCEPT !.held = call[c].held + 1,
                                 !.pc = CASE ~last -> "taking"
                                          [] last /\ Bulk(c) -> "scoping"
                                          [] last /\ ~Bulk(c) -> "connecting",
                                 !.engine = IF Bulk(c) THEN None ELSE call[c].engine])
      /\ UNCHANGED <<config, engine, limiter, admin, changes, holder>>

\* Mutant: the connection is closed after the slots are given back.
Over_ConnectionLast(c, outcome) ==
  /\ Goes(c, [call[c] EXCEPT !.pc = "unwinding", !.outcome = "final"])
  /\ UNCHANGED Shared

\* Mutant: a bulk write takes its slots for every batch, inside those of the batch before.
Over_TakesAgain(c, outcome) ==
  /\ \/ Goes(c, [call[c] EXCEPT !.pc = "unwinding", !.outcome = "final", !.conn = "none"])
     \/ /\ Bulk(c) /\ call[c].attempt < MaxAttempts
        /\ Goes(c, [call[c] EXCEPT !.pc = "taking", !.held = 0, !.attempt = @ + 1,
                                   !.conn = "none"])
  /\ UNCHANGED Shared

\* An attempt is over, its connection closed.  It is the last one, by its outcome or by the
\* limits of retries; or it will be retried; or it was a batch of a bulk write, and another
\* follows.
Over(c, outcome) ==
  LET x == [call[c] EXCEPT !.conn = "none"]
      more == x.attempt < MaxAttempts
  IN  /\ \/ Goes(c, [x EXCEPT !.pc = "unwinding", !.outcome = "final", !.attempt = 1,
                              !.engine = None])
         \/ /\ more /\ ~Bulk(c) /\ outcome = "retryable"
            /\ Goes(c, [x EXCEPT !.pc = "unwinding", !.outcome = "retryable"])
         \/ /\ more /\ Bulk(c)
            /\ Goes(c, [x EXCEPT !.pc = "scoping", !.engine = None, !.attempt = x.attempt + 1])
      /\ UNCHANGED Shared

\* limiter.acquire: no slot within the timeout; a bulk write waits without one.
Overloaded(c) == call[c].pc = "taking" /\ ~HasRoom(c) /\ ~Bulk(c) /\ Over(c, "retryable")

\* The scope of the next batch of a bulk write: its target is resolved again.
ScopeEntered(c) ==
  /\ call[c].pc = "scoping" /\ config # None
  /\ Goes(c, [call[c] EXCEPT !.settings = config, !.pc = "getting"])
  /\ UNCHANGED Shared

\* Its database is gone: the batch fails.
ScopeRefused(c) ==
  call[c].pc = "scoping" /\ config = None /\ Over(c, "final")

\* engine.connect: a connection of the pool.
Connect(c) ==
  LET e == call[c].engine
  IN  /\ call[c].pc = "connecting"
      /\ Cardinality(Out(e)) < PoolSize[e.settings]
      /\ Goes(c, [call[c] EXCEPT !.conn = "pool", !.pc = "running"])
      /\ UNCHANGED Shared

\* engine.connect: the pool's timeout, or the database cannot be reached.
ConnectFails(c) == call[c].pc = "connecting" /\ Over(c, "retryable")

\* The operation, its COMMIT or ROLLBACK and conn.close().
Ends(c, outcome) == call[c].pc = "running" /\ Over(c, outcome)

\* Mutant: the slots go back to the limiter that is cached.
Release_ToCached(c) ==
  LET l == IF limiter # None THEN limiter ELSE call[c].limiter
      t == Order[call[c].kind][call[c].held]
  IN  /\ call[c].pc = "unwinding" /\ call[c].held > 0
      /\ free' = IF Cap(l, t) = 0 THEN free ELSE [free EXCEPT ![l.id][t] = @ + 1]
      /\ Goes(c, [call[c] EXCEPT !.held = call[c].held - 1])
      /\ UNCHANGED <<config, engine, limiter, admin, changes, holder>>

\* The exit of limiter.acquire: slots go back innermost first.
Release(c) ==
  LET l == call[c].limiter
      t == Order[call[c].kind][call[c].held]
  IN  /\ call[c].pc = "unwinding" /\ call[c].held > 0
      /\ free' = IF Cap(l, t) = 0 THEN free ELSE [free EXCEPT ![l.id][t] = free[l.id][t] + 1]
      /\ Goes(c, [call[c] EXCEPT !.held = call[c].held - 1])
      /\ UNCHANGED <<config, engine, limiter, admin, changes, holder>>

\* run_with_retries: another attempt with the engine and the limiter of the first.
Retry(c) ==
  /\ call[c].pc = "unwinding" /\ call[c].held = 0 /\ ~Bulk(c)
  /\ call[c].outcome = "retryable"
  /\ Goes(c, [call[c] EXCEPT !.attempt = call[c].attempt + 1, !.outcome = "none",
                             !.pc = "taking"])
  /\ UNCHANGED Shared

\* The call returns or raises.
Return(c) ==
  /\ call[c].pc = "unwinding" /\ call[c].held = 0 /\ call[c].outcome # "retryable"
  /\ Goes(c, Rest)
  /\ UNCHANGED Shared

-----------------------------------------------------------------------------
(* The admins *)

\* Mutant: limiter and breakers of a replaced database are kept.
AfterDisposal_KeepsLimiter == "swapping"

\* Engines first, then forget_database.
AfterDisposal == "forgetting"

Changes == changes < MaxChanges /\ changes' = changes + 1

\* register_database(s) or unregister_database (s = None) gets the lock; of a database that
\* is configured the engine is taken out of the registry.
Locked(a, s) ==
  LET replaced == config # None
  IN  /\ admin[a].pc = "idle" /\ holder = None /\ (replaced \/ s # None)
      /\ holder' = a
      /\ engine' = IF replaced THEN None ELSE engine
      /\ admin' = [admin EXCEPT ![a] =
                     [pc |-> IF ~replaced THEN "swapping"
                             ELSE IF engine # None THEN "disposing" ELSE AfterDisposal,
                      settings |-> s, victim |-> IF replaced THEN engine ELSE None]]
      /\ Changes
      /\ UNCHANGED <<config, limiter, free, call>>

\* engine.dispose(): idle connections are closed and a new pool begins; the connections
\* that are out belong to the old one.
DisposedOf(e) ==
  call' = [c \in Callers |->
             IF call[c].conn = "pool" /\ call[c].engine = e THEN [call[c] EXCEPT !.conn = "old"]
                                                             ELSE call[c]]

Disposes(a) ==
  /\ admin[a].pc \in {"disposing", "draining"}
  /\ DisposedOf(admin[a].victim)
  /\ admin' = [admin EXCEPT ![a] =
                  IF admin[a].pc = "draining" THEN AtRest
                  ELSE [admin[a] EXCEPT !.pc = AfterDisposal, !.victim = None]]
  /\ UNCHANGED <<config, engine, limiter, free, changes, holder>>

\* forget_database
Forgets(a) ==
  /\ admin[a].pc = "forgetting"
  /\ limiter' = None
  /\ admin' = [admin EXCEPT ![a] = [admin[a] EXCEPT !.pc = "swapping"]]
  /\ UNCHANGED <<config, engine, free, call, changes, holder>>

\* The map is swapped; a registration may go on to create the engine.
Swaps(a) ==
  /\ admin[a].pc = "swapping"
  /\ config' = admin[a].settings
  /\ \/ admin' = [admin EXCEPT ![a] = AtRest] /\ holder' = None
     \/ /\ admin[a].settings # None
        /\ admin' = [admin EXCEPT ![a] = [admin[a] EXCEPT !.pc = "eager"]] /\ UNCHANGED holder
  /\ UNCHANGED <<engine, limiter, free, call, changes>>

\* Mutant: the lock is kept.
Connects_KeepsLock(a) ==
  /\ admin[a].pc = "eager"
  /\ engine' = Got(config)
  /\ admin' = [admin EXCEPT ![a] = AtRest]
  /\ UNCHANGED <<config, limiter, free, call, changes, holder>>

\* register_database with connect: registry.get, and the lock is released.
Connects(a) ==
  /\ admin[a].pc = "eager"
  /\ engine' = Got(config)
  /\ admin' = [admin EXCEPT ![a] = AtRest] /\ holder' = None
  /\ UNCHANGED <<config, limiter, free, call, changes>>

\* drain_engine or close: dispose_one or dispose_all.
Drains(a) ==
  /\ admin[a].pc = "idle" /\ engine # None
  /\ engine' = None
  /\ admin' = [admin EXCEPT ![a] = [AtRest EXCEPT !.pc = "draining", !.victim = engine]]
  /\ Changes
  /\ UNCHANGED <<config, limiter, free, call, holder>>

-----------------------------------------------------------------------------
\* A lookup during a registration, or two callers that both missed the limiter.
Overlap ==
  \/ holder # None /\ \E c \in Callers : call[c].pc \in LookingUp
  \/ \E c, d \in Callers : c # d /\ {call[c].pc, call[d].pc} \subseteq {"looking", "storing"}

Step(c) ==
  \/ GetEngine(c) \/ LimiterGet(c) \/ LimiterMade(c) \/ LimiterKeyError(c) \/ LimiterStored(c)
  \/ Take(c) \/ Overloaded(c) \/ ScopeEntered(c) \/ ScopeRefused(c)
  \/ Connect(c) \/ ConnectFails(c)
  \/ \E o \in {"retryable", "final"} : Ends(c, o)
  \/ Release(c) \/ Retry(c) \/ Return(c)

Noted == overlapped' = (overlapped \/ Overlap')

Next ==
  /\ \/ \E c \in Callers : Step(c) \/ Refused(c) \/ \E k \in Kinds : Begin(c, k)
     \/ \E a \in Admins :
          \/ \E s \in Settings \cup {None} : Locked(a, s)
          \/ Disposes(a) \/ Forgets(a) \/ Swaps(a) \/ Connects(a) \/ Drains(a)
  /\ Noted

Spec == Init /\ [][Next]_vars

-----------------------------------------------------------------------------
(* Properties *)

\* The slots of every limiter in use, replaced ones included, are free or held: a call
\* that is overloaded at an inner tier, fails or is retried gives back what it took, to
\* the limiter it took it from (resilience.py:132-151).
SlotsAccounted ==
  \A l \in {limiter} \cup {call[c].limiter : c \in Callers} : l # None =>
    \A t \in Tiers : Cap(l, t) > 0 =>
      free[l.id][t] + Cardinality(Holding(l, t)) = Cap(l, t)

\* No limiter lets more connections out than a tier allows: a connection is held inside
\* the slots of all the tiers of its call.
ConnectionsCovered ==
  \A l \in {call[c].limiter : c \in Callers} : l # None =>
    \A t \in Tiers : Cap(l, t) > 0 =>
      Cardinality({c \in Callers :
                     /\ call[c].limiter = l /\ call[c].conn # "none"
                     /\ LET order == Order[call[c].kind] IN \E i \in DOMAIN order : order[i] = t})
        <= Cap(l, t)

\* The limits of a limiter hold, whatever is replaced under the calls that use it.
LimitsHold == TypeOK /\ SlotsAccounted /\ ConnectionsCovered

\* As long as no lookup ran into a registration or another lookup, the engine and the
\* limiter in the dictionaries were made from the settings in force, no limiter is cached
\* over another that calls already use, and a database that is gone is no KeyError.
RightUnlessOverlapped ==
  ~overlapped =>
    /\ holder = None => \A x \in {engine, limiter} : x # None => x.settings = config
    /\ \A c \in Callers : call[c].outcome # "key_error"
    /\ \A c \in Callers : call[c].pc = "storing" => limiter = None

\* Nobody waits for ever by the limiters and the pool: a call can always go on, because
\* every wait of it has a timeout; a bulk write, which waits for slots without one, waits
\* only while another caller that holds slots of that limiter can go on.
WaitsEnd ==
  \A c \in Callers : call[c].pc # "idle" =>
    \/ ENABLED Step(c)
    \/ /\ Bulk(c)
       /\ \E d \in Callers \ {c} : /\ call[d].limiter = call[c].limiter /\ call[d].held > 0
                                   /\ ENABLED Step(d)
=============================================================================
