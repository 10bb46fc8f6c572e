--------------------------- MODULE EngineRegistry ---------------------------
(***************************************************************************)
(* AsyncEngineRegistry (dbkit/_async/engine.py): one engine per target,    *)
(* made on first use, at most MaxEngines of them, the least recently used  *)
(* one giving way.                                                         *)
(*                                                                         *)
(* The registry's lock is never held across an await, so a critical        *)
(* section is one action; what interleaves is engine.dispose(), always     *)
(* awaited after the lock is released, on engines already taken out of the *)
(* registry.  A task carries those engines in `victims` until it has       *)
(* disposed of them.                                                       *)
(***************************************************************************)
EXTENDS Naturals, Sequences, FiniteSets

CONSTANTS
  Tasks,        \* coroutines using the registry
  Keys,         \* EngineKeys
  DatabaseOf,   \* the database of each key
  Engines,      \* identities of engines; a disposed one may be used again
  MaxEngines,   \* max_engines; Cardinality(Keys) or more stands for None
  EvictLru      \* the values evict_lru may have

ASSUME RegistryAssumption ==
  /\ DatabaseOf \in [Keys -> STRING]
  /\ MaxEngines \in Nat \ {0}
  /\ EvictLru \subseteq BOOLEAN

VARIABLES
  evictLru,  \* evict_lru, fixed at construction
  entries,   \* _entries as a sequence of [key, engine], least recently used first
  pool,      \* whether each engine's pool is "none" (not built or disposed) or "open"
  task,      \* what each task is in the middle of
  usedSince  \* history: the keys got since each key was last got

vars == <<evictLru, entries, pool, task, usedSince>>

Activities == {"idle", "evicting", "disposing"}

TypeOK ==
  /\ evictLru \in EvictLru
  /\ entries \in Seq([key : Keys, engine : Engines])
  /\ pool \in [Engines -> {"none", "open"}]
  /\ task \in [Tasks -> [pc : Activities, victims : Seq(Engines)]]
  /\ \A t \in Tasks : task[t].pc = "idle" <=> task[t].victims = <<>>
  /\ usedSince \in [Keys -> SUBSET Keys]

Idle == [pc |-> "idle", victims |-> <<>>]

Init ==
  /\ evictLru \in EvictLru
  /\ entries = <<>>
  /\ pool = [e \in Engines |-> "none"]
  /\ task = [t \in Tasks |-> Idle]
  /\ usedSince = [k \in Keys |-> {}]

-----------------------------------------------------------------------------
Ran(s) == {s[i] : i \in DOMAIN s}
Registered == {x.engine : x \in Ran(entries)}
InHand == UNION {Ran(task[t].victims) : t \in Tasks}
KeysOf(s) == {x.key : x \in Ran(s)}
EnginesIn(s) == [i \in DOMAIN s |-> s[i].engine]

\* An identity for a new engine.
Fresh == {e \in Engines : pool[e] = "none" /\ e \notin Registered \cup InHand}

Full == Len(entries) >= MaxEngines

\* The entries of the keys ks in their order: SelectSeq, as a function that can be proved
\* about.
Of(ks) ==
  LET of[i \in 0 .. Len(entries)] ==
        IF i = 0 THEN <<>>
        ELSE IF entries[i].key \in ks THEN Append(of[i - 1], entries[i]) ELSE of[i - 1]
  IN  of[Len(entries)]

\* Mutant: another key's use does not refresh the order.
Used_KeepsOrder(k) == entries

\* Marking the entry of k as just used (last_used = now).
Used(k) == Of(Keys \ {k}) \o Of({k})

Got(k) == usedSince' = [j \in Keys |-> IF j = k THEN {} ELSE usedSince[j] \cup {k}]

\* get: the engine exists.
GetHit(t, k) ==
  /\ task[t].pc = "idle"
  /\ k \in KeysOf(entries)
  /\ entries' = Used(k)
  /\ Got(k)
  /\ UNCHANGED <<evictLru, pool, task>>

\* Mutant: the cap is tested before it is reached only.
GetRoom_OffByOne(t, k) ==
  /\ task[t].pc = "idle"
  /\ k \notin KeysOf(entries)
  /\ Len(entries) <= MaxEngines
  /\ \E e \in Fresh :
       /\ entries' = Append(entries, [key |-> k, engine |-> e])
       /\ pool' = [pool EXCEPT ![e] = "open"]
  /\ Got(k)
  /\ UNCHANGED <<evictLru, task>>

\* get: the engine is made, there is room for it.
GetRoom(t, k) ==
  /\ task[t].pc = "idle"
  /\ k \notin KeysOf(entries)
  /\ ~Full
  /\ \E e \in Fresh :
       /\ entries' = Append(entries, [key |-> k, engine |-> e])
       /\ pool' = [pool EXCEPT ![e] = "open"]
  /\ Got(k)
  /\ UNCHANGED <<evictLru, task>>

\* Mutant: the victim is disposed of without being taken out.
GetEvict_KeepsVictim(t, k) ==
  /\ task[t].pc = "idle"
  /\ k \notin KeysOf(entries)
  /\ Full /\ evictLru
  /\ task' = [task EXCEPT ![t] = [pc |-> "evicting", victims |-> <<entries[1].engine>>]]
  /\ Got(k)
  /\ UNCHANGED <<evictLru, entries, pool>>

\* Mutant: nobody disposes of the victim.
GetEvict_ForgetsVictim(t, k) ==
  /\ task[t].pc = "idle"
  /\ k \notin KeysOf(entries)
  /\ Full /\ evictLru
  /\ \E e \in Fresh :
       /\ entries' = Append(Tail(entries), [key |-> k, engine |-> e])
       /\ pool' = [pool EXCEPT ![e] = "open"]
  /\ Got(k)
  /\ UNCHANGED <<evictLru, task>>

\* get: the least recently used engine gives way; it is disposed of after the lock.
GetEvict(t, k) ==
  /\ task[t].pc = "idle"
  /\ k \notin KeysOf(entries)
  /\ Full /\ evictLru
  /\ \E e \in Fresh :
       /\ entries' = Append(Tail(entries), [key |-> k, engine |-> e])
       /\ pool' = [pool EXCEPT ![e] = "open"]
  /\ task' = [task EXCEPT ![t] = [pc |-> "evicting", victims |-> <<entries[1].engine>>]]
  /\ Got(k)
  /\ UNCHANGED evictLru

\* get at a hard cap raises DatabaseConfigurationError and changes nothing.
GetRefused(t, k) ==
  /\ task[t].pc = "idle"
  /\ k \notin KeysOf(entries)
  /\ Full /\ ~evictLru
  /\ UNCHANGED vars

\* get: create_async_engine raises, after the victim has been taken out.
GetBuildFails(t, k) ==
  /\ task[t].pc = "idle"
  /\ k \notin KeysOf(entries)
  /\ Full => evictLru
  /\ entries' = IF Full THEN Tail(entries) ELSE entries
  /\ UNCHANGED <<evictLru, pool, task, usedSince>>

\* Mutant: nothing taken out is not told from something.
TakeOut_NoCheck(t, keys) ==
  /\ task[t].pc = "idle"
  /\ entries' = Of(Keys \ keys)
  /\ task' = [task EXCEPT ![t] = [pc |-> "disposing", victims |-> EnginesIn(Of(keys))]]
  /\ UNCHANGED <<evictLru, pool, usedSince>>

\* dispose_one, dispose_database and dispose_all: take entries out, then dispose.
TakeOut(t, keys) ==
  LET gone == Of(keys)
  IN  /\ task[t].pc = "idle"
      /\ entries' = Of(Keys \ keys)
      /\ task' = [task EXCEPT ![t] =
                    IF gone = <<>> THEN Idle
                                   ELSE [pc |-> "disposing", victims |-> EnginesIn(gone)]]
      /\ UNCHANGED <<evictLru, pool, usedSince>>

DisposeOne(t, k) == TakeOut(t, {k})

DisposeDatabase(t, d) == TakeOut(t, {k \in Keys : DatabaseOf[k] = d})

DisposeAll(t) == TakeOut(t, Keys)

\* engine.dispose() of the next victim returns.
Disposed(t) ==
  LET vs == task[t].victims
  IN  /\ task[t].pc # "idle"
      /\ pool' = [pool EXCEPT ![Head(vs)] = "none"]
      /\ task' = [task EXCEPT ![t] =
                    IF Len(vs) = 1 THEN Idle ELSE [pc |-> @.pc, victims |-> Tail(vs)]]
      /\ UNCHANGED <<evictLru, entries, usedSince>>

\* engine.dispose() raises, or its task is cancelled in it, the pool closed or not.
DisposeFails(t) ==
  /\ task[t].pc # "idle"
  /\ \E left \in {"none", "open"} : pool' = [pool EXCEPT ![Head(task[t].victims)] = left]
  /\ task' = [task EXCEPT ![t] = Idle]
  /\ UNCHANGED <<evictLru, entries, usedSince>>

Get(t, k) ==
  GetHit(t, k) \/ GetRoom(t, k) \/ GetEvict(t, k) \/ GetRefused(t, k) \/ GetBuildFails(t, k)

Next ==
  \E t \in Tasks :
    \/ \E k \in Keys : Get(t, k) \/ DisposeOne(t, k)
    \/ \E d \in {DatabaseOf[k] : k \in Keys} : DisposeDatabase(t, d)
    \/ DisposeAll(t)
    \/ Disposed(t) \/ DisposeFails(t)

Spec == Init /\ [][Next]_vars

-----------------------------------------------------------------------------
(* Properties *)

\* The registry never holds more engines than the cap, nor two for one key, and
\* what it holds is not disposed of by the task that is disposing of victims: get
\* never hands out an engine somebody is closing.
EntriesSound ==
  /\ Len(entries) <= MaxEngines
  /\ \A i, j \in DOMAIN entries : entries[i].key = entries[j].key => i = j
  /\ \A e \in Registered : pool[e] = "open" /\ e \notin InHand

\* Open pools that the registry does not know and nobody will dispose of.
Orphans == {e \in Engines : pool[e] = "open" /\ e \notin Registered \cup InHand}

\* A pool is orphaned only when building an engine fails after the eviction or when a
\* disposal fails: an eviction that overlaps other calls never loses its victim
\* (_pop_lru_locked: the caller is responsible for disposing the popped engine).
OrphansOnlyByFault ==
  [][Orphans' \subseteq Orphans
     \/ \E t \in Tasks : DisposeFails(t) \/ \E k \in Keys : GetBuildFails(t, k)]_vars

\* One engine is disposed of by one task, once.
DisposedOnce ==
  \A t, u \in Tasks : \A i \in DOMAIN task[t].victims, j \in DOMAIN task[u].victims :
    task[t].victims[i] = task[u].victims[j] => t = u /\ i = j

\* The registry knows what it holds, and each engine has one owner: the registry, or the
\* task that disposes of it.
RegistrySound == TypeOK /\ EntriesSound /\ DisposedOnce

\* The engine that gives way is the one every other registered key has been got
\* since (_pop_lru_locked).
EvictsLeastRecentlyUsed ==
  [][\A t \in Tasks : task[t].pc = "idle" /\ task'[t].pc = "evicting" =>
       \A x \in Ran(entries) : x.engine = task'[t].victims[1] =>
         KeysOf(entries) \ {x.key} \subseteq usedSince[x.key]]_vars
=============================================================================
