------------------------------ MODULE Routing ------------------------------
(***************************************************************************)
(* From a DatabaseTarget to a target of the configuration, in threads of   *)
(* the sync frontend: Database._resolve and EngineRegistry._target_for     *)
(* with the resolvers and selectors of dbkit/_core/routing.py, while the   *)
(* only database is registered, replaced and unregistered.                 *)
(*                                                                         *)
(* No lock guards what a call reads here: each step touches shared state   *)
(* once.  The async frontend runs the steps of a call without awaiting     *)
(* anything, so its behaviours are among these.                            *)
(***************************************************************************)
EXTENDS Optional, Naturals, FiniteSetsExt, SequencesExt

CONSTANTS
  Threads,
  Replicas,      \* versions of the database: the replica names of each, in order
  Weights,       \* replica name -> weight, 0 allowed
  Kinds,         \* pairs of a shard resolver and a replica selector to try
  Keys,          \* shard keys, by their text: str(key)
  Value,         \* key -> its value; keys of one value are equal to Python (1 and True)
  Bucket,        \* key -> the bucket of sha256 of its text, modulo num_shards
  CacheSize,     \* _CACHE_SIZE
  Ranges,        \* the ShardRanges as configured: [upper, shard]
  Moves,         \* the mappings <<key, shard>> the migration workflow sets
  MaxTurns,      \* bound: the value of a counter
  MaxScopes      \* bound: consistency scopes entered and not left, all threads together

Versions == DOMAIN Replicas
Names == DOMAIN Weights
Values == {Value[k] : k \in Keys}
Shards == {"default"} \cup {Bucket[k] : k \in Keys} \cup {Ranges[i].shard : i \in DOMAIN Ranges}
            \cup {m[2] : m \in Moves}
NoDatabase == 0

ASSUME RoutingAssumption ==
  /\ CacheSize \in Nat \ {0} /\ MaxTurns \in Nat /\ MaxScopes \in Nat
  /\ Kinds \subseteq [resolver : {"single", "hash", "range", "directory"},
                      selector : {"round_robin", "weighted"}]
  /\ NoDatabase \notin Versions /\ None \notin Nat \cup Shards /\ IsFiniteSet(Threads)
  /\ \A v \in Versions : Replicas[v] \in Seq(Names)
  /\ Value \in [Keys -> Nat] /\ DOMAIN Bucket = Keys
  /\ Weights \in [Names -> Int] /\ Ranges \in Seq([upper : Int, shard : Shards])

VARIABLES
  kinds,      \* the resolver and the selector the facade was built with
  config,     \* the version in the configuration, or NoDatabase
  names,      \* the selector's replicas; empty when there is no entry
  counter,    \* of the rotation; None when there is no entry
  cache,      \* the OrderedDict of HashShardResolver, oldest first
  directory,  \* the mapping of DirectoryShardResolver
  admin,      \* what the holder of the registration lock still has to do
  call,       \* what each thread is resolving
  mode,       \* _consistency_mode in each thread: whether it is set
  scopes,     \* the tokens of the consistency scopes each thread is in, innermost first
  last        \* history: the last selection by rotation, None when it did not stand alone

routingVars == <<kinds, config, names, counter, cache, directory, admin, call, mode, scopes, last>>

Ended == {"idle", "unknown", "unmapped", "refused", "KeyError"}
Selecting == {"turn", "count", "advance"}
Labels == {"shard", "touch", "store", "trim", "evict", "select", "target"} \cup Selecting

\* `reads` says that the call may go to a replica; `listed`, `index` and `read` are locals of
\* select.  `disturbed` says that the database was being changed, or the key evicted, while
\* the call resolved, and `alone` that no other selection overlapped with its own.
CallRecords ==
  [pc : Ended \cup Labels, reads : BOOLEAN, key : Keys \cup {None},
   listed : Seq(Names), index : Nat, read : Nat,
   shard : Shards \cup {None}, replica : Names \cup {None},
   disturbed : BOOLEAN, alone : BOOLEAN]

NoCall ==
  [pc |-> "idle", reads |-> FALSE, key |-> None, listed |-> <<>>,
   index |-> 0, read |-> 0, shard |-> None, replica |-> None,
   disturbed |-> FALSE, alone |-> FALSE]

RoutingTypeOK ==
  /\ kinds \in Kinds
  /\ config \in {NoDatabase} \cup Versions
  /\ names \in Seq(Names) /\ counter \in Nat \cup {None}
  /\ cache \in Seq([key : Keys, shard : Shards])
  /\ directory \in [Values -> Shards \cup {None}]
  /\ admin \in Seq({"config", "names", "counter"} \X ({NoDatabase} \cup Versions))
  /\ call \in [Threads -> CallRecords]
  /\ \A t \in Threads : call[t].pc \in {"count", "advance"} => call[t].index < Len(call[t].listed)
  /\ mode \in [Threads -> BOOLEAN] /\ scopes \in [Threads -> Seq(BOOLEAN)]

RoutingInit ==
  /\ kinds \in Kinds
  /\ config = NoDatabase /\ names = <<>> /\ counter = None
  /\ cache = <<>> /\ directory = [v \in Values |-> None]
  /\ admin = <<>> /\ call = [t \in Threads |-> NoCall]
  /\ mode = [t \in Threads |-> FALSE] /\ scopes = [t \in Threads |-> <<>>]
  /\ last = None

selector == <<names, counter, last>>

-----------------------------------------------------------------------------
(* Resolvers and selectors *)

Equal(key, other) == Value[key] = Value[other]

\* The place of a key in the cache, or 0.
Place(key) == SelectInSeq(cache, LAMBDA entry : Equal(entry.key, key))

\* self._cache.get(key)
Cached(key) == IF Place(key) = 0 THEN None ELSE cache[Place(key)].shard

\* move_to_end
MovedToEnd(key) == Append(RemoveAt(cache, Place(key)), cache[Place(key)])

\* Mutant: an equal key is stored once more.
Stored_Twice(key, shard) == Append(cache, [key |-> key, shard |-> shard])

\* self._cache[key] = shard: an equal key that is there keeps its place.
Stored(key, shard) ==
  IF Place(key) = 0 THEN Append(cache, [key |-> key, shard |-> shard])
                    ELSE [cache EXCEPT ![Place(key)].shard = shard]

FirstAbove(ranges, value) ==
  LET above == {i \in DOMAIN ranges : value < ranges[i].upper}
  IN  IF above = {} THEN None ELSE ranges[Min(above)].shard

\* Mutant: ranges are taken as they come.
RangeShard_Unsorted(value) == FirstAbove(Ranges, value)

\* sorted(ranges, key=upper_bound), which leaves ranges of one bound in their order: each
\* range is at the place after those that come before it.
Before(i, j) ==
  Ranges[i].upper < Ranges[j].upper \/ (Ranges[i].upper = Ranges[j].upper /\ i < j)

PlaceAmong(i) == Cardinality({j \in DOMAIN Ranges : Before(j, i)}) + 1

SortedRanges ==
  [place \in DOMAIN Ranges |-> Ranges[CHOOSE i \in DOMAIN Ranges : PlaceAmong(i) = place]]

\* RangeShardResolver
RangeShard(value) == FirstAbove(SortedRanges, value)

\* WeightedReplicaSelector: `upto` after each replica, its weight taken to be at least one.
Upto(listed) ==
  LET upto[i \in 0 .. Len(listed)] ==
        IF i = 0 THEN 0 ELSE upto[i - 1] + Max({Weights[listed[i]], 1})
  IN  upto

Total(listed) == Upto(listed)[Len(listed)]

\* The replica that holds the point drawn, and the last one if none did.
WeightedPick(listed, point) ==
  LET holding == {i \in DOMAIN listed : point < Upto(listed)[i]}
  IN  listed[IF holding = {} THEN Len(listed) ELSE Min(holding)]

-----------------------------------------------------------------------------
(* A call resolves its target *)

\* The call of t becomes c, and nothing else changes.
Becomes(t, c) ==
  /\ call' = [call EXCEPT ![t] = c]
  /\ UNCHANGED <<kinds, config, selector, cache, directory, admin, mode, scopes>>

Goes(t, pc) == [call[t] EXCEPT !.pc = pc]

\* The shard is known.
Sharded(t, c) == [c EXCEPT !.pc = IF c.reads THEN "select" ELSE "target", !.reads = FALSE]

\* _resolve up to the resolver: only reads outside a consistency scope go to replicas.
Begin(t) ==
  /\ call[t].pc \in Ended
  /\ \E wants \in BOOLEAN, key \in Keys \cup {None} :
       LET c == [NoCall EXCEPT !.reads = wants /\ Replicas[config] # <<>> /\ ~mode[t],
                               !.key = key, !.disturbed = admin # <<>>]
       IN  Becomes(t, IF config = NoDatabase THEN [NoCall EXCEPT !.pc = "unknown"]
                      ELSE IF key # None THEN [c EXCEPT !.pc = "shard"] ELSE Sharded(t, c))

\* HashShardResolver.resolve up to its first change of the cache.
Hash(t) ==
  LET key == call[t].key
      hit == Cached(key)
  IN  /\ call[t].pc = "shard" /\ kinds.resolver = "hash"
      /\ Becomes(t, IF hit # None THEN [Goes(t, "touch") EXCEPT !.shard = hit]
                                  ELSE [Goes(t, "store") EXCEPT !.shard = Bucket[key]])

\* The other resolvers answer, or raise, at once.
LookUp(t) ==
  LET key == call[t].key
      answer == CASE kinds.resolver = "single"    -> "default"
                  [] kinds.resolver = "range"     -> RangeShard(Value[key])
                  [] kinds.resolver = "directory" -> directory[Value[key]]
  IN  /\ call[t].pc = "shard" /\ kinds.resolver # "hash"
      /\ Becomes(t, IF answer = None THEN [NoCall EXCEPT !.pc = "unmapped"]
                                     ELSE Sharded(t, [call[t] EXCEPT !.shard = answer]))

CacheBecomes(t, d, c) ==
  /\ cache' = d /\ call' = [call EXCEPT ![t] = c]
  /\ UNCHANGED <<kinds, config, selector, directory, admin, mode, scopes>>

\* A hit moves to the end, unless it has been evicted since.
Touch(t) ==
  LET c == call[t]
  IN  /\ c.pc = "touch"
      /\ IF Cached(c.key) = None THEN Becomes(t, Goes(t, "KeyError"))
                                 ELSE CacheBecomes(t, MovedToEnd(c.key), Sharded(t, c))

Store(t) ==
  /\ call[t].pc = "store"
  /\ CacheBecomes(t, Stored(call[t].key, call[t].shard), Goes(t, "trim"))

\* Mutant: the answer is read back from the cache.
Trim_ReadsBack(t) ==
  /\ call[t].pc = "trim" /\ cache # <<>>
  /\ Becomes(t, IF Len(cache) > CacheSize THEN Goes(t, "evict")
                ELSE Sharded(t, [call[t] EXCEPT !.shard = cache[Len(cache)].shard]))

Trim(t) ==
  /\ call[t].pc = "trim"
  /\ Becomes(t, IF Len(cache) > CacheSize THEN Goes(t, "evict") ELSE Sharded(t, call[t]))

\* popitem(last=False)
Evict(t) ==
  LET gone == Head(cache).key
  IN  /\ call[t].pc = "evict" /\ cache # <<>>
      /\ cache' = Tail(cache)
      /\ call' = [s \in Threads |->
                    IF s = t THEN Sharded(t, call[t])
                    ELSE IF call[s].pc = "touch" /\ Equal(call[s].key, gone)
                         THEN [call[s] EXCEPT !.disturbed = TRUE] ELSE call[s]]
      /\ UNCHANGED <<kinds, config, selector, directory, admin, mode, scopes>>

\* select: the list is read, and a selection by rotation begins.
Select(t) ==
  LET c == [call[t] EXCEPT !.listed = names]
      others == {s \in Threads \ {t} : call[s].pc \in Selecting}
      rotates == kinds.selector = "round_robin" /\ names # <<>>
  IN  /\ c.pc = "select"
      /\ kinds.selector = "weighted" => names = <<>>
      /\ call' = [s \in Threads |->
                    IF s = t THEN [c EXCEPT !.pc = IF rotates THEN "turn" ELSE "target",
                                            !.alone = rotates /\ others = {}]
                    ELSE IF rotates /\ s \in others THEN [call[s] EXCEPT !.alone = FALSE]
                    ELSE call[s]]
      /\ UNCHANGED <<kinds, config, selector, cache, directory, admin, mode, scopes>>

\* The weighted selector draws a point.
SelectWeighted(t) ==
  /\ call[t].pc = "select" /\ kinds.selector = "weighted" /\ names # <<>>
  /\ \E point \in 0 .. Total(names) - 1 :
       Becomes(t, [Goes(t, "target") EXCEPT !.replica = WeightedPick(names, point)])

\* self._counters.get(database, 0)
Count == IF counter = None THEN 0 ELSE counter

\* Mutant: the counter is an index of the list it was read with.
Turn_NoModulo(t) ==
  /\ call[t].pc = "turn"
  /\ Becomes(t, [Goes(t, "count") EXCEPT !.index = Count])

Turn(t) ==
  /\ call[t].pc = "turn"
  /\ Becomes(t, [Goes(t, "count") EXCEPT !.index = Count % Len(call[t].listed)])

Reread(t) ==
  /\ call[t].pc = "count" /\ Count < MaxTurns
  /\ Becomes(t, [Goes(t, "advance") EXCEPT !.read = Count])

Chosen(c) == [c EXCEPT !.pc = "target", !.replica = c.listed[c.index + 1],
                       !.index = 0, !.read = 0, !.listed = <<>>, !.alone = FALSE]

Selected(c) == IF c.alone THEN [listed |-> c.listed, index |-> c.index] ELSE None

\* Mutant: a thread that finds the counter moved leaves it alone.
Advance_Stuck(t) ==
  LET c == call[t]
  IN  /\ c.pc = "advance"
      /\ counter' = IF c.read = 0 THEN 1 ELSE counter
      /\ call' = [call EXCEPT ![t] = Chosen(c)]
      /\ last' = Selected(c)
      /\ UNCHANGED <<kinds, config, names, cache, directory, admin, mode, scopes>>

Advance(t) ==
  LET c == call[t]
  IN  /\ c.pc = "advance"
      /\ counter' = c.read + 1
      /\ call' = [call EXCEPT ![t] = Chosen(c)]
      /\ last' = Selected(c)
      /\ UNCHANGED <<kinds, config, names, cache, directory, admin, mode, scopes>>

\* _target_for looks the database and the replica up again.
Target(t) ==
  LET c == call[t]
      found == /\ config # NoDatabase
               /\ c.replica # None => Contains(Replicas[config], c.replica)
  IN  c.pc = "target" /\ Becomes(t, IF found THEN NoCall ELSE Goes(t, "refused"))

-----------------------------------------------------------------------------
(* Registration, migration and consistency scopes *)

Reconfigure(version) ==
  /\ admin = <<>> /\ version # config
  /\ admin' = <<<<"config", version>>, <<"names", version>>, <<"counter", version>>>>
  /\ UNCHANGED <<kinds, config, selector, cache, directory, call, mode, scopes>>

\* register_database.
Register(version) == version \in Versions /\ Reconfigure(version)

\* Mutant: the selector is left as it is.
Unregister_SelectorKept ==
  /\ admin = <<>> /\ config # NoDatabase
  /\ admin' = <<<<"config", NoDatabase>>>>
  /\ UNCHANGED <<kinds, config, selector, cache, directory, call, mode, scopes>>

\* unregister_database, and the eviction of a dynamic database.
Unregister == config # NoDatabase /\ Reconfigure(NoDatabase)

\* Mutant: a selector that has the database keeps its list.
ListOf_Kept(version) ==
  IF version = NoDatabase THEN <<>> ELSE IF names # <<>> THEN names ELSE Replicas[version]

\* The replica names that the selector is given for a configuration.
ListOf(version) == IF version = NoDatabase THEN <<>> ELSE Replicas[version]

\* set_replicas: the list, then the counter, which is kept while there is a list.
NewCounter(version) ==
  IF kinds.selector = "weighted" \/ ListOf(version) = <<>> THEN None ELSE Count

\* One step of the swap, in the order of the code.
Reconfigured ==
  LET step == Head(admin)[1]
      version == Head(admin)[2]
  IN  /\ admin # <<>>
      /\ admin' = Tail(admin)
      /\ config'  = IF step = "config"  THEN version ELSE config
      /\ names'   = IF step = "names"   THEN ListOf(version) ELSE names
      /\ counter' = IF step = "counter" THEN NewCounter(version) ELSE counter
      /\ call' = [t \in Threads |-> IF call[t].pc \in Ended THEN call[t]
                                    ELSE [call[t] EXCEPT !.disturbed = TRUE, !.alone = FALSE]]
      /\ last' = None
      /\ UNCHANGED <<kinds, cache, directory, mode, scopes>>

\* set_mapping, for the workflow that moves a tenant.
SetMapping(key, shard) ==
  /\ kinds.resolver = "directory"
  /\ directory' = [directory EXCEPT ![Value[key]] = shard]
  /\ UNCHANGED <<kinds, config, selector, cache, admin, call, mode, scopes>>

\* consistency_scope: a ContextVar is set, and reset to what it was.
EnterScope(t) ==
  /\ call[t].pc \in Ended /\ MapThenSumSet(LAMBDA s : Len(scopes[s]), Threads) < MaxScopes
  /\ mode' = [mode EXCEPT ![t] = TRUE]
  /\ scopes' = [scopes EXCEPT ![t] = <<mode[t]>> \o @]
  /\ call' = [call EXCEPT ![t] = NoCall]
  /\ UNCHANGED <<kinds, config, selector, cache, directory, admin>>

\* Mutant: the variable is cleared rather than reset.
LeaveScope_Clears(t) ==
  /\ call[t].pc \in Ended /\ scopes[t] # <<>>
  /\ mode' = [mode EXCEPT ![t] = FALSE]
  /\ scopes' = [scopes EXCEPT ![t] = Tail(@)]
  /\ call' = [call EXCEPT ![t] = NoCall]
  /\ UNCHANGED <<kinds, config, selector, cache, directory, admin>>

LeaveScope(t) ==
  /\ call[t].pc \in Ended /\ scopes[t] # <<>>
  /\ mode' = [mode EXCEPT ![t] = Head(scopes[t])]
  /\ scopes' = [scopes EXCEPT ![t] = Tail(@)]
  /\ call' = [call EXCEPT ![t] = NoCall]
  /\ UNCHANGED <<kinds, config, selector, cache, directory, admin>>

-----------------------------------------------------------------------------
RoutingNext ==
  \/ \E t \in Threads :
       \/ Begin(t) \/ Hash(t) \/ LookUp(t) \/ Touch(t) \/ Store(t) \/ Trim(t)
       \/ Evict(t) \/ Select(t) \/ SelectWeighted(t) \/ Turn(t) \/ Reread(t) \/ Advance(t)
       \/ Target(t) \/ EnterScope(t) \/ LeaveScope(t)
  \/ \E version \in Versions : Register(version)
  \/ Unregister \/ Reconfigured
  \/ \E m \in Moves : SetMapping(m[1], m[2])

RoutingSpec == RoutingInit /\ [][RoutingNext]_routingVars

-----------------------------------------------------------------------------
(* Properties *)

\* A key is sent to its bucket, whatever is cached and whoever resolves at the same time;
\* a key that Python holds equal to one of another text may get the bucket of that one,
\* because the cache finds them under each other.
ShardOfKey ==
  \A t \in Threads :
    kinds.resolver = "hash" /\ call[t].shard # None =>
      call[t].shard \in {Bucket[k] : k \in {k \in Keys : Equal(k, call[t].key)}}

\* The range of a key is the one between whose bounds it lies, in whatever order the
\* ranges are configured, and the weighted selector gives a replica that is listed once its
\* share.
ResolversExact ==
  /\ \A t \in Threads :
       kinds.resolver = "range" /\ call[t].shard # None =>
         \E i \in DOMAIN Ranges :
           /\ Ranges[i].shard = call[t].shard /\ Value[call[t].key] < Ranges[i].upper
           /\ \A j \in DOMAIN Ranges :
                Ranges[j].upper < Ranges[i].upper => Ranges[j].upper <= Value[call[t].key]
  /\ \A i \in DOMAIN names :
       kinds.selector = "weighted" /\ (\A j \in DOMAIN names : names[j] = names[i] => j = i) =>
         Cardinality({p \in 0 .. Total(names) - 1 : WeightedPick(names, p) = names[i]})
           = Max({Weights[names[i]], 1})

\* The cache holds a key once, and exceeds its size by no more than the entries that
\* their threads have not come to trim.
CacheBounded ==
  /\ \A i, j \in DOMAIN cache : Equal(cache[i].key, cache[j].key) => i = j
  /\ Len(cache) <= CacheSize + Cardinality({t \in Threads : call[t].pc \in {"trim", "evict"}})

\* Every resolver gives the shard it should, and the cache stays a cache.
ShardsRight == RoutingTypeOK /\ ShardOfKey /\ ResolversExact /\ CacheBounded

\* A call that found its database and its shard ends in a refusal or in a KeyError only if
\* the database was being changed, or its cached key evicted, meanwhile.
RefusalsExplained ==
  \A t \in Threads : call[t].pc \in {"refused", "KeyError"} => call[t].disturbed

\* Once a registration is over, the selector rotates through the replicas of the
\* configuration, and keeps nothing of a database that is gone.
SelectorAgrees ==
  admin = <<>> => names = ListOf(config)

\* In a consistency scope, nested ones included, no read goes to a replica.
ReadYourWrites ==
  \A t \in Threads : scopes[t] # <<>> => call[t].replica = None

\* Replicas are those of the configuration, and used outside consistency scopes only.
ReplicasRight == SelectorAgrees /\ ReadYourWrites

\* Two selections by rotation that follow each other undisturbed are neighbours in the
\* list: overlapping selections may take the same replica, or repeat a part of the
\* rotation, but they leave it working.
TurnsAdvance ==
  [][\A t \in Threads :
       LET c == call[t]
           follows == c.pc = "advance" /\ call'[t].pc = "target" /\ c.alone /\ last # None
       IN  follows /\ c.listed = last.listed => c.index = (last.index + 1) % Len(c.listed)]_routingVars
=============================================================================
