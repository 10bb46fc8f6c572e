------------------------- MODULE ThreadedCalls_proofs -------------------------
(***************************************************************************)
(* Proofs about ThreadedCalls, for any threads, settings and limits: the   *)
(* slots of every limiter are free or held, connections are covered by     *)
(* slots, and what is cached is right unless a lookup met a registration.  *)
(***************************************************************************)
EXTENDS ThreadedCalls, FiniteSetTheorems, TLAPS

\* How many tiers a call takes.
Tiered(x) == Len(Order[x.kind])

\* The limiters that are cached or that a call uses.
InUse == ({limiter} \cup {call[c].limiter : c \in Callers}) \ {None}

\* What a call holds at each point of its way.
CallOk(x) ==
  /\ x \in Calls
  /\ x.pc = "idle" => x = Rest
  /\ x.pc # "idle" => x.kind \in Kinds /\ x.held <= Tiered(x)
  /\ x.held > 0 => x.limiter # None
  /\ x.pc = "getting" => x.settings # None /\ (x.limiter # None => x.held = Tiered(x))
  /\ x.pc \in {"limiting", "looking", "storing"} => x.held = 0 /\ x.engine # None
  /\ x.pc = "looking" => x.limiter = None
  /\ x.pc \in {"storing", "taking", "scoping", "connecting", "running"} => x.limiter # None
  /\ x.pc = "taking" => x.held < Tiered(x) /\ (x.kind # "bulk" => x.engine # None)
  /\ x.pc \in {"scoping", "connecting", "running"} => x.held = Tiered(x)
  /\ x.pc \in {"connecting", "running"} => x.engine # None
  /\ x.pc = "scoping" => x.kind = "bulk"
  /\ x.conn # "none" <=> x.pc = "running"
  /\ x.outcome = "retryable" =>
       /\ x.pc = "unwinding" /\ x.kind # "bulk" /\ x.attempt < MaxAttempts
       /\ x.engine # None /\ x.limiter # None

AdminStates ==
  [pc : {"idle", "draining"} \cup Registering,
   settings : Settings \cup {None}, victim : Objects \cup {None}]

\* What an admin holds.
AdminOk(x) ==
  /\ x \in AdminStates
  /\ x.pc = "idle" => x = AtRest
  /\ x.pc \in {"disposing", "draining"} => x.victim # None

Shape ==
  /\ config \in Settings \cup {None}
  /\ engine \in Objects \cup {None} /\ limiter \in Objects \cup {None}
  /\ free \in [Ids -> [Tiers -> Nat]]
  /\ call \in [Callers -> Calls] /\ \A c \in Callers : CallOk(call[c])
  /\ admin \in [Admins -> AdminStates] /\ \A a \in Admins : AdminOk(admin[a])
  /\ changes \in 0..MaxChanges
  /\ holder \in Admins \cup {None}
  /\ \A a \in Admins : holder = a <=> admin[a].pc \notin {"idle", "draining"}
  /\ \A a \in Admins : admin[a].pc = "eager" => config # None
  /\ overlapped \in BOOLEAN

\* Limiters in use are told apart by their identities.
Distinct == \A l, m \in InUse : l.id = m.id => l = m

\* The slots of the limiters in use, at one of them and one tier.
Slots(l, t) ==
  Cap(l, t) > 0 => free[l.id][t] + Cardinality(Holding(l, t)) = Cap(l, t)

\* While lookups have met neither a registration nor each other: what is cached is what is
\* configured, but for what a registration has already taken away.
Quiet ==
  /\ ~Overlap
  /\ holder = None => \A x \in {engine, limiter} : x # None => x.settings = config
  /\ holder # None =>
       engine = None /\ (admin[holder].pc \in {"swapping", "eager"} => limiter = None)
  /\ \A c \in Callers :
       /\ call[c].pc \in LookingUp => config # None
       /\ call[c].pc = "getting" => call[c].settings = config
       /\ call[c].pc \in {"looking", "storing"} => limiter = None
       /\ call[c].pc = "storing" => call[c].limiter.settings = config
       /\ call[c].outcome # "key_error"

IInv ==
  /\ Shape
  /\ Distinct /\ \A l \in InUse, t \in Tiers : Slots(l, t)
  /\ ~overlapped => Quiet

(***************************************************************************)
(* Tiers and identities                                                    *)
(***************************************************************************)

\* Every kind of call takes at most three tiers, none of them twice.
LEMMA OrderIs ==
  ASSUME NEW k \in Kinds
  PROVE  /\ Len(Order[k]) \in 1 .. 3 /\ DOMAIN Order[k] = 1 .. Len(Order[k])
         /\ \A i \in 1 .. Len(Order[k]) : Order[k][i] \in Tiers
         /\ \A i, j \in 1 .. Len(Order[k]) : Order[k][i] = Order[k][j] => i = j
<1>1. k \in {"read", "write", "expensive", "expensive_write", "bulk"}
  BY ThreadsAssumption DEF Order
<1>2. CASE k = "read"
  <2>1. Order[k] = <<"database", "reads">>
    BY <1>2 DEF Order
  <2> QED
    BY <2>1 DEF Tiers
<1>3. CASE k = "write"
  <2>1. Order[k] = <<"database", "writes">>
    BY <1>3 DEF Order
  <2> QED
    BY <2>1 DEF Tiers
<1>4. CASE k = "expensive"
  <2>1. Order[k] = <<"database", "reads", "expensive">>
    BY <1>4 DEF Order
  <2> QED
    BY <2>1 DEF Tiers
<1>5. CASE k = "expensive_write"
  <2>1. Order[k] = <<"database", "writes", "expensive">>
    BY <1>5 DEF Order
  <2> QED
    BY <2>1 DEF Tiers
<1>6. CASE k = "bulk"
  <2>1. Order[k] = <<"database", "bulk">>
    BY <1>6 DEF Order
  <2> QED
    BY <2>1 DEF Tiers
<1> QED
  BY <1>1, <1>2, <1>3, <1>4, <1>5, <1>6

LEMMA OrderNotEmpty == \A x : x.kind \in Kinds => Tiered(x) \in 1 .. 3
  BY OrderIs DEF Tiered

\* A set smaller than the identities leaves one of them.
LEMMA Spare ==
  ASSUME NEW S, IsFiniteSet(S), Cardinality(S) < Cardinality(Ids)
  PROVE  \E i \in Ids : i \notin S
<1>1. SUFFICES ASSUME Ids \in SUBSET S PROVE FALSE
  OBVIOUS
<1>2. Cardinality(Ids) <= Cardinality(S)
  BY <1>1, FS_Subset
<1>3. Cardinality(Ids) \in Nat /\ Cardinality(S) \in Nat
  BY FS_CardinalityType, ThreadsAssumption
<1> QED
  BY <1>2, <1>3

\* The values of a function on a finite set are at most as many as its arguments.
LEMMA ValuesFewer ==
  ASSUME NEW S, IsFiniteSet(S), NEW f, f = [x \in S |-> f[x]]
  PROVE  IsFiniteSet({f[x] : x \in S}) /\ Cardinality({f[x] : x \in S}) <= Cardinality(S)
<1>1. f \in Surjection(S, {f[x] : x \in S})
  BY DEF Surjection
<1> QED
  BY <1>1, FS_Surjection

\* There is an identity for a new engine when none is registered: each thread has at most
\* one other engine in hand.
LEMMA NewEngineIs ==
  ASSUME engine = None
  PROVE  NewEngine \in Ids
<1> DEFINE f == [c \in Callers |-> call[c].engine.id]
           g == [a \in Admins |-> admin[a].victim.id]
           F == {f[c] : c \in Callers}
           G == {g[a] : a \in Admins}
           used == {engine} \cup {call[c].engine : c \in Callers}
                     \cup {admin[a].victim : a \in Admins}
<1>1. IsFiniteSet(F) /\ Cardinality(F) <= Cardinality(Callers)
  <2> HIDE DEF f
  <2>1. f = [c \in Callers |-> f[c]]
    BY DEF f
  <2> QED
    BY <2>1, ValuesFewer, ThreadsAssumption
<1>2. IsFiniteSet(G) /\ Cardinality(G) <= Cardinality(Admins)
  <2> HIDE DEF g
  <2>1. g = [a \in Admins |-> g[a]]
    BY DEF g
  <2> QED
    BY <2>1, ValuesFewer, ThreadsAssumption
<1>3. \A e \in used : e = None \/ e.id \in F \cup G
  OBVIOUS
<1> HIDE DEF F, G, used
<1>4. /\ IsFiniteSet(F \cup G)
      /\ Cardinality(F \cup G) = Cardinality(F) + Cardinality(G) - Cardinality(F \cap G)
  BY <1>1, <1>2, FS_Union
<1>5. IsFiniteSet(F \cap G)
  BY <1>1, FS_Subset
<1>6. /\ Cardinality(F) \in Nat /\ Cardinality(G) \in Nat /\ Cardinality(F \cap G) \in Nat
      /\ Cardinality(Callers) \in Nat /\ Cardinality(Admins) \in Nat /\ Cardinality(Ids) \in Nat
  BY <1>1, <1>2, <1>5, FS_CardinalityType, ThreadsAssumption
<1>7. Cardinality(Ids) > Cardinality(Callers) + Cardinality(Admins)
  BY ThreadsAssumption
<1>8. Cardinality(F \cup G) < Cardinality(Ids)
  BY <1>1, <1>2, <1>4, <1>6, <1>7
<1>9. \E i \in Ids : i \notin F \cup G
  BY <1>4, <1>8, Spare
<1>10. \E i \in Ids : \A e \in used : e = None \/ e.id # i
  BY <1>3, <1>9
<1> QED
  BY <1>10 DEF NewEngine, used

\* There is one for a new limiter, that no limiter in use has, when its caller has none.
LEMMA NewLimiterIs ==
  ASSUME NEW c \in Callers, call[c].limiter = None
  PROVE  NewLimiter \in Ids /\ \A l \in InUse : l.id # NewLimiter
<1> DEFINE f == [d \in Callers |-> IF d = c THEN limiter.id ELSE call[d].limiter.id]
           F == {f[d] : d \in Callers}
           used == {limiter} \cup {call[d].limiter : d \in Callers}
<1>1. IsFiniteSet(F) /\ Cardinality(F) <= Cardinality(Callers)
  <2> HIDE DEF f
  <2>1. f = [d \in Callers |-> f[d]]
    BY DEF f
  <2> QED
    BY <2>1, ValuesFewer, ThreadsAssumption
<1>2. \A l \in used : l = None \/ l.id \in F
  OBVIOUS
<1> HIDE DEF F, used
<1>3. /\ Cardinality(F) \in Nat /\ Cardinality(Callers) \in Nat /\ Cardinality(Admins) \in Nat
      /\ Cardinality(Ids) \in Nat
  BY <1>1, FS_CardinalityType, ThreadsAssumption
<1>4. Cardinality(Ids) > Cardinality(Callers) + Cardinality(Admins)
  BY ThreadsAssumption
<1>5. Cardinality(F) < Cardinality(Ids)
  BY <1>1, <1>3, <1>4
<1>6. \E i \in Ids : i \notin F
  BY <1>1, <1>5, Spare
<1>7. \E i \in Ids : \A l \in used : l = None \/ l.id # i
  BY <1>2, <1>6
<1>8. NewLimiter \in Ids /\ \A l \in used : l = None \/ l.id # NewLimiter
  BY <1>7 DEF NewLimiter, used
<1> QED
  BY <1>8 DEF InUse, used

(***************************************************************************)
(* Slots                                                                   *)
(***************************************************************************)

SlotsInv == Distinct /\ \A l \in InUse, t \in Tiers : Slots(l, t)

\* A call holds a slot of tier t of l.
Holds(x, l, t) ==
  /\ x.limiter # None /\ x.limiter.id = l.id
  /\ \E i \in 1 .. x.held : Order[x.kind][i] = t

LEMMA HoldingIs == \A l, t : Holding(l, t) = {c \in Callers : Holds(call[c], l, t)}
  BY DEF Holding, Holds

LEMMA InUseTyped ==
  ASSUME Shape
  PROVE  InUse \subseteq Objects
  BY DEF Shape, InUse, Calls

\* Nothing changes for the slots if no limiter comes into use and every call keeps what it
\* holds, or holds nothing.
LEMMA SlotsKept ==
  ASSUME SlotsInv, free' = free, InUse' \subseteq InUse,
         \A d \in Callers :
           \/ call[d].held = 0 /\ call'[d].held = 0
           \/ /\ call'[d].limiter = call[d].limiter /\ call'[d].held = call[d].held
              /\ call'[d].kind = call[d].kind
  PROVE  SlotsInv'
<1>1. \A d \in Callers : \A l, t : Holds(call'[d], l, t) <=> Holds(call[d], l, t)
  BY DEF Holds
<1>2. \A l, t : Holding(l, t)' = Holding(l, t)
  BY <1>1, HoldingIs DEF Holding, Holds
<1>3. \A l \in InUse', t \in Tiers : Slots(l, t)'
  BY <1>2 DEF SlotsInv, Slots, Cap
<1>4. Distinct'
  BY DEF SlotsInv, Distinct
<1> QED
  BY <1>3, <1>4 DEF SlotsInv

\* A call that begins to hold tier t of its limiter takes a slot of it, and of no other.
LEMMA HoldsMore ==
  ASSUME NEW x, NEW y, x.kind \in Kinds, x.held \in Nat, x.held < Tiered(x),
         x.limiter # None, y.limiter = x.limiter, y.kind = x.kind, y.held = x.held + 1
  PROVE  LET u == Order[x.kind][x.held + 1] IN
         /\ u \in Tiers
         /\ \A l, t : Holds(y, l, t) <=> Holds(x, l, t) \/ (l.id = x.limiter.id /\ t = u)
         /\ ~Holds(x, x.limiter, u)
<1> DEFINE k == x.kind  h == x.held  u == Order[k][h + 1]
<1>1. /\ Len(Order[k]) \in 1 .. 3 /\ \A i \in 1 .. Len(Order[k]) : Order[k][i] \in Tiers
      /\ \A i, j \in 1 .. Len(Order[k]) : Order[k][i] = Order[k][j] => i = j
  BY OrderIs
<1>2. h \in Nat /\ h < Len(Order[k])
  BY DEF Tiered
<1>3. h + 1 \in 1 .. Len(Order[k]) /\ 1 .. h \subseteq 1 .. Len(Order[k])
  BY <1>1, <1>2
<1>4. u \in Tiers
  BY <1>1, <1>3
<1>5. \A i : i \in 1 .. (h + 1) <=> i \in 1 .. h \/ i = h + 1
  BY <1>2
<1>6. \A t : (\E i \in 1 .. (h + 1) : Order[k][i] = t)
                <=> (\E i \in 1 .. h : Order[k][i] = t) \/ t = u
  BY <1>5
<1>7. \A l, t : Holds(y, l, t) <=> Holds(x, l, t) \/ (l.id = x.limiter.id /\ t = u)
  BY <1>6 DEF Holds
<1>8. ~\E i \in 1 .. h : Order[k][i] = u
  <2>1. SUFFICES ASSUME NEW i \in 1 .. h, Order[k][i] = u PROVE FALSE
    OBVIOUS
  <2>2. i = h + 1
    BY <1>1, <1>3, <2>1
  <2> QED
    BY <1>2, <2>2
<1>9. ~Holds(x, x.limiter, u)
  BY <1>8 DEF Holds
<1> QED
  BY <1>4, <1>7, <1>9

\* Other calls hold what they held.
LEMMA OthersHold ==
  ASSUME Shape, NEW c \in Callers, NEW y, Goes(c, y)
  PROVE  call'[c] = y /\ \A d \in Callers \ {c} : call'[d] = call[d]
  BY DEF Shape, Goes

\* The effect of an update of the free slots of a tier.
LEMMA FreeUpdated ==
  ASSUME NEW f \in [Ids -> [Tiers -> Nat]], NEW i \in Ids, NEW u \in Tiers, NEW n \in Nat,
         NEW g, g = [f EXCEPT ![i][u] = n]
  PROVE  /\ g \in [Ids -> [Tiers -> Nat]]
         /\ \A j \in Ids, t \in Tiers : g[j][t] = IF j = i /\ t = u THEN n ELSE f[j][t]
<1> DEFINE r == [f[i] EXCEPT ![u] = n]
<1>1. r \in [Tiers -> Nat] /\ \A t \in Tiers : r[t] = IF t = u THEN n ELSE f[i][t]
  OBVIOUS
<1>2. g = [f EXCEPT ![i] = r]
  OBVIOUS
<1> HIDE DEF r
<1> QED
  BY <1>1, <1>2

\* A slot that is taken goes from the free ones to those that are held.
LEMMA SlotsTaken ==
  ASSUME Shape, SlotsInv, NEW c \in Callers, NEW y, Goes(c, y), limiter' = limiter,
         call[c].pc = "taking", y.limiter = call[c].limiter, y.kind = call[c].kind,
         y.held = call[c].held + 1,
         NEW m, m = call[c].limiter, NEW u, u = Tier(c),
         \A i \in Ids, t \in Tiers :
           free'[i][t] = IF i = m.id /\ t = u /\ Cap(m, u) > 0 THEN free[i][t] - 1 ELSE free[i][t]
  PROVE  SlotsInv'
<1> DEFINE x == call[c]
<1>1. CallOk(x) /\ x.kind \in Kinds /\ x.held \in Nat /\ x.held < Tiered(x) /\ m # None
  BY DEF Shape, CallOk, Calls
<1>2. m \in Objects /\ m \in InUse
  BY <1>1 DEF Shape, Calls, InUse
<1>3. /\ u \in Tiers /\ u = Order[x.kind][x.held + 1]
      /\ \A l, t : Holds(y, l, t) <=> Holds(x, l, t) \/ (l.id = m.id /\ t = u)
      /\ ~Holds(x, m, u)
  BY <1>1, HoldsMore DEF Tier
<1>4. call'[c] = y /\ \A d \in Callers \ {c} : call'[d] = call[d]
  BY OthersHold
<1>5. InUse' = InUse
  BY <1>4 DEF InUse
<1>6. free \in [Ids -> [Tiers -> Nat]] /\ m.id \in Ids /\ Cap(m, u) \in Nat
  BY <1>2, <1>3, ThreadsAssumption DEF Shape, Objects, Cap
<1>10. \A l, t : Holding(l, t)' = {d \in Callers : Holds(call'[d], l, t)}
  BY DEF Holding, Holds
<1>11. ASSUME NEW l \in InUse, NEW t \in Tiers, ~(l = m /\ t = u)
       PROVE  Slots(l, t)'
  <2>1. ~(l.id = m.id /\ t = u)
    BY <1>2, <1>11 DEF SlotsInv, Distinct
  <2>2. \A d \in Callers : Holds(call'[d], l, t) <=> Holds(call[d], l, t)
    BY <1>3, <1>4, <2>1
  <2>3. Holding(l, t)' = Holding(l, t)
    BY <1>10, <2>2, HoldingIs
  <2>4. free'[l.id][t] = free[l.id][t]
    BY <2>1, InUseTyped DEF Objects
  <2> QED
    BY <2>3, <2>4 DEF SlotsInv, Slots, Cap
<1>12. Slots(m, u)'
  <2>1. SUFFICES ASSUME Cap(m, u) > 0
                 PROVE  free'[m.id][u] + Cardinality(Holding(m, u)') = Cap(m, u)
    BY DEF Slots, Cap
  <2>2. free[m.id][u] + Cardinality(Holding(m, u)) = Cap(m, u)
    BY <1>2, <1>3, <2>1 DEF SlotsInv, Slots
  <2>3. Holding(m, u)' = Holding(m, u) \cup {c} /\ c \notin Holding(m, u)
    <3>1. \A d \in Callers : Holds(call'[d], m, u) <=> Holds(call[d], m, u) \/ d = c
      BY <1>3, <1>4
    <3> QED
      BY <1>3, <1>10, <3>1, HoldingIs
  <2>4. IsFiniteSet(Holding(m, u))
    BY HoldingIs, FS_Subset, ThreadsAssumption
  <2>5. Cardinality(Holding(m, u)') = Cardinality(Holding(m, u)) + 1
    BY <2>3, <2>4, FS_AddElement
  <2>6. free'[m.id][u] = free[m.id][u] - 1
    BY <1>3, <1>6, <2>1
  <2>7. Cardinality(Holding(m, u)) \in Nat /\ free[m.id][u] \in Nat /\ Cap(m, u) \in Nat
    BY <1>3, <1>6, <2>4, FS_CardinalityType
  <2> QED
    BY <2>2, <2>5, <2>6, <2>7
<1>13. Distinct'
  BY <1>5 DEF SlotsInv, Distinct
<1> QED
  BY <1>5, <1>11, <1>12, <1>13 DEF SlotsInv

\* A slot that is given back goes from those that are held to the free ones.
LEMMA SlotsGivenBack ==
  ASSUME Shape, SlotsInv, NEW c \in Callers, NEW y, Goes(c, y), limiter' = limiter,
         call[c].pc = "unwinding", call[c].held > 0, y.limiter = call[c].limiter,
         y.kind = call[c].kind, y.held = call[c].held - 1,
         NEW m, m = call[c].limiter, NEW u, u = Order[call[c].kind][call[c].held],
         \A i \in Ids, t \in Tiers :
           free'[i][t] = IF i = m.id /\ t = u /\ Cap(m, u) > 0 THEN free[i][t] + 1 ELSE free[i][t]
  PROVE  SlotsInv'
<1> DEFINE x == call[c]
<1>1. CallOk(x) /\ x.kind \in Kinds /\ x.held \in Nat /\ x.held <= Tiered(x) /\ m # None
  BY DEF Shape, CallOk, Calls
<1>2. m \in Objects /\ m \in InUse
  BY <1>1 DEF Shape, Calls, InUse
<1>3. /\ u \in Tiers
      /\ \A l, t : Holds(x, l, t) <=> Holds(y, l, t) \/ (l.id = m.id /\ t = u)
      /\ ~Holds(y, m, u)
  <2>1. /\ y.kind \in Kinds /\ y.held \in Nat /\ y.held < Tiered(y) /\ y.limiter # None
        /\ x.held = y.held + 1
    <3>1. Tiered(x) \in Nat /\ Tiered(y) = Tiered(x)
      BY <1>1, OrderNotEmpty DEF Tiered
    <3> QED
      BY <1>1, <3>1
  <2>2. LET v == Order[y.kind][y.held + 1] IN
        /\ v \in Tiers
        /\ \A l, t : Holds(x, l, t) <=> Holds(y, l, t) \/ (l.id = y.limiter.id /\ t = v)
        /\ ~Holds(y, y.limiter, v)
    BY <2>1, HoldsMore
  <2> QED
    BY <2>1, <2>2
<1>4. call'[c] = y /\ \A d \in Callers \ {c} : call'[d] = call[d]
  BY OthersHold
<1>5. InUse' = InUse
  BY <1>4 DEF InUse
<1>6. free \in [Ids -> [Tiers -> Nat]] /\ m.id \in Ids /\ Cap(m, u) \in Nat
  BY <1>2, <1>3, ThreadsAssumption DEF Shape, Objects, Cap
<1>10. \A l, t : Holding(l, t)' = {d \in Callers : Holds(call'[d], l, t)}
  BY DEF Holding, Holds
<1>11. ASSUME NEW l \in InUse, NEW t \in Tiers, ~(l = m /\ t = u)
       PROVE  Slots(l, t)'
  <2>1. ~(l.id = m.id /\ t = u)
    BY <1>2, <1>11 DEF SlotsInv, Distinct
  <2>2. \A d \in Callers : Holds(call'[d], l, t) <=> Holds(call[d], l, t)
    BY <1>3, <1>4, <2>1
  <2>3. Holding(l, t)' = Holding(l, t)
    BY <1>10, <2>2, HoldingIs
  <2>4. free'[l.id][t] = free[l.id][t]
    BY <2>1, InUseTyped DEF Objects
  <2> QED
    BY <2>3, <2>4 DEF SlotsInv, Slots, Cap
<1>12. Slots(m, u)'
  <2>1. SUFFICES ASSUME Cap(m, u) > 0
                 PROVE  free'[m.id][u] + Cardinality(Holding(m, u)') = Cap(m, u)
    BY DEF Slots, Cap
  <2>2. free[m.id][u] + Cardinality(Holding(m, u)) = Cap(m, u)
    BY <1>2, <1>3, <2>1 DEF SlotsInv, Slots
  <2>3. Holding(m, u) = Holding(m, u)' \cup {c} /\ c \notin Holding(m, u)'
    <3>1. \A d \in Callers : Holds(call[d], m, u) <=> Holds(call'[d], m, u) \/ d = c
      BY <1>3, <1>4
    <3>2. ~Holds(call'[c], m, u)
      BY <1>3, <1>4
    <3> QED
      BY <1>10, <3>1, <3>2, HoldingIs
  <2>4. IsFiniteSet(Holding(m, u)')
    BY <1>10, FS_Subset, ThreadsAssumption
  <2>5. Cardinality(Holding(m, u)) = Cardinality(Holding(m, u)') + 1
    BY <2>3, <2>4, FS_AddElement
  <2>6. free'[m.id][u] = free[m.id][u] + 1
    BY <1>3, <1>6, <2>1
  <2>7. Cardinality(Holding(m, u)') \in Nat /\ free[m.id][u] \in Nat
    BY <1>3, <1>6, <2>4, FS_CardinalityType
  <2>8. \A f, h \in Nat : (f + 1) + h = f + (h + 1)
    OBVIOUS
  <2>9. (free[m.id][u] + 1) + Cardinality(Holding(m, u)')
           = free[m.id][u] + (Cardinality(Holding(m, u)') + 1)
    BY <2>7, <2>8
  <2> QED
    BY <2>2, <2>5, <2>6, <2>9, Zenon
<1>13. Distinct'
  BY <1>5 DEF SlotsInv, Distinct
<1> QED
  BY <1>5, <1>11, <1>12, <1>13 DEF SlotsInv
\* A new limiter has a free slot for each that its settings allow; nobody holds any.
LEMMA SlotsMade ==
  ASSUME Shape, SlotsInv, NEW c \in Callers, NEW y, Goes(c, y), limiter' = limiter,
         call[c].pc = "looking", config \in Settings, y.held = 0,
         NEW m, m = [id |-> NewLimiter, settings |-> config], y.limiter = m,
         \A i \in Ids, t \in Tiers :
           free'[i][t] = IF i = m.id THEN Limits[config][t] ELSE free[i][t]
  PROVE  SlotsInv'
<1>1. call[c].limiter = None /\ call[c].held = 0
  BY DEF Shape, CallOk
<1>2. NewLimiter \in Ids /\ \A l \in InUse : l.id # NewLimiter
  BY <1>1, NewLimiterIs
<1>3. m \in Objects /\ m.id \in Ids /\ m.settings = config /\ \A l \in InUse : l.id # m.id
  BY <1>2 DEF Objects
<1>4. call'[c] = y /\ \A d \in Callers \ {c} : call'[d] = call[d]
  BY OthersHold
<1>5. InUse' \subseteq InUse \cup {m}
  BY <1>4 DEF InUse
<1>6. \A l, t : ~Holds(call'[c], l, t) /\ ~Holds(call[c], l, t)
  BY <1>1, <1>4 DEF Holds
<1>7. \A l, t : Holding(l, t)' = {d \in Callers : Holds(call'[d], l, t)}
  BY DEF Holding, Holds
<1>8. \A l, t : Holding(l, t)' = Holding(l, t)
  <2>1. \A d \in Callers : \A l, t : Holds(call'[d], l, t) <=> Holds(call[d], l, t)
    BY <1>4, <1>6
  <2> QED
    BY <1>7, <2>1, HoldingIs
<1>9. ASSUME NEW l \in InUse, NEW t \in Tiers PROVE Slots(l, t)'
  <2>1. free'[l.id][t] = free[l.id][t]
    BY <1>3, InUseTyped DEF Objects
  <2> QED
    BY <1>8, <2>1 DEF SlotsInv, Slots, Cap
<1>10. ASSUME NEW t \in Tiers PROVE Slots(m, t)'
  <2>1. \A d \in Callers : ~Holds(call[d], m, t)
    BY <1>3 DEF Holds, InUse
  <2>2. Holding(m, t)' = {}
    BY <1>8, <2>1, HoldingIs
  <2>3. free'[m.id][t] = Cap(m, t) /\ Cap(m, t) \in Nat
    BY <1>3, ThreadsAssumption DEF Cap
  <2>4. Cardinality(Holding(m, t)') = 0
    BY <2>2, FS_EmptySet
  <2>5. free'[m.id][t] + Cardinality(Holding(m, t)') = Cap(m, t)
    BY <2>3, <2>4
  <2> QED
    BY <2>5 DEF Slots, Cap
<1>11. Distinct'
  BY <1>3, <1>5 DEF SlotsInv, Distinct
<1> QED
  BY <1>5, <1>9, <1>10, <1>11 DEF SlotsInv

(***************************************************************************)
(* What a step of a caller has to show                                     *)
(***************************************************************************)

\* A call while lookups have met nothing.
QuietCall(x) ==
  /\ x.pc \in LookingUp => config # None
  /\ x.pc = "getting" => x.settings = config
  /\ x.pc \in {"looking", "storing"} => limiter = None
  /\ x.pc = "storing" => x.limiter.settings = config
  /\ x.outcome # "key_error"

\* What is cached changes by a lookup only, to what is made from the settings in force.
CachedBy(c) ==
  \/ engine' = engine /\ limiter' = limiter
  \/ call[c].pc = "getting" /\ limiter' = limiter /\ engine'.settings = config
  \/ call[c].pc = "storing" /\ engine' = engine /\ limiter'.settings = config

\* A caller's step keeps the shape if its new call has it.
LEMMA ShapeKept ==
  ASSUME Shape, Noted, NEW c \in Callers, NEW y, Goes(c, y), CallOk(y),
         UNCHANGED <<config, admin, changes, holder>>,
         engine' \in Objects \cup {None}, limiter' \in Objects \cup {None},
         free' \in [Ids -> [Tiers -> Nat]]
  PROVE  Shape'
<1>1. call' \in [Callers -> Calls] /\ \A d \in Callers : CallOk(call'[d])
  BY DEF Shape, Goes, CallOk
<1>2. overlapped' \in BOOLEAN
  BY DEF Noted, Shape
<1> QED
  BY <1>1, <1>2 DEF Shape, CallOk, AdminOk

\* It keeps the calm if its new call does.
LEMMA QuietKept ==
  ASSUME Shape, Quiet, Noted, ~overlapped', NEW c \in Callers, NEW y, Goes(c, y),
         UNCHANGED <<config, admin, holder>>, CachedBy(c), QuietCall(y)'
  PROVE  Quiet'
<1>1. call'[c] = y /\ \A d \in Callers \ {c} : call'[d] = call[d]
  BY OthersHold
<1>2. ~Overlap' /\ ~Overlap
  BY DEF Noted, Quiet
<1>3. holder # None => engine' = engine /\ limiter' = limiter
  BY <1>2 DEF Overlap, LookingUp, CachedBy
<1>4. (holder = None => \A x \in {engine, limiter} : x # None => x.settings = config)'
  BY DEF Quiet, CachedBy
<1>5. (holder # None => engine = None
                        /\ (admin[holder].pc \in {"swapping", "eager"} => limiter = None))'
  BY <1>3 DEF Quiet
<1>6. ASSUME NEW d \in Callers \ {c} PROVE QuietCall(call[d])'
  <2>1. QuietCall(call[d])
    BY DEF Quiet, QuietCall
  <2>2. call[d].pc \in {"looking", "storing"} => limiter' = limiter
    BY <1>2 DEF CachedBy, Overlap
  <2> QED
    BY <1>1, <2>1, <2>2 DEF QuietCall
<1>7. \A d \in Callers : QuietCall(call[d])'
  BY <1>1, <1>6 DEF QuietCall
<1> QED
  BY <1>2, <1>4, <1>5, <1>7 DEF Quiet, QuietCall

LEMMA CallerStep ==
  ASSUME IInv, Noted, NEW c \in Callers, NEW y, Goes(c, y), CallOk(y),
         UNCHANGED <<config, admin, changes, holder>>,
         engine' \in Objects \cup {None}, limiter' \in Objects \cup {None},
         free' \in [Ids -> [Tiers -> Nat]], SlotsInv',
         Quiet => CachedBy(c) /\ QuietCall(y)'
  PROVE  IInv'
<1>1. Shape'
  BY ShapeKept DEF IInv
<1>2. ASSUME ~overlapped' PROVE Quiet'
  <2>1. ~overlapped /\ Quiet
    BY <1>2 DEF Noted, IInv
  <2> QED
    BY <1>2, <2>1, QuietKept DEF IInv
<1> QED
  BY <1>1, <1>2 DEF IInv, SlotsInv
(***************************************************************************)
(* The steps of a caller                                                   *)
(***************************************************************************)

LEMMA CallTyped ==
  ASSUME Shape, NEW c \in Callers
  PROVE  call[c] \in Calls /\ CallOk(call[c])
  BY DEF Shape

LEMMA InUseKept ==
  ASSUME Shape, NEW c \in Callers, NEW y, Goes(c, y), limiter' = limiter,
         y.limiter \in InUse \cup {None}
  PROVE  InUse' \subseteq InUse
<1>1. call'[c] = y /\ \A d \in Callers \ {c} : call'[d] = call[d]
  BY OthersHold
<1> QED
  BY <1>1 DEF InUse

\* A step that takes and gives back no slot and does not touch what is cached.
LEMMA PlainStep ==
  ASSUME IInv, Noted, NEW c \in Callers, NEW y, Goes(c, y), CallOk(y), UNCHANGED Shared,
         y.limiter \in InUse \cup {None},
         \/ call[c].held = 0 /\ y.held = 0
         \/ y.limiter = call[c].limiter /\ y.held = call[c].held /\ y.kind = call[c].kind,
         Quiet => QuietCall(y)
  PROVE  IInv'
<1>1. /\ UNCHANGED <<config, admin, changes, holder>> /\ free' = free
      /\ engine' = engine /\ limiter' = limiter
  BY DEF Shared
<1>2. call'[c] = y /\ \A d \in Callers \ {c} : call'[d] = call[d]
  BY OthersHold DEF IInv
<1>3. InUse' \subseteq InUse
  BY <1>1, InUseKept DEF IInv
<1>4. SlotsInv'
  BY <1>1, <1>2, <1>3, SlotsKept DEF IInv, SlotsInv
<1>5. Quiet => CachedBy(c) /\ QuietCall(y)'
  BY <1>1 DEF CachedBy, QuietCall
<1>6. /\ engine' \in Objects \cup {None} /\ limiter' \in Objects \cup {None}
      /\ free' \in [Ids -> [Tiers -> Nat]]
  BY <1>1 DEF IInv, Shape
<1> QED
  BY <1>1, <1>4, <1>5, <1>6, CallerStep

LEMMA LimiterOfCall ==
  ASSUME Shape, NEW c \in Callers
  PROVE  call[c].limiter \in InUse \cup {None}
  BY DEF InUse

LEMMA QuietCaller ==
  ASSUME Quiet, NEW c \in Callers
  PROVE  QuietCall(call[c])
  BY DEF Quiet, QuietCall

LEMMA RestOk == CallOk(Rest) /\ Rest \in Calls
<1>1. MaxAttempts \in Nat \ {0}
  BY ThreadsAssumption
<1> QED
  BY <1>1 DEF CallOk, Rest, Calls, LookingUp

\* The fields of a call.
ACall(pc, kind, settings, eng, lim, attempt, held, conn, outcome) ==
  [pc |-> pc, kind |-> kind, settings |-> settings, engine |-> eng, limiter |-> lim,
   attempt |-> attempt, held |-> held, conn |-> conn, outcome |-> outcome]

IsCall(x) ==
  x = ACall(x.pc, x.kind, x.settings, x.engine, x.limiter, x.attempt, x.held, x.conn,
            x.outcome)

LEMMA CallIs ==
  ASSUME NEW x \in Calls
  PROVE  IsCall(x)
  BY DEF Calls, IsCall, ACall

LEMMA BeginStep ==
  ASSUME IInv, Noted, NEW c \in Callers, NEW k \in Kinds, Begin(c, k)
  PROVE  IInv'
<1>1. PICK y : /\ Goes(c, y) /\ UNCHANGED Shared
               /\ y = ACall("getting", k, config, None, None, 1, 0, "none", "none")
  <2>1. PICK x : x = Rest
    OBVIOUS
  <2>2. PICK y : Goes(c, y) /\ y = [x EXCEPT !.pc = "getting", !.kind = k, !.settings = config]
    BY <2>1 DEF Begin
  <2>3. /\ IsCall(x) /\ x.engine = None /\ x.limiter = None /\ x.attempt = 1 /\ x.held = 0
        /\ x.conn = "none" /\ x.outcome = "none"
    BY <2>1 DEF Rest, IsCall, ACall
  <2>4. y = ACall("getting", k, config, x.engine, x.limiter, x.attempt, x.held, x.conn,
                  x.outcome)
    BY <2>2, <2>3 DEF IsCall, ACall
  <2> QED
    BY <2>2, <2>3, <2>4 DEF Begin
<1>2. config \in Settings /\ config # None /\ call[c].held = 0
  <2>1. call[c] = Rest /\ config # None
    BY CallTyped DEF IInv, CallOk, Begin
  <2> QED
    BY <2>1 DEF IInv, Shape, Rest
<1>3. y \in Calls
  <2>1. MaxAttempts \in Nat \ {0}
    BY ThreadsAssumption
  <2> QED
    BY <1>1, <1>2, <2>1 DEF Calls, LookingUp, ACall
<1>4. Tiered(y) \in 1 .. 3
  BY <1>1, OrderNotEmpty DEF ACall
<1>5. CallOk(y)
  BY <1>1, <1>2, <1>3, <1>4 DEF CallOk, ACall
<1>6. QuietCall(y)
  BY <1>1, <1>2 DEF QuietCall, ACall
<1>7. y.limiter = None /\ y.held = 0
  BY <1>1 DEF ACall
<1> QED
  BY <1>1, <1>2, <1>5, <1>6, <1>7, PlainStep

LEMMA RefusedStep ==
  ASSUME IInv, Noted, NEW c \in Callers, Refused(c)
  PROVE  IInv'
<1>1. Goes(c, call[c]) /\ UNCHANGED Shared
  BY DEF Refused, Goes, IInv, Shape
<1> QED
  BY <1>1, CallTyped, LimiterOfCall, QuietCaller, PlainStep DEF IInv

LEMMA GotTyped ==
  ASSUME Shape, NEW s \in Settings
  PROVE  /\ Got(s) \in Objects
         /\ engine = None => Got(s).settings = s
  BY NewEngineIs DEF Shape, Got, Objects

LEMMA GotEngine ==
  ASSUME NEW x, CallOk(x), x.pc = "getting", NEW e \in Objects, NEW p,
         p = IF x.limiter = None THEN "limiting" ELSE "connecting",
         NEW y,
         y = ACall(p, x.kind, None, e, x.limiter, x.attempt, x.held, x.conn, x.outcome)
  PROVE  /\ CallOk(y) /\ y.pc = p /\ y.held = x.held /\ y.kind = x.kind
         /\ y.limiter = x.limiter /\ y.outcome = x.outcome
<1>1. x \in Calls
  BY DEF CallOk
<1>2. p \in {"limiting", "connecting"}
  OBVIOUS
<1>3. y \in Calls
  BY <1>1, <1>2 DEF Calls, LookingUp, ACall
<1>4. e # None /\ Tiered(y) = Tiered(x)
  BY ThreadsAssumption DEF Tiered, ACall
<1>5. x.limiter = None => x.held = 0
  BY <1>1 DEF CallOk, Calls
<1>6. CallOk(y)
  BY <1>3, <1>4, <1>5 DEF CallOk, ACall
<1> QED
  BY <1>6 DEF ACall

LEMMA GetEngineStep ==
  ASSUME IInv, Noted, NEW c \in Callers, GetEngine(c)
  PROVE  IInv'
<1> DEFINE x == call[c]
<1>1. CallOk(x) /\ x.pc = "getting" /\ x.settings \in Settings
  BY CallTyped DEF IInv, GetEngine, CallOk, Calls
<1>2. PICK e : e = Got(x.settings)
  OBVIOUS
<1>3. e \in Objects
  BY <1>1, <1>2, GotTyped DEF IInv
<1>4. PICK p : p = IF x.limiter = None THEN "limiting" ELSE "connecting"
  OBVIOUS
<1>5. PICK y : /\ Goes(c, y)
               /\ y = ACall(p, x.kind, None, e, x.limiter, x.attempt, x.held, x.conn,
                            x.outcome)
  <2>1. PICK y : Goes(c, y) /\ y = [x EXCEPT !.engine = e, !.settings = None, !.pc = p]
    BY <1>2, <1>4 DEF GetEngine
  <2>2. IsCall(x)
    BY <1>1, CallIs DEF CallOk
  <2> QED
    BY <2>1, <2>2 DEF IsCall, ACall
<1>6. /\ engine' = e /\ limiter' = limiter /\ free' = free
      /\ UNCHANGED <<config, admin, changes, holder>>
  BY <1>2 DEF GetEngine
<1>7. /\ CallOk(y) /\ y.pc = p /\ y.held = x.held /\ y.kind = x.kind
      /\ y.limiter = x.limiter /\ y.outcome = x.outcome
  BY <1>1, <1>3, <1>4, <1>5, GotEngine
<1>8. call'[c] = y /\ \A d \in Callers \ {c} : call'[d] = call[d]
  BY <1>5, OthersHold DEF IInv
<1>9. SlotsInv'
  <2>1. InUse' \subseteq InUse
    BY <1>5, <1>6, <1>7, LimiterOfCall, InUseKept DEF IInv
  <2> QED
    BY <1>6, <1>7, <1>8, <2>1, SlotsKept DEF IInv, SlotsInv
<1>10. ASSUME Quiet PROVE CachedBy(c) /\ QuietCall(y)'
  <2>1. QuietCall(x)
    BY <1>10, QuietCaller
  <2>2. holder = None
    BY <1>1, <1>10 DEF Quiet, Overlap, LookingUp
  <2>3. engine # None => engine.settings = config
    BY <1>10, <2>2 DEF Quiet
  <2>4. e.settings = config
    BY <1>1, <1>2, <2>1, <2>3 DEF Got, QuietCall
  <2>5. CachedBy(c)
    BY <1>1, <1>6, <2>4 DEF CachedBy
  <2>6. config' = config /\ config # None /\ x.outcome # "key_error"
    BY <1>1, <1>6, <2>1 DEF QuietCall, LookingUp
  <2>7. QuietCall(y)'
    BY <1>4, <1>7, <2>6 DEF QuietCall
  <2> QED
    BY <2>5, <2>7
<1>11. /\ engine' \in Objects \cup {None} /\ limiter' \in Objects \cup {None}
       /\ free' \in [Ids -> [Tiers -> Nat]]
  BY <1>3, <1>6 DEF IInv, Shape
<1> QED
  BY <1>5, <1>6, <1>7, <1>9, <1>10, <1>11, CallerStep

LEMMA GotLimiter ==
  ASSUME NEW x, CallOk(x), x.pc = "limiting", NEW l \in Objects \cup {None}, NEW p,
         p = IF l # None THEN "taking" ELSE "looking",
         NEW y,
         y = ACall(p, x.kind, x.settings, x.engine, l, x.attempt, x.held, x.conn, x.outcome)
  PROVE  /\ CallOk(y) /\ y.pc = p /\ x.held = 0 /\ y.held = 0
         /\ y.limiter = l /\ y.outcome = x.outcome
<1>1. x \in Calls
  BY DEF CallOk
<1>2. p \in {"taking", "looking"}
  OBVIOUS
<1>3. y \in Calls
  BY <1>1, <1>2 DEF Calls, LookingUp, ACall
<1>4. x.held = 0 /\ Tiered(y) \in 1 .. 3 /\ Tiered(y) = Tiered(x)
  BY OrderNotEmpty DEF Tiered, CallOk, ACall
<1>5. CASE l # None
  BY <1>3, <1>4, <1>5 DEF CallOk, ACall
<1>6. CASE l = None
  BY <1>3, <1>4, <1>6 DEF CallOk, ACall
<1> QED
  BY <1>5, <1>6

LEMMA LimiterGetStep ==
  ASSUME IInv, Noted, NEW c \in Callers, LimiterGet(c)
  PROVE  IInv'
<1> DEFINE x == call[c]
<1>1. CallOk(x) /\ x.pc = "limiting" /\ limiter \in Objects \cup {None}
  BY CallTyped DEF IInv, LimiterGet, Shape
<1>2. PICK p : p = IF limiter # None THEN "taking" ELSE "looking"
  OBVIOUS
<1>3. PICK y : /\ Goes(c, y)
               /\ y = ACall(p, x.kind, x.settings, x.engine, limiter, x.attempt, x.held, x.conn,
                            x.outcome)
  <2>1. PICK y : Goes(c, y) /\ y = [x EXCEPT !.limiter = limiter, !.pc = p]
    BY <1>2 DEF LimiterGet
  <2>2. IsCall(x)
    BY <1>1, CallIs DEF CallOk
  <2> QED
    BY <2>1, <2>2 DEF IsCall, ACall
<1>4. /\ CallOk(y) /\ y.pc = p /\ x.held = 0 /\ y.held = 0
      /\ y.limiter = limiter /\ y.outcome = x.outcome
  BY <1>1, <1>2, <1>3, GotLimiter
<1>5. Quiet => QuietCall(y)
  BY <1>1, <1>2, <1>4, QuietCaller DEF QuietCall, LookingUp
<1>6. y.limiter \in InUse \cup {None} /\ UNCHANGED Shared
  BY <1>4 DEF InUse, LimiterGet
<1> QED
  BY <1>3, <1>4, <1>5, <1>6, PlainStep
LEMMA MadeOk ==
  ASSUME NEW x, CallOk(x), x.pc = "looking", NEW m \in Objects, NEW y,
         y = ACall("storing", x.kind, x.settings, x.engine, m, x.attempt, x.held, x.conn,
                   x.outcome)
  PROVE  /\ CallOk(y) /\ y.pc = "storing" /\ y.held = 0 /\ y.limiter = m
         /\ y.outcome = x.outcome
<1>1. x \in Calls
  BY DEF CallOk
<1>2. y \in Calls
  BY <1>1 DEF Calls, LookingUp, ACall
<1>3. m # None /\ Tiered(y) = Tiered(x) /\ x.held = 0
  BY ThreadsAssumption DEF Tiered, ACall, CallOk
<1>4. CallOk(y)
  BY <1>2, <1>3 DEF CallOk, ACall
<1> QED
  BY <1>3, <1>4 DEF ACall

LEMMA LimiterMadeStep ==
  ASSUME IInv, Noted, NEW c \in Callers, LimiterMade(c)
  PROVE  IInv'
<1> DEFINE x == call[c]
<1>1. CallOk(x) /\ x.pc = "looking" /\ config \in Settings /\ config # None
  BY CallTyped DEF IInv, LimiterMade, Shape
<1>2. PICK m : m = [id |-> NewLimiter, settings |-> config]
  OBVIOUS
<1>3. PICK y : /\ Goes(c, y)
               /\ y = ACall("storing", x.kind, x.settings, x.engine, m, x.attempt, x.held,
                            x.conn, x.outcome)
  <2>1. PICK y : Goes(c, y) /\ y = [x EXCEPT !.limiter = m, !.pc = "storing"]
    BY <1>2 DEF LimiterMade
  <2>2. IsCall(x)
    BY <1>1, CallIs DEF CallOk
  <2> QED
    BY <2>1, <2>2 DEF IsCall, ACall
<1>4. x.limiter = None
  BY <1>1 DEF CallOk
<1>5. NewLimiter \in Ids
  BY <1>4, NewLimiterIs
<1>6. m \in Objects /\ m.id = NewLimiter /\ m.settings = config
  BY <1>1, <1>2, <1>5 DEF Objects
<1>7. /\ CallOk(y) /\ y.pc = "storing" /\ y.held = 0 /\ y.limiter = m
      /\ y.outcome = x.outcome
  BY <1>1, <1>3, <1>6, MadeOk
<1>8. /\ engine' = engine /\ limiter' = limiter /\ UNCHANGED <<config, admin, changes, holder>>
      /\ free' = [free EXCEPT ![m.id] = Limits[config]]
  BY <1>6 DEF LimiterMade
<1>9. /\ free' \in [Ids -> [Tiers -> Nat]]
      /\ \A i \in Ids, t \in Tiers :
           free'[i][t] = IF i = m.id THEN Limits[config][t] ELSE free[i][t]
  <2>1. free \in [Ids -> [Tiers -> Nat]] /\ Limits[config] \in [Tiers -> Nat]
    BY <1>1, ThreadsAssumption DEF IInv, Shape
  <2> QED
    BY <1>5, <1>6, <1>8, <2>1
<1>10. SlotsInv'
  BY <1>1, <1>2, <1>3, <1>7, <1>8, <1>9, SlotsMade DEF IInv, SlotsInv
<1>11. ASSUME Quiet PROVE CachedBy(c) /\ QuietCall(y)'
  <2>1. QuietCall(x)
    BY <1>11, QuietCaller
  <2> QED
    BY <1>1, <1>6, <1>7, <1>8, <2>1 DEF QuietCall, CachedBy
<1>12. engine' \in Objects \cup {None} /\ limiter' \in Objects \cup {None}
  BY <1>8 DEF IInv, Shape
<1> QED
  BY <1>3, <1>7, <1>8, <1>9, <1>10, <1>11, <1>12, CallerStep

LEMMA KeyErrorOk ==
  ASSUME NEW x, CallOk(x), x.pc = "looking", NEW y,
         y = ACall("unwinding", x.kind, x.settings, x.engine, x.limiter, x.attempt, x.held,
                   x.conn, "key_error")
  PROVE  CallOk(y) /\ y.held = x.held /\ y.limiter = x.limiter /\ y.kind = x.kind
<1>1. x \in Calls
  BY DEF CallOk
<1>2. y \in Calls
  BY <1>1 DEF Calls, LookingUp, ACall
<1>3. Tiered(y) = Tiered(x)
  BY DEF Tiered, ACall
<1>4. CallOk(y)
  BY <1>2, <1>3 DEF CallOk, ACall
<1> QED
  BY <1>4 DEF ACall

LEMMA LimiterKeyErrorStep ==
  ASSUME IInv, Noted, NEW c \in Callers, LimiterKeyError(c)
  PROVE  IInv'
<1> DEFINE x == call[c]
<1>1. CallOk(x) /\ x.pc = "looking" /\ config = None /\ UNCHANGED Shared
  BY CallTyped DEF IInv, LimiterKeyError
<1>2. PICK y : /\ Goes(c, y)
               /\ y = ACall("unwinding", x.kind, x.settings, x.engine, x.limiter, x.attempt,
                            x.held, x.conn, "key_error")
  <2>1. PICK y : Goes(c, y) /\ y = [x EXCEPT !.outcome = "key_error", !.pc = "unwinding"]
    BY DEF LimiterKeyError
  <2>2. IsCall(x)
    BY <1>1, CallIs DEF CallOk
  <2> QED
    BY <2>1, <2>2 DEF IsCall, ACall
<1>3. CallOk(y) /\ y.held = x.held /\ y.limiter = x.limiter /\ y.kind = x.kind
  BY <1>1, <1>2, KeyErrorOk
<1>4. ~Quiet
  BY <1>1, QuietCaller DEF QuietCall, LookingUp
<1> QED
  BY <1>1, <1>2, <1>3, <1>4, LimiterOfCall, PlainStep DEF IInv

LEMMA StoredOk ==
  ASSUME NEW x, CallOk(x), x.pc = "storing", NEW y,
         y = ACall("taking", x.kind, x.settings, x.engine, x.limiter, x.attempt, x.held,
                   x.conn, x.outcome)
  PROVE  /\ CallOk(y) /\ y.pc = "taking" /\ y.held = x.held /\ y.limiter = x.limiter
         /\ y.kind = x.kind /\ y.outcome = x.outcome
<1>1. x \in Calls
  BY DEF CallOk
<1>2. y \in Calls
  BY <1>1 DEF Calls, LookingUp, ACall
<1>3. Tiered(y) = Tiered(x) /\ Tiered(x) \in 1 .. 3 /\ x.held = 0
  BY OrderNotEmpty DEF Tiered, ACall, CallOk
<1>4. CallOk(y)
  BY <1>2, <1>3 DEF CallOk, ACall
<1> QED
  BY <1>4 DEF ACall

LEMMA LimiterStoredStep ==
  ASSUME IInv, Noted, NEW c \in Callers, LimiterStored(c)
  PROVE  IInv'
<1> DEFINE x == call[c]
<1>1. CallOk(x) /\ x.pc = "storing" /\ x.limiter \in Objects
  BY CallTyped DEF IInv, LimiterStored, CallOk, Calls
<1>2. PICK y : /\ Goes(c, y)
               /\ y = ACall("taking", x.kind, x.settings, x.engine, x.limiter, x.attempt,
                            x.held, x.conn, x.outcome)
  <2>1. PICK y : Goes(c, y) /\ y = [x EXCEPT !.pc = "taking"]
    BY DEF LimiterStored
  <2>2. IsCall(x)
    BY <1>1, CallIs DEF CallOk
  <2> QED
    BY <2>1, <2>2 DEF IsCall, ACall
<1>3. /\ CallOk(y) /\ y.pc = "taking" /\ y.held = x.held /\ y.limiter = x.limiter
      /\ y.kind = x.kind /\ y.outcome = x.outcome
  BY <1>1, <1>2, StoredOk
<1>4. /\ engine' = engine /\ limiter' = x.limiter /\ free' = free
      /\ UNCHANGED <<config, admin, changes, holder>>
  BY DEF LimiterStored
<1>5. call'[c] = y /\ \A d \in Callers \ {c} : call'[d] = call[d]
  BY <1>2, OthersHold DEF IInv
<1>6. SlotsInv'
  <2>1. InUse' \subseteq InUse
    BY <1>3, <1>4, <1>5 DEF InUse
  <2> QED
    BY <1>3, <1>4, <1>5, <2>1, SlotsKept DEF IInv, SlotsInv
<1>7. ASSUME Quiet PROVE CachedBy(c) /\ QuietCall(y)'
  <2>1. QuietCall(x)
    BY <1>7, QuietCaller
  <2> QED
    BY <1>1, <1>3, <1>4, <2>1 DEF QuietCall, CachedBy, LookingUp
<1>8. /\ engine' \in Objects \cup {None} /\ limiter' \in Objects \cup {None}
      /\ free' \in [Ids -> [Tiers -> Nat]]
  BY <1>1, <1>4 DEF IInv, Shape
<1> QED
  BY <1>2, <1>3, <1>4, <1>6, <1>7, <1>8, CallerStep
\* Attempts are over in four states.
Attempting == {"taking", "scoping", "connecting", "running"}

LEMMA FinalOk ==
  ASSUME NEW x, CallOk(x), x.pc \in Attempting, NEW y,
         y = ACall("unwinding", x.kind, x.settings, None, x.limiter, 1, x.held, "none", "final")
  PROVE  /\ CallOk(y) /\ y.pc = "unwinding" /\ y.held = x.held /\ y.limiter = x.limiter
         /\ y.kind = x.kind /\ y.outcome # "key_error"
<1>1. x \in Calls /\ MaxAttempts \in Nat \ {0}
  BY ThreadsAssumption DEF CallOk
<1>2. y \in Calls
  BY <1>1 DEF Calls, LookingUp, ACall
<1>3. Tiered(y) = Tiered(x)
  BY DEF Tiered, ACall
<1>4. CallOk(y)
  BY <1>2, <1>3 DEF CallOk, ACall, Attempting
<1> QED
  BY <1>4 DEF ACall

LEMMA RetryableOk ==
  ASSUME NEW x, CallOk(x), x.pc \in Attempting \ {"scoping"}, x.kind # "bulk",
         x.attempt < MaxAttempts, NEW y,
         y = ACall("unwinding", x.kind, x.settings, x.engine, x.limiter, x.attempt, x.held,
                   "none", "retryable")
  PROVE  /\ CallOk(y) /\ y.pc = "unwinding" /\ y.held = x.held /\ y.limiter = x.limiter
         /\ y.kind = x.kind /\ y.outcome # "key_error"
<1>1. x \in Calls
  BY DEF CallOk
<1>2. y \in Calls
  BY <1>1 DEF Calls, LookingUp, ACall
<1>3. Tiered(y) = Tiered(x)
  BY DEF Tiered, ACall
<1>4. CallOk(y)
  BY <1>2, <1>3 DEF CallOk, ACall, Attempting
<1> QED
  BY <1>4 DEF ACall

LEMMA NextBatchOk ==
  ASSUME NEW x, CallOk(x), x.pc \in Attempting \ {"taking"}, x.kind = "bulk",
         x.attempt < MaxAttempts, NEW y,
         y = ACall("scoping", x.kind, x.settings, None, x.limiter, x.attempt + 1, x.held,
                   "none", x.outcome)
  PROVE  /\ CallOk(y) /\ y.pc = "scoping" /\ y.held = x.held /\ y.limiter = x.limiter
         /\ y.kind = x.kind /\ y.outcome = x.outcome
<1>1. x \in Calls
  BY DEF CallOk
<1>2. x.attempt + 1 \in 1 .. MaxAttempts
  BY <1>1, ThreadsAssumption DEF Calls
<1>3. y \in Calls
  BY <1>1, <1>2 DEF Calls, LookingUp, ACall
<1>4. Tiered(y) = Tiered(x)
  BY DEF Tiered, ACall
<1>5. CallOk(y)
  BY <1>3, <1>4 DEF CallOk, ACall, Attempting
<1> QED
  BY <1>5 DEF ACall

\* What an attempt that is over leaves of a call.
LEMMA OverIs ==
  ASSUME NEW c \in Callers, call[c] \in Calls, NEW o, Over(c, o)
  PROVE  LET x == call[c] IN
         \E y :
           /\ Goes(c, y)
           /\ \/ y = ACall("unwinding", x.kind, x.settings, None, x.limiter, 1, x.held, "none",
                           "final")
              \/ /\ x.attempt < MaxAttempts /\ x.kind # "bulk" /\ o = "retryable"
                 /\ y = ACall("unwinding", x.kind, x.settings, x.engine, x.limiter, x.attempt,
                              x.held, "none", "retryable")
              \/ /\ x.attempt < MaxAttempts /\ x.kind = "bulk"
                 /\ y = ACall("scoping", x.kind, x.settings, None, x.limiter, x.attempt + 1,
                              x.held, "none", x.outcome)
<1>1. PICK x : x = call[c]
  OBVIOUS
<1>2. PICK z : z = [x EXCEPT !.conn = "none"]
  OBVIOUS
<1>3. IsCall(x)
  BY <1>1, CallIs
<1>4. z = ACall(x.pc, x.kind, x.settings, x.engine, x.limiter, x.attempt, x.held, "none",
                x.outcome)
  BY <1>2, <1>3 DEF IsCall, ACall
<1>5. /\ IsCall(z) /\ z.attempt = x.attempt /\ z.kind = x.kind /\ z.settings = x.settings
      /\ z.limiter = x.limiter /\ z.held = x.held /\ z.conn = "none" /\ z.engine = x.engine
      /\ z.outcome = x.outcome
  BY <1>4 DEF IsCall, ACall
<1>6. PICK y :
        /\ Goes(c, y)
        /\ \/ y = [z EXCEPT !.pc = "unwinding", !.outcome = "final", !.attempt = 1,
                            !.engine = None]
           \/ /\ z.attempt < MaxAttempts /\ x.kind # "bulk" /\ o = "retryable"
              /\ y = [z EXCEPT !.pc = "unwinding", !.outcome = "retryable"]
           \/ /\ z.attempt < MaxAttempts /\ x.kind = "bulk"
              /\ y = [z EXCEPT !.pc = "scoping", !.engine = None, !.attempt = z.attempt + 1]
  BY <1>1, <1>2 DEF Over, Bulk
<1>7. CASE y = [z EXCEPT !.pc = "unwinding", !.outcome = "final", !.attempt = 1,
                         !.engine = None]
  <2>1. y = ACall("unwinding", z.kind, z.settings, None, z.limiter, 1, z.held, z.conn, "final")
    BY <1>5, <1>7 DEF IsCall, ACall
  <2> QED
    BY <1>1, <1>5, <1>6, <2>1
<1>8. CASE /\ z.attempt < MaxAttempts /\ x.kind # "bulk" /\ o = "retryable"
           /\ y = [z EXCEPT !.pc = "unwinding", !.outcome = "retryable"]
  <2>1. y = ACall("unwinding", z.kind, z.settings, z.engine, z.limiter, z.attempt, z.held,
                  z.conn, "retryable")
    BY <1>5, <1>8 DEF IsCall, ACall
  <2> QED
    BY <1>1, <1>5, <1>6, <1>8, <2>1
<1>9. CASE /\ z.attempt < MaxAttempts /\ x.kind = "bulk"
           /\ y = [z EXCEPT !.pc = "scoping", !.engine = None, !.attempt = z.attempt + 1]
  <2>1. y = ACall("scoping", z.kind, z.settings, None, z.limiter, z.attempt + 1, z.held,
                  z.conn, z.outcome)
    BY <1>5, <1>9 DEF IsCall, ACall
  <2> QED
    BY <1>1, <1>5, <1>6, <1>9, <2>1
<1> QED
  BY <1>6, <1>7, <1>8, <1>9

LEMMA OverStep ==
  ASSUME IInv, Noted, NEW c \in Callers, NEW o, Over(c, o), call[c].pc \in Attempting,
         call[c].pc = "taking" => ~Bulk(c), call[c].pc = "scoping" => o # "retryable"
  PROVE  IInv'
<1> DEFINE x == call[c]
<1>1. CallOk(x) /\ x \in Calls
  BY CallTyped DEF IInv
<1>2. PICK y :
        /\ Goes(c, y)
        /\ \/ y = ACall("unwinding", x.kind, x.settings, None, x.limiter, 1, x.held, "none",
                        "final")
           \/ /\ x.attempt < MaxAttempts /\ x.kind # "bulk" /\ o = "retryable"
              /\ y = ACall("unwinding", x.kind, x.settings, x.engine, x.limiter, x.attempt,
                           x.held, "none", "retryable")
           \/ /\ x.attempt < MaxAttempts /\ x.kind = "bulk"
              /\ y = ACall("scoping", x.kind, x.settings, None, x.limiter, x.attempt + 1,
                           x.held, "none", x.outcome)
  BY <1>1, OverIs
<1>3. UNCHANGED Shared
  BY DEF Over
<1>4. /\ CallOk(y) /\ y.pc \in {"unwinding", "scoping"} /\ y.held = x.held
      /\ y.limiter = x.limiter /\ y.kind = x.kind
      /\ y.outcome \in {x.outcome, "final", "retryable"}
  <2>1. CASE y = ACall("unwinding", x.kind, x.settings, None, x.limiter, 1, x.held, "none",
                       "final")
    <3>1. y.outcome = "final"
      BY <2>1 DEF ACall
    <3> QED
      BY <1>1, <2>1, <3>1, FinalOk
  <2>2. CASE /\ x.attempt < MaxAttempts /\ x.kind # "bulk" /\ o = "retryable"
             /\ y = ACall("unwinding", x.kind, x.settings, x.engine, x.limiter, x.attempt,
                          x.held, "none", "retryable")
    <3>1. y.outcome = "retryable"
      BY <2>2 DEF ACall
    <3>2. x.pc \in Attempting \ {"scoping"}
      BY <2>2
    <3> QED
      BY <1>1, <2>2, <3>1, <3>2, RetryableOk
  <2>3. CASE /\ x.attempt < MaxAttempts /\ x.kind = "bulk"
             /\ y = ACall("scoping", x.kind, x.settings, None, x.limiter, x.attempt + 1,
                          x.held, "none", x.outcome)
    <3>1. x.pc \in Attempting \ {"taking"}
      BY <2>3 DEF Bulk
    <3> QED
      BY <1>1, <2>3, <3>1, NextBatchOk
  <2> QED
    BY <1>2, <2>1, <2>2, <2>3
<1>5. Quiet => QuietCall(y)
  BY <1>4, QuietCaller DEF QuietCall, LookingUp
<1> QED
  BY <1>2, <1>3, <1>4, <1>5, LimiterOfCall, PlainStep DEF IInv

LEMMA OverSteps ==
  ASSUME IInv, Noted, NEW c \in Callers,
         \/ Overloaded(c) \/ ScopeRefused(c) \/ ConnectFails(c)
         \/ \E o \in {"retryable", "final"} : Ends(c, o)
  PROVE  IInv'
<1>1. CASE Overloaded(c)
  BY <1>1, OverStep DEF Overloaded, Attempting
<1>2. CASE ScopeRefused(c)
  BY <1>2, OverStep DEF ScopeRefused, Attempting
<1>3. CASE ConnectFails(c)
  BY <1>3, OverStep DEF ConnectFails, Attempting
<1>4. CASE \E o \in {"retryable", "final"} : Ends(c, o)
  BY <1>4, OverStep DEF Ends, Attempting
<1> QED
  BY <1>1, <1>2, <1>3, <1>4

LEMMA ScopeOk ==
  ASSUME NEW x, CallOk(x), x.pc = "scoping", NEW s \in Settings, NEW y,
         y = ACall("getting", x.kind, s, x.engine, x.limiter, x.attempt, x.held, x.conn,
                   x.outcome)
  PROVE  /\ CallOk(y) /\ y.pc = "getting" /\ y.held = x.held /\ y.limiter = x.limiter
         /\ y.kind = x.kind /\ y.outcome = x.outcome /\ y.settings = s
<1>1. x \in Calls /\ s # None
  BY ThreadsAssumption DEF CallOk
<1>2. y \in Calls
  BY <1>1 DEF Calls, LookingUp, ACall
<1>3. Tiered(y) = Tiered(x)
  BY DEF Tiered, ACall
<1>4. CallOk(y)
  BY <1>1, <1>2, <1>3 DEF CallOk, ACall
<1> QED
  BY <1>4 DEF ACall

LEMMA ScopeEnteredStep ==
  ASSUME IInv, Noted, NEW c \in Callers, ScopeEntered(c)
  PROVE  IInv'
<1> DEFINE x == call[c]
<1>1. /\ CallOk(x) /\ x.pc = "scoping" /\ config \in Settings /\ config # None
      /\ UNCHANGED Shared
  BY CallTyped DEF IInv, ScopeEntered, Shape
<1>2. PICK y : /\ Goes(c, y)
               /\ y = ACall("getting", x.kind, config, x.engine, x.limiter, x.attempt, x.held,
                            x.conn, x.outcome)
  <2>1. PICK y : Goes(c, y) /\ y = [x EXCEPT !.settings = config, !.pc = "getting"]
    BY DEF ScopeEntered
  <2>2. IsCall(x)
    BY <1>1, CallIs DEF CallOk
  <2> QED
    BY <2>1, <2>2 DEF IsCall, ACall
<1>3. /\ CallOk(y) /\ y.pc = "getting" /\ y.held = x.held /\ y.limiter = x.limiter
      /\ y.kind = x.kind /\ y.outcome = x.outcome /\ y.settings = config
  BY <1>1, <1>2, ScopeOk
<1>4. Quiet => QuietCall(y)
  BY <1>1, <1>3, QuietCaller DEF QuietCall
<1> QED
  BY <1>1, <1>2, <1>3, <1>4, LimiterOfCall, PlainStep DEF IInv

LEMMA ConnectOk ==
  ASSUME NEW x, CallOk(x), x.pc = "connecting", NEW y,
         y = ACall("running", x.kind, x.settings, x.engine, x.limiter, x.attempt, x.held,
                   "pool", x.outcome)
  PROVE  /\ CallOk(y) /\ y.pc = "running" /\ y.held = x.held /\ y.limiter = x.limiter
         /\ y.kind = x.kind /\ y.outcome = x.outcome
<1>1. x \in Calls
  BY DEF CallOk
<1>2. y \in Calls
  BY <1>1 DEF Calls, LookingUp, ACall
<1>3. Tiered(y) = Tiered(x)
  BY DEF Tiered, ACall
<1>4. CallOk(y)
  BY <1>2, <1>3 DEF CallOk, ACall
<1> QED
  BY <1>4 DEF ACall

LEMMA ConnectStep ==
  ASSUME IInv, Noted, NEW c \in Callers, Connect(c)
  PROVE  IInv'
<1> DEFINE x == call[c]
<1>1. CallOk(x) /\ x.pc = "connecting" /\ UNCHANGED Shared
  BY CallTyped DEF IInv, Connect
<1>2. PICK y : /\ Goes(c, y)
               /\ y = ACall("running", x.kind, x.settings, x.engine, x.limiter, x.attempt,
                            x.held, "pool", x.outcome)
  <2>1. PICK y : Goes(c, y) /\ y = [x EXCEPT !.conn = "pool", !.pc = "running"]
    BY DEF Connect
  <2>2. IsCall(x)
    BY <1>1, CallIs DEF CallOk
  <2> QED
    BY <2>1, <2>2 DEF IsCall, ACall
<1>3. /\ CallOk(y) /\ y.pc = "running" /\ y.held = x.held /\ y.limiter = x.limiter
      /\ y.kind = x.kind /\ y.outcome = x.outcome
  BY <1>1, <1>2, ConnectOk
<1>4. Quiet => QuietCall(y)
  BY <1>3, QuietCaller DEF QuietCall, LookingUp
<1> QED
  BY <1>1, <1>2, <1>3, <1>4, LimiterOfCall, PlainStep DEF IInv

LEMMA RetryOk ==
  ASSUME NEW x, CallOk(x), x.pc = "unwinding", x.outcome = "retryable", x.held = 0, NEW y,
         y = ACall("taking", x.kind, x.settings, x.engine, x.limiter, x.attempt + 1, x.held,
                   x.conn, "none")
  PROVE  /\ CallOk(y) /\ y.pc = "taking" /\ y.held = x.held /\ y.limiter = x.limiter
         /\ y.kind = x.kind /\ y.outcome = "none"
<1>1. x \in Calls
  BY DEF CallOk
<1>2. x.attempt + 1 \in 1 .. MaxAttempts
  BY <1>1, ThreadsAssumption DEF Calls, CallOk
<1>3. y \in Calls
  BY <1>1, <1>2 DEF Calls, LookingUp, ACall
<1>4. Tiered(y) = Tiered(x) /\ Tiered(x) \in 1 .. 3
  BY OrderNotEmpty DEF Tiered, ACall, CallOk
<1>5. CallOk(y)
  BY <1>3, <1>4 DEF CallOk, ACall
<1> QED
  BY <1>5 DEF ACall

LEMMA RetryStep ==
  ASSUME IInv, Noted, NEW c \in Callers, Retry(c)
  PROVE  IInv'
<1> DEFINE x == call[c]
<1>1. /\ CallOk(x) /\ x.pc = "unwinding" /\ x.outcome = "retryable" /\ x.held = 0
      /\ UNCHANGED Shared
  BY CallTyped DEF IInv, Retry
<1>2. PICK y : /\ Goes(c, y)
               /\ y = ACall("taking", x.kind, x.settings, x.engine, x.limiter, x.attempt + 1,
                            x.held, x.conn, "none")
  <2>1. PICK y : Goes(c, y) /\ y = [x EXCEPT !.attempt = x.attempt + 1, !.outcome = "none",
                                             !.pc = "taking"]
    BY DEF Retry
  <2>2. IsCall(x)
    BY <1>1, CallIs DEF CallOk
  <2> QED
    BY <2>1, <2>2 DEF IsCall, ACall
<1>3. /\ CallOk(y) /\ y.pc = "taking" /\ y.held = x.held /\ y.limiter = x.limiter
      /\ y.kind = x.kind /\ y.outcome = "none"
  BY <1>1, <1>2, RetryOk
<1>4. QuietCall(y)
  BY <1>3 DEF QuietCall, LookingUp
<1> QED
  BY <1>1, <1>2, <1>3, <1>4, LimiterOfCall, PlainStep DEF IInv

LEMMA ReturnStep ==
  ASSUME IInv, Noted, NEW c \in Callers, Return(c)
  PROVE  IInv'
<1>1. PICK y : y = Rest
  OBVIOUS
<1>2. Goes(c, y) /\ call[c].held = 0 /\ UNCHANGED Shared
  BY <1>1 DEF Return
<1>3. CallOk(y) /\ y.held = 0 /\ y.limiter = None /\ QuietCall(y)
  BY <1>1, RestOk DEF Rest, QuietCall, LookingUp
<1> QED
  BY <1>2, <1>3, PlainStep
LEMMA SlotsTyped ==
  ASSUME Shape, NEW m, m.id \in Ids, m.settings \in Settings, NEW u \in Tiers
  PROVE  Cap(m, u) \in Nat /\ free \in [Ids -> [Tiers -> Nat]] /\ free[m.id][u] \in Nat
<1>1. free \in [Ids -> [Tiers -> Nat]]
  BY DEF Shape
<1>2. free[m.id] \in [Tiers -> Nat]
  BY <1>1
<1>3. Limits[m.settings] \in [Tiers -> Nat]
  BY ThreadsAssumption
<1>4. Cap(m, u) \in Nat
  BY <1>3 DEF Cap
<1> QED
  BY <1>1, <1>2, <1>4

LEMMA TakeOk ==
  ASSUME NEW x, CallOk(x), x.pc = "taking", NEW p, NEW e,
         p = IF x.held + 1 # Tiered(x) THEN "taking"
             ELSE IF x.kind = "bulk" THEN "scoping" ELSE "connecting",
         e = IF x.kind = "bulk" THEN None ELSE x.engine,
         NEW y,
         y = ACall(p, x.kind, x.settings, e, x.limiter, x.attempt, x.held + 1, x.conn,
                   x.outcome)
  PROVE  /\ CallOk(y) /\ y.pc = p /\ y.held = x.held + 1 /\ y.limiter = x.limiter
         /\ y.kind = x.kind /\ y.outcome = x.outcome
<1>1. x \in Calls /\ x.held < Tiered(x) /\ x.kind \in Kinds
  BY DEF CallOk
<1>2. Tiered(x) \in 1 .. 3 /\ x.held \in Nat
  BY <1>1, OrderNotEmpty DEF Calls
<1>3. x.held + 1 \in 0 .. 3 /\ x.held + 1 <= Tiered(x) /\ x.held + 1 \in Nat
  BY <1>1, <1>2
<1>4. p \in {"taking", "scoping", "connecting"} /\ e \in Objects \cup {None}
  BY <1>1 DEF Calls
<1>5. y \in Calls
  BY <1>1, <1>3, <1>4 DEF Calls, LookingUp, ACall
<1>6. Tiered(y) = Tiered(x) /\ y.held = x.held + 1 /\ y.pc = p
  BY DEF Tiered, ACall
<1>7. p = "taking" => y.held < Tiered(y)
  BY <1>2, <1>3, <1>6
<1>8. p \in {"scoping", "connecting"} => y.held = Tiered(y)
  BY <1>6
<1>9. y.held <= Tiered(y)
  BY <1>3, <1>6
<1>10. /\ y.limiter = x.limiter /\ y.kind = x.kind /\ y.outcome = x.outcome /\ y.engine = e
       /\ y.conn = x.conn
  BY DEF ACall
<1>11. CallOk(y)
  <2>1. x.limiter # None /\ (x.kind # "bulk" => x.engine # None) /\ x.conn = "none"
        /\ x.outcome # "retryable"
    BY DEF CallOk
  <2> QED
    BY <1>1, <1>4, <1>5, <1>6, <1>7, <1>8, <1>9, <1>10, <2>1 DEF CallOk
<1> QED
  BY <1>6, <1>10, <1>11

LEMMA TakeStep ==
  ASSUME IInv, Noted, NEW c \in Callers, Take(c)
  PROVE  IInv'
<1> DEFINE x == call[c]
<1>1. /\ CallOk(x) /\ x.pc = "taking" /\ x.limiter \in Objects /\ x.kind \in Kinds
      /\ x.held \in Nat /\ x.held < Tiered(x)
  BY CallTyped DEF IInv, Take, CallOk, Calls
<1>2. PICK p : p = IF x.held + 1 # Tiered(x) THEN "taking"
                   ELSE IF x.kind = "bulk" THEN "scoping" ELSE "connecting"
  OBVIOUS
<1>3. PICK e : e = IF x.kind = "bulk" THEN None ELSE x.engine
  OBVIOUS
<1>4. PICK y : /\ Goes(c, y)
               /\ y = ACall(p, x.kind, x.settings, e, x.limiter, x.attempt, x.held + 1, x.conn,
                            x.outcome)
  <2>1. PICK y : Goes(c, y) /\ y = [x EXCEPT !.held = x.held + 1, !.pc = p, !.engine = e]
    BY <1>2, <1>3 DEF Take, Bulk, Tiered
  <2>2. IsCall(x)
    BY <1>1, CallIs DEF CallOk
  <2> QED
    BY <2>1, <2>2 DEF IsCall, ACall
<1>5. /\ CallOk(y) /\ y.pc = p /\ y.held = x.held + 1 /\ y.limiter = x.limiter
      /\ y.kind = x.kind /\ y.outcome = x.outcome
  BY <1>1, <1>2, <1>3, <1>4, TakeOk
<1>6. PICK m : m = x.limiter
  OBVIOUS
<1>7. PICK u : u = Tier(c)
  OBVIOUS
<1>8. m.id \in Ids /\ m.settings \in Settings
  BY <1>1, <1>6 DEF Objects
<1>9. u \in Tiers
  <2>1. /\ Len(Order[x.kind]) \in 1 .. 3
        /\ \A i \in 1 .. Len(Order[x.kind]) : Order[x.kind][i] \in Tiers
    BY <1>1, OrderIs
  <2>2. x.held + 1 \in 1 .. Len(Order[x.kind])
    BY <1>1, <2>1 DEF Tiered
  <2> QED
    BY <1>7, <2>1, <2>2 DEF Tier
<1>10. Cap(m, u) \in Nat /\ free \in [Ids -> [Tiers -> Nat]] /\ free[m.id][u] \in Nat
  BY <1>8, <1>9, SlotsTyped DEF IInv
<1>11. /\ engine' = engine /\ limiter' = limiter /\ UNCHANGED <<config, admin, changes, holder>>
  BY DEF Take
<1>12. /\ free' \in [Ids -> [Tiers -> Nat]]
       /\ \A i \in Ids, t \in Tiers :
            free'[i][t] = IF i = m.id /\ t = u /\ Cap(m, u) > 0 THEN free[i][t] - 1
                          ELSE free[i][t]
  <2>1. CASE Cap(m, u) = 0
    <3>1. free' = free
      BY <1>6, <1>7, <2>1 DEF Take
    <3> QED
      BY <1>10, <2>1, <3>1
  <2>2. CASE Cap(m, u) # 0
    <3>1. PICK n : n = free[m.id][u] - 1
      OBVIOUS
    <3>2. free' = [free EXCEPT ![m.id][u] = n] /\ free[m.id][u] > 0
      BY <1>6, <1>7, <2>2, <3>1 DEF Take, HasRoom
    <3>3. n \in Nat
      BY <1>10, <3>1, <3>2
    <3>4. /\ free' \in [Ids -> [Tiers -> Nat]]
          /\ \A i \in Ids, t \in Tiers :
               free'[i][t] = IF i = m.id /\ t = u THEN n ELSE free[i][t]
      BY <1>8, <1>9, <1>10, <3>2, <3>3, FreeUpdated
    <3>5. Cap(m, u) > 0
      BY <1>10, <2>2
    <3> QED
      BY <3>1, <3>4, <3>5
  <2> QED
    BY <2>1, <2>2
<1>13. SlotsInv'
  BY <1>1, <1>4, <1>5, <1>6, <1>7, <1>11, <1>12, SlotsTaken DEF IInv, SlotsInv
<1>14. ASSUME Quiet PROVE CachedBy(c) /\ QuietCall(y)'
  <2>1. QuietCall(x)
    BY <1>14, QuietCaller
  <2> QED
    BY <1>2, <1>5, <1>11, <2>1 DEF QuietCall, CachedBy, LookingUp
<1>15. engine' \in Objects \cup {None} /\ limiter' \in Objects \cup {None}
  BY <1>11 DEF IInv, Shape
<1> QED
  BY <1>4, <1>5, <1>11, <1>12, <1>13, <1>14, <1>15, CallerStep

LEMMA ReleaseOk ==
  ASSUME NEW x, CallOk(x), x.pc = "unwinding", x.held > 0, NEW y,
         y = ACall(x.pc, x.kind, x.settings, x.engine, x.limiter, x.attempt, x.held - 1, x.conn,
                   x.outcome)
  PROVE  /\ CallOk(y) /\ y.pc = "unwinding" /\ y.held = x.held - 1 /\ y.limiter = x.limiter
         /\ y.kind = x.kind /\ y.outcome = x.outcome
<1>1. x \in Calls /\ x.held <= Tiered(x) /\ x.kind \in Kinds
  BY DEF CallOk
<1>2. Tiered(x) \in 1 .. 3 /\ x.held \in 0 .. 3
  BY <1>1, OrderNotEmpty DEF Calls
<1>3. x.held - 1 \in 0 .. 3 /\ x.held - 1 <= Tiered(x)
  BY <1>1, <1>2
<1>4. y \in Calls
  BY <1>1, <1>3 DEF Calls, LookingUp, ACall
<1>5. Tiered(y) = Tiered(x) /\ y.held = x.held - 1 /\ y.pc = "unwinding"
  BY DEF Tiered, ACall
<1>6. y.held <= Tiered(y)
  BY <1>3, <1>5
<1>7. /\ y.limiter = x.limiter /\ y.kind = x.kind /\ y.outcome = x.outcome
      /\ y.engine = x.engine /\ y.conn = x.conn /\ y.attempt = x.attempt
  BY DEF ACall
<1>8. x.limiter # None
  BY DEF CallOk
<1>9. CallOk(y)
  BY <1>1, <1>4, <1>5, <1>6, <1>7, <1>8 DEF CallOk
<1> QED
  BY <1>5, <1>7, <1>9

LEMMA ReleaseStep ==
  ASSUME IInv, Noted, NEW c \in Callers, Release(c)
  PROVE  IInv'
<1> DEFINE x == call[c]
<1>1. /\ CallOk(x) /\ x.pc = "unwinding" /\ x.held > 0 /\ x.limiter \in Objects
      /\ x.kind \in Kinds /\ x.held \in Nat /\ x.held <= Tiered(x)
  <2>1. CallOk(x) /\ x.pc = "unwinding" /\ x.held > 0 /\ x \in Calls
    BY CallTyped DEF IInv, Release
  <2> QED
    BY <2>1 DEF CallOk, Calls
<1>2. PICK y : /\ Goes(c, y)
               /\ y = ACall(x.pc, x.kind, x.settings, x.engine, x.limiter, x.attempt,
                            x.held - 1, x.conn, x.outcome)
  <2>1. PICK y : Goes(c, y) /\ y = [x EXCEPT !.held = x.held - 1]
    BY DEF Release
  <2>2. IsCall(x)
    BY <1>1, CallIs DEF CallOk
  <2> QED
    BY <2>1, <2>2 DEF IsCall, ACall
<1>3. /\ CallOk(y) /\ y.pc = "unwinding" /\ y.held = x.held - 1 /\ y.limiter = x.limiter
      /\ y.kind = x.kind /\ y.outcome = x.outcome
  BY <1>1, <1>2, ReleaseOk
<1>4. PICK m : m = x.limiter
  OBVIOUS
<1>5. PICK u : u = Order[x.kind][x.held]
  OBVIOUS
<1>6. m.id \in Ids /\ m.settings \in Settings
  BY <1>1, <1>4 DEF Objects
<1>7. u \in Tiers
  <2>1. /\ Len(Order[x.kind]) \in 1 .. 3
        /\ \A i \in 1 .. Len(Order[x.kind]) : Order[x.kind][i] \in Tiers
    BY <1>1, OrderIs
  <2>2. x.held \in 1 .. Len(Order[x.kind])
    BY <1>1, <2>1 DEF Tiered
  <2> QED
    BY <1>5, <2>1, <2>2
<1>8. Cap(m, u) \in Nat /\ free \in [Ids -> [Tiers -> Nat]] /\ free[m.id][u] \in Nat
  BY <1>6, <1>7, SlotsTyped DEF IInv
<1>9. /\ engine' = engine /\ limiter' = limiter /\ UNCHANGED <<config, admin, changes, holder>>
  BY DEF Release
<1>10. /\ free' \in [Ids -> [Tiers -> Nat]]
       /\ \A i \in Ids, t \in Tiers :
            free'[i][t] = IF i = m.id /\ t = u /\ Cap(m, u) > 0 THEN free[i][t] + 1
                          ELSE free[i][t]
  <2>1. CASE Cap(m, u) = 0
    <3>1. free' = free
      BY <1>4, <1>5, <2>1 DEF Release
    <3> QED
      BY <1>8, <2>1, <3>1
  <2>2. CASE Cap(m, u) # 0
    <3>1. PICK n : n = free[m.id][u] + 1
      OBVIOUS
    <3>2. free' = [free EXCEPT ![m.id][u] = n]
      BY <1>4, <1>5, <2>2, <3>1 DEF Release
    <3>3. n \in Nat
      BY <1>8, <3>1
    <3>4. /\ free' \in [Ids -> [Tiers -> Nat]]
          /\ \A i \in Ids, t \in Tiers :
               free'[i][t] = IF i = m.id /\ t = u THEN n ELSE free[i][t]
      BY <1>6, <1>7, <1>8, <3>2, <3>3, FreeUpdated
    <3>5. Cap(m, u) > 0
      BY <1>8, <2>2
    <3> QED
      BY <3>1, <3>4, <3>5
  <2> QED
    BY <2>1, <2>2
<1>11. SlotsInv'
  BY <1>1, <1>2, <1>3, <1>4, <1>5, <1>9, <1>10, SlotsGivenBack DEF IInv, SlotsInv
<1>12. ASSUME Quiet PROVE CachedBy(c) /\ QuietCall(y)'
  <2>1. QuietCall(x)
    BY <1>12, QuietCaller
  <2> QED
    BY <1>3, <1>9, <2>1 DEF QuietCall, CachedBy, LookingUp
<1>13. engine' \in Objects \cup {None} /\ limiter' \in Objects \cup {None}
  BY <1>9 DEF IInv, Shape
<1> QED
  BY <1>2, <1>3, <1>9, <1>10, <1>11, <1>12, <1>13, CallerStep

LEMMA CallersStep ==
  ASSUME IInv, Noted, NEW c \in Callers,
         Step(c) \/ Refused(c) \/ \E k \in Kinds : Begin(c, k)
  PROVE  IInv'
  BY BeginStep, RefusedStep, GetEngineStep, LimiterGetStep, LimiterMadeStep,
     LimiterKeyErrorStep, LimiterStoredStep, TakeStep, OverSteps, ScopeEnteredStep,
     ConnectStep, ReleaseStep, RetryStep, ReturnStep DEF Step
(***************************************************************************)
(* The steps of an admin                                                   *)
(***************************************************************************)

\* A step that leaves what the callers hold.
LEMMA SlotsUntouched ==
  ASSUME SlotsInv, free' = free, call' = call, limiter' \in {limiter, None}
  PROVE  SlotsInv'
<1>1. InUse' \subseteq InUse
  BY DEF InUse
<1> QED
  BY <1>1, SlotsKept

\* An admin's step keeps the shape if its new state has it.
LEMMA AdminShape ==
  ASSUME Shape, Noted, NEW a \in Admins, NEW z, admin' = [admin EXCEPT ![a] = z], AdminOk(z),
         call' \in [Callers -> Calls], \A c \in Callers : CallOk(call'[c]),
         config' \in Settings \cup {None}, engine' \in Objects \cup {None},
         limiter' \in Objects \cup {None}, free' = free, changes' \in 0 .. MaxChanges,
         holder' \in Admins \cup {None}, holder' = a <=> z.pc \notin {"idle", "draining"},
         z.pc = "eager" => config' # None,
         \A b \in Admins \ {a} :
           /\ holder' = b <=> holder = b
           /\ admin[b].pc = "eager" => config' = config
  PROVE  Shape'
<1>1. admin' \in [Admins -> AdminStates] /\ \A b \in Admins : AdminOk(admin'[b])
  BY DEF Shape, AdminOk
<1>2. overlapped' \in BOOLEAN
  BY DEF Noted, Shape
<1>3. admin'[a] = z /\ \A b \in Admins \ {a} : admin'[b] = admin[b]
  BY DEF Shape
<1>4. \A b \in Admins : holder' = b <=> admin'[b].pc \notin {"idle", "draining"}
  BY <1>3 DEF Shape
<1>5. \A b \in Admins : admin'[b].pc = "eager" => config' # None
  BY <1>3 DEF Shape
<1>6. free' \in [Ids -> [Tiers -> Nat]]
  BY DEF Shape
<1> QED
  BY <1>1, <1>2, <1>4, <1>5, <1>6 DEF Shape, CallOk, AdminOk

\* Fields of an admin.
LEMMA AdminIs ==
  ASSUME NEW x \in AdminStates
  PROVE  x = [pc |-> x.pc, settings |-> x.settings, victim |-> x.victim]
  BY DEF AdminStates

LEMMA AdminUpdated ==
  ASSUME NEW x \in AdminStates, NEW p, NEW v, NEW z, z = [x EXCEPT !.pc = p, !.victim = v]
  PROVE  z = [pc |-> p, settings |-> x.settings, victim |-> v]
<1>1. x = [pc |-> x.pc, settings |-> x.settings, victim |-> x.victim]
  BY AdminIs
<1> QED
  BY <1>1

LEMMA AdminTyped ==
  ASSUME Shape, NEW a \in Admins
  PROVE  admin[a] \in AdminStates /\ AdminOk(admin[a])
  BY DEF Shape

LEMMA ChangesTyped ==
  ASSUME Shape, Changes
  PROVE  changes' \in 0 .. MaxChanges
  BY ThreadsAssumption DEF Shape, Changes

LEMMA LockedStep ==
  ASSUME IInv, Noted, NEW a \in Admins, NEW s \in Settings \cup {None}, Locked(a, s)
  PROVE  IInv'
<1>1. /\ admin[a].pc = "idle" /\ holder = None /\ holder' = a
      /\ engine' = IF config # None THEN None ELSE engine
      /\ UNCHANGED <<config, limiter, free, call>> /\ changes' \in 0 .. MaxChanges
  BY ChangesTyped DEF Locked, IInv
<1>2. PICK z : /\ admin' = [admin EXCEPT ![a] = z]
               /\ z = [pc |-> IF config = None THEN "swapping"
                              ELSE IF engine # None THEN "disposing" ELSE "forgetting",
                       settings |-> s, victim |-> IF config # None THEN engine ELSE None]
  BY DEF Locked, AfterDisposal
<1>3. /\ z.pc = IF config = None THEN "swapping"
                ELSE IF engine # None THEN "disposing" ELSE "forgetting"
      /\ z.pc = "disposing" => z.victim # None
      /\ z \in AdminStates
  BY <1>2 DEF AdminStates, Registering, IInv, Shape
<1>4. AdminOk(z)
  BY <1>3 DEF AdminOk
<1>5. Shape'
  <2>1. /\ call' \in [Callers -> Calls] /\ \A c \in Callers : CallOk(call'[c])
        /\ config' \in Settings \cup {None} /\ engine' \in Objects \cup {None}
        /\ limiter' \in Objects \cup {None} /\ free' = free
    BY <1>1 DEF IInv, Shape
  <2>2. \A b \in Admins \ {a} : /\ holder' = b <=> holder = b
                                /\ admin[b].pc = "eager" => config' = config
    BY <1>1, ThreadsAssumption
  <2>3. z.pc \notin {"idle", "draining", "eager"}
    BY <1>3
  <2> QED
    BY <1>1, <1>2, <1>4, <2>1, <2>2, <2>3, AdminShape DEF IInv
<1>6. SlotsInv'
  BY <1>1, SlotsUntouched DEF IInv, SlotsInv
<1>7. ASSUME ~overlapped' PROVE Quiet'
  <2>1. Quiet /\ ~Overlap'
    BY <1>7 DEF Noted, IInv
  <2>2. holder' # None /\ holder' = a
    BY <1>1, ThreadsAssumption
  <2>3. \A c \in Callers : call'[c].pc \notin LookingUp
    BY <2>1, <2>2 DEF Overlap
  <2>4. \A x \in {engine, limiter} : x # None => x.settings = config
    BY <1>1, <2>1 DEF Quiet
  <2>5. config = None => engine = None /\ limiter = None
    <3>1. \A x \in Objects : x.settings # None
      BY ThreadsAssumption DEF Objects
    <3> QED
      BY <2>4, <3>1 DEF IInv, Shape
  <2>6. admin'[a] = z
    BY <1>2 DEF IInv, Shape
  <2>7. engine' = None /\ (admin'[a].pc \in {"swapping", "eager"} => limiter' = None)
    BY <1>1, <1>3, <2>5, <2>6
  <2>8. \A c \in Callers : call'[c].outcome # "key_error"
    BY <1>1, <2>1 DEF Quiet
  <2> QED
    BY <2>1, <2>2, <2>3, <2>7, <2>8 DEF Quiet, LookingUp
<1> QED
  BY <1>5, <1>6, <1>7 DEF IInv, SlotsInv
LEMMA DisposedOk ==
  ASSUME NEW x, CallOk(x), x.conn = "pool", NEW y,
         y = ACall(x.pc, x.kind, x.settings, x.engine, x.limiter, x.attempt, x.held, "old",
                   x.outcome)
  PROVE  /\ CallOk(y) /\ y.pc = x.pc /\ y.held = x.held /\ y.limiter = x.limiter
         /\ y.kind = x.kind /\ y.outcome = x.outcome /\ y.settings = x.settings
<1>1. x \in Calls
  BY DEF CallOk
<1>2. y \in Calls
  BY <1>1 DEF Calls, LookingUp, ACall
<1>3. Tiered(y) = Tiered(x) /\ x.pc = "running"
  BY DEF Tiered, ACall, CallOk
<1>4. CallOk(y)
  BY <1>2, <1>3 DEF CallOk, ACall
<1> QED
  BY <1>4 DEF ACall

\* The connections that go over to the old pool change nothing else of their calls.
LEMMA DisposedCalls ==
  ASSUME Shape, NEW e, DisposedOf(e)
  PROVE  /\ call' \in [Callers -> Calls]
         /\ \A c \in Callers :
              LET x == call[c]  y == call'[c] IN
              /\ CallOk(y) /\ y.pc = x.pc /\ y.held = x.held /\ y.limiter = x.limiter
              /\ y.kind = x.kind /\ y.outcome = x.outcome /\ y.settings = x.settings
<1>1. ASSUME NEW c \in Callers
      PROVE  LET x == call[c]  y == call'[c] IN
             /\ CallOk(y) /\ y.pc = x.pc /\ y.held = x.held /\ y.limiter = x.limiter
             /\ y.kind = x.kind /\ y.outcome = x.outcome /\ y.settings = x.settings
  <2>1. PICK x : x = call[c]
    OBVIOUS
  <2>2. PICK y : y = call'[c]
    OBVIOUS
  <2>3. CallOk(x) /\ IsCall(x)
    BY <2>1, CallTyped, CallIs
  <2>4. CASE x.conn = "pool" /\ x.engine = e
    <3>1. y = [x EXCEPT !.conn = "old"]
      BY <2>1, <2>2, <2>4 DEF DisposedOf
    <3>2. y = ACall(x.pc, x.kind, x.settings, x.engine, x.limiter, x.attempt, x.held, "old",
                    x.outcome)
      BY <2>3, <3>1 DEF IsCall, ACall
    <3> QED
      BY <2>1, <2>2, <2>3, <2>4, <3>2, DisposedOk
  <2>5. CASE ~(x.conn = "pool" /\ x.engine = e)
    <3>1. y = x
      BY <2>1, <2>2, <2>5 DEF DisposedOf
    <3> QED
      BY <2>1, <2>2, <2>3, <3>1
  <2> QED
    BY <2>4, <2>5
<1>2. \A c \in Callers : call'[c] \in Calls
  BY <1>1 DEF CallOk
<1>3. call' = [c \in Callers |-> call'[c]]
  BY DEF DisposedOf
<1>4. call' \in [Callers -> Calls]
  BY <1>2, <1>3
<1> QED
  BY <1>1, <1>4

LEMMA DisposesStep ==
  ASSUME IInv, Noted, NEW a \in Admins, Disposes(a)
  PROVE  IInv'
<1>1. /\ admin[a].pc \in {"disposing", "draining"} /\ AdminOk(admin[a])
      /\ admin[a] \in AdminStates
      /\ UNCHANGED <<config, engine, limiter, free, changes, holder>>
  BY AdminTyped DEF Disposes, IInv
<1>2. /\ call' \in [Callers -> Calls]
      /\ \A c \in Callers :
           LET x == call[c]  y == call'[c] IN
           /\ CallOk(y) /\ y.pc = x.pc /\ y.held = x.held /\ y.limiter = x.limiter
           /\ y.kind = x.kind /\ y.outcome = x.outcome /\ y.settings = x.settings
  BY DisposedCalls DEF Disposes, IInv
<1>3. PICK z : /\ admin' = [admin EXCEPT ![a] = z]
               /\ z = IF admin[a].pc = "draining" THEN AtRest
                      ELSE [pc |-> "forgetting", settings |-> admin[a].settings, victim |-> None]
  <2>1. PICK x : x = admin[a]
    OBVIOUS
  <2>2. PICK y : y = [x EXCEPT !.pc = "forgetting", !.victim = None]
    OBVIOUS
  <2>3. y = [pc |-> "forgetting", settings |-> x.settings, victim |-> None]
    BY <1>1, <2>1, <2>2, AdminUpdated
  <2> QED
    BY <2>1, <2>2, <2>3 DEF Disposes, AfterDisposal
<1>4. /\ z.pc = IF admin[a].pc = "draining" THEN "idle" ELSE "forgetting"
      /\ z \in AdminStates
  BY <1>1, <1>3 DEF AdminStates, AtRest, Registering
<1>5. AdminOk(z)
  BY <1>3, <1>4 DEF AdminOk
<1>6. Shape'
  <2>1. /\ config' \in Settings \cup {None} /\ engine' \in Objects \cup {None}
        /\ limiter' \in Objects \cup {None} /\ free' = free
        /\ changes' \in 0 .. MaxChanges /\ holder' \in Admins \cup {None}
        /\ holder' = a <=> admin[a].pc \notin {"idle", "draining"}
    BY <1>1 DEF IInv, Shape
  <2>2. z.pc # "eager" /\ (holder' = a <=> z.pc \notin {"idle", "draining"})
    BY <1>1, <1>4, <2>1
  <2> QED
    BY <1>1, <1>2, <1>3, <1>5, <2>1, <2>2, AdminShape DEF IInv
<1>7. SlotsInv'
  <2>1. InUse' \subseteq InUse
    BY <1>1, <1>2 DEF InUse
  <2> QED
    BY <1>1, <1>2, <2>1, SlotsKept DEF IInv, SlotsInv
<1>8. ASSUME ~overlapped' PROVE Quiet'
  <2>1. Quiet /\ ~Overlap'
    BY <1>8 DEF Noted, IInv
  <2>2. ASSUME NEW c \in Callers PROVE QuietCall(call[c])'
    <3>1. QuietCall(call[c])
      BY <2>1, QuietCaller
    <3> QED
      BY <1>1, <1>2, <3>1 DEF QuietCall
  <2>3. holder' # None =>
          engine' = None /\ (admin'[holder'].pc \in {"swapping", "eager"} => limiter' = None)
    <3>1. CASE holder = a
      BY <1>1, <1>3, <1>4, <2>1, <3>1 DEF Quiet, IInv, Shape
    <3>2. CASE holder # a
      BY <1>1, <1>3, <2>1, <3>2 DEF Quiet, IInv, Shape
    <3> QED
      BY <3>1, <3>2
  <2>4. (holder = None => \A x \in {engine, limiter} : x # None => x.settings = config)'
    BY <1>1, <2>1 DEF Quiet
  <2> QED
    BY <2>1, <2>2, <2>3, <2>4 DEF Quiet, QuietCall
<1> QED
  BY <1>6, <1>7, <1>8 DEF IInv, SlotsInv

\* While an admin registers and lookups have met nothing, nobody looks anything up, and the
\* engine of the database has gone.
LEMMA NobodyLooks ==
  ASSUME IInv, NEW a \in Admins, admin[a].pc \in Registering, Quiet
  PROVE  /\ holder = a /\ engine = None
         /\ admin[a].pc \in {"swapping", "eager"} => limiter = None
         /\ \A c \in Callers : call[c].pc \notin LookingUp /\ call[c].outcome # "key_error"
<1>1. holder = a /\ holder # None
  BY ThreadsAssumption DEF IInv, Shape, Registering
<1>2. \A c \in Callers : call[c].pc \notin LookingUp
  BY <1>1 DEF Quiet, Overlap
<1> QED
  BY <1>1, <1>2 DEF Quiet

LEMMA ForgetsStep ==
  ASSUME IInv, Noted, NEW a \in Admins, Forgets(a)
  PROVE  IInv'
<1>1. /\ admin[a].pc = "forgetting" /\ admin[a] \in AdminStates /\ limiter' = None
      /\ UNCHANGED <<config, engine, free, call, changes, holder>>
  BY AdminTyped DEF Forgets, IInv
<1>2. PICK z : /\ admin' = [admin EXCEPT ![a] = z]
               /\ z = [pc |-> "swapping", settings |-> admin[a].settings,
                       victim |-> admin[a].victim]
  <2>1. [admin[a] EXCEPT !.pc = "swapping"]
          = [pc |-> "swapping", settings |-> admin[a].settings, victim |-> admin[a].victim]
    BY <1>1, AdminIs
  <2> QED
    BY <2>1 DEF Forgets
<1>3. z.pc = "swapping" /\ AdminOk(z)
  BY <1>1, <1>2 DEF AdminStates, Registering, AdminOk
<1>4. Shape'
  <2>1. /\ config' \in Settings \cup {None} /\ engine' \in Objects \cup {None}
        /\ limiter' \in Objects \cup {None} /\ free' = free
        /\ changes' \in 0 .. MaxChanges /\ holder' \in Admins \cup {None} /\ holder' = a
        /\ call' \in [Callers -> Calls] /\ \A c \in Callers : CallOk(call'[c])
    BY <1>1 DEF IInv, Shape
  <2> QED
    BY <1>1, <1>2, <1>3, <2>1, AdminShape DEF IInv
<1>5. SlotsInv'
  BY <1>1, SlotsUntouched DEF IInv, SlotsInv
<1>6. ASSUME ~overlapped' PROVE Quiet'
  <2>1. Quiet /\ ~Overlap'
    BY <1>6 DEF Noted, IInv
  <2>2. /\ holder = a /\ engine = None
        /\ \A c \in Callers : call[c].pc \notin LookingUp /\ call[c].outcome # "key_error"
    BY <1>1, <2>1, NobodyLooks DEF Registering
  <2>3. a # None
    BY ThreadsAssumption
  <2> QED
    BY <1>1, <2>1, <2>2, <2>3 DEF Quiet, LookingUp
<1> QED
  BY <1>4, <1>5, <1>6 DEF IInv, SlotsInv

LEMMA SwapsStep ==
  ASSUME IInv, Noted, NEW a \in Admins, Swaps(a)
  PROVE  IInv'
<1>1. /\ admin[a].pc = "swapping" /\ admin[a] \in AdminStates /\ config' = admin[a].settings
      /\ UNCHANGED <<engine, limiter, free, call, changes>>
  BY AdminTyped DEF Swaps, IInv
<1>2. holder = a
  BY <1>1 DEF IInv, Shape
<1>3. PICK z : /\ admin' = [admin EXCEPT ![a] = z]
               /\ \/ z = AtRest /\ holder' = None
                  \/ /\ z = [pc |-> "eager", settings |-> admin[a].settings,
                             victim |-> admin[a].victim]
                     /\ holder' = holder /\ admin[a].settings # None
  <2>1. [admin[a] EXCEPT !.pc = "eager"]
          = [pc |-> "eager", settings |-> admin[a].settings, victim |-> admin[a].victim]
    BY <1>1, AdminIs
  <2> QED
    BY <2>1 DEF Swaps
<1>4. /\ AdminOk(z) /\ z.pc \in {"idle", "eager"} /\ (z.pc = "eager" => config' # None)
      /\ holder' = IF z.pc = "idle" THEN None ELSE a
  BY <1>1, <1>2, <1>3 DEF AdminStates, Registering, AdminOk, AtRest
<1>5. \A b \in Admins \ {a} : admin[b].pc # "eager" /\ holder # b /\ holder' # b
  BY <1>2, <1>4, ThreadsAssumption DEF IInv, Shape
<1>6. Shape'
  <2>1. /\ config' \in Settings \cup {None} /\ engine' \in Objects \cup {None}
        /\ limiter' \in Objects \cup {None} /\ free' = free /\ changes' \in 0 .. MaxChanges
        /\ call' \in [Callers -> Calls] /\ \A c \in Callers : CallOk(call'[c])
    BY <1>1 DEF IInv, Shape, AdminStates
  <2>2. holder' \in Admins \cup {None} /\ (holder' = a <=> z.pc \notin {"idle", "draining"})
    BY <1>4, ThreadsAssumption
  <2> QED
    BY <1>3, <1>4, <1>5, <2>1, <2>2, AdminShape DEF IInv
<1>7. SlotsInv'
  BY <1>1, SlotsUntouched DEF IInv, SlotsInv
<1>8. ASSUME ~overlapped' PROVE Quiet'
  <2>1. Quiet /\ ~Overlap'
    BY <1>8 DEF Noted, IInv
  <2>2. /\ engine = None /\ limiter = None
        /\ \A c \in Callers : call[c].pc \notin LookingUp /\ call[c].outcome # "key_error"
    BY <1>1, <2>1, NobodyLooks DEF Registering
  <2> QED
    BY <1>1, <2>1, <2>2 DEF Quiet, LookingUp
<1> QED
  BY <1>6, <1>7, <1>8 DEF IInv, SlotsInv

LEMMA ConnectsStep ==
  ASSUME IInv, Noted, NEW a \in Admins, Connects(a)
  PROVE  IInv'
<1>1. /\ admin[a].pc = "eager" /\ engine' = Got(config) /\ holder' = None
      /\ admin' = [admin EXCEPT ![a] = AtRest]
      /\ UNCHANGED <<config, limiter, free, call, changes>>
  BY DEF Connects
<1>2. PICK z : z = AtRest
  OBVIOUS
<1>3. z.pc = "idle" /\ AdminOk(z)
  BY <1>2 DEF AtRest, AdminOk, AdminStates
<1>4. config \in Settings /\ holder = a
  BY <1>1 DEF IInv, Shape
<1>5. Got(config) \in Objects /\ (engine = None => Got(config).settings = config)
  BY <1>4, GotTyped DEF IInv
<1>6. Shape'
  <2>1. /\ config' \in Settings \cup {None} /\ engine' \in Objects \cup {None}
        /\ limiter' \in Objects \cup {None} /\ free' = free /\ changes' \in 0 .. MaxChanges
        /\ call' \in [Callers -> Calls] /\ \A c \in Callers : CallOk(call'[c])
    BY <1>1, <1>5 DEF IInv, Shape
  <2>2. \A b \in Admins \ {a} : holder' # b /\ holder # b
    BY <1>1, <1>4, ThreadsAssumption
  <2>3. holder' \in Admins \cup {None} /\ holder' # a
    BY <1>1, ThreadsAssumption
  <2> QED
    BY <1>1, <1>2, <1>3, <2>1, <2>2, <2>3, AdminShape DEF IInv
<1>7. SlotsInv'
  BY <1>1, SlotsUntouched DEF IInv, SlotsInv
<1>8. ASSUME ~overlapped' PROVE Quiet'
  <2>1. Quiet /\ ~Overlap'
    BY <1>8 DEF Noted, IInv
  <2>2. /\ engine = None /\ limiter = None
        /\ \A c \in Callers : call[c].pc \notin LookingUp /\ call[c].outcome # "key_error"
    BY <1>1, <2>1, NobodyLooks DEF Registering
  <2>3. \A x \in {engine', limiter'} : x # None => x.settings = config'
    BY <1>1, <1>5, <2>2
  <2> QED
    BY <1>1, <2>1, <2>2, <2>3 DEF Quiet, LookingUp
<1> QED
  BY <1>6, <1>7, <1>8 DEF IInv, SlotsInv

LEMMA DrainsStep ==
  ASSUME IInv, Noted, NEW a \in Admins, Drains(a)
  PROVE  IInv'
<1>1. /\ admin[a].pc = "idle" /\ engine # None /\ engine' = None
      /\ UNCHANGED <<config, limiter, free, call, holder>> /\ changes' \in 0 .. MaxChanges
  BY ChangesTyped DEF Drains, IInv
<1>2. PICK z : /\ admin' = [admin EXCEPT ![a] = z]
               /\ z = [pc |-> "draining", settings |-> None, victim |-> engine]
  <2>1. PICK x : x = AtRest
    OBVIOUS
  <2>2. PICK y : y = [x EXCEPT !.pc = "draining", !.victim = engine]
    OBVIOUS
  <2>3. x \in AdminStates /\ x.settings = None
    BY <2>1 DEF AtRest, AdminStates
  <2>4. y = [pc |-> "draining", settings |-> x.settings, victim |-> engine]
    BY <2>2, <2>3, AdminUpdated
  <2> QED
    BY <2>1, <2>2, <2>3, <2>4 DEF Drains
<1>3. z.pc = "draining" /\ AdminOk(z)
  BY <1>1, <1>2 DEF AdminOk, AdminStates, IInv, Shape
<1>4. Shape'
  <2>1. /\ config' \in Settings \cup {None} /\ engine' \in Objects \cup {None}
        /\ limiter' \in Objects \cup {None} /\ free' = free
        /\ call' \in [Callers -> Calls] /\ \A c \in Callers : CallOk(call'[c])
        /\ holder' \in Admins \cup {None} /\ holder' # a
    BY <1>1 DEF IInv, Shape
  <2> QED
    BY <1>1, <1>2, <1>3, <2>1, AdminShape DEF IInv
<1>5. SlotsInv'
  BY <1>1, SlotsUntouched DEF IInv, SlotsInv
<1>6. ASSUME ~overlapped' PROVE Quiet'
  <2>1. Quiet /\ ~Overlap'
    BY <1>6 DEF Noted, IInv
  <2>2. ASSUME NEW c \in Callers PROVE QuietCall(call[c])'
    <3>1. QuietCall(call[c])
      BY <2>1, QuietCaller
    <3> QED
      BY <1>1, <3>1 DEF QuietCall
  <2>3. holder' # None =>
          engine' = None /\ (admin'[holder'].pc \in {"swapping", "eager"} => limiter' = None)
    <3>1. holder # a
      BY <1>1 DEF IInv, Shape
    <3> QED
      BY <1>1, <1>2, <2>1, <3>1 DEF Quiet, IInv, Shape
  <2>4. (holder = None => \A x \in {engine, limiter} : x # None => x.settings = config)'
    BY <1>1, <2>1 DEF Quiet
  <2> QED
    BY <2>1, <2>2, <2>3, <2>4 DEF Quiet, QuietCall
<1> QED
  BY <1>4, <1>5, <1>6 DEF IInv, SlotsInv
LEMMA AdminsStep ==
  ASSUME IInv, Noted, NEW a \in Admins,
         \/ \E s \in Settings \cup {None} : Locked(a, s)
         \/ Disposes(a) \/ Forgets(a) \/ Swaps(a) \/ Connects(a) \/ Drains(a)
  PROVE  IInv'
  BY LockedStep, DisposesStep, ForgetsStep, SwapsStep, ConnectsStep, DrainsStep

(***************************************************************************)
(* The theorems                                                            *)
(***************************************************************************)

LEMMA InitIs ==
  ASSUME Init
  PROVE  IInv
<1>1. Shape
  <2>1. \A c \in Callers : call[c] = Rest
    BY DEF Init
  <2>2. call \in [Callers -> Calls] /\ \A c \in Callers : CallOk(call[c])
    BY <2>1, RestOk DEF Init
  <2>3. AtRest \in AdminStates /\ AdminOk(AtRest) /\ AtRest.pc = "idle"
    BY DEF AtRest, AdminStates, AdminOk
  <2>4. admin = [a \in Admins |-> AtRest] /\ \A a \in Admins : admin[a] = AtRest
    BY DEF Init
  <2>5. admin \in [Admins -> AdminStates] /\ \A a \in Admins : AdminOk(admin[a])
    BY <2>3, <2>4
  <2>6. free \in [Ids -> [Tiers -> Nat]]
    BY DEF Init
  <2>7. changes \in 0 .. MaxChanges
    BY ThreadsAssumption DEF Init
  <2>8. \A a \in Admins : holder # a /\ admin[a].pc = "idle"
    BY <2>3, <2>4, ThreadsAssumption DEF Init
  <2> QED
    BY <2>2, <2>5, <2>6, <2>7, <2>8 DEF Init, Shape
<1>2. InUse = {}
  BY DEF InUse, Init, Rest
<1>3. Quiet
  <2>1. \A c \in Callers : call[c].pc = "idle" /\ call[c].outcome = "none"
    BY DEF Init, Rest
  <2>2. ~Overlap
    BY <2>1 DEF Overlap, LookingUp
  <2> QED
    BY <2>1, <2>2 DEF Init, Quiet, LookingUp
<1> QED
  BY <1>1, <1>2, <1>3 DEF IInv, Distinct

LEMMA NextKeeps ==
  ASSUME IInv, [Next]_vars
  PROVE  IInv'
<1>1. CASE Next
  BY <1>1, CallersStep, AdminsStep DEF Next
<1>2. CASE UNCHANGED vars
  <2>1. Shape'
    BY <1>2 DEF IInv, Shape, CallOk, AdminOk, vars
  <2>2. SlotsInv'
    BY <1>2, SlotsUntouched DEF IInv, SlotsInv, vars
  <2>3. Quiet <=> Quiet'
    BY <1>2 DEF Quiet, Overlap, vars
  <2> QED
    BY <1>2, <2>1, <2>2, <2>3 DEF IInv, SlotsInv, vars
<1> QED
  BY <1>1, <1>2

\* Calls have the shape their state says, limiters in use are told apart, their slots are
\* free or held, and nothing is out of date while no lookup has met anything: initially, and
\* after every step of any number of threads (execute_with_resilience, scope,
\* register_database, unregister_database, drain_engine).
THEOREM Invariance == Spec => []IInv
<1>1. Init => IInv
  BY InitIs
<1>2. IInv /\ [Next]_vars => IInv'
  BY NextKeeps
<1> QED
  BY <1>1, <1>2, PTL DEF Spec

LEMMA TypeOKIs ==
  ASSUME Shape
  PROVE  TypeOK
<1>1. ASSUME NEW c \in Callers
      PROVE  /\ call[c].pc = "running" => call[c].conn # "none"
             /\ call[c].pc \in {"connecting", "running"} => call[c].engine # None
             /\ call[c].pc \in {"taking", "scoping", "connecting", "running"}
                  => call[c].limiter # None
  BY CallTyped DEF CallOk
<1> QED
  BY <1>1 DEF Shape, TypeOK, AdminStates

\* A call with a connection holds a slot of every tier of its order.
LEMMA ConnectedHolds ==
  ASSUME Shape, NEW c \in Callers, call[c].conn # "none", NEW t,
         LET order == Order[call[c].kind] IN \E i \in DOMAIN order : order[i] = t
  PROVE  Holds(call[c], call[c].limiter, t)
<1>1. /\ call[c].pc = "running" /\ call[c].held = Tiered(call[c]) /\ call[c].limiter # None
      /\ call[c].kind \in Kinds
  BY CallTyped DEF CallOk
<1>2. DOMAIN Order[call[c].kind] = 1 .. Len(Order[call[c].kind])
  BY <1>1, OrderIs
<1>3. DOMAIN Order[call[c].kind] = 1 .. call[c].held
  BY <1>1, <1>2 DEF Tiered
<1> QED
  BY <1>1, <1>3 DEF Holds

LEMMA Covered ==
  ASSUME IInv
  PROVE  ConnectionsCovered
<1>1. SUFFICES
        ASSUME NEW l \in {call[c].limiter : c \in Callers}, l # None, NEW t \in Tiers,
               Cap(l, t) > 0
        PROVE  Cardinality({c \in Callers :
                     /\ call[c].limiter = l /\ call[c].conn # "none"
                     /\ LET order == Order[call[c].kind] IN \E i \in DOMAIN order : order[i] = t})
                 <= Cap(l, t)
  BY DEF ConnectionsCovered
<1> DEFINE C == {c \in Callers :
                   /\ call[c].limiter = l /\ call[c].conn # "none"
                   /\ LET order == Order[call[c].kind]
                      IN  \E i \in DOMAIN order : order[i] = t}
<1>2. C \subseteq Holding(l, t)
  <2>1. ASSUME NEW c \in C PROVE c \in Holding(l, t)
    <3>1. Holds(call[c], call[c].limiter, t)
      BY ConnectedHolds DEF IInv
    <3>2. c \in Callers /\ call[c].limiter = l
      OBVIOUS
    <3> QED
      BY <3>1, <3>2, HoldingIs
  <2> QED
    BY <2>1
<1> HIDE DEF C
<1>3. IsFiniteSet(Holding(l, t))
  BY HoldingIs, FS_Subset, ThreadsAssumption
<1>4. Cardinality(C) <= Cardinality(Holding(l, t)) /\ IsFiniteSet(C)
  BY <1>2, <1>3, FS_Subset
<1>5. l \in InUse
  BY <1>1 DEF InUse
<1>6. free[l.id][t] + Cardinality(Holding(l, t)) = Cap(l, t)
  BY <1>1, <1>5 DEF IInv, Slots
<1>7. Cap(l, t) \in Nat /\ free[l.id][t] \in Nat
  <2>1. l.id \in Ids /\ l.settings \in Settings
    BY <1>5, InUseTyped DEF IInv, Objects
  <2> QED
    BY <2>1, SlotsTyped DEF IInv
<1>8. Cardinality(Holding(l, t)) \in Nat /\ Cardinality(C) \in Nat
  BY <1>3, <1>4, FS_CardinalityType
<1>9. Cardinality(C) <= Cap(l, t)
  BY <1>4, <1>6, <1>7, <1>8
<1> QED
  BY <1>9 DEF C

\* For any number of threads and any limits: the slots of every limiter in use, replaced ones
\* included, are free or held, and no limiter lets more connections out than the limit of
\* each tier (ConcurrencyLimiter.acquire, scope).
THEOREM LimitsAlwaysHold == Spec => []LimitsHold
<1>1. IInv => LimitsHold
  <2>1. ASSUME IInv PROVE SlotsAccounted
    <3>1. \A l \in {limiter} \cup {call[c].limiter : c \in Callers} : l # None => l \in InUse
      BY DEF InUse
    <3> QED
      BY <2>1, <3>1 DEF IInv, Slots, SlotsAccounted
  <2> QED
    BY <2>1, Covered, TypeOKIs DEF IInv, LimitsHold
<1> QED
  BY <1>1, Invariance, PTL

\* Unless a lookup has met a registration or another lookup, what is cached was made from
\* the settings in force and no lookup raises KeyError (EngineRegistry.get, limiter_for).
THEOREM RightWithoutOverlap == Spec => []RightUnlessOverlapped
<1>1. IInv => RightUnlessOverlapped
  BY DEF IInv, Quiet, RightUnlessOverlapped
<1> QED
  BY <1>1, Invariance, PTL
=============================================================================
