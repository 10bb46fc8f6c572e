------------------------ MODULE EngineRegistry_proofs ------------------------
(***************************************************************************)
(* Proofs about EngineRegistry, for any number of tasks, keys and engines: *)
(* the cap holds, an engine has one owner, an eviction loses nothing and   *)
(* takes the engine that was used least recently.                          *)
(*                                                                         *)
(* The second part is about DynamicRegistration, whose names are its own:  *)
(* the two specifications share nothing but lemmas about induction.        *)
(***************************************************************************)
EXTENDS EngineRegistry, DynamicRegistration, FiniteSetTheorems, SequenceTheorems, WellFoundedInduction, TLAPS

Entry == [key : Keys, engine : Engines]

\* No key and no engine occurs twice in s.
Distinct(s) ==
  \A i, j \in DOMAIN s : s[i].key = s[j].key \/ s[i].engine = s[j].engine => i = j

\* The keys of s were last got in their order, as since tells it.
Aged(s, since) == \A i, j \in DOMAIN s : i < j => s[j].key \in since[s[i].key]

\* What the registry holds is open, and no task disposes of it.
Owned == \A e \in Registered : pool[e] = "open" /\ e \notin InHand

\* RegistrySound, strengthened by what makes the first entry the one to give way
\* (Aged) and what keeps its engine out of the rest of the registry (Distinct).
IInv ==
  /\ TypeOK
  /\ Len(entries) <= MaxEngines /\ Distinct(entries) /\ Aged(entries, usedSince)
  /\ Owned /\ DisposedOnce

(***************************************************************************)
(* Induction on the natural numbers, for a set: the library's theorem has  *)
(* a predicate as parameter, which the provers cannot instantiate.         *)
(***************************************************************************)

\* A set of natural numbers has a least element.
LEMMA LeastElement ==
  ASSUME NEW S, S \subseteq Nat, S # {}
  PROVE  \E x \in S : \A y \in S : x <= y
<1> DEFINE R == {ss \in Nat \X Nat : ss[1] < ss[2]}
<1>1. IsWellFoundedOn(R, Nat)
  BY NatLessThanWellFounded, Zenon DEF OpToRel
<1>2. \A x, y \in Nat : x < y => <<x, y>> \in R
  OBVIOUS
<1> HIDE DEF R
<1>3. PICK x \in S : \A y \in S : ~ (<<y, x>> \in R)
  BY <1>1, WFMin
<1>4. \A y \in S : ~ (y < x)
  BY <1>2, <1>3
<1>5. \A y \in S : x <= y
  BY <1>4
<1> QED
  BY <1>5

\* A set with 0, and with the successor of what is in it, has all natural numbers.
LEMMA Induction ==
  ASSUME NEW S, 0 \in S, \A n \in Nat : n \in S => n + 1 \in S
  PROVE  \A n \in Nat : n \in S
<1> SUFFICES ASSUME Nat \ S # {} PROVE FALSE
  OBVIOUS
<1>1. PICK x \in Nat \ S : \A y \in Nat \ S : x <= y
  BY LeastElement
<1>2. x - 1 \in Nat /\ x = (x - 1) + 1
  OBVIOUS
<1>3. x - 1 \in S
  BY <1>1, <1>2
<1> QED
  BY <1>1, <1>2, <1>3

(***************************************************************************)
(* What Of selects                                                         *)
(***************************************************************************)

\* The value at i of the function in Of, by its values g.
Step(ks, g, i) ==
  IF i = 0 THEN <<>>
  ELSE IF entries[i].key \in ks THEN Append(g[i - 1], entries[i]) ELSE g[i - 1]

Grows(ks, g, n) == g = [i \in 0 .. n |-> Step(ks, g, i)]

\* There is such a function.
LEMMA GrowthExists ==
  ASSUME NEW ks
  PROVE  \A n \in Nat : \E g : Grows(ks, g, n)
<1> DEFINE S == {n \in Nat : \E g : Grows(ks, g, n)}
<1>1. 0 \in S
  <2> DEFINE g == [i \in 0 .. 0 |-> <<>>]
  <2>1. g = [i \in 0 .. 0 |-> Step(ks, g, i)]
    BY DEF Step
  <2> QED
    BY <2>1 DEF Grows
<1>2. ASSUME NEW n \in Nat, n \in S PROVE n + 1 \in S
  <2>1. PICK g : Grows(ks, g, n)
    BY <1>2
  <2> DEFINE last == IF entries[n + 1].key \in ks THEN Append(g[n], entries[n + 1]) ELSE g[n]
             h == [i \in 0 .. n + 1 |-> IF i = n + 1 THEN last ELSE g[i]]
  <2>2. \A i \in 0 .. n : g[i] = Step(ks, g, i)
    BY <2>1 DEF Grows
  <2> HIDE DEF last
  <2>3. \A i \in 0 .. n : h[i] = g[i] /\ (i # 0 => i - 1 \in 0 .. n)
    OBVIOUS
  <2>4. h[n + 1] = last
    OBVIOUS
  <2>5. \A i \in 0 .. n : Step(ks, h, i) = Step(ks, g, i)
    BY <2>3 DEF Step
  <2>6. Step(ks, h, n + 1) = last
    <3>1. n + 1 # 0 /\ (n + 1) - 1 = n /\ h[n] = g[n]
      BY <2>3
    <3> QED
      BY <3>1 DEF Step, last
  <2>7. \A i \in 0 .. n + 1 : h[i] = Step(ks, h, i)
    <3> SUFFICES ASSUME NEW i \in 0 .. n + 1 PROVE h[i] = Step(ks, h, i)
      OBVIOUS
    <3>1. i = n + 1 \/ i \in 0 .. n
      OBVIOUS
    <3> HIDE DEF h
    <3> QED
      BY <3>1, <2>2, <2>3, <2>4, <2>5, <2>6
  <2>8. h = [i \in 0 .. n + 1 |-> h[i]]
    OBVIOUS
  <2> HIDE DEF h
  <2>9. h = [i \in 0 .. n + 1 |-> Step(ks, h, i)]
    BY <2>7, <2>8
  <2> QED
    BY <2>9 DEF Grows
<1> HIDE DEF S
<1>3. \A n \in Nat : n \in S
  BY <1>1, <1>2, Induction
<1> QED
  BY <1>3 DEF S

\* Of is the last value of such a function.
LEMMA OfGrows ==
  ASSUME NEW ks, entries \in Seq(Entry)
  PROVE  \E g : Grows(ks, g, Len(entries)) /\ Of(ks) = g[Len(entries)]
<1>1. Of(ks) = (CHOOSE g : Grows(ks, g, Len(entries)))[Len(entries)]
  BY Zenon DEF Of, Grows, Step
<1>2. \E g : Grows(ks, g, Len(entries))
  BY GrowthExists, LenProperties
<1> QED
  BY <1>1, <1>2

\* f holds, in their order, the entries of ks among the first n.
Places(at, f, n, ks) ==
  /\ at \in [1 .. Len(f) -> 1 .. n]
  /\ \A i \in 1 .. Len(f) : f[i] = entries[at[i]] /\ entries[at[i]].key \in ks
  /\ \A i, j \in 1 .. Len(f) : i < j => at[i] < at[j]
  /\ \A p \in 1 .. n : entries[p].key \in ks => \E i \in 1 .. Len(f) : at[i] = p

Selects(f, n, ks) == f \in Seq(Entry) /\ \E at : Places(at, f, n, ks)

\* One more entry of ks goes to the end of what was selected.
LEMMA SelectsOneMore ==
  ASSUME NEW ks, NEW n \in Nat, n < Len(entries), entries \in Seq(Entry), NEW f, Selects(f, n, ks)
  PROVE  Selects(IF entries[n + 1].key \in ks THEN Append(f, entries[n + 1]) ELSE f, n + 1, ks)
<1> DEFINE x == entries[n + 1]
           h == Append(f, x)
<1> PICK at : Places(at, f, n, ks)
  BY DEF Selects
<1>1. /\ at \in [1 .. Len(f) -> 1 .. n]
      /\ \A i \in 1 .. Len(f) : f[i] = entries[at[i]] /\ entries[at[i]].key \in ks
      /\ \A i, j \in 1 .. Len(f) : i < j => at[i] < at[j]
      /\ \A p \in 1 .. n : entries[p].key \in ks => \E i \in 1 .. Len(f) : at[i] = p
  BY DEF Places
<1>2. f \in Seq(Entry) /\ Len(f) \in Nat
  BY LenProperties DEF Selects
<1>3. CASE x.key \in ks
  <2> DEFINE to == [i \in 1 .. Len(f) + 1 |-> IF i = Len(f) + 1 THEN n + 1 ELSE at[i]]
  <2>1. x \in Entry
    BY ElementOfSeq
  <2>2. /\ h \in Seq(Entry) /\ Len(h) = Len(f) + 1
        /\ \A i \in 1 .. Len(f) : h[i] = f[i]
        /\ h[Len(f) + 1] = x
    BY <1>2, <2>1, AppendProperties
  <2>3. /\ to \in [1 .. Len(f) + 1 -> 1 .. n + 1]
        /\ to[Len(f) + 1] = n + 1
        /\ \A i \in 1 .. Len(f) : to[i] = at[i]
    BY <1>1, <1>2
  <2>4. \A i \in 1 .. Len(f) + 1 : i = Len(f) + 1 \/ i \in 1 .. Len(f)
    BY <1>2
  <2>5. \A p \in 1 .. n + 1 : p = n + 1 \/ p \in 1 .. n
    OBVIOUS
  <2> HIDE DEF h, to
  <2>6. \A i \in 1 .. Len(f) + 1 : h[i] = entries[to[i]] /\ entries[to[i]].key \in ks
    BY <1>1, <1>3, <2>2, <2>3, <2>4
  <2>7. ASSUME NEW i \in 1 .. Len(f) + 1, NEW j \in 1 .. Len(f) + 1, i < j
        PROVE  to[i] < to[j]
    <3>1. i \in 1 .. Len(f)
      BY <1>2, <2>7
    <3>2. at[i] \in 1 .. n
      BY <1>1, <3>1
    <3>3. CASE j = Len(f) + 1
      BY <2>3, <3>1, <3>2, <3>3
    <3>4. CASE j \in 1 .. Len(f)
      BY <1>1, <2>3, <2>7, <3>1, <3>4
    <3> QED
      BY <2>4, <3>3, <3>4
  <2>8. ASSUME NEW p \in 1 .. n + 1, entries[p].key \in ks
        PROVE  \E i \in 1 .. Len(f) + 1 : to[i] = p
    <3>1. CASE p = n + 1
      BY <1>2, <2>3, <3>1
    <3>2. CASE p \in 1 .. n
      <4>1. PICK i \in 1 .. Len(f) : at[i] = p
        BY <1>1, <2>8, <3>2
      <4>2. i \in 1 .. Len(f) + 1 /\ to[i] = p
        BY <1>2, <2>3, <4>1
      <4> QED
        BY <4>2
    <3> QED
      BY <2>5, <3>1, <3>2
  <2>9. Places(to, h, n + 1, ks)
    BY <2>2, <2>3, <2>6, <2>7, <2>8 DEF Places
  <2>10. Selects(h, n + 1, ks)
    BY <2>2, <2>9 DEF Selects
  <2> QED
    BY <1>3, <2>10 DEF h
<1>4. CASE x.key \notin ks
  <2>1. at \in [1 .. Len(f) -> 1 .. n + 1]
    BY <1>1
  <2>2. \A p \in 1 .. n + 1 : entries[p].key \in ks => p \in 1 .. n
    BY <1>4
  <2>3. Places(at, f, n + 1, ks)
    BY <1>1, <1>2, <2>1, <2>2 DEF Places
  <2>4. Selects(f, n + 1, ks)
    BY <1>2, <2>3 DEF Selects
  <2> QED
    BY <1>4, <2>4
<1> QED
  BY <1>3, <1>4

\* Of(ks) selects the entries of ks.
LEMMA OfSelects ==
  ASSUME NEW ks, entries \in Seq(Entry)
  PROVE  Selects(Of(ks), Len(entries), ks)
<1>1. PICK g : Grows(ks, g, Len(entries)) /\ Of(ks) = g[Len(entries)]
  BY OfGrows
<1>2. Len(entries) \in Nat
  BY LenProperties
<1>3. \A i \in 0 .. Len(entries) : g[i] = Step(ks, g, i)
  BY <1>1 DEF Grows
<1> DEFINE S == {n \in Nat : n <= Len(entries) => Selects(g[n], n, ks)}
<1>4. 0 \in S
  <2>1. g[0] = <<>>
    BY <1>2, <1>3 DEF Step
  <2>2. <<>> \in Seq(Entry) /\ Len(<<>>) = 0
    OBVIOUS
  <2>3. Places([i \in 1 .. 0 |-> 1], <<>>, 0, ks)
    BY <2>2 DEF Places
  <2>4. Selects(<<>>, 0, ks)
    BY <2>2, <2>3 DEF Selects
  <2> QED
    BY <2>1, <2>4
<1>5. ASSUME NEW n \in Nat, n \in S PROVE n + 1 \in S
  <2> SUFFICES ASSUME n + 1 <= Len(entries) PROVE Selects(g[n + 1], n + 1, ks)
    OBVIOUS
  <2>1. n < Len(entries) /\ n + 1 \in 0 .. Len(entries) /\ n + 1 # 0 /\ (n + 1) - 1 = n
    BY <1>2
  <2>2. Selects(g[n], n, ks)
    BY <1>5, <2>1
  <2>3. g[n + 1] = IF entries[n + 1].key \in ks THEN Append(g[n], entries[n + 1]) ELSE g[n]
    BY <1>3, <2>1 DEF Step
  <2> QED
    BY <2>1, <2>2, <2>3, SelectsOneMore
<1> HIDE DEF S
<1>6. \A n \in Nat : n \in S
  BY <1>4, <1>5, Induction
<1>7. Selects(g[Len(entries)], Len(entries), ks)
  BY <1>2, <1>6 DEF S
<1> QED
  BY <1>1, <1>7

\* Two selections, of the first n entries, have their lengths from them.
Divided(f, h, n) == f \in Seq(Entry) /\ h \in Seq(Entry) /\ Len(f) + Len(h) = n

\* Two selections that share the keys between them share the entries.
LEMMA OfDivides ==
  ASSUME NEW ks, NEW ls, entries \in Seq(Entry), \A k \in Keys : k \in ks <=> k \notin ls
  PROVE  Len(Of(ks)) + Len(Of(ls)) = Len(entries)
<1>1. PICK g : Grows(ks, g, Len(entries)) /\ Of(ks) = g[Len(entries)]
  BY OfGrows
<1>2. PICK h : Grows(ls, h, Len(entries)) /\ Of(ls) = h[Len(entries)]
  BY OfGrows
<1>3. Len(entries) \in Nat
  BY LenProperties
<1>4. \A i \in 0 .. Len(entries) : g[i] = Step(ks, g, i) /\ h[i] = Step(ls, h, i)
  BY <1>1, <1>2 DEF Grows
<1> DEFINE S == {n \in Nat : n <= Len(entries) => Divided(g[n], h[n], n)}
<1>5. 0 \in S
  <2>1. g[0] = <<>> /\ h[0] = <<>>
    BY <1>3, <1>4 DEF Step
  <2>2. Divided(g[0], h[0], 0)
    BY <2>1 DEF Divided
  <2> QED
    BY <2>2
<1>6. ASSUME NEW n \in Nat, n \in S PROVE n + 1 \in S
  <2> SUFFICES ASSUME n + 1 <= Len(entries) PROVE Divided(g[n + 1], h[n + 1], n + 1)
    OBVIOUS
  <2> DEFINE x == entries[n + 1]
  <2>1. n <= Len(entries) /\ n + 1 \in 0 .. Len(entries) /\ n + 1 # 0 /\ (n + 1) - 1 = n
    BY <1>3
  <2>2. g[n] \in Seq(Entry) /\ h[n] \in Seq(Entry) /\ Len(g[n]) + Len(h[n]) = n
    BY <1>6, <2>1 DEF Divided
  <2>3. /\ g[n + 1] = IF x.key \in ks THEN Append(g[n], x) ELSE g[n]
        /\ h[n + 1] = IF x.key \in ls THEN Append(h[n], x) ELSE h[n]
    BY <1>4, <2>1 DEF Step
  <2>4. x \in Entry
    BY <1>3, <2>1, ElementOfSeq
  <2>5. x.key \in ks <=> x.key \notin ls
    BY <2>4 DEF Entry
  <2>6. /\ Len(g[n]) \in Nat /\ Len(h[n]) \in Nat
        /\ Append(g[n], x) \in Seq(Entry) /\ Len(Append(g[n], x)) = Len(g[n]) + 1
        /\ Append(h[n], x) \in Seq(Entry) /\ Len(Append(h[n], x)) = Len(h[n]) + 1
    BY <2>2, <2>4, AppendProperties, LenProperties
  <2> HIDE DEF x
  <2>7. \A a, b \in Nat : a + b = n => (a + 1) + b = n + 1 /\ a + (b + 1) = n + 1
    OBVIOUS
  <2>8. CASE x.key \in ks
    <3>1. g[n + 1] = Append(g[n], x) /\ h[n + 1] = h[n]
      BY <2>3, <2>5, <2>8
    <3>2. Len(Append(g[n], x)) + Len(h[n]) = n + 1
      BY <2>2, <2>6, <2>7, Zenon
    <3> QED
      BY <2>2, <2>6, <3>1, <3>2, Zenon DEF Divided
  <2>9. CASE x.key \notin ks
    <3>1. g[n + 1] = g[n] /\ h[n + 1] = Append(h[n], x)
      BY <2>3, <2>5, <2>9
    <3>2. Len(g[n]) + Len(Append(h[n], x)) = n + 1
      BY <2>2, <2>6, <2>7, Zenon
    <3> QED
      BY <2>2, <2>6, <3>1, <3>2, Zenon DEF Divided
  <2> QED
    BY <2>8, <2>9
<1> HIDE DEF S
<1>7. \A n \in Nat : n \in S
  BY <1>5, <1>6, Induction
<1>8. Divided(g[Len(entries)], h[Len(entries)], Len(entries))
  BY <1>3, <1>7 DEF S
<1> QED
  BY <1>1, <1>2, <1>8 DEF Divided

(***************************************************************************)
(* Entries in order                                                        *)
(***************************************************************************)

LEMMA EntriesTyped ==
  ASSUME NEW s \in Seq(Entry)
  PROVE  /\ Len(s) \in Nat /\ DOMAIN s = 1 .. Len(s)
         /\ \A i \in DOMAIN s : s[i] \in Entry /\ s[i].key \in Keys /\ s[i].engine \in Engines
<1>1. Len(s) \in Nat /\ DOMAIN s = 1 .. Len(s)
  BY LenProperties
<1>2. \A i \in DOMAIN s : s[i] \in Entry
  BY <1>1, ElementOfSeq
<1>3. \A x \in Entry : x.key \in Keys /\ x.engine \in Engines
  BY DEF Entry
<1> QED
  BY <1>1, <1>2, <1>3

\* f has some of the entries of s, in their order.
Within(f, s) ==
  /\ f \in Seq(Entry) /\ Len(f) <= Len(s)
  /\ \A i \in DOMAIN f : \E p \in DOMAIN s : f[i] = s[p]
  /\ \A i, j \in DOMAIN f : i < j =>
       \E p, q \in DOMAIN s : p < q /\ f[i] = s[p] /\ f[j] = s[q]

\* What is left of distinct entries in order is so too.
LEMMA WithinKeeps ==
  ASSUME NEW s \in Seq(Entry), NEW f, NEW since, Within(f, s), Distinct(s), Aged(s, since)
  PROVE  Distinct(f) /\ Aged(f, since)
<1>1. /\ DOMAIN s = 1 .. Len(s) /\ DOMAIN f = 1 .. Len(f)
      /\ Len(s) \in Nat /\ Len(f) \in Nat
  BY LenProperties DEF Within
<1>2. ASSUME NEW i \in DOMAIN f, NEW j \in DOMAIN f, i < j
      PROVE  /\ f[i].key # f[j].key /\ f[i].engine # f[j].engine
             /\ f[j].key \in since[f[i].key]
  <2>1. PICK p \in DOMAIN s, q \in DOMAIN s : p < q /\ f[i] = s[p] /\ f[j] = s[q]
    BY <1>2 DEF Within
  <2>2. p # q
    BY <1>1, <2>1
  <2> QED
    BY <2>1, <2>2 DEF Distinct, Aged
<1>3. \A i, j \in DOMAIN f : i < j \/ j < i \/ i = j
  BY <1>1
<1>4. Distinct(f)
  BY <1>2, <1>3 DEF Distinct
<1>5. Aged(f, since)
  BY <1>2 DEF Aged
<1> QED
  BY <1>4, <1>5

\* Of(ks) has the entries of ks, in their order.
LEMMA Kept ==
  ASSUME NEW ks \in SUBSET Keys, entries \in Seq(Entry)
  PROVE  /\ Within(Of(ks), entries)
         /\ Ran(Of(ks)) = {x \in Ran(entries) : x.key \in ks}
<1>1. Of(ks) \in Seq(Entry)
  BY OfSelects DEF Selects
<1>2. PICK at : Places(at, Of(ks), Len(entries), ks)
  BY OfSelects DEF Selects
<1> DEFINE f == Of(ks)
<1> HIDE DEF f
<1>3. /\ at \in [1 .. Len(f) -> 1 .. Len(entries)]
      /\ \A i \in 1 .. Len(f) : f[i] = entries[at[i]] /\ entries[at[i]].key \in ks
      /\ \A i, j \in 1 .. Len(f) : i < j => at[i] < at[j]
      /\ \A p \in 1 .. Len(entries) :
           entries[p].key \in ks => \E i \in 1 .. Len(f) : at[i] = p
  BY <1>2 DEF Places, f
<1>4. f \in Seq(Entry) /\ DOMAIN f = 1 .. Len(f) /\ DOMAIN entries = 1 .. Len(entries)
  BY <1>1, LenProperties DEF f
<1>5. Len(f) <= Len(entries)
  <2>1. Len(Of(ks)) + Len(Of(Keys \ ks)) = Len(entries)
    BY OfDivides
  <2>2. Of(Keys \ ks) \in Seq(Entry)
    BY OfSelects DEF Selects
  <2>3. Len(Of(ks)) \in Nat /\ Len(Of(Keys \ ks)) \in Nat
    BY <1>1, <2>2, LenProperties
  <2> QED
    BY <2>1, <2>3 DEF f
<1>6. Within(f, entries)
  BY <1>3, <1>4, <1>5 DEF Within
<1>7. Ran(f) = {x \in Ran(entries) : x.key \in ks}
  <2>1. ASSUME NEW x \in Ran(f) PROVE x \in Ran(entries) /\ x.key \in ks
    BY <1>3, <1>4 DEF Ran
  <2>2. ASSUME NEW x \in Ran(entries), x.key \in ks PROVE x \in Ran(f)
    <3>1. PICK p \in 1 .. Len(entries) : x = entries[p]
      BY <1>4 DEF Ran
    <3>2. PICK i \in 1 .. Len(f) : at[i] = p
      BY <1>3, <2>2, <3>1
    <3>3. x = f[i]
      BY <1>3, <3>1, <3>2
    <3> QED
      BY <1>4, <3>3 DEF Ran
  <2> QED
    BY <2>1, <2>2
<1> QED
  BY <1>6, <1>7 DEF f

\* Without its first entry the registry has the others, in their order.
LEMMA TailWithin ==
  ASSUME NEW s \in Seq(Entry), s # <<>>
  PROVE  /\ Within(Tail(s), s) /\ Len(Tail(s)) = Len(s) - 1
         /\ s[1] \in Entry /\ 1 \in DOMAIN s
         /\ \A i \in DOMAIN s : i = 1 \/ \E j \in DOMAIN Tail(s) : s[i] = Tail(s)[j]
         /\ \A j \in DOMAIN Tail(s) : j + 1 \in DOMAIN s /\ Tail(s)[j] = s[j + 1]
<1>1. Len(s) \in Nat /\ Len(s) # 0 /\ DOMAIN s = 1 .. Len(s)
  BY LenProperties, EmptySeq
<1>2. /\ Tail(s) \in Seq(Entry) /\ Len(Tail(s)) = Len(s) - 1
      /\ \A i \in 1 .. Len(Tail(s)) : Tail(s)[i] = s[i + 1]
  BY HeadTailProperties
<1>3. DOMAIN Tail(s) = 1 .. Len(s) - 1
  BY <1>2, LenProperties
<1> DEFINE f == Tail(s)
<1> HIDE DEF f
<1>4. /\ f \in Seq(Entry) /\ Len(f) = Len(s) - 1 /\ DOMAIN f = 1 .. Len(s) - 1
      /\ \A i \in 1 .. Len(s) - 1 : f[i] = s[i + 1]
  BY <1>2, <1>3 DEF f
<1>5. \A i \in DOMAIN f : i + 1 \in DOMAIN s /\ f[i] = s[i + 1]
  BY <1>1, <1>4
<1>6. \A i, j \in DOMAIN f : i < j =>
        \E p, q \in DOMAIN s : p < q /\ f[i] = s[p] /\ f[j] = s[q]
  <2> SUFFICES ASSUME NEW i \in DOMAIN f, NEW j \in DOMAIN f, i < j
               PROVE  \E p, q \in DOMAIN s : p < q /\ f[i] = s[p] /\ f[j] = s[q]
    OBVIOUS
  <2>1. i + 1 < j + 1
    BY <1>1, <1>4
  <2> QED
    BY <1>5, <2>1
<1>7. Within(f, s)
  <2>1. Len(f) <= Len(s)
    BY <1>1, <1>4
  <2> QED
    BY <1>4, <1>5, <1>6, <2>1 DEF Within
<1>8. \A i \in DOMAIN s : i = 1 \/ \E j \in DOMAIN f : s[i] = f[j]
  <2> SUFFICES ASSUME NEW i \in DOMAIN s, i # 1 PROVE \E j \in DOMAIN f : s[i] = f[j]
    OBVIOUS
  <2>1. i - 1 \in DOMAIN f /\ (i - 1) + 1 = i
    BY <1>1, <1>4
  <2> QED
    BY <1>5, <2>1
<1>9. s[1] \in Entry /\ 1 \in DOMAIN s
  BY <1>1, ElementOfSeq
<1> QED
  BY <1>4, <1>5, <1>7, <1>8, <1>9 DEF f

\* The entry of the key that was just got goes to the end.
LEMMA Newest ==
  ASSUME NEW k \in Keys, NEW s \in Seq(Entry), NEW f, NEW y \in Entry, y.key = k,
         Within(f, s), Distinct(s), Aged(s, usedSince),
         \A i \in DOMAIN f : f[i].key # k /\ f[i].engine # y.engine,
         Got(k)
  PROVE  /\ Append(f, y) \in Seq(Entry) /\ Len(Append(f, y)) = Len(f) + 1
         /\ Ran(Append(f, y)) = Ran(f) \cup {y}
         /\ Distinct(Append(f, y)) /\ Aged(Append(f, y), usedSince')
<1>1. f \in Seq(Entry) /\ Distinct(f) /\ Aged(f, usedSince)
  BY WithinKeeps DEF Within
<1>2. Len(f) \in Nat /\ DOMAIN f = 1 .. Len(f)
  BY <1>1, LenProperties
<1> DEFINE g == Append(f, y)
           n == Len(f) + 1
<1>3. /\ g \in Seq(Entry) /\ Len(g) = n /\ g[n] = y
      /\ \A i \in DOMAIN f : g[i] = f[i]
  BY <1>1, <1>2, AppendProperties
<1>4. DOMAIN g = 1 .. n
  BY <1>3, LenProperties
<1> HIDE DEF g
<1>5. \A i \in DOMAIN g : i \in DOMAIN f \/ i = n
  BY <1>2, <1>4
<1>6. n \in DOMAIN g /\ \A i \in DOMAIN f : i \in DOMAIN g /\ i < n
  BY <1>2, <1>4
<1> HIDE DEF n
<1>7. Ran(g) = Ran(f) \cup {y}
  BY <1>3, <1>5, <1>6 DEF Ran
<1>8. Distinct(g)
  <2> SUFFICES ASSUME NEW i \in DOMAIN g, NEW j \in DOMAIN g,
                      g[i].key = g[j].key \/ g[i].engine = g[j].engine
               PROVE  i = j
    BY DEF Distinct
  <2>1. CASE i \in DOMAIN f /\ j \in DOMAIN f
    BY <1>1, <1>3, <2>1 DEF Distinct
  <2>2. CASE i = n \/ j = n
    BY <1>3, <1>5, <2>2
  <2> QED
    BY <1>5, <2>1, <2>2
<1>9. \A i \in DOMAIN f : usedSince'[f[i].key] = usedSince[f[i].key] \cup {k}
  <2>1. \A i \in DOMAIN f : f[i].key \in Keys
    BY <1>1, EntriesTyped
  <2> QED
    BY <2>1 DEF Got
<1>10. Aged(g, usedSince')
  <2> SUFFICES ASSUME NEW i \in DOMAIN g, NEW j \in DOMAIN g, i < j
               PROVE  g[j].key \in usedSince'[g[i].key]
    BY DEF Aged
  <2>1. i \in DOMAIN f
    BY <1>2, <1>4 DEF n
  <2>2. CASE j \in DOMAIN f
    BY <1>1, <1>3, <1>9, <2>1, <2>2 DEF Aged
  <2>3. CASE j = n
    BY <1>3, <1>9, <2>1, <2>3
  <2> QED
    BY <1>5, <2>2, <2>3
<1> QED
  BY <1>3, <1>7, <1>8, <1>10 DEF g, n

\* Used(k) has all entries, that of k the last.
LEMMA UsedMovesToEnd ==
  ASSUME NEW k \in KeysOf(entries), entries \in Seq(Entry), Distinct(entries)
  PROVE  \E y \in Ran(entries) :
           /\ y.key = k /\ Used(k) = Append(Of(Keys \ {k}), y)
           /\ Len(Of(Keys \ {k})) + 1 = Len(entries)
           /\ \A i \in DOMAIN Of(Keys \ {k}) :
                Of(Keys \ {k})[i].key # k /\ Of(Keys \ {k})[i].engine # y.engine
<1> DEFINE f == Of(Keys \ {k})
           g == Of({k})
<1>1. \A x \in Ran(entries) : x.key \in Keys
  BY EntriesTyped DEF Ran
<1>2. PICK y \in Ran(entries) : y.key = k
  BY DEF KeysOf
<1>3. k \in Keys
  BY <1>1, <1>2
<1>4. Within(g, entries) /\ Ran(g) = {x \in Ran(entries) : x.key \in {k}}
  BY <1>3, Kept
<1>5. Within(f, entries) /\ Ran(f) = {x \in Ran(entries) : x.key \in Keys \ {k}}
  BY Kept
<1>6. Len(f) + Len(g) = Len(entries)
  BY OfDivides
<1> HIDE DEF f, g
<1>7. /\ f \in Seq(Entry) /\ g \in Seq(Entry) /\ Len(f) \in Nat /\ Len(g) \in Nat
      /\ DOMAIN g = 1 .. Len(g) /\ DOMAIN f = 1 .. Len(f)
  BY <1>4, <1>5, LenProperties DEF Within
<1>8. \A i \in DOMAIN g : g[i] \in Ran(entries) /\ g[i].key = k
  BY <1>4 DEF Ran
<1>9. \A x, z \in Ran(entries) : x.key = z.key \/ x.engine = z.engine => x = z
  BY DEF Ran, Distinct
<1>10. Len(g) = 1
  <2>1. Len(g) # 0
    BY <1>2, <1>4, <1>7 DEF Ran
  <2>2. ASSUME Len(g) > 1 PROVE FALSE
    <3>1. 1 \in DOMAIN g /\ 2 \in DOMAIN g /\ 1 < 2
      BY <1>7, <2>2
    <3>2. PICK p \in DOMAIN entries, q \in DOMAIN entries :
             p < q /\ g[1] = entries[p] /\ g[2] = entries[q]
      BY <1>4, <3>1 DEF Within
    <3>3. p = q
      BY <1>8, <3>1, <3>2 DEF Distinct
    <3>4. p \in Nat
      BY LenProperties
    <3> QED
      BY <3>2, <3>3, <3>4
  <2> QED
    BY <1>7, <2>1, <2>2
<1>11. g[1] = y
  BY <1>2, <1>7, <1>8, <1>9, <1>10
<1>12. g = <<y>>
  BY <1>7, <1>10, <1>11
<1>13. y \in Entry
  BY EntriesTyped DEF Ran
<1>14. f \o <<y>> = Append(f, y)
  BY <1>7, <1>13, AppendIsConcat
<1>15. Used(k) = Append(f, y)
  BY <1>12, <1>14 DEF Used, f, g
<1>16. \A i \in DOMAIN f : f[i] \in Ran(entries) /\ f[i].key # k
  BY <1>5 DEF Ran
<1>17. \A i \in DOMAIN f : f[i].engine # y.engine
  BY <1>2, <1>9, <1>16
<1>18. Len(f) + 1 = Len(entries)
  BY <1>6, <1>10
<1> QED
  BY <1>2, <1>15, <1>16, <1>17, <1>18 DEF f

(***************************************************************************)
(* The steps of the registry                                               *)
(***************************************************************************)

LEMMA RegisteredIs ==
  ASSUME NEW s, NEW e
  PROVE  e \in {x.engine : x \in Ran(s)} <=> \E i \in DOMAIN s : s[i].engine = e
BY DEF Ran

LEMMA InHandIs ==
  ASSUME NEW tk, NEW e
  PROVE  e \in UNION {Ran(tk[u].victims) : u \in Tasks}
           <=> \E u \in Tasks : \E i \in DOMAIN tk[u].victims : tk[u].victims[i] = e
BY DEF Ran

LEMMA SameHands ==
  ASSUME UNCHANGED task
  PROVE  InHand' = InHand
BY DEF InHand

\* What is new in the registry was open nowhere and in nobody's hands.
LEMMA FreshIs ==
  ASSUME NEW e \in Fresh
  PROVE  e \in Engines /\ pool[e] = "none" /\ e \notin Registered /\ e \notin InHand
BY DEF Fresh

LEMMA GotTyped ==
  ASSUME TypeOK, NEW k \in Keys, Got(k)
  PROVE  usedSince' \in [Keys -> SUBSET Keys]
BY DEF TypeOK, Got

\* get of an engine that exists: it goes to the end.
LEMMA HitEntries ==
  ASSUME IInv, NEW t \in Tasks, NEW k \in Keys, GetHit(t, k)
  PROVE  /\ entries' \in Seq(Entry) /\ Len(entries') = Len(entries)
         /\ Distinct(entries') /\ Aged(entries', usedSince')
         /\ Ran(entries') = Ran(entries)
<1> DEFINE f == Of(Keys \ {k})
<1>1. entries \in Seq(Entry) /\ Distinct(entries) /\ Aged(entries, usedSince)
  BY DEF IInv, TypeOK, Entry
<1>2. PICK y \in Ran(entries) :
         /\ y.key = k /\ Used(k) = Append(f, y)
         /\ Len(f) + 1 = Len(entries)
         /\ \A i \in DOMAIN f : f[i].key # k /\ f[i].engine # y.engine
  BY <1>1, UsedMovesToEnd DEF GetHit
<1>3. Within(f, entries) /\ Ran(f) = {x \in Ran(entries) : x.key \in Keys \ {k}}
  BY <1>1, Kept
<1>4. y \in Entry
  BY <1>1, EntriesTyped DEF Ran
<1>5. entries' = Append(f, y) /\ Got(k)
  BY <1>2 DEF GetHit
<1> HIDE DEF f
<1>6. /\ Append(f, y) \in Seq(Entry) /\ Len(Append(f, y)) = Len(f) + 1
      /\ Ran(Append(f, y)) = Ran(f) \cup {y}
      /\ Distinct(Append(f, y)) /\ Aged(Append(f, y), usedSince')
  BY <1>1, <1>2, <1>3, <1>4, <1>5, Newest
<1>7. \A x \in Ran(entries) : x.key \in Keys /\ (x.key = y.key => x = y)
  BY <1>1, <1>2, EntriesTyped DEF Ran, Distinct
<1>8. Ran(f) \cup {y} = Ran(entries)
  BY <1>2, <1>3, <1>7
<1> QED
  BY <1>2, <1>5, <1>6, <1>8

\* get of an engine that is made: it goes to the end of what is left, f.
LEMMA MadeEntries ==
  ASSUME IInv, NEW k \in Keys, NEW e \in Fresh, NEW f, Within(f, entries), Len(f) < MaxEngines,
         k \notin KeysOf(entries),
         entries' = Append(f, [key |-> k, engine |-> e]), Got(k)
  PROVE  /\ entries' \in Seq(Entry) /\ Len(entries') <= MaxEngines
         /\ Distinct(entries') /\ Aged(entries', usedSince')
         /\ Ran(entries') = Ran(f) \cup {[key |-> k, engine |-> e]}
<1> DEFINE y == [key |-> k, engine |-> e]
<1>1. entries \in Seq(Entry) /\ Distinct(entries) /\ Aged(entries, usedSince)
  BY DEF IInv, TypeOK, Entry
<1>2. y \in Entry /\ y.key = k /\ y.engine = e
  BY FreshIs DEF Entry
<1>3. \A i \in DOMAIN f : f[i].key # k /\ f[i].engine # e
  <2> SUFFICES ASSUME NEW i \in DOMAIN f PROVE f[i].key # k /\ f[i].engine # e
    OBVIOUS
  <2>1. PICK p \in DOMAIN entries : f[i] = entries[p]
    BY DEF Within
  <2>2. entries[p].engine # e
    BY FreshIs DEF Registered, Ran
  <2> QED
    BY <2>1, <2>2 DEF KeysOf, Ran
<1> HIDE DEF y
<1>4. /\ Append(f, y) \in Seq(Entry) /\ Len(Append(f, y)) = Len(f) + 1
      /\ Ran(Append(f, y)) = Ran(f) \cup {y}
      /\ Distinct(Append(f, y)) /\ Aged(Append(f, y), usedSince')
  BY <1>1, <1>2, <1>3, Newest
<1>5. Len(f) + 1 <= MaxEngines
  BY RegistryAssumption, LenProperties DEF Within
<1> QED
  BY <1>4, <1>5 DEF y

\* A task t goes on with z in hand.
LEMMA TaskTyped ==
  ASSUME TypeOK, NEW t \in Tasks, NEW z \in [pc : Activities, victims : Seq(Engines)],
         z.pc = "idle" <=> z.victims = <<>>,
         task' = [task EXCEPT ![t] = z]
  PROVE  /\ task' \in [Tasks -> [pc : Activities, victims : Seq(Engines)]]
         /\ \A u \in Tasks : task'[u].pc = "idle" <=> task'[u].victims = <<>>
         /\ task'[t] = z /\ \A u \in Tasks \ {t} : task'[u] = task[u]
BY DEF TypeOK

LEMMA HandsAre ==
  ASSUME NEW t \in Tasks, NEW e
  PROVE  e \in InHand <=>
           \/ e \in Ran(task[t].victims)
           \/ \E u \in Tasks \ {t} : e \in Ran(task[u].victims)
BY DEF InHand

LEMMA HandsBecome ==
  ASSUME NEW t \in Tasks, NEW z, NEW e,
         task'[t] = z, \A u \in Tasks \ {t} : task'[u] = task[u]
  PROVE  e \in InHand' <=>
           \/ e \in Ran(z.victims)
           \/ \E u \in Tasks \ {t} : e \in Ran(task[u].victims)
BY DEF InHand

\* Nobody disposes of an engine twice if t has different ones, that nobody else has.
LEMMA OnceKept ==
  ASSUME DisposedOnce, NEW t \in Tasks, NEW z,
         task'[t] = z, \A u \in Tasks \ {t} : task'[u] = task[u],
         \A i, j \in DOMAIN z.victims : z.victims[i] = z.victims[j] => i = j,
         \A e \in Ran(z.victims) : \A u \in Tasks \ {t} : e \notin Ran(task[u].victims)
  PROVE  DisposedOnce'
<1> SUFFICES ASSUME NEW v \in Tasks, NEW u \in Tasks,
                    NEW i \in DOMAIN task'[v].victims, NEW j \in DOMAIN task'[u].victims,
                    task'[v].victims[i] = task'[u].victims[j]
             PROVE  v = u /\ i = j
  BY DEF DisposedOnce
<1>1. CASE v = t /\ u = t
  BY <1>1
<1>2. CASE v = t /\ u # t
  BY <1>2 DEF Ran
<1>3. CASE v # t /\ u = t
  <2>1. z.victims[j] \in Ran(z.victims) /\ task[v].victims[i] \in Ran(task[v].victims)
    BY <1>3 DEF Ran
  <2>2. z.victims[j] = task[v].victims[i]
    BY <1>3
  <2> QED
    BY <1>3, <2>1, <2>2
<1>4. CASE v # t /\ u # t
  BY <1>4 DEF DisposedOnce
<1> QED
  BY <1>1, <1>2, <1>3, <1>4

LEMMA IdleEmpty ==
  ASSUME TypeOK, NEW t \in Tasks, task[t].pc = "idle"
  PROVE  task[t].victims = <<>> /\ \A e : e \notin Ran(task[t].victims)
BY DEF TypeOK, Ran

\* An idle task t takes victims in hand.
LEMMA IdleTakes ==
  ASSUME TypeOK, NEW t \in Tasks, task[t].pc = "idle", NEW z,
         task'[t] = z, \A u \in Tasks \ {t} : task'[u] = task[u]
  PROVE  \A e : e \in InHand' <=> e \in InHand \/ e \in Ran(z.victims)
<1> SUFFICES ASSUME NEW e PROVE e \in InHand' <=> e \in InHand \/ e \in Ran(z.victims)
  OBVIOUS
<1>1. e \in InHand' <=> e \in Ran(z.victims) \/ \E u \in Tasks \ {t} : e \in Ran(task[u].victims)
  BY HandsBecome
<1>2. e \in InHand <=> \E u \in Tasks \ {t} : e \in Ran(task[u].victims)
  BY HandsAre, IdleEmpty
<1> QED
  BY <1>1, <1>2

\* The disposal of t's next victim: what it goes on with.
LEMMA Disposing ==
  ASSUME TypeOK, DisposedOnce, NEW t \in Tasks, task[t].pc # "idle"
  PROVE  LET vs == task[t].victims IN
         /\ vs \in Seq(Engines) /\ vs # <<>>
         /\ Head(vs) \in Engines /\ Head(vs) \in InHand
         /\ Tail(vs) \in Seq(Engines) /\ Len(Tail(vs)) = Len(vs) - 1
         /\ Len(vs) \in Nat /\ Len(vs) # 0
         /\ \A e : e \in Ran(vs) <=> e = Head(vs) \/ e \in Ran(Tail(vs))
         /\ \A i, j \in DOMAIN Tail(vs) : Tail(vs)[i] = Tail(vs)[j] => i = j
         /\ \A e \in Ran(vs) : \A u \in Tasks \ {t} : e \notin Ran(task[u].victims)
<1> DEFINE vs == task[t].victims
           n == Len(vs)
           rest == Tail(vs)
<1>1. vs \in Seq(Engines) /\ vs # <<>>
  BY DEF TypeOK
<1>2. n \in Nat /\ n # 0 /\ DOMAIN vs = 1 .. n
  BY <1>1, LenProperties, EmptySeq
<1>3. /\ Head(vs) = vs[1] /\ Head(vs) \in Engines
      /\ rest \in Seq(Engines) /\ Len(rest) = n - 1
      /\ \A i \in 1 .. Len(rest) : rest[i] = vs[i + 1]
  BY <1>1, HeadTailProperties
<1>4. DOMAIN rest = 1 .. n - 1
  BY <1>3, LenProperties
<1>5. \A i, j \in DOMAIN vs : vs[i] = vs[j] => i = j
  BY DEF DisposedOnce
<1>6. \A e \in Ran(vs) : \A u \in Tasks \ {t} : e \notin Ran(task[u].victims)
  BY DEF DisposedOnce, Ran
<1> HIDE DEF n, vs, rest
<1>7. \A i \in DOMAIN rest : i + 1 \in DOMAIN vs /\ rest[i] = vs[i + 1]
  BY <1>2, <1>3, <1>4
<1>8. \A i \in DOMAIN vs : i # 1 => i - 1 \in DOMAIN rest /\ rest[i - 1] = vs[i]
  BY <1>2, <1>3, <1>4
<1>9. 1 \in DOMAIN vs
  BY <1>2
<1>10. \A e : e \in Ran(vs) <=> e = Head(vs) \/ e \in Ran(rest)
  BY <1>3, <1>7, <1>8, <1>9 DEF Ran
<1>11. ASSUME NEW i \in DOMAIN rest, NEW j \in DOMAIN rest, rest[i] = rest[j] PROVE i = j
  <2>1. i + 1 = j + 1
    BY <1>5, <1>7, <1>11
  <2> QED
    BY <1>2, <1>4, <2>1
<1>12. Head(vs) \in InHand
  BY <1>3, <1>9 DEF InHand, Ran, vs
<1> QED
  BY <1>1, <1>2, <1>3, <1>6, <1>10, <1>11, <1>12 DEF vs, n, rest

(***************************************************************************)
(* Every step keeps the invariant, and only the two faults leave a pool    *)
(* that nobody knows of                                                    *)
(***************************************************************************)

LEMMA HitStep ==
  ASSUME IInv, NEW t \in Tasks, NEW k \in Keys, GetHit(t, k)
  PROVE  IInv' /\ Orphans' = Orphans
<1>1. /\ entries' \in Seq(Entry) /\ Len(entries') = Len(entries)
      /\ Distinct(entries') /\ Aged(entries', usedSince')
      /\ Ran(entries') = Ran(entries)
  BY HitEntries
<1>2. UNCHANGED <<evictLru, pool, task>> /\ Got(k)
  BY DEF GetHit
<1>3. Registered' = Registered /\ InHand' = InHand
  BY <1>1, <1>2, SameHands DEF Registered
<1>4. TypeOK'
  BY <1>1, <1>2, GotTyped DEF IInv, TypeOK, Entry
<1>5. Owned' /\ DisposedOnce'
  BY <1>2, <1>3 DEF IInv, Owned, DisposedOnce
<1>6. Orphans' = Orphans
  BY <1>2, <1>3 DEF Orphans
<1> QED
  BY <1>1, <1>4, <1>5, <1>6 DEF IInv

\* An engine e is made for k; the entries f stay.
LEMMA MadeTyped ==
  ASSUME IInv, NEW k \in Keys, NEW e \in Fresh, NEW f, Within(f, entries), Len(f) < MaxEngines,
         k \notin KeysOf(entries),
         entries' = Append(f, [key |-> k, engine |-> e]),
         pool' = [pool EXCEPT ![e] = "open"], Got(k), UNCHANGED evictLru
  PROVE  /\ evictLru' \in EvictLru /\ entries' \in Seq([key : Keys, engine : Engines])
         /\ pool' \in [Engines -> {"none", "open"}] /\ usedSince' \in [Keys -> SUBSET Keys]
         /\ Len(entries') <= MaxEngines /\ Distinct(entries') /\ Aged(entries', usedSince')
         /\ Registered' = {x.engine : x \in Ran(f)} \cup {e}
         /\ pool'[e] = "open" /\ \A d \in Engines \ {e} : pool'[d] = pool[d]
<1>1. /\ entries' \in Seq(Entry) /\ Len(entries') <= MaxEngines
      /\ Distinct(entries') /\ Aged(entries', usedSince')
      /\ Ran(entries') = Ran(f) \cup {[key |-> k, engine |-> e]}
  BY MadeEntries
<1>2. Registered' = {x.engine : x \in Ran(f)} \cup {e}
  BY <1>1 DEF Registered
<1>3. TypeOK /\ usedSince' \in [Keys -> SUBSET Keys]
  BY GotTyped DEF IInv
<1>4. e \in Engines
  BY FreshIs
<1>5. /\ pool' \in [Engines -> {"none", "open"}]
      /\ pool'[e] = "open" /\ \A d \in Engines \ {e} : pool'[d] = pool[d]
  BY <1>3, <1>4 DEF TypeOK
<1> QED
  BY <1>1, <1>2, <1>3, <1>5 DEF TypeOK, Entry

LEMMA RoomStep ==
  ASSUME IInv, NEW t \in Tasks, NEW k \in Keys, GetRoom(t, k)
  PROVE  IInv' /\ Orphans' \subseteq Orphans
<1>1. PICK e \in Fresh : /\ entries' = Append(entries, [key |-> k, engine |-> e])
                          /\ pool' = [pool EXCEPT ![e] = "open"]
  BY DEF GetRoom
<1>2. k \notin KeysOf(entries) /\ Got(k) /\ UNCHANGED <<evictLru, task>>
  BY DEF GetRoom
<1>3. entries \in Seq(Entry)
  BY DEF IInv, TypeOK, Entry
<1>4. Len(entries) < MaxEngines
  BY <1>3, LenProperties, RegistryAssumption DEF GetRoom, Full
<1>5. Within(entries, entries)
  BY <1>3, LenProperties DEF Within
<1>6. /\ evictLru' \in EvictLru /\ entries' \in Seq([key : Keys, engine : Engines])
      /\ pool' \in [Engines -> {"none", "open"}] /\ usedSince' \in [Keys -> SUBSET Keys]
      /\ Len(entries') <= MaxEngines /\ Distinct(entries') /\ Aged(entries', usedSince')
      /\ Registered' = Registered \cup {e}
      /\ pool'[e] = "open" /\ \A d \in Engines \ {e} : pool'[d] = pool[d]
  BY <1>1, <1>2, <1>4, <1>5, MadeTyped DEF Registered
<1>7. InHand' = InHand
  BY <1>2, SameHands
<1>8. e \notin InHand /\ e \in Engines
  BY FreshIs
<1>9. TypeOK'
  BY <1>2, <1>6 DEF IInv, TypeOK
<1>10. \A d \in Registered : d \in Engines /\ pool[d] = "open" /\ d \notin InHand
  BY <1>3, EntriesTyped DEF IInv, Owned, Registered, Ran
<1>11. Owned'
  BY <1>6, <1>7, <1>8, <1>10 DEF Owned
<1>12. DisposedOnce'
  BY <1>2 DEF IInv, DisposedOnce
<1>13. Orphans' \subseteq Orphans
  BY <1>6, <1>7 DEF Orphans
<1> QED
  BY <1>6, <1>9, <1>11, <1>12, <1>13 DEF IInv

\* The first entry, v, gives way, and its engine goes to the task that disposes of it.
LEMMA EvictStep ==
  ASSUME IInv, NEW t \in Tasks, NEW k \in Keys, GetEvict(t, k)
  PROVE  IInv' /\ Orphans' \subseteq Orphans
<1> DEFINE f == Tail(entries)
           v == entries[1].engine
           z == [pc |-> "evicting", victims |-> <<v>>]
<1>1. PICK e \in Fresh : /\ entries' = Append(f, [key |-> k, engine |-> e])
                          /\ pool' = [pool EXCEPT ![e] = "open"]
  BY DEF GetEvict
<1>2. /\ k \notin KeysOf(entries) /\ Got(k) /\ UNCHANGED evictLru
      /\ task' = [task EXCEPT ![t] = z] /\ task[t].pc = "idle"
  BY DEF GetEvict
<1>3. entries \in Seq(Entry) /\ TypeOK /\ Len(entries) <= MaxEngines /\ Len(entries) \in Nat
  BY LenProperties DEF IInv, TypeOK, Entry
<1>4. entries # <<>>
  BY <1>3, RegistryAssumption DEF GetEvict, Full
<1>5. /\ Within(f, entries) /\ Len(f) = Len(entries) - 1
      /\ entries[1] \in Entry /\ 1 \in DOMAIN entries
      /\ \A i \in DOMAIN entries : i = 1 \/ \E j \in DOMAIN f : entries[i] = f[j]
      /\ \A j \in DOMAIN f : j + 1 \in DOMAIN entries /\ f[j] = entries[j + 1]
  BY <1>3, <1>4, TailWithin
<1>6. Len(f) < MaxEngines
  BY <1>3, <1>5, RegistryAssumption
<1>7. v \in Engines
  BY <1>3, <1>5, EntriesTyped
<1> HIDE DEF f
<1>8. /\ evictLru' \in EvictLru /\ entries' \in Seq([key : Keys, engine : Engines])
      /\ pool' \in [Engines -> {"none", "open"}] /\ usedSince' \in [Keys -> SUBSET Keys]
      /\ Len(entries') <= MaxEngines /\ Distinct(entries') /\ Aged(entries', usedSince')
      /\ Registered' = {x.engine : x \in Ran(f)} \cup {e}
      /\ pool'[e] = "open" /\ \A d \in Engines \ {e} : pool'[d] = pool[d]
  BY <1>1, <1>2, <1>5, <1>6, MadeTyped
<1>9. \A d : d \in Registered <=> d = v \/ d \in {x.engine : x \in Ran(f)}
  BY <1>5 DEF Registered, Ran
<1>10. v \notin {x.engine : x \in Ran(f)}
  <2> SUFFICES ASSUME NEW j \in DOMAIN f, f[j].engine = v PROVE FALSE
    BY DEF Ran
  <2>1. j + 1 = 1
    BY <1>5 DEF IInv, Distinct
  <2>2. f \in Seq(Entry)
    BY <1>5 DEF Within
  <2> QED
    BY <2>1, <2>2, LenProperties
<1>11. /\ z \in [pc : Activities, victims : Seq(Engines)] /\ z.pc # "idle" /\ z.victims # <<>>
       /\ Ran(z.victims) = {v}
       /\ \A i, j \in DOMAIN z.victims : z.victims[i] = z.victims[j] => i = j
  BY <1>7 DEF Activities, Ran
<1> HIDE DEF z, v
<1>12. /\ task' \in [Tasks -> [pc : Activities, victims : Seq(Engines)]]
       /\ \A u \in Tasks : task'[u].pc = "idle" <=> task'[u].victims = <<>>
       /\ task'[t] = z /\ \A u \in Tasks \ {t} : task'[u] = task[u]
  BY <1>2, <1>3, <1>11, TaskTyped
<1>13. \A d : d \in InHand' <=> d \in InHand \/ d = v
  BY <1>2, <1>3, <1>11, <1>12, IdleTakes
<1>14. e \in Engines /\ pool[e] = "none" /\ e \notin Registered /\ e \notin InHand
  BY FreshIs
<1>15. \A d \in Registered : d \in Engines /\ pool[d] = "open" /\ d \notin InHand
  BY <1>3, EntriesTyped DEF IInv, Owned, Registered, Ran
<1>16. TypeOK'
  BY <1>8, <1>12 DEF TypeOK
<1>17. Owned'
  <2> SUFFICES ASSUME NEW d \in Registered' PROVE pool'[d] = "open" /\ d \notin InHand'
    BY DEF Owned
  <2>1. CASE d = e
    BY <1>8, <1>9, <1>13, <1>14, <2>1
  <2>2. CASE d # e
    BY <1>8, <1>9, <1>10, <1>13, <1>15, <2>2
  <2> QED
    BY <2>1, <2>2
<1>18. \A u \in Tasks \ {t} : v \notin Ran(task[u].victims)
  BY <1>9, <1>15, HandsAre
<1>19. DisposedOnce'
  BY <1>11, <1>12, <1>18, OnceKept DEF IInv
<1>20. Orphans' \subseteq Orphans
  <2> SUFFICES ASSUME NEW d \in Orphans' PROVE d \in Orphans
    OBVIOUS
  <2>1. d \in Engines /\ pool'[d] = "open" /\ d \notin Registered' /\ d \notin InHand'
    BY DEF Orphans
  <2>2. d # e /\ d # v /\ d \notin InHand /\ d \notin Registered
    BY <1>8, <1>9, <1>13, <2>1
  <2>3. pool[d] = "open"
    BY <1>8, <2>1, <2>2
  <2> QED
    BY <2>1, <2>2, <2>3 DEF Orphans
<1> QED
  BY <1>8, <1>16, <1>17, <1>19, <1>20 DEF IInv

\* The engine could not be made: the victim, if there was one, is gone.
LEMMA BuildFailsStep ==
  ASSUME IInv, NEW t \in Tasks, NEW k \in Keys, GetBuildFails(t, k)
  PROVE  IInv'
<1>1. entries \in Seq(Entry) /\ Len(entries) \in Nat
  BY LenProperties DEF IInv, TypeOK, Entry
<1>2. Within(entries', entries)
  <2>1. CASE Full
    <3>1. entries # <<>>
      BY <1>1, <2>1, RegistryAssumption DEF Full
    <3> QED
      BY <1>1, <2>1, <3>1, TailWithin DEF GetBuildFails
  <2>2. CASE ~Full
    BY <1>1, <2>2, LenProperties DEF GetBuildFails, Within
  <2> QED
    BY <2>1, <2>2
<1>3. UNCHANGED <<evictLru, pool, task, usedSince>>
  BY DEF GetBuildFails
<1>4. entries' \in Seq(Entry) /\ Len(entries') <= Len(entries)
  BY <1>2 DEF Within
<1>5. Distinct(entries') /\ Aged(entries', usedSince')
  BY <1>1, <1>2, <1>3, WithinKeeps DEF IInv
<1>6. Registered' \subseteq Registered
  BY <1>2 DEF Within, Registered, Ran
<1>7. InHand' = InHand
  BY <1>3, SameHands
<1>8. Owned'
  BY <1>3, <1>6, <1>7 DEF IInv, Owned
<1>9. Len(entries') <= MaxEngines
  <2>1. Len(entries') \in Nat /\ Len(entries) <= MaxEngines
    BY <1>4, LenProperties DEF IInv
  <2> QED
    BY <1>1, <1>4, <2>1, RegistryAssumption
<1>10. TypeOK'
  BY <1>3, <1>4 DEF IInv, TypeOK, Entry
<1>11. DisposedOnce'
  BY <1>3 DEF IInv, DisposedOnce
<1> QED
  BY <1>5, <1>8, <1>9, <1>10, <1>11 DEF IInv

\* The engines of ks are taken out: the task that takes them is their owner.
LEMMA TakeOutStep ==
  ASSUME IInv, NEW t \in Tasks, NEW ks \in SUBSET Keys, TakeOut(t, ks)
  PROVE  IInv' /\ Orphans' \subseteq Orphans
<1> DEFINE gone == Of(ks)
           left == Of(Keys \ ks)
           z == IF gone = <<>> THEN Idle ELSE [pc |-> "disposing", victims |-> EnginesIn(gone)]
<1>1. /\ entries' = left /\ task[t].pc = "idle" /\ task' = [task EXCEPT ![t] = z]
      /\ UNCHANGED <<evictLru, pool, usedSince>>
  BY DEF TakeOut
<1>2. entries \in Seq(Entry) /\ TypeOK /\ Distinct(entries) /\ Aged(entries, usedSince)
  BY DEF IInv, TypeOK, Entry
<1>3. Within(left, entries) /\ Ran(left) = {x \in Ran(entries) : x.key \in Keys \ ks}
  BY <1>2, Kept
<1>4. Within(gone, entries) /\ Ran(gone) = {x \in Ran(entries) : x.key \in ks}
  BY <1>2, Kept
<1> HIDE DEF gone, left
<1>5. /\ left \in Seq(Entry) /\ gone \in Seq(Entry)
      /\ Len(left) \in Nat /\ Len(left) <= Len(entries)
  BY <1>3, <1>4, LenProperties DEF Within
<1>6. Distinct(left) /\ Aged(left, usedSince) /\ Distinct(gone)
  BY <1>2, <1>3, <1>4, WithinKeeps
<1>7. /\ z \in [pc : Activities, victims : Seq(Engines)] /\ (z.pc = "idle" <=> z.victims = <<>>)
      /\ z.pc # "evicting"
      /\ Ran(z.victims) = {x.engine : x \in Ran(gone)}
      /\ \A i, j \in DOMAIN z.victims : z.victims[i] = z.victims[j] => i = j
  <2>1. CASE gone = <<>>
    <3>1. z = Idle /\ Idle.pc = "idle" /\ Idle.victims = <<>>
      BY <2>1 DEF Idle
    <3>2. Idle \in [pc : Activities, victims : Seq(Engines)]
      BY DEF Idle, Activities
    <3>3. Ran(gone) = {}
      BY <2>1 DEF Ran
    <3> QED
      BY <3>1, <3>2, <3>3 DEF Ran
  <2>2. CASE gone # <<>>
    <3> DEFINE vs == EnginesIn(gone)
    <3>1. z = [pc |-> "disposing", victims |-> vs]
      BY <2>2
    <3>2. /\ Len(gone) \in Nat /\ Len(gone) # 0 /\ DOMAIN gone = 1 .. Len(gone)
          /\ \A i \in DOMAIN gone : gone[i].engine \in Engines
      BY <1>5, <2>2, EmptySeq, EntriesTyped
    <3>3. /\ DOMAIN vs = DOMAIN gone /\ \A i \in DOMAIN gone : vs[i] = gone[i].engine
      BY DEF EnginesIn
    <3>4. vs \in Seq(Engines)
      BY <3>2 DEF EnginesIn
    <3> HIDE DEF vs
    <3>5. vs # <<>>
      BY <3>2, <3>3
    <3>6. Ran(vs) = {x.engine : x \in Ran(gone)}
      BY <3>3 DEF Ran
    <3>7. \A i, j \in DOMAIN vs : vs[i] = vs[j] => i = j
      BY <1>6, <3>3 DEF Distinct
    <3> QED
      BY <3>1, <3>4, <3>5, <3>6, <3>7 DEF Activities
  <2> QED
    BY <2>1, <2>2
<1> HIDE DEF z
<1>8. /\ task' \in [Tasks -> [pc : Activities, victims : Seq(Engines)]]
      /\ \A u \in Tasks : task'[u].pc = "idle" <=> task'[u].victims = <<>>
      /\ task'[t] = z /\ \A u \in Tasks \ {t} : task'[u] = task[u]
  BY <1>1, <1>2, <1>7, TaskTyped
<1>9. \A d : d \in InHand' <=> d \in InHand \/ d \in {x.engine : x \in Ran(gone)}
  BY <1>1, <1>2, <1>7, <1>8, IdleTakes
<1>10. /\ Registered = Registered' \cup {x.engine : x \in Ran(gone)}
       /\ Registered' \cap {x.engine : x \in Ran(gone)} = {}
  <2>1. \A x \in Ran(entries) : x.key \in Keys
    BY <1>2, EntriesTyped DEF Ran
  <2>2. \A x, y \in Ran(entries) : x.engine = y.engine => x = y
    BY <1>2 DEF Ran, Distinct
  <2>3. Registered' = {x.engine : x \in Ran(left)}
    BY <1>1 DEF Registered
  <2>4. Registered = Registered' \cup {x.engine : x \in Ran(gone)}
    BY <1>3, <1>4, <2>1, <2>3 DEF Registered
  <2>5. Registered' \cap {x.engine : x \in Ran(gone)} = {}
    BY <1>3, <1>4, <2>2, <2>3
  <2> QED
    BY <2>4, <2>5
<1>11. \A d \in Registered : pool[d] = "open" /\ d \notin InHand
  BY DEF IInv, Owned
<1>12. TypeOK'
  BY <1>1, <1>2, <1>5, <1>8 DEF TypeOK, Entry
<1>13. Len(entries') <= MaxEngines
  <2>1. Len(entries) <= MaxEngines /\ Len(entries) \in Nat
    BY <1>2, LenProperties DEF IInv
  <2> QED
    BY <1>1, <1>5, <2>1, RegistryAssumption
<1>14. Distinct(entries') /\ Aged(entries', usedSince')
  BY <1>1, <1>6
<1>15. Owned'
  BY <1>1, <1>9, <1>10, <1>11 DEF Owned
<1>16. \A e \in Ran(z.victims) : \A u \in Tasks \ {t} : e \notin Ran(task[u].victims)
  BY <1>7, <1>10, <1>11, HandsAre
<1>17. DisposedOnce'
  BY <1>7, <1>8, <1>16, OnceKept DEF IInv
<1>18. Orphans' \subseteq Orphans
  BY <1>1, <1>9, <1>10 DEF Orphans
<1> QED
  BY <1>12, <1>13, <1>14, <1>15, <1>17, <1>18 DEF IInv

\* A disposal is over: the pool of the victim is left, and t goes on with z.
LEMMA DisposalOver ==
  ASSUME IInv, NEW t \in Tasks, task[t].pc # "idle", NEW left \in {"none", "open"},
         pool' = [pool EXCEPT ![Head(task[t].victims)] = left],
         NEW z \in [pc : Activities, victims : Seq(Engines)],
         z.pc = "idle" <=> z.victims = <<>>,
         z.victims \in {<<>>, Tail(task[t].victims)},
         task' = [task EXCEPT ![t] = z],
         UNCHANGED <<evictLru, entries, usedSince>>
  PROVE  /\ IInv'
         /\ left = "none" /\ z.victims = Tail(task[t].victims) => Orphans' \subseteq Orphans
<1> DEFINE vs == task[t].victims
           v == Head(vs)
<1>1. TypeOK /\ DisposedOnce
  BY DEF IInv
<1>2. /\ vs \in Seq(Engines) /\ v \in Engines /\ v \in InHand
      /\ \A e : e \in Ran(vs) <=> e = v \/ e \in Ran(Tail(vs))
      /\ \A i, j \in DOMAIN Tail(vs) : Tail(vs)[i] = Tail(vs)[j] => i = j
      /\ \A e \in Ran(vs) : \A u \in Tasks \ {t} : e \notin Ran(task[u].victims)
  BY <1>1, Disposing
<1> DEFINE rest == Tail(vs)
<1> HIDE DEF vs, rest
<1>3. pool' = [pool EXCEPT ![v] = left] /\ z.victims \in {<<>>, rest}
  BY DEF vs, rest
<1> HIDE DEF v
<1>4. /\ task' \in [Tasks -> [pc : Activities, victims : Seq(Engines)]]
      /\ \A u \in Tasks : task'[u].pc = "idle" <=> task'[u].victims = <<>>
      /\ task'[t] = z /\ \A u \in Tasks \ {t} : task'[u] = task[u]
  BY <1>1, TaskTyped
<1>5. /\ \A e \in Ran(z.victims) : e \in Ran(rest)
      /\ \A i, j \in DOMAIN z.victims : z.victims[i] = z.victims[j] => i = j
  <2>1. \A i, j \in DOMAIN rest : rest[i] = rest[j] => i = j
    BY <1>2 DEF rest
  <2>2. CASE z.victims = <<>>
    BY <2>2 DEF Ran
  <2>3. CASE z.victims = rest
    BY <2>1, <2>3
  <2> QED
    BY <1>3, <2>2, <2>3
<1>6. \A e : e \in Ran(vs) <=> e = v \/ e \in Ran(rest)
  BY <1>2 DEF rest
<1>7. \A e : e \in InHand' <=>
        \/ e \in Ran(z.victims)
        \/ \E u \in Tasks \ {t} : e \in Ran(task[u].victims)
  BY <1>4, HandsBecome
<1>8. \A e : e \in InHand <=>
        \/ e \in Ran(vs)
        \/ \E u \in Tasks \ {t} : e \in Ran(task[u].victims)
  BY HandsAre DEF vs
<1>9. InHand' \subseteq InHand
  BY <1>5, <1>6, <1>7, <1>8
<1>10. /\ pool' \in [Engines -> {"none", "open"}]
       /\ pool'[v] = left /\ \A d \in Engines \ {v} : pool'[d] = pool[d]
  BY <1>1, <1>2, <1>3 DEF TypeOK
<1>11. Registered' = Registered
  BY DEF Registered
<1>12. \A d \in Registered : d \in Engines /\ pool[d] = "open" /\ d \notin InHand
  <2>1. entries \in Seq(Entry)
    BY <1>1 DEF TypeOK, Entry
  <2> QED
    BY <2>1, EntriesTyped DEF IInv, Owned, Registered, Ran
<1>13. Owned'
  BY <1>2, <1>9, <1>10, <1>11, <1>12 DEF Owned
<1>14. TypeOK'
  BY <1>1, <1>4, <1>10 DEF TypeOK
<1>15. DisposedOnce'
  <2>1. \A e \in Ran(z.victims) : \A u \in Tasks \ {t} : e \notin Ran(task[u].victims)
    BY <1>2, <1>5, <1>6
  <2> QED
    BY <1>1, <1>4, <1>5, <2>1, OnceKept
<1>16. Len(entries') <= MaxEngines /\ Distinct(entries') /\ Aged(entries', usedSince')
  BY DEF IInv
<1>17. ASSUME left = "none", z.victims = rest PROVE Orphans' \subseteq Orphans
  <2> SUFFICES ASSUME NEW d \in Orphans' PROVE d \in Orphans
    OBVIOUS
  <2>1. d \in Engines /\ pool'[d] = "open" /\ d \notin Registered' /\ d \notin InHand'
    BY DEF Orphans
  <2>2. d # v
    BY <1>10, <1>17, <2>1
  <2>3. d \notin InHand
    BY <1>6, <1>7, <1>8, <1>17, <2>1, <2>2
  <2> QED
    BY <1>10, <1>11, <2>1, <2>2, <2>3 DEF Orphans
<1> QED
  BY <1>13, <1>14, <1>15, <1>16, <1>17 DEF IInv, vs, rest

LEMMA DisposedStep ==
  ASSUME IInv, NEW t \in Tasks, Disposed(t)
  PROVE  IInv' /\ Orphans' \subseteq Orphans
<1> DEFINE vs == task[t].victims
           z == IF Len(vs) = 1 THEN Idle ELSE [pc |-> task[t].pc, victims |-> Tail(vs)]
<1>1. /\ task[t].pc # "idle" /\ pool' = [pool EXCEPT ![Head(vs)] = "none"]
      /\ UNCHANGED <<evictLru, entries, usedSince>>
  BY DEF Disposed
<1>2. TypeOK /\ DisposedOnce /\ task[t] \in [pc : Activities, victims : Seq(Engines)]
  BY DEF IInv, TypeOK
<1>3. task' = [task EXCEPT ![t] = z]
  BY DEF Disposed
<1>4. /\ Tail(vs) \in Seq(Engines) /\ Len(Tail(vs)) = Len(vs) - 1
      /\ Len(vs) \in Nat /\ Len(vs) # 0
  BY <1>1, <1>2, Disposing
<1>5. /\ z \in [pc : Activities, victims : Seq(Engines)]
      /\ z.pc = "idle" <=> z.victims = <<>>
      /\ z.victims = Tail(vs)
  <2> DEFINE rest == Tail(vs)
             n == Len(vs)
  <2> HIDE DEF rest, n
  <2>1. rest \in Seq(Engines) /\ Len(rest) = n - 1 /\ n \in Nat /\ n # 0
    BY <1>4 DEF rest, n
  <2>2. z = IF n = 1 THEN Idle ELSE [pc |-> task[t].pc, victims |-> rest]
    BY DEF n, rest
  <2>3. rest = <<>> <=> n = 1
    BY <2>1, EmptySeq
  <2>4. CASE n = 1
    <3>1. z = Idle /\ Idle \in [pc : Activities, victims : Seq(Engines)]
      BY <2>2, <2>4 DEF Idle, Activities
    <3> QED
      BY <2>3, <2>4, <3>1 DEF Idle, rest
  <2>5. CASE n # 1
    <3>1. z = [pc |-> task[t].pc, victims |-> rest]
      BY <2>2, <2>5
    <3> QED
      BY <1>1, <1>2, <2>1, <2>3, <2>5, <3>1 DEF rest
  <2> QED
    BY <2>4, <2>5
<1> HIDE DEF z
<1> QED
  BY <1>1, <1>3, <1>5, DisposalOver

LEMMA DisposeFailsStep ==
  ASSUME IInv, NEW t \in Tasks, DisposeFails(t)
  PROVE  IInv'
<1>1. PICK left \in {"none", "open"} : pool' = [pool EXCEPT ![Head(task[t].victims)] = left]
  BY DEF DisposeFails
<1>2. /\ task[t].pc # "idle" /\ task' = [task EXCEPT ![t] = Idle]
      /\ UNCHANGED <<evictLru, entries, usedSince>>
  BY DEF DisposeFails
<1>3. /\ Idle \in [pc : Activities, victims : Seq(Engines)]
      /\ Idle.pc = "idle" /\ Idle.victims = <<>>
  BY DEF Idle, Activities
<1> QED
  BY <1>1, <1>2, <1>3, DisposalOver

LEMMA StutterStep ==
  ASSUME IInv, UNCHANGED vars
  PROVE  IInv' /\ Orphans' = Orphans
<1>1. UNCHANGED <<evictLru, entries, pool, task, usedSince>>
  BY DEF vars
<1>2. Registered' = Registered /\ InHand' = InHand
  BY <1>1, SameHands DEF Registered
<1>3. TypeOK' /\ Owned' /\ DisposedOnce'
  BY <1>1, <1>2 DEF IInv, TypeOK, Owned, DisposedOnce
<1>4. Len(entries') <= MaxEngines /\ Distinct(entries') /\ Aged(entries', usedSince')
  BY <1>1 DEF IInv
<1> QED
  BY <1>1, <1>2, <1>3, <1>4 DEF IInv, Orphans

\* The disjuncts of Next.
LEMMA Steps ==
  ASSUME IInv, [Next]_vars
  PROVE  /\ IInv'
         /\ \/ Orphans' \subseteq Orphans
            \/ \E t \in Tasks : DisposeFails(t) \/ \E k \in Keys : GetBuildFails(t, k)
<1>1. ASSUME NEW t \in Tasks, NEW k \in Keys, Get(t, k)
      PROVE  IInv' /\ (Orphans' \subseteq Orphans \/ GetBuildFails(t, k))
  <2>1. CASE GetHit(t, k)
    BY <2>1, HitStep
  <2>2. CASE GetRoom(t, k)
    BY <2>2, RoomStep
  <2>3. CASE GetEvict(t, k)
    BY <2>3, EvictStep
  <2>4. CASE GetRefused(t, k)
    BY <2>4, StutterStep DEF GetRefused
  <2>5. CASE GetBuildFails(t, k)
    BY <2>5, BuildFailsStep
  <2> QED
    BY <1>1, <2>1, <2>2, <2>3, <2>4, <2>5 DEF Get
<1>2. ASSUME NEW t \in Tasks, NEW k \in Keys, DisposeOne(t, k)
      PROVE  IInv' /\ Orphans' \subseteq Orphans
  BY <1>2, TakeOutStep DEF DisposeOne
<1>3. ASSUME NEW t \in Tasks, NEW d, DisposeDatabase(t, d)
      PROVE  IInv' /\ Orphans' \subseteq Orphans
  BY <1>3, TakeOutStep DEF DisposeDatabase
<1>4. ASSUME NEW t \in Tasks, DisposeAll(t)
      PROVE  IInv' /\ Orphans' \subseteq Orphans
  BY <1>4, TakeOutStep DEF DisposeAll
<1>5. ASSUME NEW t \in Tasks, Disposed(t)
      PROVE  IInv' /\ Orphans' \subseteq Orphans
  BY <1>5, DisposedStep
<1>6. ASSUME NEW t \in Tasks, DisposeFails(t)
      PROVE  IInv'
  BY <1>6, DisposeFailsStep
<1>7. CASE UNCHANGED vars
  BY <1>7, StutterStep
<1>8. CASE Next
  BY <1>1, <1>2, <1>3, <1>4, <1>5, <1>6, <1>8 DEF Next
<1> QED
  BY <1>7, <1>8

LEMMA Initial ==
  ASSUME Init
  PROVE  IInv
<1>1. entries = <<>> /\ Len(entries) = 0 /\ DOMAIN entries = {} /\ MaxEngines \in Nat
  BY RegistryAssumption DEF Init
<1>2. TypeOK
  BY <1>1 DEF Init, TypeOK, Idle, Activities
<1>3. Distinct(entries) /\ Aged(entries, usedSince)
  BY <1>1 DEF Distinct, Aged
<1>4. Registered = {}
  BY <1>1 DEF Registered, Ran
<1>5. DisposedOnce
  BY DEF Init, Idle, DisposedOnce
<1> QED
  BY <1>1, <1>2, <1>3, <1>4, <1>5 DEF IInv, Owned

(***************************************************************************)
(* The theorems                                                            *)
(***************************************************************************)

\* The inductive invariant holds: initially, and after every get, disposal and failure of
\* any number of tasks (get, dispose_one, dispose_database, dispose_all).
THEOREM Invariance == Spec => []IInv
<1>1. Init => IInv
  BY Initial
<1>2. IInv /\ [Next]_vars => IInv'
  BY Steps
<1> QED
  BY <1>1, <1>2, PTL DEF Spec

\* The cap holds, and every engine has one owner: the registry, that hands it out open,
\* or the one task that disposes of it (AsyncEngineRegistry.get, dispose_one,
\* dispose_database, dispose_all).
THEOREM Sound == Spec => []RegistrySound
<1>1. IInv => RegistrySound
  <2> SUFFICES ASSUME IInv PROVE RegistrySound
    OBVIOUS
  <2>1. EntriesSound
    BY DEF IInv, Distinct, Owned, EntriesSound
  <2> QED
    BY <2>1 DEF IInv, RegistrySound
<1> QED
  BY <1>1, Invariance, PTL

\* An open pool is lost to the registry and to every task only by a failed construction
\* after an eviction or by a disposal that fails (_pop_lru_locked, get).
THEOREM NoneOrphaned == Spec => OrphansOnlyByFault
<1>1. IInv /\ [Next]_vars =>
        [Orphans' \subseteq Orphans
          \/ \E t \in Tasks : DisposeFails(t) \/ \E k \in Keys : GetBuildFails(t, k)]_vars
  BY Steps
<1> QED
  BY <1>1, Invariance, PTL DEF Spec, OrphansOnlyByFault

\* Only get under a full registry begins an eviction.
LEMMA OnlyGetEvicts ==
  ASSUME IInv, Next, NEW t \in Tasks, task[t].pc = "idle", task'[t].pc = "evicting"
  PROVE  \E k \in Keys : GetEvict(t, k)
<1>1. TypeOK
  BY DEF IInv
<1>2. PICK u \in Tasks :
        \/ \E k \in Keys : Get(u, k) \/ DisposeOne(u, k)
        \/ \E d \in {DatabaseOf[k] : k \in Keys} : DisposeDatabase(u, d)
        \/ DisposeAll(u)
        \/ Disposed(u) \/ DisposeFails(u)
  BY DEF Next
<1>3. \A ks : ~ TakeOut(u, ks)
  <2> SUFFICES ASSUME NEW ks, TakeOut(u, ks) PROVE FALSE
    OBVIOUS
  <2>1. PICK z : task' = [task EXCEPT ![u] = z] /\ z.pc # "evicting"
    BY DEF TakeOut, Idle
  <2> QED
    BY <1>1, <2>1 DEF TypeOK
<1>4. ~ Disposed(u)
  BY <1>1 DEF Disposed, TypeOK, Idle
<1>5. ~ DisposeFails(u)
  BY <1>1 DEF DisposeFails, TypeOK, Idle
<1>6. PICK k \in Keys : Get(u, k)
  BY <1>2, <1>3, <1>4, <1>5 DEF DisposeOne, DisposeDatabase, DisposeAll
<1>7. ~ GetHit(u, k) /\ ~ GetRoom(u, k) /\ ~ GetRefused(u, k) /\ ~ GetBuildFails(u, k)
  BY DEF GetHit, GetRoom, GetRefused, GetBuildFails, vars
<1>8. GetEvict(u, k)
  BY <1>6, <1>7 DEF Get
<1>9. u = t
  BY <1>1, <1>8 DEF GetEvict, TypeOK
<1> QED
  BY <1>8, <1>9

\* The engine that gives way is the one that every other registered key has been got since
\* (_pop_lru_locked: the least last_used).
THEOREM OldestEvicted == Spec => EvictsLeastRecentlyUsed
<1>1. ASSUME IInv, Next, NEW t \in Tasks, task[t].pc = "idle", task'[t].pc = "evicting",
             NEW x \in Ran(entries), x.engine = task'[t].victims[1]
      PROVE  KeysOf(entries) \ {x.key} \subseteq usedSince[x.key]
  <2>1. PICK k \in Keys : GetEvict(t, k)
    BY <1>1, OnlyGetEvicts
  <2>2. task'[t] = [pc |-> "evicting", victims |-> <<entries[1].engine>>]
    BY <1>1, <2>1 DEF GetEvict, IInv, TypeOK
  <2>3. entries \in Seq(Entry) /\ entries # <<>>
    BY <1>1, <2>1, RegistryAssumption DEF GetEvict, Full, IInv, TypeOK, Entry
  <2>4. DOMAIN entries = 1 .. Len(entries) /\ Len(entries) \in Nat /\ 1 \in DOMAIN entries
    BY <2>3, LenProperties, TailWithin
  <2>5. x = entries[1]
    BY <1>1, <2>2, <2>4 DEF Ran, IInv, Distinct
  <2>6. ASSUME NEW i \in DOMAIN entries, entries[i].key # x.key
        PROVE  entries[i].key \in usedSince[x.key]
    <3>1. 1 < i
      BY <2>4, <2>5, <2>6
    <3> QED
      BY <1>1, <2>4, <2>5, <3>1 DEF IInv, Aged
  <2> QED
    BY <2>6 DEF KeysOf, Ran
<1>2. IInv /\ [Next]_vars =>
        [\A t \in Tasks : task[t].pc = "idle" /\ task'[t].pc = "evicting" =>
           \A x \in Ran(entries) : x.engine = task'[t].victims[1] =>
             KeysOf(entries) \ {x.key} \subseteq usedSince[x.key]]_vars
  BY <1>1
<1> QED
  BY <1>2, Invariance, PTL DEF Spec, EvictsLeastRecentlyUsed

-----------------------------------------------------------------------------
(***************************************************************************)
(* Registration of databases, for any number of databases, registrars and  *)
(* queries: the limiters are those of the settings in force, and neither   *)
(* the connection budget nor max_databases is exceeded.                    *)
(***************************************************************************)
Pooled == [name : Names, settings : Settings]

\* What the operations of DynamicRegistration are given and return.
Worlds ==
  [config : [Names -> Settings \cup {None}], engines : Seq(Pooled),
   limiter : [Names -> Settings \cup {None}], dynamic : Seq(Names \ Static)]

\* The record of its four parts.
Parts(c, e, l, d) == [config |-> c, engines |-> e, limiter |-> l, dynamic |-> d]

\* The engines without the one of a name, and the place of that one.
Without(q, n) == RemoveFirstMatch(q, LAMBDA x : x.name = n)
PlaceOf(q, n) == SelectInSeq(q, LAMBDA x : x.name = n)

Listed(d, n) == \E i \in 1 .. Len(d) : d[i] = n

\* A world without the names of S and with another LRU order, and a call that evicts v.
Trimmed(w, S, d) == [Removed(w, S) EXCEPT !.dynamic = d]
Cut(w, gone, k) == Trimmed(w, gone, SubSeq(w.dynamic, k + 1, Len(w.dynamic)))
Evicting(x, v) == [x EXCEPT !.pc = "evicting", !.victim = v]

\* LimiterCurrent and WithinBudget of a world.
Current(w) == \A n \in Names : w.limiter[n] # None => w.limiter[n] = w.config[n]

Fine(w) == w \in Worlds /\ Current(w) /\ Worst(w.config) <= Budget

\* A dynamic database that is configured is in the LRU order.
Ordered(w) == \A n \in Names \ Static : w.config[n] # None => Listed(w.dynamic, n)

(***************************************************************************)
(* The helpers for sequences                                               *)
(***************************************************************************)

\* Min is in its set.
LEMMA MinIs ==
  ASSUME NEW S, S \subseteq Nat, S # {}
  PROVE  Min(S) \in S /\ \A y \in S : Min(S) <= y
<1>1. \E x \in S : \A y \in S : x <= y
  BY LeastElement
<1> QED
  BY <1>1 DEF Min

\* What is left of a sequence without the element at one place.
LEMMA RemoveAtIs ==
  ASSUME NEW S, NEW q \in Seq(S), NEW k \in 1..Len(q)
  PROVE  /\ RemoveAt(q, k) \in Seq(S)
         /\ Len(RemoveAt(q, k)) = Len(q) - 1
         /\ \A i \in 1..Len(q) - 1 : RemoveAt(q, k)[i] = IF i < k THEN q[i] ELSE q[i + 1]
<1> DEFINE before == SubSeq(q, 1, k - 1)
           after == SubSeq(q, k + 1, Len(q))
<1>1. Len(q) \in Nat /\ \A i \in 1..Len(q) : q[i] \in S
  BY LenProperties
<1>2. /\ before \in Seq(S) /\ Len(before) = k - 1
      /\ \A i \in 1..k - 1 : before[i] = q[i]
  BY <1>1, SubSeqProperties
<1>3. /\ after \in Seq(S) /\ Len(after) = Len(q) - k
      /\ \A i \in 1..Len(q) - k : after[i] = q[k + i]
  BY <1>1, SubSeqProperties
<1>4. RemoveAt(q, k) = before \o after
  BY DEF RemoveAt
<1> HIDE DEF before, after
<1>5. /\ before \o after \in Seq(S)
      /\ Len(before \o after) = Len(before) + Len(after)
      /\ \A i \in 1..Len(before) + Len(after) :
           (before \o after)[i] = IF i <= Len(before) THEN before[i] ELSE after[i - Len(before)]
  BY <1>2, <1>3, ConcatProperties
<1> QED
  BY <1>1, <1>2, <1>3, <1>4, <1>5

\* RemoveFirst takes the element out and leaves the others in.
LEMMA RemoveFirstIs ==
  ASSUME NEW S, NEW q \in Seq(S), NEW e
  PROVE  /\ RemoveFirst(q, e) \in Seq(S)
         /\ Len(RemoveFirst(q, e)) = IF Listed(q, e) THEN Len(q) - 1 ELSE Len(q)
         /\ \A m : Listed(q, m) /\ m # e => Listed(RemoveFirst(q, e), m)
<1> DEFINE I == {i \in 1..Len(q) : q[i] = e}
           k == Min(I)
           r == RemoveFirst(q, e)
<1>1. CASE ~Listed(q, e)
  BY <1>1 DEF RemoveFirst, Listed
<1>2. CASE Listed(q, e)
  <2>1. I # {} /\ I \subseteq Nat
    BY <1>2, LenProperties DEF Listed
  <2>2. k \in 1..Len(q) /\ q[k] = e
    BY <2>1, MinIs
  <2>3. r = RemoveAt(q, k)
    BY <1>2, <2>1 DEF RemoveFirst, SelectInSeq, Listed
  <2> HIDE DEF I, k, r
  <2>4. /\ r \in Seq(S) /\ Len(r) = Len(q) - 1
        /\ \A i \in 1..Len(q) - 1 : r[i] = IF i < k THEN q[i] ELSE q[i + 1]
    BY <2>2, <2>3, RemoveAtIs
  <2>5. ASSUME NEW m, Listed(q, m), m # e PROVE Listed(r, m)
    <3>1. PICK i \in 1..Len(q) : q[i] = m
      BY <2>5 DEF Listed
    <3>2. i # k /\ Len(q) \in Nat
      BY <2>2, <2>5, <3>1, LenProperties
    <3>3. CASE i < k
      <4>1. i \in 1..Len(q) - 1 /\ r[i] = m
        BY <2>2, <2>4, <3>1, <3>2, <3>3
      <4> QED
        BY <2>4, <4>1 DEF Listed
    <3>4. CASE i > k
      <4>1. i - 1 \in 1..Len(q) - 1 /\ ~(i - 1 < k) /\ (i - 1) + 1 = i
        BY <2>2, <3>1, <3>2, <3>4
      <4>2. r[i - 1] = m
        BY <2>4, <3>1, <4>1
      <4> QED
        BY <2>4, <4>1, <4>2 DEF Listed
    <3> QED
      BY <2>2, <3>2, <3>3, <3>4
  <2> QED
    BY <1>2, <2>4, <2>5 DEF r
<1> QED
  BY <1>1, <1>2

\* Both keep to what the engines are.
LEMMA EngineOfName ==
  ASSUME NEW S, NEW q \in Seq(S), NEW n
  PROVE  /\ Without(q, n) \in Seq(S)
         /\ (\E i \in 1..Len(q) : q[i].name = n) => q[PlaceOf(q, n)] \in S
<1> DEFINE I == {i \in 1..Len(q) : q[i].name = n}
           k == Min(I)
<1>1. CASE I = {}
  BY <1>1 DEF RemoveFirstMatch, Without
<1>2. CASE I # {}
  <2>1. I \subseteq Nat
    BY LenProperties
  <2>2. k \in 1..Len(q)
    BY <1>2, <2>1, MinIs
  <2>3. PlaceOf(q, n) = k
    BY <1>2 DEF SelectInSeq, PlaceOf
  <2>4. Without(q, n) = RemoveAt(q, k)
    BY <1>2, <2>3 DEF RemoveFirstMatch, SelectInSeq, Without, PlaceOf
  <2> HIDE DEF I, k
  <2>5. q[k] \in S /\ RemoveAt(q, k) \in Seq(S)
    BY <2>2, RemoveAtIs, ElementOfSeq
  <2> QED
    BY <2>3, <2>4, <2>5
<1> QED
  BY <1>1, <1>2

(***************************************************************************)
(* The worst case of a map of databases is a sum that grows with the map   *)
(***************************************************************************)

Term(map, n) == IF map[n] = None THEN 0 ELSE Connections[map[n]]

Chosen(S) == CHOOSE x \in S : TRUE

\* The value at S of the function in Worst, by its values g.
Summed(map, g, S) == IF S = {} THEN 0 ELSE Term(map, Chosen(S)) + g[S \ {Chosen(S)}]

Small(n) == {S \in SUBSET Names : Cardinality(S) <= n}

Sums(map, T, g) == g = [S \in T |-> Summed(map, g, S)]

\* There are finitely many databases.
LEMMA NamesFinite ==
  ASSUME RegistrationAssumption
  PROVE  IsFiniteSet(Names)
  BY DEF RegistrationAssumption

\* What is left of a set of names without the one chosen is smaller.
LEMMA Smaller ==
  ASSUME RegistrationAssumption, NEW n \in Nat, NEW S \in Small(n + 1), S # {}
  PROVE  Chosen(S) \in S /\ S \ {Chosen(S)} \in Small(n)
<1>1. IsFiniteSet(S)
  BY NamesFinite, FS_Subset DEF Small
<1>2. Chosen(S) \in S
  BY DEF Chosen
<1>3. Cardinality(S \ {Chosen(S)}) = Cardinality(S) - 1
  BY <1>1, <1>2, FS_RemoveElement
<1>4. Cardinality(S) \in Nat /\ Cardinality(S) <= n + 1
  BY <1>1, FS_CardinalityType DEF Small
<1>5. Cardinality(S \ {Chosen(S)}) <= n
  BY <1>3, <1>4
<1> QED
  BY <1>2, <1>5 DEF Small

\* The empty set is the only one with no element.
LEMMA Smallest ==
  ASSUME RegistrationAssumption
  PROVE  /\ Small(0) = {{}}
         /\ \A n \in Nat : Small(n) \subseteq Small(n + 1)
         /\ \E n \in Nat : SUBSET Names = Small(n)
<1>1. IsFiniteSet(Names)
  BY NamesFinite
<1>2. ASSUME NEW S \in SUBSET Names
      PROVE  IsFiniteSet(S) /\ Cardinality(S) \in Nat /\ Cardinality(S) <= Cardinality(Names)
  BY <1>1, FS_Subset, FS_CardinalityType
<1>3. Small(0) = {{}}
  <2>1. ASSUME NEW S \in Small(0) PROVE S = {}
    <3>1. S \in SUBSET Names /\ Cardinality(S) <= 0
      BY DEF Small
    <3>2. Cardinality(S) = 0 /\ IsFiniteSet(S)
      BY <1>2, <3>1
    <3> QED
      BY <3>2, FS_EmptySet
  <2>2. Cardinality({}) = 0
    BY FS_EmptySet
  <2>3. {} \in Small(0)
    BY <2>2 DEF Small
  <2> QED
    BY <2>1, <2>3
<1>4. \A n \in Nat : Small(n) \subseteq Small(n + 1)
  BY <1>2 DEF Small
<1>5. SUBSET Names = Small(Cardinality(Names)) /\ Cardinality(Names) \in Nat
  BY <1>1, <1>2, FS_CardinalityType DEF Small
<1> QED
  BY <1>3, <1>4, <1>5

\* There is such a function.
LEMMA SumsExist ==
  ASSUME RegistrationAssumption, NEW map
  PROVE  \A n \in Nat : \E g : Sums(map, Small(n), g)
<1> DEFINE N == {n \in Nat : \E g : Sums(map, Small(n), g)}
<1>1. 0 \in N
  <2> DEFINE g == [S \in Small(0) |-> 0]
  <2>1. \A S \in Small(0) : Summed(map, g, S) = 0
    BY Smallest DEF Summed
  <2>2. g = [S \in Small(0) |-> Summed(map, g, S)]
    BY <2>1
  <2> QED
    BY <2>2 DEF Sums
<1>2. ASSUME NEW n \in Nat, n \in N PROVE n + 1 \in N
  <2>1. PICK g : Sums(map, Small(n), g)
    BY <1>2
  <2> DEFINE h == [S \in Small(n + 1) |-> Summed(map, g, S)]
  <2>2. \A S \in Small(n) : g[S] = Summed(map, g, S)
    BY <2>1 DEF Sums
  <2>3. \A S \in Small(n) : S \in Small(n + 1) /\ h[S] = g[S]
    BY <2>2, Smallest
  <2>4. ASSUME NEW S \in Small(n + 1) PROVE Summed(map, h, S) = Summed(map, g, S)
    <3>1. CASE S = {}
      BY <3>1 DEF Summed
    <3>2. CASE S # {}
      <4>1. h[S \ {Chosen(S)}] = g[S \ {Chosen(S)}]
        BY <2>3, <3>2, Smaller
      <4> HIDE DEF h
      <4> QED
        BY <3>2, <4>1 DEF Summed
    <3> QED
      BY <3>1, <3>2
  <2>5. h = [S \in Small(n + 1) |-> Summed(map, h, S)]
    BY <2>4
  <2>6. \E f : f = [S \in Small(n + 1) |-> Summed(map, f, S)]
    BY <2>5
  <2> QED
    BY <2>6 DEF Sums
<1> HIDE DEF N
<1>3. \A n \in Nat : n \in N
  BY <1>1, <1>2, Induction
<1> QED
  BY <1>3 DEF N

\* Worst is the last value of such a function.
LEMMA WorstIs ==
  ASSUME RegistrationAssumption, NEW map
  PROVE  \E g : Sums(map, SUBSET Names, g) /\ Worst(map) = g[Names]
<1>1. Worst(map) = (CHOOSE g : Sums(map, SUBSET Names, g))[Names]
  BY DEF Worst, MapThenSumSet, MapThenFoldSet, Sums, Summed, Term, Chosen
<1>2. \E g : Sums(map, SUBSET Names, g)
  <2>1. PICK n \in Nat : SUBSET Names = Small(n)
    BY Smallest
  <2>2. \E g : Sums(map, Small(n), g)
    BY SumsExist
  <2> QED
    BY <2>1, <2>2
<1> QED
  BY <1>1, <1>2

\* A map that drops databases from another has no worse a worst case.
LEMMA WorstFalls ==
  ASSUME RegistrationAssumption,
         NEW map \in [Names -> Settings \cup {None}], NEW less \in [Names -> Settings \cup {None}],
         \A n \in Names : less[n] = map[n] \/ less[n] = None
  PROVE  Worst(less) \in Nat /\ Worst(map) \in Nat /\ Worst(less) <= Worst(map)
<1>1. PICK g : Sums(map, SUBSET Names, g) /\ Worst(map) = g[Names]
  BY WorstIs
<1>2. PICK h : Sums(less, SUBSET Names, h) /\ Worst(less) = h[Names]
  BY WorstIs
<1>3. \A n \in Names : /\ Term(map, n) \in Nat /\ Term(less, n) \in Nat
                       /\ Term(less, n) <= Term(map, n)
  BY DEF Term, RegistrationAssumption
<1> DEFINE Grown(S) == g[S] \in Nat /\ h[S] \in Nat /\ h[S] <= g[S]
           N == {n \in Nat : \A S \in Small(n) : Grown(S)}
<1>4. ASSUME NEW S \in SUBSET Names PROVE g[S] = Summed(map, g, S) /\ h[S] = Summed(less, h, S)
  BY <1>1, <1>2 DEF Sums
<1>5. 0 \in N
  <2>1. g[{}] = 0 /\ h[{}] = 0
    BY <1>4 DEF Summed
  <2>2. Grown({})
    BY <2>1
  <2> HIDE DEF Grown
  <2>3. \A S \in Small(0) : Grown(S)
    BY <2>2, Smallest
  <2> QED
    BY <2>3
<1>6. ASSUME NEW n \in Nat, n \in N PROVE n + 1 \in N
  <2> SUFFICES ASSUME NEW S \in Small(n + 1) PROVE Grown(S)
    OBVIOUS
  <2>1. CASE S = {}
    <3>1. g[{}] = 0 /\ h[{}] = 0
      BY <1>4 DEF Summed
    <3> QED
      BY <2>1, <3>1
  <2>2. CASE S # {}
    <3>1. Chosen(S) \in Names /\ S \ {Chosen(S)} \in Small(n) /\ S \in SUBSET Names
      BY <2>2, Smaller DEF Small
    <3>2. Grown(S \ {Chosen(S)})
      BY <1>6, <3>1
    <3>3. /\ g[S] = Term(map, Chosen(S)) + g[S \ {Chosen(S)}]
          /\ h[S] = Term(less, Chosen(S)) + h[S \ {Chosen(S)}]
      BY <1>4, <2>2, <3>1 DEF Summed
    <3> QED
      BY <1>3, <3>1, <3>2, <3>3
  <2> QED
    BY <2>1, <2>2
<1> HIDE DEF N
<1>7. \A n \in Nat : n \in N
  BY <1>5, <1>6, Induction
<1>8. Grown(Names)
  BY <1>7, Smallest DEF N
<1> QED
  BY <1>1, <1>2, <1>8

(***************************************************************************)
(* What the operations do to a world                                       *)
(***************************************************************************)

\* A world is the record of its parts.
LEMMA WorldIs ==
  ASSUME NEW w \in Worlds
  PROVE  w = Parts(w.config, w.engines, w.limiter, w.dynamic)
  BY DEF Worlds, Parts

\* The changes of two parts, on the parts.
LEMMA PartsChange ==
  ASSUME NEW w \in Worlds, NEW c, NEW l, NEW t, t = [w EXCEPT !.config = c, !.limiter = l]
  PROVE  t = Parts(c, w.engines, l, w.dynamic)
  BY DEF Parts, Worlds

\* The end of a purge, on the parts.
LEMMA RemovedParts ==
  ASSUME NEW w \in Worlds, NEW S
  PROVE  Removed(w, S) =
           Parts([n \in Names |-> IF n \in S THEN None ELSE w.config[n]], w.engines,
                 [n \in Names |-> IF n \in S THEN None ELSE w.limiter[n]], w.dynamic)
<1> DEFINE c == [n \in Names |-> IF n \in S THEN None ELSE w.config[n]]
           l == [n \in Names |-> IF n \in S THEN None ELSE w.limiter[n]]
<1>1. Removed(w, S) = [w EXCEPT !.config = c, !.limiter = l]
  BY Zenon DEF Removed
<1>2. [w EXCEPT !.config = c, !.limiter = l] = Parts(c, w.engines, l, w.dynamic)
  <2> DEFINE t == [w EXCEPT !.config = c, !.limiter = l]
  <2>1. t = [w EXCEPT !.config = c, !.limiter = l]
    OBVIOUS
  <2> HIDE DEF c, l, t
  <2>2. t = Parts(c, w.engines, l, w.dynamic)
    BY <2>1, PartsChange
  <2> QED
    BY <2>2 DEF t
<1> QED
  BY <1>1, <1>2, Zenon

\* The swap of the map for a registered name, on the parts.
LEMMA InstalledParts ==
  ASSUME NEW w \in Worlds, NEW n, NEW s
  PROVE  [w EXCEPT !.config[n] = s, !.limiter[n] = None] =
           Parts([w.config EXCEPT ![n] = s], w.engines, [w.limiter EXCEPT ![n] = None], w.dynamic)
<1> DEFINE c == [w.config EXCEPT ![n] = s]
           l == [w.limiter EXCEPT ![n] = None]
<1>1. [w EXCEPT !.config[n] = s, !.limiter[n] = None] = [w EXCEPT !.config = c, !.limiter = l]
  BY Zenon
<1>2. [w EXCEPT !.config = c, !.limiter = l] = Parts(c, w.engines, l, w.dynamic)
  <2> DEFINE t == [w EXCEPT !.config = c, !.limiter = l]
  <2>1. t = [w EXCEPT !.config = c, !.limiter = l]
    OBVIOUS
  <2> HIDE DEF c, l, t
  <2>2. t = Parts(c, w.engines, l, w.dynamic)
    BY <2>1, PartsChange
  <2> QED
    BY <2>2 DEF t
<1> QED
  BY <1>1, <1>2, Zenon

\* _touch_dynamic: only the LRU order changes, and grows for a database that is not in it.
LEMMA TouchedIs ==
  ASSUME NEW w \in Worlds, NEW n \in Names
  PROVE  /\ Touched(w, n) \in Worlds
         /\ Touched(w, n).config = w.config /\ Touched(w, n).limiter = w.limiter
         /\ Touched(w, n).engines = w.engines
         /\ \A m : Listed(w.dynamic, m) => Listed(Touched(w, n).dynamic, m)
         /\ n \notin Static => Listed(Touched(w, n).dynamic, n)
         /\ Listed(w.dynamic, n) \/ n \in Static =>
              Len(Touched(w, n).dynamic) = Len(w.dynamic)
<1> DEFINE d == RemoveFirst(w.dynamic, n)
           e == Append(d, n)
<1>1. w.dynamic \in Seq(Names \ Static)
  BY DEF Worlds
<1>2. CASE n \in Static
  <2>1. Touched(w, n) = w
    BY <1>2 DEF Touched, Worlds
  <2> QED
    BY <1>2, <2>1
<1>3. CASE n \notin Static
  <2>1. Touched(w, n) = [w EXCEPT !.dynamic = e]
    BY <1>3 DEF Touched
  <2>2. /\ d \in Seq(Names \ Static)
        /\ Len(d) = IF Listed(w.dynamic, n) THEN Len(w.dynamic) - 1 ELSE Len(w.dynamic)
        /\ \A m : Listed(w.dynamic, m) /\ m # n => Listed(d, m)
    BY <1>1, RemoveFirstIs
  <2> HIDE DEF d
  <2>3. /\ e \in Seq(Names \ Static) /\ Len(e) = Len(d) + 1 /\ e[Len(d) + 1] = n
        /\ \A i \in 1..Len(d) : e[i] = d[i]
    BY <1>3, <2>2, AppendProperties
  <2>4. Len(d) \in Nat /\ Len(w.dynamic) \in Nat
    BY <1>1, <2>2, LenProperties
  <2> HIDE DEF e
  <2>5. Listed(e, n)
    <3>1. Len(d) + 1 \in 1..Len(e)
      BY <2>3, <2>4
    <3> QED
      BY <2>3, <3>1 DEF Listed
  <2>6. ASSUME NEW m, Listed(w.dynamic, m) PROVE Listed(e, m)
    <3>1. CASE m = n
      BY <2>5, <3>1
    <3>2. CASE m # n
      <4>1. PICK i \in 1..Len(d) : d[i] = m
        BY <2>2, <2>6, <3>2 DEF Listed
      <4>2. i \in 1..Len(e) /\ e[i] = m
        BY <2>3, <2>4, <4>1
      <4> QED
        BY <4>2 DEF Listed
    <3> QED
      BY <3>1, <3>2
  <2>7. Listed(w.dynamic, n) => Len(e) = Len(w.dynamic)
    BY <2>2, <2>3, <2>4
  <2>8. /\ Touched(w, n) \in Worlds /\ Touched(w, n).dynamic = e
        /\ Touched(w, n).config = w.config /\ Touched(w, n).limiter = w.limiter
        /\ Touched(w, n).engines = w.engines
    BY <2>1, <2>3 DEF Worlds
  <2> QED
    BY <1>3, <2>5, <2>6, <2>7, <2>8
<1> QED
  BY <1>2, <1>3

\* An ensured database leaves the world as fine as it was.
LEMMA TouchedFine ==
  ASSUME NEW w, Fine(w), NEW n \in Names
  PROVE  Fine(Touched(w, n))
<1>1. w \in Worlds
  BY DEF Fine
<1>2. /\ Touched(w, n) \in Worlds
      /\ Touched(w, n).config = w.config /\ Touched(w, n).limiter = w.limiter
  BY <1>1, TouchedIs
<1> QED
  BY <1>2 DEF Fine, Current

\* A purge at its end: the names are gone from both maps, and any LRU order may come with it.
LEMMA RemovedIs ==
  ASSUME RegistrationAssumption, NEW w, Fine(w), NEW S, NEW d \in Seq(Names \ Static),
         NEW t, t = Trimmed(w, S, d)
  PROVE  /\ Fine(t) /\ t.dynamic = d
         /\ \A n \in Names : t.config[n] = IF n \in S THEN None ELSE w.config[n]
<1> DEFINE c == [n \in Names |-> IF n \in S THEN None ELSE w.config[n]]
           l == [n \in Names |-> IF n \in S THEN None ELSE w.limiter[n]]
<1>1. w \in Worlds /\ Current(w) /\ Worst(w.config) <= Budget
  BY DEF Fine
<1>2. Removed(w, S) = Parts(c, w.engines, l, w.dynamic)
  BY <1>1, RemovedParts, Zenon
<1>3. t = Parts(c, w.engines, l, d)
  <2> HIDE DEF c, l
  <2> QED
    BY <1>2 DEF Parts, Trimmed
<1>4. w.config \in [Names -> Settings \cup {None}] /\ w.limiter \in [Names -> Settings \cup {None}]
  BY <1>1 DEF Worlds
<1>5. c \in [Names -> Settings \cup {None}] /\ l \in [Names -> Settings \cup {None}]
  BY <1>4
<1>6. \A n \in Names : /\ c[n] = IF n \in S THEN None ELSE w.config[n]
                       /\ l[n] = IF n \in S THEN None ELSE w.limiter[n]
  OBVIOUS
<1> HIDE DEF c, l
<1>7. Worst(c) <= Budget
  <2>1. Worst(c) \in Nat /\ Worst(w.config) \in Nat /\ Worst(c) <= Worst(w.config)
    BY <1>4, <1>5, <1>6, WorstFalls
  <2>2. Budget \in Nat
    BY DEF RegistrationAssumption
  <2> QED
    BY <1>1, <2>1, <2>2
<1>8. t \in Worlds /\ t.config = c /\ t.limiter = l /\ t.dynamic = d
  BY <1>1, <1>3, <1>5 DEF Parts, Worlds
<1>9. Current(t)
  BY <1>1, <1>6, <1>8 DEF Current
<1>10. Fine(t)
  BY <1>7, <1>8, <1>9 DEF Fine
<1> QED
  BY <1>6, <1>8, <1>10

\* The swap of the map for a registered name that fits the budget: its limiter is gone.
LEMMA InstalledIs ==
  ASSUME NEW w, Fine(w), NEW n \in Names, NEW s \in Settings \cup {None},
         Worst([w.config EXCEPT ![n] = s]) <= Budget
  PROVE  LET t == Installed(w, n, s)
         IN  /\ Fine(t) /\ t.config = [w.config EXCEPT ![n] = s]
             /\ \A m : Listed(w.dynamic, m) => Listed(t.dynamic, m)
             /\ n \notin Static => Listed(t.dynamic, n)
<1> DEFINE c == [w.config EXCEPT ![n] = s]
           l == [w.limiter EXCEPT ![n] = None]
           v == [w EXCEPT !.config[n] = s, !.limiter[n] = None]
<1>1. w \in Worlds /\ Current(w)
  BY DEF Fine
<1>2. v = Parts(c, w.engines, l, w.dynamic)
  BY <1>1, InstalledParts, Zenon
<1>3. w.config \in [Names -> Settings \cup {None}] /\ w.limiter \in [Names -> Settings \cup {None}]
  BY <1>1 DEF Worlds
<1>4. /\ c \in [Names -> Settings \cup {None}] /\ l \in [Names -> Settings \cup {None}]
      /\ \A m \in Names : /\ c[m] = IF m = n THEN s ELSE w.config[m]
                          /\ l[m] = IF m = n THEN None ELSE w.limiter[m]
  BY <1>3
<1>5. Installed(w, n, s) = Touched(v, n)
  BY DEF Installed
<1>6. Worst(c) <= Budget
  OBVIOUS
<1> HIDE DEF c, l, v
<1>7. v \in Worlds /\ v.config = c /\ v.limiter = l /\ v.dynamic = w.dynamic
  BY <1>1, <1>2, <1>4 DEF Worlds, Parts
<1>8. Current(v)
  BY <1>1, <1>4, <1>7 DEF Current
<1>9. Fine(v)
  BY <1>6, <1>7, <1>8 DEF Fine
<1>10. Fine(Touched(v, n))
  BY <1>9, TouchedFine
<1>11. /\ Touched(v, n).config = c
       /\ \A m : Listed(w.dynamic, m) => Listed(Touched(v, n).dynamic, m)
       /\ n \notin Static => Listed(Touched(v, n).dynamic, n)
  BY <1>7, TouchedIs
<1> QED
  BY <1>5, <1>10, <1>11 DEF c

\* registry.dispose_database: only the engines change.
LEMMA WithoutEngineIs ==
  ASSUME NEW w, Fine(w), NEW n
  PROVE  LET t == WithoutEngine(w, n)
         IN  Fine(t) /\ t.config = w.config /\ t.dynamic = w.dynamic
<1> DEFINE e == Without(w.engines, n)
           t == [w EXCEPT !.engines = e]
<1>1. w \in Worlds /\ Current(w) /\ Worst(w.config) <= Budget
  BY DEF Fine
<1>2. e \in Seq(Pooled)
  <2>1. w.engines \in Seq(Pooled)
    BY <1>1 DEF Worlds
  <2> QED
    BY <2>1, EngineOfName
<1>3. WithoutEngine(w, n) = t
  BY DEF WithoutEngine, Without, RemoveFirstMatch, SelectInSeq
<1> HIDE DEF e
<1>4. t \in Worlds /\ t.config = w.config /\ t.limiter = w.limiter /\ t.dynamic = w.dynamic
  BY <1>1, <1>2 DEF Worlds
<1> HIDE DEF t
<1>5. Fine(t)
  BY <1>1, <1>4 DEF Fine, Current
<1> QED
  BY <1>3, <1>4, <1>5

\* registry.get: only the engines change.
LEMMA WithEngineIs ==
  ASSUME RegistrationAssumption, NEW w, Fine(w), NEW n \in Names, w.config[n] # None
  PROVE  LET t == WithEngine(w, n)
         IN  Fine(t) /\ t.config = w.config /\ t.limiter = w.limiter /\ t.dynamic = w.dynamic
<1> DEFINE kept == IF Evicts(w, n) THEN Tail(w.engines) ELSE WithoutEngine(w, n).engines
           mine == IF HasEngine(w, n)
                     THEN w.engines[PlaceOf(w.engines, n)]
                     ELSE [name |-> n, settings |-> w.config[n]]
           e == Append(kept, mine)
           t == [w EXCEPT !.engines = e]
<1>1. w \in Worlds /\ Current(w) /\ Worst(w.config) <= Budget
  BY DEF Fine
<1>2. w.engines \in Seq(Pooled) /\ w.config \in [Names -> Settings \cup {None}]
  BY <1>1 DEF Worlds
<1>3. kept \in Seq(Pooled)
  <2>1. WithoutEngine(w, n).engines \in Seq(Pooled)
    BY WithoutEngineIs DEF Fine, Worlds
  <2>2. Evicts(w, n) => Tail(w.engines) \in Seq(Pooled)
    <3>1. Evicts(w, n) => w.engines # <<>>
      BY <1>2, EmptySeq DEF Evicts, RegistrationAssumption
    <3> QED
      BY <1>2, <3>1, HeadTailProperties
  <2> QED
    BY <2>1, <2>2
<1>4. mine \in Pooled
  <2>1. CASE HasEngine(w, n)
    <3>1. \E i \in 1..Len(w.engines) : w.engines[i].name = n
      BY <1>2, <2>1, LenProperties DEF HasEngine
    <3>2. w.engines[PlaceOf(w.engines, n)] \in Pooled
      BY <1>2, <3>1, EngineOfName
    <3> QED
      BY <2>1, <3>2
  <2>2. CASE ~HasEngine(w, n)
    BY <1>2, <2>2 DEF Pooled
  <2> QED
    BY <2>1, <2>2
<1>5. WithEngine(w, n) = t
  BY DEF WithEngine, PlaceOf, SelectInSeq
<1> HIDE DEF kept, mine
<1>6. e \in Seq(Pooled)
  BY <1>3, <1>4, AppendProperties
<1> HIDE DEF e
<1>7. t \in Worlds /\ t.config = w.config /\ t.limiter = w.limiter /\ t.dynamic = w.dynamic
  BY <1>1, <1>6 DEF Worlds
<1> HIDE DEF t
<1>8. Fine(t)
  BY <1>1, <1>7 DEF Fine, Current
<1> QED
  BY <1>5, <1>7, <1>8

\* limiter_for: a limiter is made from the settings in force.
LEMMA WithLimiterIs ==
  ASSUME NEW w, Fine(w), NEW n \in Names
  PROVE  LET t == WithLimiter(w, n)
         IN  Fine(t) /\ t.config = w.config /\ t.dynamic = w.dynamic
<1> DEFINE l == [w.limiter EXCEPT ![n] = IF w.limiter[n] = None THEN w.config[n] ELSE w.limiter[n]]
           t == WithLimiter(w, n)
<1>1. w \in Worlds /\ Current(w) /\ Worst(w.config) <= Budget
  BY DEF Fine
<1>2. t = Parts(w.config, w.engines, l, w.dynamic)
  BY <1>1 DEF WithLimiter, Worlds, Parts
<1>3. w.config \in [Names -> Settings \cup {None}] /\ w.limiter \in [Names -> Settings \cup {None}]
  BY <1>1 DEF Worlds
<1>4. l \in [Names -> Settings \cup {None}]
  BY <1>3
<1>5. \A m \in Names : l[m] = IF m = n /\ w.limiter[n] = None THEN w.config[n] ELSE w.limiter[m]
  BY <1>3
<1> HIDE DEF l, t
<1>6. t \in Worlds /\ t.config = w.config /\ t.limiter = l /\ t.dynamic = w.dynamic
  BY <1>1, <1>2, <1>4 DEF Worlds, Parts
<1>7. Current(t)
  BY <1>1, <1>5, <1>6 DEF Current
<1> QED
  BY <1>1, <1>6, <1>7 DEF Fine, t

(***************************************************************************)
(* The inductive invariant, and what keeps it                              *)
(***************************************************************************)

Calls ==
  [pc : Awaits, op : {"register", "unregister"},
   name : Names, settings : Settings \cup {None}, connect : BOOLEAN, victim : Names]

\* The awaits at which a registrar holds the lock.
Inside == {"purging", "evicting", "connecting"}

\* A registration suspended in its purge still fits the budget when it goes on.
Admitted(x, map) ==
  x.pc = "purging" /\ x.op = "register" =>
    Worst([map EXCEPT ![x.name] = x.settings]) <= Budget

\* No registrar is cancelled while it disposes of an evicted database: the cap on dynamic
\* databases may be exceeded otherwise.
Uncancelled == "evicting" \notin CancelledAt

\* The LRU order has every dynamic database but the one that is being evicted, and no more
\* than the cap allows while none is.
Arranged(w, x) ==
  /\ \A n \in Names \ Static :
       w.config[n] # None => Listed(w.dynamic, n) \/ (x.pc = "evicting" /\ x.victim = n)
  /\ x.pc # "evicting" => Len(w.dynamic) <= MaxDatabases

AllArranged ==
  /\ \A n \in Names \ Static :
       config[n] # None =>
         \/ Listed(dynamic, n)
         \/ \E r \in Registrars : registrar[r].pc = "evicting" /\ registrar[r].victim = n
  /\ (\A r \in Registrars : registrar[r].pc # "evicting") => Len(dynamic) <= MaxDatabases

RegistrationInv ==
  /\ RegistrationTypeOK /\ Fine(World)
  /\ \A r \in Registrars : Admitted(registrar[r], config)
  /\ Uncancelled => AllArranged

\* The state after a step is the world that the step makes.
LEMMA BecomesIs ==
  ASSUME NEW w, w \in Worlds, Becomes(w)
  PROVE  /\ World' = w
         /\ config' = w.config /\ engines' = w.engines /\ limiter' = w.limiter
         /\ dynamic' = w.dynamic
<1>1. /\ config' = w.config /\ engines' = w.engines /\ limiter' = w.limiter
      /\ dynamic' = w.dynamic
  BY DEF Becomes
<1>2. w = Parts(w.config, w.engines, w.limiter, w.dynamic)
  BY DEF Worlds, Parts
<1> QED
  BY <1>1, <1>2 DEF World, Parts

\* While r may enter the critical section nobody else is in it.
LEMMA OthersOutside ==
  ASSUME RegistrationAssumption, RegistrationInv, NEW r \in Registrars, holder \in {None, r}
  PROVE  \A s \in Registrars \ {r} : registrar[s].pc \notin Inside
  BY DEF RegistrationInv, RegistrationTypeOK, RegistrationAssumption, Inside

\* The registrar with the lock makes w and goes on as x.
LEMMA AfterStep ==
  ASSUME RegistrationAssumption, RegistrationInv,
         NEW r \in Registrars, holder \in {None, r},
         NEW w, Fine(w), Becomes(w), NEW x \in RegistrarStates,
         registrar' = [registrar EXCEPT ![r] = x],
         holder' = IF x.pc \in Inside THEN r ELSE None, query' = query,
         Admitted(x, w.config), Uncancelled => Arranged(w, x)
  PROVE  RegistrationInv'
<1>1. w \in Worlds
  BY DEF Fine
<1>2. /\ World' = w
      /\ config' = w.config /\ engines' = w.engines /\ limiter' = w.limiter
      /\ dynamic' = w.dynamic
  BY <1>1, BecomesIs
<1>3. registrar \in [Registrars -> RegistrarStates] /\ query \in [Queries -> QueryStates]
  BY DEF RegistrationInv, RegistrationTypeOK
<1>4. /\ registrar' \in [Registrars -> RegistrarStates] /\ registrar'[r] = x
      /\ \A s \in Registrars \ {r} : registrar'[s] = registrar[s]
  BY <1>3
<1>5. \A s \in Registrars \ {r} : registrar'[s].pc \notin Inside
  BY <1>4, OthersOutside
<1>6. None \notin Registrars
  BY DEF RegistrationAssumption
<1>7. RegistrationTypeOK'
  <2>1. /\ config' \in [Names -> Settings \cup {None}]
        /\ limiter' \in [Names -> Settings \cup {None}]
        /\ engines' \in Seq(Pooled) /\ dynamic' \in Seq(Names \ Static)
    BY <1>1, <1>2 DEF Worlds
  <2>2. \A s \in Registrars : holder' = s <=> registrar'[s].pc \in Inside
    BY <1>4, <1>5, <1>6
  <2>3. holder' \in Registrars \cup {None}
    OBVIOUS
  <2> QED
    BY <1>3, <1>4, <2>1, <2>2, <2>3 DEF RegistrationTypeOK, Pooled, Inside
<1>8. Fine(World)'
  BY <1>2 DEF Fine, Current
<1>9. \A s \in Registrars : Admitted(registrar[s], config)'
  <2>1. Admitted(registrar'[r], config')
    BY <1>2, <1>4
  <2>2. \A s \in Registrars \ {r} : registrar'[s].pc # "purging"
    BY <1>5 DEF Inside
  <2> QED
    BY <2>1, <2>2 DEF Admitted
<1>10. ASSUME Uncancelled PROVE AllArranged'
  <2>1. Arranged(w, x)
    BY <1>10
  <2>2. \A s \in Registrars \ {r} : registrar'[s].pc # "evicting"
    BY <1>5 DEF Inside
  <2>3. \A n \in Names \ Static :
          config'[n] # None =>
            \/ Listed(dynamic', n)
            \/ registrar'[r].pc = "evicting" /\ registrar'[r].victim = n
    BY <1>2, <1>4, <2>1 DEF Arranged
  <2>4. registrar'[r].pc # "evicting" => Len(dynamic') <= MaxDatabases
    BY <1>2, <1>4, <2>1 DEF Arranged
  <2> QED
    BY <2>3, <2>4 DEF AllArranged, Listed
<1> QED
  BY <1>7, <1>8, <1>9, <1>10 DEF RegistrationInv, Uncancelled

\* A registrar leaves for x, or comes to wait as x, and changes nothing else.
LEMMA AfterMove ==
  ASSUME RegistrationAssumption, RegistrationInv,
         NEW r \in Registrars, NEW x \in RegistrarStates, x.pc \notin Inside,
         registrar' = [registrar EXCEPT ![r] = x],
         holder' = IF holder = r THEN None ELSE holder,
         UNCHANGED <<config, engines, limiter, dynamic, query>>,
         Uncancelled => registrar[r].pc # "evicting"
  PROVE  RegistrationInv'
<1>1. registrar \in [Registrars -> RegistrarStates] /\ holder \in Registrars \cup {None}
  BY DEF RegistrationInv, RegistrationTypeOK
<1>2. /\ registrar' \in [Registrars -> RegistrarStates] /\ registrar'[r] = x
      /\ \A s \in Registrars \ {r} : registrar'[s] = registrar[s]
  BY <1>1
<1>3. \A s \in Registrars : holder = s <=> registrar[s].pc \in Inside
  BY DEF RegistrationInv, RegistrationTypeOK, Inside
<1>4. None \notin Registrars
  BY DEF RegistrationAssumption
<1>5. RegistrationTypeOK'
  <2>1. \A s \in Registrars : holder' = s <=> registrar'[s].pc \in Inside
    BY <1>2, <1>3, <1>4
  <2>2. holder' \in Registrars \cup {None}
    BY <1>1
  <2> QED
    BY <1>2, <2>1, <2>2 DEF RegistrationTypeOK, Inside, RegistrationInv
<1>6. Fine(World)'
  BY DEF RegistrationInv, Fine, Current, World
<1>7. \A s \in Registrars : Admitted(registrar[s], config)'
  BY <1>2 DEF RegistrationInv, Admitted, Inside
<1>8. ASSUME Uncancelled PROVE AllArranged'
  <2>1. AllArranged
    BY <1>8 DEF RegistrationInv
  <2>2. \A s \in Registrars : registrar[s].pc = "evicting" => registrar'[s] = registrar[s]
    BY <1>2, <1>8
  <2>3. registrar'[r].pc # "evicting"
    BY <1>2 DEF Inside
  <2>4. \A s \in Registrars : registrar'[s].pc = "evicting" <=> registrar[s].pc = "evicting"
    BY <1>2, <1>8, <2>3
  <2> QED
    BY <2>1, <2>2, <2>4 DEF AllArranged, Listed
<1> QED
  BY <1>5, <1>6, <1>7, <1>8 DEF RegistrationInv, Uncancelled

\* A step outside the critical section makes w of the same map.
LEMMA AfterQuery ==
  ASSUME RegistrationAssumption, RegistrationInv,
         NEW w, Fine(w), Becomes(w), w.config = config,
         query' \in [Queries -> QueryStates], holder' = holder, registrar' = registrar,
         \A n : Listed(dynamic, n) => Listed(w.dynamic, n),
         Uncancelled => \/ Len(w.dynamic) = Len(dynamic)
                        \/ \E r \in Registrars : registrar[r].pc = "evicting"
  PROVE  RegistrationInv'
<1>1. w \in Worlds
  BY DEF Fine
<1>2. /\ World' = w
      /\ config' = config /\ engines' = w.engines /\ limiter' = w.limiter
      /\ dynamic' = w.dynamic
  BY <1>1, BecomesIs
<1>3. RegistrationTypeOK'
  <2>1. /\ config' \in [Names -> Settings \cup {None}]
        /\ limiter' \in [Names -> Settings \cup {None}]
        /\ engines' \in Seq(Pooled) /\ dynamic' \in Seq(Names \ Static)
    BY <1>1, <1>2 DEF Worlds
  <2> QED
    BY <2>1 DEF RegistrationTypeOK, Pooled, RegistrationInv
<1>4. Fine(World)'
  BY <1>2 DEF Fine, Current
<1>5. \A s \in Registrars : Admitted(registrar[s], config)'
  BY <1>2 DEF RegistrationInv, Admitted
<1>6. ASSUME Uncancelled PROVE AllArranged'
  <2>1. AllArranged
    BY <1>6 DEF RegistrationInv
  <2>2. \A n : Listed(dynamic, n) => Listed(dynamic', n)
    BY <1>2
  <2>3. Len(dynamic') = Len(dynamic) \/ \E r \in Registrars : registrar[r].pc = "evicting"
    BY <1>2, <1>6
  <2> QED
    BY <1>2, <2>1, <2>2, <2>3 DEF AllArranged, Listed
<1> QED
  BY <1>3, <1>4, <1>5, <1>6 DEF RegistrationInv, Uncancelled

(***************************************************************************)
(* The critical section                                                    *)
(***************************************************************************)

\* A registrar between calls is outside the critical section.
LEMMA RestIs == Rest \in RegistrarStates /\ Rest.pc = "idle" /\ "idle" \notin Inside
  BY DEF Rest, RegistrarStates, Inside

\* A call goes on to another await, and with another victim.
LEMMA CallMoves ==
  ASSUME NEW x \in Calls, NEW p \in Awaits, NEW y, y = [x EXCEPT !.pc = p]
  PROVE  /\ y \in Calls /\ y \in RegistrarStates
         /\ y.pc = p /\ y.op = x.op /\ y.name = x.name /\ y.settings = x.settings
  BY DEF Calls, RegistrarStates

\* A call that evicts v.
LEMMA CallEvicts ==
  ASSUME NEW x \in Calls, NEW v \in Names, NEW y, y = Evicting(x, v)
  PROVE  y \in RegistrarStates /\ y.pc = "evicting" /\ y.victim = v
  BY DEF Calls, RegistrarStates, Awaits, Evicting

\* r suspends inside the critical section, or leaves it.
LEMMA SuspendedIs ==
  ASSUME NEW r, NEW y, y.pc \in Inside, Suspended(r, y)
  PROVE  /\ registrar' = [registrar EXCEPT ![r] = y]
         /\ holder' = IF y.pc \in Inside THEN r ELSE None
         /\ query' = query
  BY DEF Suspended

\* r leaves the critical section.
LEMMA ReleasedIs ==
  ASSUME NEW r, Released(r)
  PROVE  /\ registrar' = [registrar EXCEPT ![r] = Rest]
         /\ holder' = IF Rest.pc \in Inside THEN r ELSE None
         /\ query' = query
  BY RestIs DEF Released

\* The registrar leaves the critical section with w.
LEMMA LeaveStep ==
  ASSUME RegistrationAssumption, RegistrationInv, NEW r \in Registrars, holder \in {None, r},
         NEW w, Fine(w), Uncancelled => Ordered(w) /\ Len(w.dynamic) <= MaxDatabases,
         Becomes(w), Released(r)
  PROVE  RegistrationInv'
<1>1. Admitted(Rest, w.config)
  BY RestIs DEF Admitted
<1>2. Uncancelled => Arranged(w, Rest)
  BY RestIs DEF Arranged, Ordered
<1> QED
  BY <1>1, <1>2, RestIs, ReleasedIs, AfterStep

\* The eager creation of the engine, with or without an await.
LEMMA ConnectStep ==
  ASSUME RegistrationAssumption, RegistrationInv, NEW r \in Registrars, holder \in {None, r},
         NEW x \in Calls, NEW w, Fine(w),
         Uncancelled => Ordered(w) /\ Len(w.dynamic) <= MaxDatabases,
         Connect(r, x, w)
  PROVE  RegistrationInv'
<1> DEFINE t == WithEngine(w, x.name)
           y == [x EXCEPT !.pc = "connecting"]
<1>1. x.name \in Names
  BY DEF Calls
<1>2. CASE ~(x.connect /\ w.config[x.name] # None)
  <2>1. Becomes(w) /\ Released(r)
    BY <1>2 DEF Connect
  <2> QED
    BY <2>1, LeaveStep
<1>3. CASE x.connect /\ w.config[x.name] # None
  <2>1. /\ Becomes(t)
        /\ IF Evicts(w, x.name) THEN Suspended(r, y) ELSE Released(r)
    BY <1>3 DEF Connect
  <2>2. Fine(t) /\ t.config = w.config /\ t.dynamic = w.dynamic
    BY <1>1, <1>3, WithEngineIs
  <2> HIDE DEF t
  <2>3. Uncancelled => Ordered(t) /\ Len(t.dynamic) <= MaxDatabases
    BY <2>2 DEF Ordered
  <2>4. CASE ~Evicts(w, x.name)
    BY <2>1, <2>2, <2>3, <2>4, LeaveStep
  <2>5. CASE Evicts(w, x.name)
    <3>1. "connecting" \in Awaits /\ "connecting" \in Inside
      BY DEF Awaits, Inside
    <3>2. y \in RegistrarStates /\ y.pc = "connecting"
      BY <3>1, CallMoves
    <3> HIDE DEF y
    <3>3. /\ registrar' = [registrar EXCEPT ![r] = y]
          /\ holder' = IF y.pc \in Inside THEN r ELSE None
          /\ query' = query
      BY <2>1, <2>5, <3>1, <3>2, SuspendedIs
    <3>4. Admitted(y, t.config)
      BY <3>2 DEF Admitted
    <3>5. Uncancelled => Arranged(t, y)
      BY <2>3, <3>2 DEF Arranged, Ordered
    <3> QED
      BY <2>1, <2>2, <3>2, <3>3, <3>4, <3>5, AfterStep
  <2> QED
    BY <2>4, <2>5
<1> QED
  BY <1>2, <1>3

\* What is left of a sequence without its first k elements.
LEMMA WithoutFirst ==
  ASSUME NEW S, NEW q \in Seq(S), NEW k \in Nat, k <= Len(q)
  PROVE  LET d == SubSeq(q, k + 1, Len(q))
         IN  /\ d \in Seq(S) /\ Len(d) = Len(q) - k
             /\ \A i \in 1..Len(q) : i > k => Listed(d, q[i])
<1> DEFINE d == SubSeq(q, k + 1, Len(q))
<1>1. Len(q) \in Nat /\ \A i \in 1..Len(q) : q[i] \in S
  BY LenProperties
<1>2. /\ d \in Seq(S) /\ Len(d) = Len(q) - k
      /\ \A i \in 1..Len(q) - k : d[i] = q[k + i]
  BY <1>1, SubSeqProperties
<1> HIDE DEF d
<1>3. ASSUME NEW i \in 1..Len(q), i > k PROVE Listed(d, q[i])
  <2>1. i - k \in 1..Len(q) - k /\ k + (i - k) = i
    BY <1>1, <1>3
  <2>2. d[i - k] = q[i]
    BY <1>2, <2>1
  <2> QED
    BY <1>2, <2>1, <2>2 DEF Listed
<1> QED
  BY <1>2, <1>3 DEF d

\* The first k of the LRU order leave it, and the names of `gone` leave both maps.
LEMMA TrimmedIs ==
  ASSUME RegistrationAssumption, NEW w, Fine(w), NEW k \in Nat, k <= Len(w.dynamic),
         NEW gone
  PROVE  /\ Fine(Cut(w, gone, k)) /\ Len(Cut(w, gone, k).dynamic) = Len(w.dynamic) - k
         /\ \A n \in Names :
              Cut(w, gone, k).config[n] = IF n \in gone THEN None ELSE w.config[n]
         /\ \A i \in 1..Len(w.dynamic) : i > k => Listed(Cut(w, gone, k).dynamic, w.dynamic[i])
<1> DEFINE d == SubSeq(w.dynamic, k + 1, Len(w.dynamic))
           t == Cut(w, gone, k)
<1>1. w.dynamic \in Seq(Names \ Static)
  BY DEF Fine, Worlds
<1>2. /\ d \in Seq(Names \ Static) /\ Len(d) = Len(w.dynamic) - k
      /\ \A i \in 1..Len(w.dynamic) : i > k => Listed(d, w.dynamic[i])
  BY <1>1, WithoutFirst
<1>3. t = Trimmed(w, gone, d)
  BY DEF Cut
<1> HIDE DEF d, t
<1>4. Fine(t)
  BY <1>2, <1>3, RemovedIs
<1>5. t.dynamic = d
  BY <1>2, <1>3, RemovedIs
<1>6. \A n \in Names : t.config[n] = IF n \in gone THEN None ELSE w.config[n]
  BY <1>2, <1>3, RemovedIs
<1> QED
  BY <1>2, <1>4, <1>5, <1>6 DEF t

\* The databases beyond the cap go without an await when none of them has an engine.
LEMMA EvictAllStep ==
  ASSUME RegistrationAssumption, RegistrationInv, NEW r \in Registrars, holder \in {None, r},
         NEW x \in Calls, NEW w, Fine(w), Uncancelled => Ordered(w),
         NEW I, I = 1 .. (Len(w.dynamic) - MaxDatabases), NEW t,
         t = Trimmed(w, {w.dynamic[i] : i \in I},
                     SubSeq(w.dynamic, Cardinality(I) + 1, Len(w.dynamic))),
         Connect(r, x, t)
  PROVE  RegistrationInv'
<1> DEFINE k == IF Len(w.dynamic) > MaxDatabases THEN Len(w.dynamic) - MaxDatabases ELSE 0
           gone == {w.dynamic[i] : i \in I}
<1>1. w \in Worlds /\ w.dynamic \in Seq(Names \ Static)
  BY DEF Fine, Worlds
<1>2. Len(w.dynamic) \in Nat /\ MaxDatabases \in Nat
  BY <1>1, LenProperties DEF RegistrationAssumption
<1>3. k \in Nat /\ k <= Len(w.dynamic) /\ I = 1..k /\ Len(w.dynamic) - k <= MaxDatabases
  <2> DEFINE len == Len(w.dynamic)
  <2>1. len \in Nat /\ I = 1 .. (len - MaxDatabases)
    BY <1>2
  <2> HIDE DEF len
  <2>2. LET l == IF len > MaxDatabases THEN len - MaxDatabases ELSE 0
        IN  l \in Nat /\ l <= len /\ I = 1..l /\ len - l <= MaxDatabases
    BY <1>2, <2>1
  <2> QED
    BY <2>2 DEF len
<1> HIDE DEF k
<1>4. Cardinality(I) = k
  <2>1. k \in Int /\ 1 \in Int /\ (1 > k => k = 0)
    BY <1>3
  <2>2. Cardinality(1..k) = IF 1 > k THEN 0 ELSE k - 1 + 1
    BY <2>1, FS_Interval
  <2>3. Cardinality(1..k) = k
    BY <2>1, <2>2
  <2> QED
    BY <1>3, <2>3
<1>5. t = Cut(w, gone, k)
  BY <1>4 DEF Cut
<1>6. \A i \in 1..k : w.dynamic[i] \in gone
  BY <1>3
<1> HIDE DEF gone
<1>7. /\ Fine(t) /\ Len(t.dynamic) = Len(w.dynamic) - k
      /\ \A n \in Names : t.config[n] = IF n \in gone THEN None ELSE w.config[n]
      /\ \A i \in 1..Len(w.dynamic) : i > k => Listed(t.dynamic, w.dynamic[i])
  <2>1. Fine(t)
    BY <1>3, <1>5, TrimmedIs
  <2>2. Len(t.dynamic) = Len(w.dynamic) - k
    BY <1>3, <1>5, TrimmedIs
  <2>3. \A n \in Names : t.config[n] = IF n \in gone THEN None ELSE w.config[n]
    BY <1>3, <1>5, TrimmedIs
  <2>4. \A i \in 1..Len(w.dynamic) : i > k => Listed(t.dynamic, w.dynamic[i])
    BY <1>3, <1>5, TrimmedIs
  <2> QED
    BY <2>1, <2>2, <2>3, <2>4
<1>8. ASSUME Uncancelled PROVE Ordered(t)
  <2> SUFFICES ASSUME NEW n \in Names \ Static, t.config[n] # None PROVE Listed(t.dynamic, n)
    BY DEF Ordered
  <2>1. Ordered(w) /\ w.config[n] # None /\ n \notin gone
    BY <1>7, <1>8
  <2>2. PICK i \in 1..Len(w.dynamic) : w.dynamic[i] = n
    BY <2>1 DEF Ordered, Listed
  <2>3. i > k
    BY <1>2, <1>3, <1>6, <2>1, <2>2
  <2> QED
    BY <1>7, <2>2, <2>3
<1> QED
  BY <1>3, <1>7, <1>8, ConnectStep

\* Otherwise those before the first with an engine go, and that one is the victim.
LEMMA EvictFirstStep ==
  ASSUME RegistrationAssumption, RegistrationInv, NEW r \in Registrars, holder \in {None, r},
         NEW x \in Calls, NEW w, Fine(w), Uncancelled => Ordered(w),
         NEW first \in Nat, first >= 1, first <= Len(w.dynamic),
         NEW victim, victim = w.dynamic[first],
         NEW gone, \A i \in 1..(first - 1) : w.dynamic[i] \in gone, NEW u,
         u = Cut(w, gone, first),
         Becomes(WithoutEngine(u, victim)), Suspended(r, Evicting(x, victim))
  PROVE  RegistrationInv'
<1>1. w \in Worlds /\ w.dynamic \in Seq(Names \ Static)
  BY DEF Fine, Worlds
<1>2. Len(w.dynamic) \in Nat /\ first \in 1..Len(w.dynamic)
  BY <1>1, LenProperties
<1>3. victim \in Names \ Static
  BY <1>1, <1>2, ElementOfSeq
<1>4. Fine(u)
  BY TrimmedIs
<1>5. \A n \in Names : u.config[n] = IF n \in gone THEN None ELSE w.config[n]
  BY TrimmedIs
<1>6. \A i \in 1..Len(w.dynamic) : i > first => Listed(u.dynamic, w.dynamic[i])
  BY TrimmedIs
<1>7. \A i \in 1..first : w.dynamic[i] \in gone \/ w.dynamic[i] = victim
  <2> SUFFICES ASSUME NEW i \in 1..first PROVE w.dynamic[i] \in gone \/ w.dynamic[i] = victim
    OBVIOUS
  <2>1. i = first \/ i \in 1..(first - 1)
    BY <1>2
  <2> QED
    BY <2>1
<1>8. ASSUME Uncancelled, NEW n \in Names \ Static, u.config[n] # None
      PROVE  Listed(u.dynamic, n) \/ n = victim
  <2>1. Ordered(w) /\ w.config[n] # None /\ n \notin gone
    BY <1>5, <1>8
  <2>2. PICK i \in 1..Len(w.dynamic) : w.dynamic[i] = n
    BY <2>1 DEF Ordered, Listed
  <2>3. i \in 1..first \/ i > first
    BY <1>2, <2>2
  <2> QED
    BY <1>6, <1>7, <2>1, <2>2, <2>3
<1> DEFINE v == WithoutEngine(u, victim)
           y == Evicting(x, victim)
<1>9. Becomes(v) /\ Suspended(r, y)
  OBVIOUS
<1>10. Fine(v) /\ v.config = u.config /\ v.dynamic = u.dynamic
  BY <1>4, WithoutEngineIs
<1>11. y \in RegistrarStates /\ y.pc = "evicting" /\ y.victim = victim
  BY <1>3, CallEvicts
<1> HIDE DEF v, y
<1>12. /\ registrar' = [registrar EXCEPT ![r] = y]
       /\ holder' = IF y.pc \in Inside THEN r ELSE None
       /\ query' = query
  BY <1>9, <1>11, SuspendedIs DEF Inside
<1>13. Admitted(y, v.config)
  BY <1>11 DEF Admitted
<1>14. Uncancelled => Arranged(v, y)
  BY <1>8, <1>10, <1>11 DEF Arranged
<1> QED
  BY <1>9, <1>10, <1>11, <1>12, <1>13, <1>14, AfterStep

\* _evict_lru_databases_locked, whichever of the two it comes to.
LEMMA EvictBeyondStep ==
  ASSUME RegistrationAssumption, RegistrationInv, NEW r \in Registrars, holder \in {None, r},
         NEW x \in Calls, NEW w, Fine(w), Uncancelled => Ordered(w),
         EvictBeyondCap(r, x, w)
  PROVE  RegistrationInv'
<1> DEFINE surplus == 1 .. (Len(w.dynamic) - MaxDatabases)
           pooled == {i \in surplus : HasEngine(w, w.dynamic[i])}
           t == Trimmed(w, {w.dynamic[i] : i \in surplus},
                        SubSeq(w.dynamic, Cardinality(surplus) + 1, Len(w.dynamic)))
           first == Min(pooled)
           victim == w.dynamic[first]
           gone == {w.dynamic[i] : i \in {i \in surplus : i < first}}
           u == Cut(w, gone, first)
<1>1. w.dynamic \in Seq(Names \ Static) /\ MaxDatabases \in Nat
  BY DEF Fine, Worlds, RegistrationAssumption
<1>2. CASE pooled = {}
  <2>1. Connect(r, x, t)
    BY <1>2 DEF EvictBeyondCap, Trimmed
  <2> DEFINE I == surplus
  <2>2. /\ I = 1 .. (Len(w.dynamic) - MaxDatabases)
        /\ t = Trimmed(w, {w.dynamic[i] : i \in I},
                       SubSeq(w.dynamic, Cardinality(I) + 1, Len(w.dynamic)))
    OBVIOUS
  <2> HIDE DEF surplus, I, t
  <2> QED
    BY <2>1, <2>2, EvictAllStep
<1>3. CASE pooled # {}
  <2>1. Becomes(WithoutEngine(u, victim)) /\ Suspended(r, Evicting(x, victim))
    BY <1>3 DEF EvictBeyondCap, Cut, Trimmed, Evicting
  <2>2. Len(w.dynamic) \in Nat
    BY <1>1, LenProperties
  <2>3. first \in surplus
    <3>1. pooled \subseteq Nat
      BY <1>1, <2>2
    <3> HIDE DEF pooled
    <3>2. first \in pooled
      BY <1>3, <3>1, MinIs
    <3> QED
      BY <3>2 DEF pooled
  <2> HIDE DEF first
  <2>4. first \in 1..Len(w.dynamic) /\ \A i \in 1..(first - 1) : i \in surplus /\ i < first
    BY <1>1, <2>2, <2>3
  <2>5. \A i \in 1..(first - 1) : w.dynamic[i] \in gone
    BY <2>4
  <2>6. victim = w.dynamic[first] /\ u = Cut(w, gone, first)
    OBVIOUS
  <2> HIDE DEF victim, gone, u
  <2>7. first \in Nat /\ first >= 1 /\ first <= Len(w.dynamic)
    BY <2>2, <2>4
  <2> QED
    BY <2>1, <2>5, <2>6, <2>7, EvictFirstStep
<1> QED
  BY <1>2, <1>3

\* Between evictions the world is in order, for whoever may enter the critical section.
LEMMA WorldOrdered ==
  ASSUME RegistrationAssumption, RegistrationInv, NEW r \in Registrars, holder \in {None, r},
         registrar[r].pc # "evicting", Uncancelled
  PROVE  Ordered(World) /\ Len(World.dynamic) <= MaxDatabases
<1>1. \A s \in Registrars : registrar[s].pc # "evicting"
  BY OthersOutside DEF Inside
<1>2. AllArranged
  BY DEF RegistrationInv
<1> QED
  BY <1>1, <1>2 DEF AllArranged, Ordered, World

\* The parts of the world.
LEMMA WorldParts ==
  /\ World.config = config /\ World.engines = engines
  /\ World.limiter = limiter /\ World.dynamic = dynamic
  BY DEF World

\* register_database after the purge.
LEMMA InstallStep ==
  ASSUME RegistrationAssumption, RegistrationInv, NEW r \in Registrars, holder \in {None, r},
         registrar[r].pc # "evicting", NEW x \in Calls,
         Worst([config EXCEPT ![x.name] = x.settings]) <= Budget,
         Install(r, x)
  PROVE  RegistrationInv'
<1> DEFINE w == World
           t == Installed(w, x.name, x.settings)
<1>1. EvictBeyondCap(r, x, t)
  BY DEF Install
<1>2. x.name \in Names /\ x.settings \in Settings \cup {None}
  BY DEF Calls
<1>3. Fine(w) /\ w.config = config /\ w.dynamic = dynamic
  BY WorldParts DEF RegistrationInv
<1>4. Uncancelled => Ordered(w)
  BY WorldOrdered
<1> HIDE DEF w
<1>5. Worst([w.config EXCEPT ![x.name] = x.settings]) <= Budget
  BY <1>3
<1>6. /\ Fine(t) /\ t.config = [w.config EXCEPT ![x.name] = x.settings]
      /\ \A m : Listed(w.dynamic, m) => Listed(t.dynamic, m)
      /\ x.name \notin Static => Listed(t.dynamic, x.name)
  BY <1>2, <1>3, <1>5, InstalledIs
<1> HIDE DEF t
<1>7. ASSUME Uncancelled PROVE Ordered(t)
  <2> SUFFICES ASSUME NEW n \in Names \ Static, t.config[n] # None PROVE Listed(t.dynamic, n)
    BY DEF Ordered
  <2>1. w.config \in [Names -> Settings \cup {None}]
    BY <1>3 DEF Fine, Worlds
  <2>2. n = x.name \/ w.config[n] # None
    BY <1>6, <2>1
  <2> QED
    BY <1>4, <1>6, <1>7, <2>2 DEF Ordered
<1> QED
  BY <1>1, <1>6, <1>7, EvictBeyondStep

\* unregister_database after the purge.
LEMMA DropStep ==
  ASSUME RegistrationAssumption, RegistrationInv, NEW r \in Registrars, holder \in {None, r},
         registrar[r].pc # "evicting", NEW x \in Calls, Drop(r, x)
  PROVE  RegistrationInv'
<1> DEFINE w == World
           S == {x.name}
           d == RemoveFirst(w.dynamic, x.name)
           t == Trimmed(w, S, d)
<1>1. Fine(w)
  BY DEF RegistrationInv
<1>2. Uncancelled => Ordered(w) /\ Len(w.dynamic) <= MaxDatabases
  BY WorldOrdered
<1>3. Becomes(t) /\ Released(r)
  <2> DEFINE v == Removed(w, S)
  <2>1. v.dynamic = w.dynamic
    BY DEF Removed, World
  <2>2. Becomes([v EXCEPT !.dynamic = RemoveFirst(v.dynamic, x.name)]) /\ Released(r)
    BY DEF Drop
  <2> HIDE DEF v
  <2>3. [v EXCEPT !.dynamic = RemoveFirst(v.dynamic, x.name)] = [v EXCEPT !.dynamic = d]
    BY <2>1
  <2>4. t = [v EXCEPT !.dynamic = d]
    BY DEF Trimmed, v
  <2> HIDE DEF t
  <2> QED
    BY <2>2, <2>3, <2>4
<1> HIDE DEF w
<1>4. w.dynamic \in Seq(Names \ Static) /\ w.config \in [Names -> Settings \cup {None}]
  BY <1>1 DEF Fine, Worlds
<1>5. /\ d \in Seq(Names \ Static)
      /\ Len(d) = IF Listed(w.dynamic, x.name) THEN Len(w.dynamic) - 1 ELSE Len(w.dynamic)
      /\ \A m : Listed(w.dynamic, m) /\ m # x.name => Listed(d, m)
  BY <1>4, RemoveFirstIs
<1> HIDE DEF d, S
<1>6. /\ Fine(t) /\ t.dynamic = d
      /\ \A n \in Names : t.config[n] = IF n \in S THEN None ELSE w.config[n]
  BY <1>1, <1>5, RemovedIs
<1> HIDE DEF t
<1>7. ASSUME Uncancelled PROVE Ordered(t) /\ Len(t.dynamic) <= MaxDatabases
  <2>1. Len(w.dynamic) \in Nat /\ MaxDatabases \in Nat
    BY <1>4, LenProperties DEF RegistrationAssumption
  <2>2. Len(t.dynamic) <= MaxDatabases
    BY <1>2, <1>5, <1>6, <1>7, <2>1
  <2>3. ASSUME NEW n \in Names \ Static, t.config[n] # None PROVE Listed(t.dynamic, n)
    <3>1. n # x.name /\ w.config[n] # None
      BY <1>6, <2>3 DEF S
    <3> QED
      BY <1>2, <1>5, <1>6, <1>7, <3>1 DEF Ordered
  <2> QED
    BY <2>2, <2>3 DEF Ordered
<1> QED
  BY <1>3, <1>6, <1>7, LeaveStep

\* The rest of a call whose purge is over.
LEMMA FinishStep ==
  ASSUME RegistrationAssumption, RegistrationInv, NEW r \in Registrars, holder \in {None, r},
         registrar[r].pc # "evicting", NEW x \in Calls,
         x.op = "register" => Worst([config EXCEPT ![x.name] = x.settings]) <= Budget,
         Finish(r, x)
  PROVE  RegistrationInv'
<1>1. CASE x.op = "register"
  BY <1>1, InstallStep DEF Finish
<1>2. CASE x.op # "register"
  BY <1>2, DropStep DEF Finish
<1> QED
  BY <1>1, <1>2

\* A call enters the critical section.
LEMMA EnterStep ==
  ASSUME RegistrationAssumption, RegistrationInv, NEW r \in Registrars, holder \in {None, r},
         registrar[r].pc # "evicting", NEW x \in Calls, Enter(r, x)
  PROVE  RegistrationInv'
<1> DEFINE w == World
<1>1. Fine(w) /\ w.config = config
  BY WorldParts DEF RegistrationInv
<1>2. Uncancelled => Ordered(w) /\ Len(w.dynamic) <= MaxDatabases
  BY WorldOrdered
<1>3. CASE Becomes(w) /\ Released(r)
  BY <1>1, <1>2, <1>3, LeaveStep
<1>4. CASE /\ x.op = "register" => Worst([config EXCEPT ![x.name] = x.settings]) <= Budget
           /\ Finish(r, x)
  BY <1>4, FinishStep
<1>5. CASE /\ x.op = "register" => Worst([config EXCEPT ![x.name] = x.settings]) <= Budget
           /\ Becomes(WithoutEngine(w, x.name))
           /\ Suspended(r, [x EXCEPT !.pc = "purging"])
  <2> DEFINE t == WithoutEngine(w, x.name)
             y == [x EXCEPT !.pc = "purging"]
  <2>1. Fine(t) /\ t.config = w.config /\ t.dynamic = w.dynamic
    BY <1>1, WithoutEngineIs
  <2>2. "purging" \in Awaits /\ "purging" \in Inside
    BY DEF Awaits, Inside
  <2>3. /\ y \in RegistrarStates
        /\ y.pc = "purging" /\ y.op = x.op /\ y.name = x.name /\ y.settings = x.settings
    BY <2>2, CallMoves
  <2>4. Becomes(t) /\ Suspended(r, y)
    BY <1>5
  <2> HIDE DEF t, y
  <2>5. /\ registrar' = [registrar EXCEPT ![r] = y]
        /\ holder' = IF y.pc \in Inside THEN r ELSE None
        /\ query' = query
    BY <2>2, <2>3, <2>4, SuspendedIs
  <2>6. Admitted(y, t.config)
    BY <1>1, <1>5, <2>1, <2>3 DEF Admitted
  <2>7. Uncancelled => Arranged(t, y)
    BY <1>2, <2>1, <2>3 DEF Arranged, Ordered
  <2> QED
    BY <2>1, <2>3, <2>4, <2>5, <2>6, <2>7, AfterStep
<1> QED
  BY <1>3, <1>4, <1>5 DEF Enter

(***************************************************************************)
(* The steps                                                               *)
(***************************************************************************)

\* A call waits for the lock or takes it.
LEMMA CallStep ==
  ASSUME RegistrationAssumption, RegistrationInv, NEW r \in Registrars,
         NEW x \in Calls, x.pc = "waiting", Call(r, x)
  PROVE  RegistrationInv'
<1>1. registrar[r].pc = "idle"
  BY RestIs DEF Call
<1>2. CASE holder = None /\ Waiters = {}
  BY <1>1, <1>2, EnterStep DEF Call
<1>3. CASE ~(holder = None /\ Waiters = {})
  <2>1. /\ registrar' = [registrar EXCEPT ![r] = x]
        /\ UNCHANGED <<config, engines, limiter, dynamic, holder, query>>
    BY <1>3 DEF Call
  <2>2. holder # r
    BY <1>1 DEF RegistrationInv, RegistrationTypeOK
  <2>3. x \in RegistrarStates /\ x.pc \notin Inside
    BY DEF Calls, RegistrarStates, Inside
  <2> QED
    BY <1>1, <2>1, <2>2, <2>3, AfterMove
<1> QED
  BY <1>2, <1>3

\* What a call is given.
LEMMA NewCallIs ==
  ASSUME NEW op \in {"register", "unregister"}, NEW n \in Names,
         NEW s \in Settings \cup {None}, NEW c \in BOOLEAN
  PROVE  NewCall(op, n, s, c) \in Calls /\ NewCall(op, n, s, c).pc = "waiting"
  BY DEF NewCall, Calls, Awaits

\* register_database is called.
LEMMA RegisterStep ==
  ASSUME RegistrationAssumption, RegistrationInv, NEW r \in Registrars,
         NEW n \in Names, NEW s \in Settings, NEW c \in BOOLEAN, Register(r, n, s, c)
  PROVE  RegistrationInv'
  BY NewCallIs, CallStep DEF Register

\* unregister_database is called.
LEMMA UnregisterStep ==
  ASSUME RegistrationAssumption, RegistrationInv, NEW r \in Registrars,
         NEW n \in Names, Unregister(r, n)
  PROVE  RegistrationInv'
  BY NewCallIs, CallStep DEF Unregister

\* ensure_database may find its database on the way out: it enters the LRU order again then,
\* and the eviction that goes on takes it out of the map.
LEMMA EnsureStep ==
  ASSUME RegistrationAssumption, RegistrationInv, NEW r \in Registrars,
         NEW n \in Names, NEW s \in Settings, NEW c \in BOOLEAN, Ensure(r, n, s, c)
  PROVE  RegistrationInv'
<1>1. CASE config[n] # s
  BY <1>1, RegisterStep DEF Ensure
<1>2. CASE config[n] = s
  <2> DEFINE w == Touched(World, n)
  <2>1. Fine(World) /\ World.config = config /\ World.dynamic = dynamic
    BY WorldParts DEF RegistrationInv
  <2>2. Fine(w) /\ World \in Worlds
    BY <2>1, TouchedFine DEF Fine
  <2>3. /\ w.config = config
        /\ \A m : Listed(dynamic, m) => Listed(w.dynamic, m)
        /\ Listed(dynamic, n) \/ n \in Static => Len(w.dynamic) = Len(dynamic)
    <3> HIDE DEF w
    <3>1. w = Touched(World, n)
      BY DEF w
    <3> QED
      BY <2>1, <2>2, <3>1, TouchedIs
  <2>4. /\ Becomes(w)
        /\ holder' = holder /\ registrar' = registrar /\ query' = query
    BY <1>2 DEF Ensure
  <2> HIDE DEF w
  <2>5. ASSUME Uncancelled
        PROVE  \/ Len(w.dynamic) = Len(dynamic)
               \/ \E o \in Registrars : registrar[o].pc = "evicting"
    <3>1. AllArranged /\ config[n] # None
      BY <1>2, <2>5 DEF RegistrationInv, RegistrationAssumption
    <3> QED
      BY <2>3, <3>1 DEF AllArranged
  <2>6. query' \in [Queries -> QueryStates]
    BY <2>4 DEF RegistrationInv, RegistrationTypeOK
  <2> QED
    BY <2>2, <2>3, <2>4, <2>5, <2>6, AfterQuery
<1> QED
  BY <1>1, <1>2

\* A registrar at an await is in a call.
LEMMA InCall ==
  ASSUME RegistrationInv, NEW r \in Registrars, registrar[r].pc # "idle"
  PROVE  /\ registrar[r] \in Calls
         /\ registrar[r].pc \in Inside => holder = r
<1>1. registrar[r] \in RegistrarStates /\ (registrar[r].pc \in Inside => holder = r)
  BY DEF RegistrationInv, RegistrationTypeOK, Inside
<1> QED
  BY <1>1, RestIs DEF RegistrarStates, Calls

\* A waiter is given the lock.
LEMMA AcquireStep ==
  ASSUME RegistrationAssumption, RegistrationInv, NEW r \in Registrars, Acquire(r)
  PROVE  RegistrationInv'
<1>1. registrar[r].pc = "waiting" /\ holder = None /\ Enter(r, registrar[r])
  BY DEF Acquire, Waiters
<1>2. registrar[r] \in Calls
  BY <1>1, InCall
<1> QED
  BY <1>1, <1>2, EnterStep

\* The budget was compared before the purge, and the map has not changed since.
LEMMA PurgedStep ==
  ASSUME RegistrationAssumption, RegistrationInv, NEW r \in Registrars, Purged(r)
  PROVE  RegistrationInv'
<1>1. registrar[r].pc = "purging" /\ Finish(r, registrar[r])
  BY DEF Purged
<1>2. registrar[r] \in Calls /\ holder = r
  BY <1>1, InCall DEF Inside
<1>3. Admitted(registrar[r], config)
  BY DEF RegistrationInv
<1>4. registrar[r].op = "register" =>
        Worst([config EXCEPT ![registrar[r].name] = registrar[r].settings]) <= Budget
  BY <1>1, <1>3 DEF Admitted
<1> QED
  BY <1>1, <1>2, <1>4, FinishStep

\* The victim leaves the map, and the world is in order again.
LEMMA EvictedStep ==
  ASSUME RegistrationAssumption, RegistrationInv, NEW r \in Registrars, Evicted(r)
  PROVE  RegistrationInv'
<1> DEFINE w == World
           x == registrar[r]
           S == {x.victim}
           v == Removed(w, S)
           t == Trimmed(w, S, w.dynamic)
<1>1. x.pc = "evicting" /\ EvictBeyondCap(r, x, v)
  BY DEF Evicted
<1>2. x \in Calls /\ holder = r
  BY <1>1, InCall DEF Inside
<1>3. Fine(w) /\ w.config = config /\ w.dynamic = dynamic
  BY WorldParts DEF RegistrationInv
<1>4. t = v
  <2> DEFINE c == [n \in Names |-> IF n \in S THEN None ELSE w.config[n]]
             l == [n \in Names |-> IF n \in S THEN None ELSE w.limiter[n]]
  <2>1. w \in Worlds
    BY <1>3 DEF Fine
  <2>2. v = Parts(c, w.engines, l, w.dynamic)
    <3> HIDE DEF w, S
    <3> QED
      BY <2>1, RemovedParts, Zenon
  <2> HIDE DEF c, l, v, w
  <2> QED
    BY <2>2 DEF Trimmed, Parts, v
<1> HIDE DEF v, w, S
<1>5. w.dynamic \in Seq(Names \ Static)
  BY <1>3 DEF Fine, Worlds
<1>6. /\ Fine(t) /\ t.dynamic = w.dynamic
      /\ \A n \in Names : t.config[n] = IF n \in S THEN None ELSE w.config[n]
  BY <1>3, <1>5, RemovedIs
<1> HIDE DEF t
<1>7. ASSUME Uncancelled PROVE Ordered(t)
  <2> SUFFICES ASSUME NEW n \in Names \ Static, t.config[n] # None PROVE Listed(t.dynamic, n)
    BY DEF Ordered
  <2>1. n # x.victim /\ config[n] # None
    BY <1>3, <1>6 DEF S
  <2>2. AllArranged
    BY <1>7 DEF RegistrationInv
  <2>3. \A s \in Registrars \ {r} : registrar[s].pc # "evicting"
    BY <1>2, OthersOutside DEF Inside
  <2>4. Listed(dynamic, n)
    BY <2>1, <2>2, <2>3 DEF AllArranged
  <2> QED
    BY <1>3, <1>6, <2>4
<1>8. EvictBeyondCap(r, x, t)
  BY <1>1, <1>4
<1> HIDE DEF x
<1> QED
  BY <1>2, <1>6, <1>7, <1>8, EvictBeyondStep

\* The eager creation of the engine returns.
LEMMA ConnectedStep ==
  ASSUME RegistrationAssumption, RegistrationInv, NEW r \in Registrars, Connected(r)
  PROVE  RegistrationInv'
<1>1. registrar[r].pc = "connecting" /\ Released(r) /\ Becomes(World)
  BY DEF Connected
<1>2. holder = r
  BY <1>1, InCall DEF Inside
<1>3. Fine(World)
  BY DEF RegistrationInv
<1>4. Uncancelled => Ordered(World) /\ Len(World.dynamic) <= MaxDatabases
  BY <1>1, <1>2, WorldOrdered
<1> QED
  BY <1>1, <1>2, <1>3, <1>4, LeaveStep

\* A registrar is cancelled: what it had done so far stays.
LEMMA CancelStep ==
  ASSUME RegistrationAssumption, RegistrationInv, NEW r \in Registrars, Cancel(r)
  PROVE  RegistrationInv'
<1>1. /\ registrar[r].pc \in CancelledAt
      /\ registrar' = [registrar EXCEPT ![r] = Rest]
      /\ holder' = IF holder = r THEN None ELSE holder
      /\ UNCHANGED <<config, engines, limiter, dynamic, query>>
  BY DEF Cancel
<1>2. Uncancelled => registrar[r].pc # "evicting"
  BY <1>1 DEF Uncancelled
<1> QED
  BY <1>1, <1>2, RestIs, AfterMove

\* A query makes w, which differs only in its engines and limiters.
LEMMA QueryStep ==
  ASSUME RegistrationAssumption, RegistrationInv,
         NEW w, Fine(w), w.config = config, w.dynamic = dynamic, Becomes(w),
         query' \in [Queries -> QueryStates], holder' = holder, registrar' = registrar
  PROVE  RegistrationInv'
  BY AfterQuery

\* A query finds its engine and its limiter without an await.
LEMMA QueryReadyStep ==
  ASSUME RegistrationAssumption, RegistrationInv, NEW q \in Queries, NEW n \in Names,
         QueryReady(q, n)
  PROVE  RegistrationInv'
<1> DEFINE v == WithEngine(World, n)
           w == WithLimiter(v, n)
<1>1. Fine(World) /\ World.config = config /\ World.dynamic = dynamic
  BY WorldParts DEF RegistrationInv
<1>2. config[n] # None /\ Becomes(w)
  BY DEF QueryReady
<1>3. holder' = holder /\ registrar' = registrar /\ query' = query
  BY DEF QueryReady
<1>4. Fine(v) /\ v.config = config /\ v.dynamic = dynamic
  BY <1>1, <1>2, WithEngineIs
<1> HIDE DEF v
<1>5. Fine(w) /\ w.config = config /\ w.dynamic = dynamic
  BY <1>4, WithLimiterIs
<1>6. query' \in [Queries -> QueryStates]
  BY <1>3 DEF RegistrationInv, RegistrationTypeOK
<1> HIDE DEF w
<1> QED
  BY <1>2, <1>3, <1>5, <1>6, QueryStep

\* A query's new engine evicts another.
LEMMA QueryEvictsStep ==
  ASSUME RegistrationAssumption, RegistrationInv, NEW q \in Queries, NEW n \in Names,
         QueryEvicts(q, n)
  PROVE  RegistrationInv'
<1> DEFINE w == WithEngine(World, n)
<1>1. Fine(World) /\ World.config = config /\ World.dynamic = dynamic
  BY WorldParts DEF RegistrationInv
<1>2. config[n] # None /\ Becomes(w)
  BY DEF QueryEvicts
<1>3. /\ holder' = holder /\ registrar' = registrar
      /\ query' = [query EXCEPT ![q] = [pc |-> "evicting", name |-> n]]
  BY DEF QueryEvicts
<1>4. Fine(w) /\ w.config = config /\ w.dynamic = dynamic
  BY <1>1, <1>2, WithEngineIs
<1>5. query' \in [Queries -> QueryStates]
  BY <1>3 DEF RegistrationInv, RegistrationTypeOK, QueryStates
<1> HIDE DEF w
<1> QED
  BY <1>2, <1>3, <1>4, <1>5, QueryStep

\* A query goes on to its limiter, or finds its database gone.
LEMMA QueryContinuesStep ==
  ASSUME RegistrationAssumption, RegistrationInv, NEW q \in Queries, QueryContinues(q)
  PROVE  RegistrationInv'
<1> DEFINE n == query[q].name
           known == limiter[n] # None \/ config[n] # None
           w == IF known THEN WithLimiter(World, n) ELSE World
<1>1. Fine(World) /\ World.config = config /\ World.dynamic = dynamic
  BY WorldParts DEF RegistrationInv
<1>2. query[q].pc = "evicting" /\ Becomes(w)
  BY DEF QueryContinues
<1>3. /\ holder' = holder /\ registrar' = registrar
      /\ query' = [query EXCEPT ![q] = IF known THEN Rest
                                                 ELSE [query[q] EXCEPT !.pc = "key_error"]]
  BY DEF QueryContinues
<1>4. query \in [Queries -> QueryStates] /\ query[q] \in QueryStates
  BY DEF RegistrationInv, RegistrationTypeOK
<1>5. query[q] \in [pc : {"evicting", "key_error"}, name : Names]
  BY <1>2, <1>4 DEF QueryStates, Rest
<1>6. n \in Names /\ [query[q] EXCEPT !.pc = "key_error"] \in QueryStates
  BY <1>5 DEF QueryStates
<1>7. Rest \in QueryStates
  BY DEF QueryStates
<1>8. query' \in [Queries -> QueryStates]
  BY <1>3, <1>4, <1>6, <1>7
<1> HIDE DEF n, known
<1>9. Fine(w) /\ w.config = config /\ w.dynamic = dynamic
  <2>1. CASE known
    BY <1>1, <1>6, <2>1, WithLimiterIs
  <2>2. CASE ~known
    BY <1>1, <2>2
  <2> QED
    BY <2>1, <2>2
<1> HIDE DEF w
<1> QED
  BY <1>2, <1>3, <1>8, <1>9, QueryStep

\* The KeyError of a query is seen.
LEMMA QueryFailedStep ==
  ASSUME RegistrationAssumption, RegistrationInv, NEW q \in Queries, QueryFailed(q)
  PROVE  RegistrationInv'
<1>1. /\ query' = [query EXCEPT ![q] = Rest]
      /\ UNCHANGED <<config, engines, limiter, dynamic, holder, registrar>>
  BY DEF QueryFailed
<1>2. query' \in [Queries -> QueryStates]
  BY <1>1 DEF RegistrationInv, RegistrationTypeOK, QueryStates
<1>3. Becomes(World)
  BY <1>1, WorldParts DEF Becomes
<1>4. Fine(World) /\ World.config = config /\ World.dynamic = dynamic
  BY WorldParts DEF RegistrationInv
<1> QED
  BY <1>1, <1>2, <1>3, <1>4, QueryStep

\* Nothing happens.
LEMMA NoStep ==
  ASSUME RegistrationInv, UNCHANGED registrationVars
  PROVE  RegistrationInv'
  BY DEF registrationVars, RegistrationInv, RegistrationTypeOK, Fine, Current, World, Admitted, Uncancelled,
         AllArranged, Listed

\* Every step keeps the invariant.
LEMMA RegistrationSteps ==
  ASSUME RegistrationAssumption, RegistrationInv, [RegistrationNext]_(registrationVars)
  PROVE  RegistrationInv'
<1>1. CASE UNCHANGED registrationVars
  BY <1>1, NoStep
<1>2. ASSUME NEW r \in Registrars,
             \/ \E n \in Names, s \in Settings, c \in BOOLEAN :
                  Register(r, n, s, c) \/ Ensure(r, n, s, c)
             \/ \E n \in Names : Unregister(r, n)
             \/ Resumes(r) \/ Cancel(r)
      PROVE  RegistrationInv'
  BY <1>2, RegisterStep, EnsureStep, UnregisterStep, AcquireStep, PurgedStep, EvictedStep,
     ConnectedStep, CancelStep DEF Resumes
<1>3. ASSUME NEW q \in Queries,
             \/ \E n \in Names : \/ QueryRefused(q, n) \/ QueryReady(q, n)
                                 \/ QueryEvicts(q, n)
             \/ QueryContinues(q) \/ QueryFailed(q)
      PROVE  RegistrationInv'
  BY <1>3, QueryReadyStep, QueryEvictsStep, QueryContinuesStep, QueryFailedStep, NoStep
     DEF QueryRefused
<1> QED
  BY <1>1, <1>2, <1>3 DEF RegistrationNext

\* The static databases fit the budget, and nothing is registered yet.
LEMMA RegistrationStarts ==
  ASSUME RegistrationAssumption, RegistrationInit
  PROVE  RegistrationInv
<1>1. PICK s \in Settings : config = [n \in Names |-> IF n \in Static THEN s ELSE None]
  BY DEF RegistrationInit
<1>2. config \in [Names -> Settings \cup {None}] /\ \A n \in Names \ Static : config[n] = None
  BY <1>1
<1>3. /\ engines = <<>> /\ limiter = [n \in Names |-> None] /\ dynamic = <<>> /\ holder = None
      /\ registrar = [r \in Registrars |-> Rest] /\ query = [q \in Queries |-> Rest]
      /\ Worst(config) <= Budget
  BY DEF RegistrationInit
<1>4. \A r \in Registrars : registrar[r] = Rest
  BY <1>3
<1>5. RegistrationTypeOK
  BY <1>2, <1>3, <1>4, RestIs
     DEF RegistrationTypeOK, RegistrationAssumption, QueryStates, RegistrarStates, Rest
<1>6. Fine(World)
  BY <1>2, <1>3, WorldParts DEF Fine, Current, Worlds, World, Pooled
<1>7. \A r \in Registrars : Admitted(registrar[r], config)
  BY <1>4, RestIs DEF Admitted
<1>8. AllArranged
  BY <1>2, <1>3 DEF AllArranged, RegistrationAssumption
<1> QED
  BY <1>5, <1>6, <1>7, <1>8 DEF RegistrationInv

\* The inductive invariant holds in every reachable state.
LEMMA RegistrationInvariance ==
  ASSUME RegistrationAssumption
  PROVE  RegistrationSpec => []RegistrationInv
<1>1. RegistrationInit => RegistrationInv
  BY RegistrationStarts
<1>2. RegistrationInv /\ [RegistrationNext]_(registrationVars) => RegistrationInv'
  BY RegistrationSteps
<1> QED
  BY <1>1, <1>2, PTL DEF RegistrationSpec

\* The elements of a sequence are no more than its length.
LEMMA NoMoreThanLength ==
  ASSUME NEW S, NEW q \in Seq(S), NEW T, \A m \in T : Listed(q, m)
  PROVE  Cardinality(T) <= Len(q)
<1> DEFINE I == 1..Len(q)
           R == {q[i] : i \in I}
           f == [i \in I |-> q[i]]
<1>1. Len(q) \in Nat
  BY LenProperties
<1>2. IsFiniteSet(I) /\ Cardinality(I) = Len(q)
  <2>1. 1 \in Int /\ Len(q) \in Int /\ (1 > Len(q) => Len(q) = 0)
    BY <1>1
  <2>2. IsFiniteSet(1..Len(q)) /\ Cardinality(1..Len(q)) = IF 1 > Len(q) THEN 0 ELSE Len(q) - 1 + 1
    BY <2>1, FS_Interval
  <2> QED
    BY <2>1, <2>2
<1>3. f \in Surjection(I, R)
  BY DEF Surjection
<1> HIDE DEF f, I
<1>4. IsFiniteSet(R) /\ Cardinality(R) <= Cardinality(I)
  BY <1>2, <1>3, FS_Surjection
<1>5. T \in SUBSET R
  BY DEF Listed, I
<1> HIDE DEF R
<1>6. IsFiniteSet(T) /\ Cardinality(T) <= Cardinality(R)
  BY <1>4, <1>5, FS_Subset
<1>7. Cardinality(T) \in Nat /\ Cardinality(R) \in Nat
  BY <1>4, <1>6, FS_CardinalityType
<1> QED
  BY <1>1, <1>2, <1>4, <1>6, <1>7

\* DynamicCap: every dynamic database is in the LRU order when nobody is at work.
LEMMA DynamicCapHolds ==
  ASSUME RegistrationAssumption, RegistrationInv, Uncancelled
  PROVE  DynamicCap
<1> DEFINE T == {n \in Names \ Static : config[n] # None}
<1> SUFFICES ASSUME holder = None PROVE Cardinality(T) <= MaxDatabases
  BY DEF DynamicCap
<1>1. \A r \in Registrars : registrar[r].pc # "evicting"
  BY DEF RegistrationInv, RegistrationTypeOK, RegistrationAssumption
<1>2. AllArranged
  BY DEF RegistrationInv
<1>3. (\A n \in T : Listed(dynamic, n)) /\ Len(dynamic) <= MaxDatabases
  BY <1>1, <1>2 DEF AllArranged
<1>4. dynamic \in Seq(Names \ Static) /\ MaxDatabases \in Nat
  BY DEF RegistrationInv, RegistrationTypeOK, RegistrationAssumption
<1>5. IsFiniteSet(T)
  <2>1. T \in SUBSET Names
    OBVIOUS
  <2> HIDE DEF T
  <2> QED
    BY <2>1, NamesFinite, FS_Subset
<1> HIDE DEF T
<1>6. Cardinality(T) <= Len(dynamic)
  BY <1>3, <1>4, NoMoreThanLength
<1>7. Cardinality(T) \in Nat /\ Len(dynamic) \in Nat
  BY <1>4, <1>5, FS_CardinalityType, LenProperties
<1>8. Cardinality(T) <= MaxDatabases
  BY <1>3, <1>4, <1>6, <1>7
<1> QED
  BY <1>8 DEF T

\* LimiterCurrent: queries make limiters without the registration lock, also while a
\* registration is suspended in a purge, and none of them outlives the settings it was
\* made from.
THEOREM LimitersFollowSettings ==
  ASSUME RegistrationAssumption
  PROVE  RegistrationSpec => []LimiterCurrent
<1>1. RegistrationInv => LimiterCurrent
  BY WorldParts DEF RegistrationInv, Fine, Current, LimiterCurrent
<1> QED
  BY <1>1, RegistrationInvariance, PTL

\* WithinBudget, whoever is cancelled: the budget is compared before the purge of a replaced
\* database, and the map that it was compared with does not change during the purge.
THEOREM BudgetIsKept ==
  ASSUME RegistrationAssumption
  PROVE  RegistrationSpec => [](RegistrationTypeOK /\ WithinBudget)
<1>1. RegistrationInv => RegistrationTypeOK /\ WithinBudget
  BY WorldParts DEF RegistrationInv, Fine, WithinBudget
<1> QED
  BY <1>1, RegistrationInvariance, PTL

\* CapsHold: neither the budget nor max_databases is exceeded between registrations, when no
\* registrar is cancelled while it evicts a database (such a database is out of the LRU order
\* and still in the map, and is not evicted again).
THEOREM BothCapsHold ==
  ASSUME RegistrationAssumption, "evicting" \notin CancelledAt
  PROVE  RegistrationSpec => []CapsHold
<1>1. Uncancelled
  BY DEF Uncancelled
<1>2. RegistrationInv => CapsHold
  BY <1>1, WorldParts, DynamicCapHolds
     DEF RegistrationInv, Fine, WithinBudget, CapsHold
<1> QED
  BY <1>2, RegistrationInvariance, PTL

=============================================================================
