------------------------ MODULE BatchCollector_proofs ------------------------
(***************************************************************************)
(* Proofs about BatchCollector: whatever the interleaving of producers,    *)
(* flushes, closes, the timer and cancellations, items reach the callback  *)
(* once and in order, in batches within the limit, and no item is left in  *)
(* the buffer without a timer.                                             *)
(***************************************************************************)
EXTENDS BatchCollector, SequenceTheorems, TLAPS

Tasks == Callers \cup {Timer}

\* Only the holder of the lock is inside the callback, the timer that cancelled itself
\* included; so nobody fills the buffer while no timer can be armed.
TurnInv ==
  /\ \A t \in Callers : pc[t] = "flushing" => Holds(t)
  /\ timer = "doomed" => Holds(Timer)

\* What the steps of the queue rely on and restore.
QueueInv == TypeOK /\ TurnInv

\* Where the items are.
ItemsInv == HandedInOrder /\ WithinMaxSize /\ TimerArmed /\ ClosedIsEmpty

IInv == QueueInv /\ ItemsInv

(***************************************************************************)
(* The queue at the lock: what joining, leaving and handing over do        *)
(***************************************************************************)

\* A task that asks for the lock is in the queue, behind the others.
LEMMA Joining ==
  ASSUME NEW S, NEW q \in Seq(S), NEW e \in S, IsInjective(q), ~Contains(q, e)
  PROVE  /\ Append(q, e) \in Seq(S) /\ Append(q, e) # <<>> /\ IsInjective(Append(q, e))
         /\ \A x : Contains(Append(q, e), x) <=> Contains(q, x) \/ x = e
         /\ q # <<>> => Head(Append(q, e)) = Head(q)
<1>1. /\ Len(q) \in Nat /\ DOMAIN q = 1..Len(q)
      /\ \A i \in 1..Len(q) : q[i] # e
      /\ q # <<>> => Len(q) > 0
  BY LenProperties, EmptySeq DEF Contains
<1>2. /\ Append(q, e) \in Seq(S) /\ Len(Append(q, e)) = Len(q) + 1
      /\ \A i \in 1..Len(q) : Append(q, e)[i] = q[i]
      /\ Append(q, e)[Len(q) + 1] = e
  BY AppendProperties
<1>3. DOMAIN Append(q, e) = 1..Len(q) + 1
  BY <1>2, LenProperties
<1>4. IsInjective(Append(q, e))
  BY <1>1, <1>2, <1>3 DEF IsInjective
<1>5. \A x : Contains(Append(q, e), x) <=> Contains(q, x) \/ x = e
  BY <1>1, <1>2 DEF Contains
<1>6. Append(q, e) # <<>>
  BY <1>1, <1>2, EmptySeq
<1>7. q # <<>> => Head(Append(q, e)) = Head(q)
  BY <1>1, <1>2
<1> QED
  BY <1>2, <1>4, <1>5, <1>6, <1>7

\* The lock is handed to the next task, and its holder is out of the queue.
LEMMA HandingOver ==
  ASSUME NEW S, NEW q \in Seq(S), q # <<>>, IsInjective(q)
  PROVE  /\ Tail(q) \in Seq(S) /\ IsInjective(Tail(q))
         /\ \A x : Contains(Tail(q), x) <=> Contains(q, x) /\ x # Head(q)
  BY HeadTailProperties DEF IsInjective, Contains

\* What is left of a sequence without the element at one place.
LEMMA Removing ==
  ASSUME NEW S, NEW q \in Seq(S), NEW k \in 1..Len(q)
  PROVE  /\ RemoveAt(q, k) \in Seq(S)
         /\ Len(RemoveAt(q, k)) = Len(q) - 1
         /\ \A i \in 1..Len(q) - 1 : RemoveAt(q, k)[i] = IF i < k THEN q[i] ELSE q[i + 1]
<1> DEFINE before == SubSeq(q, 1, k - 1)
           after == SubSeq(q, k + 1, Len(q))
<1>1. Len(q) \in Nat /\ \A i \in 1..Len(q) : q[i] \in S
  BY LenProperties
<1>2. /\ before \in Seq(S) /\ Len(before) = k - 1
      /\ \A i \in 1..k - 1 : before[i] = q[i]
  BY <1>1, SubSeqProperties
<1>3. /\ after \in Seq(S) /\ Len(after) = Len(q) - k
      /\ \A i \in 1..Len(q) - k : after[i] = q[k + i]
  BY <1>1, SubSeqProperties
<1>4. RemoveAt(q, k) = before \o after
  BY DEF RemoveAt
<1> HIDE DEF before, after
<1>5. /\ before \o after \in Seq(S)
      /\ Len(before \o after) = Len(before) + Len(after)
      /\ \A i \in 1..Len(before) + Len(after) :
           (before \o after)[i] = IF i <= Len(before) THEN before[i] ELSE after[i - Len(before)]
  BY <1>2, <1>3, ConcatProperties
<1> QED
  BY <1>1, <1>2, <1>3, <1>4, <1>5

\* The place that RemoveFirst looks for is where the element is.
LEMMA Place ==
  ASSUME NEW S, NEW q \in Seq(S), NEW e, IsInjective(q), NEW k \in 1..Len(q), q[k] = e
  PROVE  RemoveFirst(q, e) = RemoveAt(q, k)
<1>1. {i \in 1..Len(q) : q[i] = e} = {k}
  BY LenProperties DEF IsInjective
<1>2. Min({k}) = k
  BY LenProperties DEF Min
<1>3. SelectInSeq(q, LAMBDA v : v = e) = k
  BY <1>1, <1>2 DEF SelectInSeq
<1> QED
  BY <1>3 DEF RemoveFirst

\* A task that is cancelled leaves the queue, and the others keep their places.
LEMMA Leaving ==
  ASSUME NEW S, NEW q \in Seq(S), NEW e, IsInjective(q)
  PROVE  /\ RemoveFirst(q, e) \in Seq(S) /\ IsInjective(RemoveFirst(q, e))
         /\ \A x : Contains(RemoveFirst(q, e), x) <=> Contains(q, x) /\ x # e
         /\ q # <<>> /\ Head(q) # e =>
              RemoveFirst(q, e) # <<>> /\ Head(RemoveFirst(q, e)) = Head(q)
<1> DEFINE r == RemoveFirst(q, e)
<1>1. CASE ~\E i \in 1..Len(q) : q[i] = e
  <2>1. r = q
    BY <1>1 DEF RemoveFirst
  <2> QED
    BY <1>1, <2>1 DEF Contains
<1>2. CASE \E i \in 1..Len(q) : q[i] = e
  <2>1. PICK k \in 1..Len(q) : q[k] = e
    BY <1>2
  <2>2. r = RemoveAt(q, k)
    BY <2>1, Place
  <2> HIDE DEF r
  <2>3. /\ r \in Seq(S) /\ Len(r) = Len(q) - 1
        /\ \A i \in 1..Len(q) - 1 : r[i] = IF i < k THEN q[i] ELSE q[i + 1]
    BY <2>2, Removing
  <2>4. Len(q) \in Nat /\ DOMAIN q = 1..Len(q) /\ DOMAIN r = 1..Len(q) - 1
    BY <2>3, LenProperties
  <2>5. \A i, j \in 1..Len(q) : q[i] = q[j] => i = j
    BY <2>4 DEF IsInjective
  <2>6. IsInjective(r)
    BY <2>3, <2>4, <2>5 DEF IsInjective
  <2>7. ASSUME NEW x PROVE Contains(r, x) <=> Contains(q, x) /\ x # e
    <3>1. ASSUME NEW i \in 1..Len(r), r[i] = x PROVE Contains(q, x) /\ x # e
      BY <2>1, <2>3, <2>4, <2>5, <3>1 DEF Contains
    <3>2. ASSUME NEW i \in 1..Len(q), q[i] = x, x # e PROVE Contains(r, x)
      <4>1. CASE i < k
        BY <2>3, <2>4, <3>2, <4>1 DEF Contains
      <4>2. CASE i > k
        <5>1. i - 1 \in 1..Len(r) /\ r[i - 1] = x
          BY <2>3, <2>4, <3>2, <4>2
        <5> QED
          BY <5>1 DEF Contains
      <4> QED
        BY <2>1, <2>4, <3>2, <4>1, <4>2
    <3> QED
      BY <3>1, <3>2 DEF Contains
  <2>8. ASSUME q # <<>>, Head(q) # e PROVE r # <<>> /\ Head(r) = Head(q)
    <3>1. Len(q) > 0 /\ q[1] = Head(q) /\ k > 1
      BY <2>1, <2>4, <2>8, EmptySeq
    <3>2. Len(r) > 0 /\ r[1] = q[1]
      BY <2>3, <2>4, <3>1
    <3> QED
      BY <2>3, <3>1, <3>2, EmptySeq
  <2> QED
    BY <2>3, <2>6, <2>7, <2>8 DEF r
<1> QED
  BY <1>1, <1>2

(***************************************************************************)
(* The queue and the callers under every step                              *)
(***************************************************************************)

\* Callers and the timer are different tasks.
LEMMA TimerIsNoCaller == Timer \notin Callers
  BY CollectorAssumption DEF Callers

\* The three ways the queue of a state changes, for the tasks of the collector.
LEMMA QueueSteps ==
  ASSUME QueueInv, NEW t \in Tasks
  PROVE  /\ ~Contains(queue, t) =>
              /\ Append(queue, t) \in Seq(Tasks) /\ IsInjective(Append(queue, t))
              /\ \A x : Contains(Append(queue, t), x) <=> Contains(queue, x) \/ x = t
              /\ \A x : Holds(x) => Append(queue, t) # <<>> /\ Head(Append(queue, t)) = x
         /\ Holds(t) =>
              /\ Tail(queue) \in Seq(Tasks) /\ IsInjective(Tail(queue))
              /\ \A x : Contains(Tail(queue), x) <=> Contains(queue, x) /\ x # t
         /\ Without(t) \in Seq(Tasks) /\ IsInjective(Without(t))
         /\ \A x : Contains(Without(t), x) <=> Contains(queue, x) /\ x # t
         /\ \A x : Holds(x) /\ x # t => Without(t) # <<>> /\ Head(Without(t)) = x
<1>1. queue \in Seq(Tasks) /\ IsInjective(queue)
  BY DEF QueueInv, TypeOK, Tasks
<1>2. ~Contains(queue, t) =>
        /\ Append(queue, t) \in Seq(Tasks) /\ IsInjective(Append(queue, t))
        /\ \A x : Contains(Append(queue, t), x) <=> Contains(queue, x) \/ x = t
        /\ \A x : Holds(x) => Append(queue, t) # <<>> /\ Head(Append(queue, t)) = x
  BY <1>1, Joining DEF Holds
<1>3. Holds(t) =>
        /\ Tail(queue) \in Seq(Tasks) /\ IsInjective(Tail(queue))
        /\ \A x : Contains(Tail(queue), x) <=> Contains(queue, x) /\ x # t
  BY <1>1, HandingOver DEF Holds
<1>4. /\ Without(t) \in Seq(Tasks) /\ IsInjective(Without(t))
      /\ \A x : Contains(Without(t), x) <=> Contains(queue, x) /\ x # t
      /\ \A x : Holds(x) /\ x # t => Without(t) # <<>> /\ Head(Without(t)) = x
  BY <1>1, Leaving DEF Holds, Without
<1> QED
  BY <1>2, <1>3, <1>4

\* _flush_locked of a caller: the timer is out of the queue, and the caller has either
\* left it too or holds it for the callback.
LEMMA FlushLockedQueue ==
  ASSUME QueueInv, NEW t \in Callers, Entered(t), NEW items \in Seq(Producers),
         FlushLocked(t, items),
         closed' \in BOOLEAN, added' \in Seq(Producers), cut' \subseteq Producers
  PROVE  QueueInv'
<1> DEFINE r == Without(Timer)
<1>1. t # Timer /\ Holds(t) /\ pc[t] = "waiting" /\ \A u \in Callers : Holds(u) => u = t
  BY TimerIsNoCaller DEF Entered, Holds
<1>2. /\ r \in Seq(Tasks) /\ IsInjective(r)
      /\ \A x : Contains(r, x) <=> Contains(queue, x) /\ x # Timer
      /\ r # <<>> /\ Head(r) = t
  BY <1>1, QueueSteps DEF Tasks
<1> HIDE DEF r
<1>3. /\ Tail(r) \in Seq(Tasks) /\ IsInjective(Tail(r))
      /\ \A x : Contains(Tail(r), x) <=> Contains(r, x) /\ x # t
  BY <1>2, HandingOver
<1>4. /\ pc \in [Callers -> {"new", "waiting", "flushing", "returned", "raised"}]
      /\ handed \in Seq(Producers)
      /\ \A u \in Callers : (pc[u] \in {"waiting", "flushing"}) <=> Contains(queue, u)
      /\ \A u \in Callers : pc[u] = "flushing" => u = t
  BY <1>1 DEF QueueInv, TypeOK, TurnInv
<1>5. /\ timer' = "none" /\ buffer' = <<>> /\ batch' = items /\ handed' = handed \o items
      /\ \/ pc' = [pc EXCEPT ![t] = "returned"] /\ queue' = Tail(r)
         \/ pc' = [pc EXCEPT ![t] = "flushing"] /\ queue' = r
  BY DEF FlushLocked, Disarmed, Goes, r
<1>6. handed' \in Seq(Producers) /\ buffer' \in Seq(Producers) /\ batch' \in Seq(Producers)
  BY <1>4, <1>5, ConcatProperties, EmptySeq
<1>7. ~Contains(queue', Timer)
  BY <1>2, <1>3, <1>5
<1>8. CASE pc' = [pc EXCEPT ![t] = "returned"] /\ queue' = Tail(r)
  <2>1. \A u \in Callers : (pc'[u] \in {"waiting", "flushing"}) <=> Contains(queue', u)
    BY <1>2, <1>3, <1>4, <1>8, TimerIsNoCaller
  <2>2. TypeOK'
    BY <1>3, <1>4, <1>5, <1>6, <1>7, <1>8, <2>1 DEF TypeOK, Tasks
  <2>3. \A u \in Callers : pc'[u] # "flushing"
    BY <1>4, <1>8
  <2> QED
    BY <1>5, <2>2, <2>3 DEF QueueInv, TurnInv
<1>9. CASE pc' = [pc EXCEPT ![t] = "flushing"] /\ queue' = r
  <2>1. \A u \in Callers : (pc'[u] \in {"waiting", "flushing"}) <=> Contains(queue', u)
    BY <1>1, <1>2, <1>4, <1>9, TimerIsNoCaller
  <2>2. TypeOK'
    BY <1>2, <1>4, <1>5, <1>6, <1>7, <1>9, <2>1 DEF TypeOK, Tasks
  <2>3. Holds(t)' /\ \A u \in Callers : pc'[u] = "flushing" => u = t
    BY <1>2, <1>4, <1>9 DEF Holds
  <2> QED
    BY <1>5, <2>2, <2>3 DEF QueueInv, TurnInv
<1> QED
  BY <1>5, <1>8, <1>9

\* A caller that has the lock, or waits for it, ends and is out of the queue.
LEMMA EndsQueue ==
  ASSUME QueueInv, NEW t \in Callers, NEW how \in {"returned", "raised"}, Goes(t, how),
         \/ Holds(t) /\ queue' = Tail(queue)
         \/ pc[t] = "waiting" /\ queue' = Without(t),
         \/ timer' = timer
         \/ timer = "none" /\ timer' = "sleeping",
         buffer' \in Seq(Producers), batch' \in Seq(Producers), added' \in Seq(Producers),
         handed' = handed, closed' = closed, cut' = cut
  PROVE  QueueInv'
<1>1. t \in Tasks /\ t # Timer
  BY TimerIsNoCaller DEF Tasks
<1>2. /\ pc \in [Callers -> {"new", "waiting", "flushing", "returned", "raised"}]
      /\ timer \in {"none", "sleeping", "waiting", "doomed"}
      /\ \A u \in Callers : (pc[u] \in {"waiting", "flushing"}) <=> Contains(queue, u)
      /\ timer \in {"waiting", "doomed"} <=> Contains(queue, Timer)
  BY DEF QueueInv, TypeOK
<1>3. /\ queue' \in Seq(Tasks) /\ IsInjective(queue')
      /\ \A x : Contains(queue', x) <=> Contains(queue, x) /\ x # t
  <2>1. CASE Holds(t) /\ queue' = Tail(queue)
    BY <1>1, <2>1, QueueSteps
  <2>2. CASE queue' = Without(t)
    BY <1>1, <2>2, QueueSteps
  <2> QED
    BY <2>1, <2>2
<1>4. \A u \in Callers : pc'[u] = IF u = t THEN how ELSE pc[u]
  BY <1>2 DEF Goes
<1>5. pc' \in [Callers -> {"new", "waiting", "flushing", "returned", "raised"}]
  BY <1>2 DEF Goes
<1>6. \A u \in Callers : (pc'[u] \in {"waiting", "flushing"}) <=> Contains(queue', u)
  BY <1>2, <1>3, <1>4
<1>7. timer' \in {"waiting", "doomed"} <=> Contains(queue', Timer)
  BY <1>1, <1>2, <1>3
<1>8. TypeOK'
  <2>1. timer' \in {"none", "sleeping", "waiting", "doomed"} /\ closed' \in BOOLEAN
        /\ cut' \subseteq Producers /\ handed' \in Seq(Producers)
    BY <1>2 DEF QueueInv, TypeOK
  <2> QED
    BY <1>3, <1>5, <1>6, <1>7, <2>1 DEF TypeOK, Tasks
<1>9. ASSUME NEW x \in Tasks, Holds(x), x # t
      PROVE  Holds(x)'
  <2>1. queue' = Without(t)
    BY <1>9 DEF Holds
  <2> QED
    BY <1>1, <1>9, <2>1, QueueSteps DEF Holds
<1>10. TurnInv'
  <2>1. ASSUME NEW u \in Callers, pc'[u] = "flushing" PROVE Holds(u)'
    BY <1>4, <1>9, <2>1 DEF QueueInv, TurnInv, Tasks
  <2>2. ASSUME timer' = "doomed" PROVE Holds(Timer)'
    BY <1>1, <1>9, <2>2 DEF QueueInv, TurnInv, Tasks
  <2> QED
    BY <2>1, <2>2 DEF TurnInv
<1> QED
  BY <1>8, <1>10 DEF QueueInv

\* A task that asks for the lock leaves the holder where it is.
LEMMA AsksQueue ==
  ASSUME QueueInv, NEW t \in Tasks, ~Contains(queue, t), queue' = Append(queue, t),
         \/ t \in Callers /\ Goes(t, "waiting") /\ timer' = timer
         \/ t = Timer /\ timer' = "waiting" /\ pc' = pc,
         UNCHANGED <<buffer, closed, batch, added, handed, cut>>
  PROVE  QueueInv'
<1>1. /\ pc \in [Callers -> {"new", "waiting", "flushing", "returned", "raised"}]
      /\ timer \in {"none", "sleeping", "waiting", "doomed"}
      /\ \A u \in Callers : (pc[u] \in {"waiting", "flushing"}) <=> Contains(queue, u)
      /\ timer \in {"waiting", "doomed"} <=> Contains(queue, Timer)
  BY DEF QueueInv, TypeOK
<1>2. /\ queue' \in Seq(Tasks) /\ IsInjective(queue')
      /\ \A x : Contains(queue', x) <=> Contains(queue, x) \/ x = t
      /\ \A x : Holds(x) => queue' # <<>> /\ Head(queue') = x
  BY QueueSteps
<1>3. CASE t \in Callers /\ Goes(t, "waiting") /\ timer' = timer
  <2>1. \A u \in Callers : pc'[u] = IF u = t THEN "waiting" ELSE pc[u]
    BY <1>1, <1>3 DEF Goes
  <2>2. pc' \in [Callers -> {"new", "waiting", "flushing", "returned", "raised"}]
    BY <1>1, <1>3 DEF Goes
  <2>3. \A u \in Callers : (pc'[u] \in {"waiting", "flushing"}) <=> Contains(queue', u)
    BY <1>1, <1>2, <2>1
  <2>4. timer' \in {"waiting", "doomed"} <=> Contains(queue', Timer)
    BY <1>1, <1>2, <1>3, TimerIsNoCaller
  <2>5. TypeOK'
    BY <1>2, <1>3, <2>2, <2>3, <2>4 DEF QueueInv, TypeOK, Tasks
  <2>6. TurnInv'
    BY <1>2, <1>3, <2>1 DEF QueueInv, TurnInv, Holds
  <2> QED
    BY <2>5, <2>6 DEF QueueInv
<1>4. CASE t = Timer /\ timer' = "waiting" /\ pc' = pc
  <2>1. \A u \in Callers : (pc'[u] \in {"waiting", "flushing"}) <=> Contains(queue', u)
    BY <1>1, <1>2, <1>4, TimerIsNoCaller
  <2>2. TypeOK'
    BY <1>2, <1>4, <2>1 DEF QueueInv, TypeOK, Tasks
  <2>3. TurnInv'
    BY <1>2, <1>4 DEF QueueInv, TurnInv, Holds
  <2> QED
    BY <2>2, <2>3 DEF QueueInv
<1> QED
  BY <1>3, <1>4

\* The timer flushes in its own task, which keeps the lock.
LEMMA TimerFlushQueue == QueueInv /\ TimerFlush => QueueInv'
<1> SUFFICES ASSUME QueueInv, TimerFlush PROVE QueueInv'
  OBVIOUS
<1>1. handed' \in Seq(Producers) /\ buffer' \in Seq(Producers) /\ batch' \in Seq(Producers)
  BY ConcatProperties, EmptySeq DEF QueueInv, TypeOK, TimerFlush
<1>2. TypeOK'
  BY <1>1 DEF QueueInv, TypeOK, TimerFlush
<1>3. TurnInv'
  BY DEF QueueInv, TurnInv, TimerFlush, Holds
<1> QED
  BY <1>2, <1>3 DEF QueueInv

\* The timer's task ends and hands the lock over.
LEMMA TimerDoneQueue ==
  ASSUME QueueInv, TimerDone, cut' \subseteq Producers PROVE QueueInv'
<1>1. /\ queue' = Tail(queue) /\ timer' = "none" /\ pc' = pc /\ Holds(Timer)
      /\ batch' = <<>>
  BY DEF TimerDone, Disarmed
<1>2. /\ queue' \in Seq(Tasks) /\ IsInjective(queue')
      /\ \A x : Contains(queue', x) <=> Contains(queue, x) /\ x # Timer
  BY <1>1, QueueSteps DEF Tasks
<1>3. \A u \in Callers : (pc'[u] \in {"waiting", "flushing"}) <=> Contains(queue', u)
  BY <1>1, <1>2, TimerIsNoCaller DEF QueueInv, TypeOK
<1>4. TypeOK'
  BY <1>1, <1>2, <1>3, EmptySeq DEF QueueInv, TypeOK, TimerDone, Tasks
<1>5. \A u \in Callers : pc[u] # "flushing"
  BY <1>1, TimerIsNoCaller DEF QueueInv, TurnInv, Holds
<1>6. TurnInv'
  BY <1>1, <1>5 DEF TurnInv
<1> QED
  BY <1>4, <1>6 DEF QueueInv

(***************************************************************************)
(* The items under every step                                              *)
(***************************************************************************)

\* An item appended to the buffer is the last of the items that were added.
LEMMA Appended ==
  ASSUME IInv, NEW t \in Producers
  PROVE  /\ Append(buffer, t) \in Seq(Producers) /\ Append(added, t) \in Seq(Producers)
         /\ Len(Append(buffer, t)) = Len(buffer) + 1 /\ Len(buffer) \in Nat
         /\ handed \o Append(buffer, t) = Append(added, t)
<1>1. buffer \in Seq(Producers) /\ handed \in Seq(Producers) /\ added \in Seq(Producers)
  BY DEF IInv, QueueInv, TypeOK
<1>2. <<t>> \in Seq(Producers)
  OBVIOUS
<1>3. Append(buffer, t) = buffer \o <<t>> /\ Append(added, t) = added \o <<t>>
  BY <1>1, AppendIsConcat
<1>4. handed \o (buffer \o <<t>>) = (handed \o buffer) \o <<t>>
  BY <1>1, <1>2, ConcatAssociative
<1>5. handed \o buffer = added
  BY DEF IInv, ItemsInv, HandedInOrder
<1>6. /\ Append(buffer, t) \in Seq(Producers) /\ Append(added, t) \in Seq(Producers)
      /\ Len(Append(buffer, t)) = Len(buffer) + 1 /\ Len(buffer) \in Nat
  BY <1>1, AppendProperties, LenProperties
<1> QED
  BY <1>3, <1>4, <1>5, <1>6

\* Handing over all that has been added and not been handed over leaves nothing behind.
LEMMA FlushLockedItems ==
  ASSUME IInv, NEW t, NEW items \in Seq(Producers), Len(items) <= MaxSize,
         FlushLocked(t, items), added' = handed \o items
  PROVE  ItemsInv'
<1>1. buffer' = <<>> /\ timer' = "none" /\ batch' = items /\ handed' = handed \o items
  BY DEF FlushLocked, Disarmed
<1>2. handed' \in Seq(Producers)
  BY <1>1, ConcatProperties DEF IInv, QueueInv, TypeOK
<1>3. HandedInOrder'
  BY <1>1, <1>2, ConcatEmptySeq DEF HandedInOrder
<1>4. WithinMaxSize'
  BY <1>1, EmptySeq, CollectorAssumption DEF WithinMaxSize
<1>5. TimerArmed' /\ ClosedIsEmpty'
  BY <1>1 DEF TimerArmed, ClosedIsEmpty
<1> QED
  BY <1>3, <1>4, <1>5 DEF ItemsInv

\* Steps that touch neither the buffer nor the timer, and at most end a callback.
LEMMA SameItems ==
  ASSUME IInv, UNCHANGED <<buffer, closed, added, handed, timer>>,
         batch' = batch \/ batch' = <<>>
  PROVE  ItemsInv'
<1>1. WithinMaxSize'
  BY EmptySeq, CollectorAssumption DEF IInv, ItemsInv, WithinMaxSize
<1> QED
  BY <1>1 DEF IInv, ItemsInv, HandedInOrder, TimerArmed, ClosedIsEmpty

(***************************************************************************)
(* The invariant under every action                                        *)
(***************************************************************************)

LEMMA CallStep == ASSUME IInv, NEW t \in Callers, Call(t) PROVE IInv'
<1>1. ~Contains(queue, t) /\ t \in Tasks
  BY DEF Call, IInv, QueueInv, TypeOK, Tasks
<1>2. QueueInv'
  BY <1>1, AsksQueue DEF Call, IInv
<1>3. ItemsInv'
  BY SameItems DEF Call
<1> QED
  BY <1>2, <1>3 DEF IInv

LEMMA AppendFlushStep ==
  ASSUME IInv, NEW t \in Callers, t \in Producers, Append_Flush(t) PROVE IInv'
<1> DEFINE items == Append(buffer, t)
<1>1. /\ Entered(t) /\ FlushLocked(t, items) /\ added' = Append(added, t)
      /\ closed' = closed /\ cut' = cut
  BY DEF Append_Flush
<1>2. /\ items \in Seq(Producers) /\ Append(added, t) \in Seq(Producers)
      /\ Len(items) = Len(buffer) + 1 /\ Len(buffer) \in Nat
      /\ handed \o items = Append(added, t)
  BY Appended
<1> HIDE DEF items
<1>3. added' \in Seq(Producers) /\ added' = handed \o items
  BY <1>1, <1>2
<1>4. Len(items) <= MaxSize
  BY <1>2, CollectorAssumption DEF IInv, ItemsInv, WithinMaxSize
<1>5. QueueInv'
  <2>1. closed' \in BOOLEAN /\ cut' \subseteq Producers
    BY <1>1 DEF IInv, QueueInv, TypeOK
  <2> QED
    BY <1>1, <1>2, <1>3, <2>1, FlushLockedQueue DEF IInv
<1>6. ItemsInv'
  BY <1>1, <1>2, <1>3, <1>4, FlushLockedItems
<1> QED
  BY <1>5, <1>6 DEF IInv

LEMMA AppendArmStep ==
  ASSUME IInv, NEW t \in Callers, t \in Producers, Append_Arm(t) PROVE IInv'
<1> DEFINE items == Append(buffer, t)
<1>1. /\ Holds(t) /\ pc[t] = "waiting" /\ ~closed /\ ~Full(items)
      /\ added' = Append(added, t) /\ buffer' = items
      /\ timer' = (IF timer = "none" THEN "sleeping" ELSE timer)
      /\ Goes(t, "returned") /\ queue' = Tail(queue)
      /\ UNCHANGED <<closed, batch, handed, cut>>
  BY DEF Append_Arm, Entered
<1>2. /\ items \in Seq(Producers) /\ Append(added, t) \in Seq(Producers)
      /\ Len(items) = Len(buffer) + 1 /\ Len(buffer) \in Nat
      /\ handed \o items = Append(added, t)
  BY Appended
<1> HIDE DEF items
<1>3. added' \in Seq(Producers) /\ added' = handed \o items /\ items \in Seq(Producers)
  BY <1>1, <1>2
<1>4. Len(items) < MaxSize
  BY <1>1, <1>2, CollectorAssumption DEF Full
<1>5. QueueInv'
  <2>1. batch' \in Seq(Producers)
    BY <1>1 DEF IInv, QueueInv, TypeOK
  <2>2. \/ timer' = timer
        \/ timer = "none" /\ timer' = "sleeping"
    BY <1>1
  <2> QED
    BY <1>1, <1>3, <2>1, <2>2, EndsQueue DEF IInv
<1>6. timer' \in {"sleeping", "waiting"}
  <2>1. timer # "doomed"
    BY <1>1, TimerIsNoCaller DEF IInv, QueueInv, TurnInv, Holds
  <2> QED
    BY <1>1, <2>1 DEF IInv, QueueInv, TypeOK
<1>7. HandedInOrder' /\ ClosedIsEmpty' /\ TimerArmed'
  BY <1>1, <1>3, <1>6 DEF HandedInOrder, ClosedIsEmpty, TimerArmed
<1>8. WithinMaxSize'
  BY <1>1, <1>4 DEF IInv, ItemsInv, WithinMaxSize
<1> QED
  BY <1>5, <1>7, <1>8 DEF IInv, ItemsInv

LEMMA AppendClosedStep == ASSUME IInv, NEW t \in Callers, Append_Closed(t) PROVE IInv'
<1>1. /\ Holds(t) /\ Goes(t, "raised") /\ queue' = Tail(queue)
      /\ UNCHANGED <<timer, buffer, closed, batch, added, handed, cut>>
  BY DEF Append_Closed, Entered
<1>2. batch' \in Seq(Producers) /\ buffer' \in Seq(Producers) /\ added' \in Seq(Producers)
  BY <1>1 DEF IInv, QueueInv, TypeOK
<1>3. QueueInv'
  BY <1>1, <1>2, EndsQueue DEF IInv
<1>4. ItemsInv'
  BY <1>1, SameItems
<1> QED
  BY <1>3, <1>4 DEF IInv

\* flush and close hand over the buffer as it is.
LEMMA FlushStep == ASSUME IInv, NEW t \in Callers, Flush(t) \/ Close(t) PROVE IInv'
<1>1. /\ Entered(t) /\ FlushLocked(t, buffer) /\ added' = added /\ cut' = cut
      /\ closed' = closed \/ closed' = TRUE
  BY DEF Flush, Close
<1>2. /\ buffer \in Seq(Producers) /\ added' \in Seq(Producers) /\ cut' \subseteq Producers
      /\ closed' \in BOOLEAN
  BY <1>1 DEF IInv, QueueInv, TypeOK
<1>3. added' = handed \o buffer
  BY <1>1 DEF IInv, ItemsInv, HandedInOrder
<1>4. Len(buffer) <= MaxSize
  <2>1. Len(buffer) \in Nat /\ Len(buffer) < MaxSize
    BY <1>2, LenProperties DEF IInv, ItemsInv, WithinMaxSize
  <2> QED
    BY <2>1, CollectorAssumption
<1>5. QueueInv'
  BY <1>1, <1>2, FlushLockedQueue DEF IInv
<1>6. ItemsInv'
  BY <1>1, <1>2, <1>3, <1>4, FlushLockedItems
<1> QED
  BY <1>5, <1>6 DEF IInv

LEMMA CallbackEndsStep == ASSUME IInv, NEW t \in Callers, CallbackEnds(t) PROVE IInv'
<1>1. /\ Holds(t) /\ queue' = Tail(queue) /\ batch' = <<>>
      /\ Goes(t, "returned") \/ Goes(t, "raised")
      /\ UNCHANGED <<timer, buffer, closed, added, handed, cut>>
  BY DEF CallbackEnds
<1>2. batch' \in Seq(Producers) /\ buffer' \in Seq(Producers) /\ added' \in Seq(Producers)
  BY <1>1, EmptySeq DEF IInv, QueueInv, TypeOK
<1>3. QueueInv'
  BY <1>1, <1>2, EndsQueue DEF IInv
<1>4. ItemsInv'
  BY <1>1, SameItems
<1> QED
  BY <1>3, <1>4 DEF IInv

LEMMA CancelWaitingStep == ASSUME IInv, NEW t \in Callers, CancelWaiting(t) PROVE IInv'
<1>1. /\ pc[t] = "waiting" /\ Goes(t, "raised") /\ queue' = Without(t)
      /\ UNCHANGED <<timer, buffer, closed, batch, added, handed, cut>>
  BY DEF CancelWaiting
<1>2. batch' \in Seq(Producers) /\ buffer' \in Seq(Producers) /\ added' \in Seq(Producers)
  BY <1>1 DEF IInv, QueueInv, TypeOK
<1>3. QueueInv'
  BY <1>1, <1>2, EndsQueue DEF IInv
<1>4. ItemsInv'
  BY <1>1, SameItems
<1> QED
  BY <1>3, <1>4 DEF IInv

LEMMA TimerFiresStep == IInv /\ TimerFires => IInv'
<1> SUFFICES ASSUME IInv, TimerFires PROVE IInv'
  OBVIOUS
<1>1. /\ timer = "sleeping" /\ timer' = "waiting" /\ queue' = Append(queue, Timer)
      /\ UNCHANGED <<pc, buffer, closed, batch, added, handed, cut>>
  BY DEF TimerFires
<1>2. ~Contains(queue, Timer)
  BY <1>1 DEF IInv, QueueInv, TypeOK
<1>3. QueueInv'
  BY <1>1, <1>2, AsksQueue DEF IInv, Tasks
<1>4. ItemsInv'
  BY <1>1 DEF IInv, ItemsInv, HandedInOrder, WithinMaxSize, TimerArmed, ClosedIsEmpty
<1> QED
  BY <1>3, <1>4 DEF IInv

LEMMA TimerFlushStep == IInv /\ TimerFlush => IInv'
<1> SUFFICES ASSUME IInv, TimerFlush PROVE IInv'
  OBVIOUS
<1>1. /\ timer = "waiting" /\ buffer' = <<>> /\ batch' = buffer /\ handed' = handed \o buffer
      /\ added' = added /\ closed' = closed
  BY DEF TimerFlush
<1>2. buffer \in Seq(Producers) /\ handed' \in Seq(Producers)
  BY <1>1, ConcatProperties DEF IInv, QueueInv, TypeOK
<1>3. HandedInOrder'
  BY <1>1, <1>2, ConcatEmptySeq DEF IInv, ItemsInv, HandedInOrder
<1>4. Len(buffer) \in Nat /\ Len(buffer) < MaxSize
  BY <1>2, LenProperties DEF IInv, ItemsInv, WithinMaxSize
<1>5. WithinMaxSize'
  BY <1>1, <1>4, EmptySeq, CollectorAssumption DEF WithinMaxSize
<1>6. TimerArmed' /\ ClosedIsEmpty'
  BY <1>1 DEF IInv, ItemsInv, TimerArmed, ClosedIsEmpty
<1> QED
  BY <1>3, <1>5, <1>6, TimerFlushQueue DEF IInv, ItemsInv

\* The timer's callback ends or is cut off; with the timer dying the buffer is empty.
LEMMA TimerDoneStep == ASSUME IInv, TimerEnds \/ TimerCutOff PROVE IInv'
<1>1. /\ TimerDone /\ timer = "doomed" /\ timer' = "none" /\ batch' = <<>>
      /\ UNCHANGED <<buffer, closed, added, handed>>
      /\ cut' = cut \/ cut' = cut \cup ToSet(batch)
  BY DEF TimerEnds, TimerCutOff, TimerDone, Disarmed
<1>2. cut' \subseteq Producers
  BY <1>1, LenProperties DEF IInv, QueueInv, TypeOK, ToSet
<1>3. QueueInv'
  BY <1>1, <1>2, TimerDoneQueue DEF IInv
<1>4. buffer = <<>>
  BY <1>1 DEF IInv, ItemsInv, TimerArmed
<1>5. HandedInOrder' /\ TimerArmed' /\ ClosedIsEmpty'
  BY <1>1, <1>4 DEF IInv, ItemsInv, HandedInOrder, TimerArmed, ClosedIsEmpty
<1>6. WithinMaxSize'
  BY <1>1, <1>4, EmptySeq, CollectorAssumption DEF WithinMaxSize
<1> QED
  BY <1>3, <1>5, <1>6 DEF IInv, ItemsInv

(***************************************************************************)
(* Theorems                                                                *)
(***************************************************************************)

LEMMA Initially == Init => IInv
<1> SUFFICES ASSUME Init PROVE IInv
  OBVIOUS
<1>1. Len(<<>>) = 0 /\ <<>> \in Seq(Tasks) /\ <<>> \in Seq(Producers)
  BY EmptySeq
<1>2. IsInjective(<<>>) /\ \A x : ~Contains(<<>>, x)
  BY <1>1, LenProperties DEF IsInjective, Contains
<1>3. TypeOK
  BY <1>1, <1>2 DEF Init, TypeOK, Tasks
<1>4. TurnInv
  BY DEF Init, TurnInv
<1>5. HandedInOrder
  BY <1>1, ConcatEmptySeq DEF Init, HandedInOrder
<1>6. WithinMaxSize /\ TimerArmed /\ ClosedIsEmpty
  BY <1>1, CollectorAssumption DEF Init, WithinMaxSize, TimerArmed, ClosedIsEmpty
<1> QED
  BY <1>3, <1>4, <1>5, <1>6 DEF IInv, QueueInv, ItemsInv

LEMMA Preserved == IInv /\ [Next]_vars => IInv'
<1> SUFFICES ASSUME IInv, [Next]_vars PROVE IInv'
  OBVIOUS
<1>1. ASSUME NEW t \in Callers, Call(t) PROVE IInv'
  BY <1>1, CallStep
<1>2. ASSUME NEW t \in Callers, Add(t) PROVE IInv'
  BY <1>2, AppendFlushStep, AppendArmStep, AppendClosedStep DEF Add
<1>3. ASSUME NEW t \in Callers, Flush(t) \/ Close(t) PROVE IInv'
  BY <1>3, FlushStep
<1>4. ASSUME NEW t \in Callers, CallbackEnds(t) PROVE IInv'
  BY <1>4, CallbackEndsStep
<1>5. ASSUME NEW t \in Callers, CancelWaiting(t) PROVE IInv'
  BY <1>5, CancelWaitingStep
<1>6. CASE TimerFires \/ TimerFlush \/ TimerEnds \/ TimerCutOff
  BY <1>6, TimerFiresStep, TimerFlushStep, TimerDoneStep
<1>7. CASE UNCHANGED vars
  BY <1>7 DEF vars, IInv, QueueInv, ItemsInv, TypeOK, TurnInv, Holds, HandedInOrder,
              WithinMaxSize, TimerArmed, ClosedIsEmpty
<1> QED
  BY <1>1, <1>2, <1>3, <1>4, <1>5, <1>6, <1>7 DEF Next

\* The inductive invariant, of every behaviour of the collector.
THEOREM Invariance == Spec => []IInv
  BY Initially, Preserved, PTL DEF Spec

\* Whoever flushes, is cancelled or fails in the meantime, the callback has been given what
\* was added, once and in order, except for what is in the buffer.
THEOREM InOrder == Spec => []HandedInOrder
<1>1. IInv => HandedInOrder
  BY DEF IInv, ItemsInv
<1> QED
  BY <1>1, Invariance, PTL

\* At every await the buffer is within max_size, has a timer when it has items, and is
\* empty once the collector is closed.
THEOREM Sound == Spec => []BufferSound
<1>1. IInv => BufferSound
  BY DEF IInv, QueueInv, ItemsInv, BufferSound
<1> QED
  BY <1>1, Invariance, PTL
=============================================================================
