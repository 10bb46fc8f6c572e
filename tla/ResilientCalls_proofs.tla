----------------------- MODULE ResilientCalls_proofs -----------------------
(***************************************************************************)
(* Proofs about ResilientCalls: type correctness, that no logical call has *)
(* its write applied twice, that backoffs stay within their limits, that   *)
(* the breaker serves whole cooldowns and that it moves only where its     *)
(* failures and probes justify it, for any number of callers, any policy   *)
(* and any breaker configuration.  Then about Decisions, which the same    *)
(* calls take: what is repeated, how long it may take, how rows are cut,   *)
(* which configurations are accepted.                                      *)
(***************************************************************************)
EXTENDS ResilientCalls, Decisions, FiniteSetTheorems, SequenceTheorems,
        WellFoundedInduction, TLAPS

(***************************************************************************)
(* The breaker's operators                                                 *)
(***************************************************************************)

\* Pruning a deque of ages leaves a deque of ages (CircuitBreaker._prune).
LEMMA PruneType ==
  ASSUME NEW f \in Seq(Ages)
  PROVE  Prune(f) \in Seq(Ages)
<1> DEFINE stale == {i \in 1 .. Len(f) : \A j \in 1 .. i : f[j] > WindowSeconds}
<1>1. Len(f) \in Nat /\ \A i \in 1 .. Len(f) : f[i] \in Ages
  BY LenProperties
<1>2. IsFiniteSet(1 .. Len(f))
  BY <1>1, FS_Interval
<1>3. IsFiniteSet(stale)
  BY <1>2, FS_Subset
<1>4. Cardinality(stale) \in Nat
  BY <1>3, FS_CardinalityType
<1>5. \A i \in Cardinality(stale) + 1 .. Len(f) : f[i] \in Ages
  BY <1>1, <1>4
<1>6. SubSeq(f, Cardinality(stale) + 1, Len(f)) \in Seq(Ages)
  <2> DEFINE m == Cardinality(stale) + 1
  <2>1. m \in Int /\ Len(f) \in Int /\ \A i \in m .. Len(f) : f[i] \in Ages
    BY <1>1, <1>4, <1>5
  <2> HIDE DEF m
  <2>2. SubSeq(f, m, Len(f)) \in Seq(Ages)
    BY <2>1, SubSeqProperties
  <2> QED
    BY <2>2 DEF m
<1> QED
  BY <1>6 DEF Prune

\* A tick keeps the deque a deque of ages, at most "too old".
LEMMA AgedType ==
  ASSUME NEW b \in Breakers
  PROVE  Aged(b) \in Breakers
<1> DEFINE f == b.failures
           g == [i \in 1 .. Len(f) |-> IF f[i] > WindowSeconds THEN f[i] ELSE f[i] + 1]
<1>1. f \in Seq(Ages) /\ b.openedAge \in 0 .. OpenSeconds
  BY DEF Breakers
<1>2. Len(f) \in Nat /\ \A i \in 1 .. Len(f) : f[i] \in Ages
  BY <1>1, LenProperties
<1>3. g \in [1 .. Len(f) -> Ages]
  BY <1>2, BreakerAssumption DEF Ages
<1>4. g \in Seq(Ages)
  BY <1>2, <1>3, SeqDef
<1> DEFINE age == IF b.openedAge < OpenSeconds THEN b.openedAge + 1 ELSE b.openedAge
<1>5. age \in 0 .. OpenSeconds
  BY <1>1, BreakerAssumption
<1>6. Aged(b) = [b EXCEPT !.failures = g, !.openedAge = age]
  BY DEF Aged
<1> HIDE DEF f, g, age
<1> QED
  BY <1>4, <1>5, <1>6 DEF Breakers

\* The feedback operators and the gate map breakers to breakers.
LEMMA AdvanceType ==
  ASSUME NEW b \in Breakers
  PROVE  Advance(b) \in Breakers
<1>1. "half_open" \in CircuitStates /\ 0 \in 0 .. HalfOpenMaxCalls
  BY BreakerAssumption DEF CircuitStates
<1>2. [b EXCEPT !.state = "half_open", !.halfOpenCalls = 0] \in Breakers
  BY <1>1 DEF Breakers
<1> QED
  BY <1>2 DEF Advance

LEMMA AdmittedType ==
  ASSUME NEW b \in Breakers, Admits(b)
  PROVE  Admitted(b) \in Breakers
BY BreakerAssumption DEF Admitted, Admits, Breakers, CircuitStates

LEMMA OnSuccessType ==
  ASSUME NEW b \in Breakers
  PROVE  OnSuccess(b) \in Breakers
<1> DEFINE w == IF b.state = "closed" THEN Prune(b.failures) ELSE b.failures
<1>1. w \in Seq(Ages)
  <2>1. b.failures \in Seq(Ages)
    BY DEF Breakers
  <2>2. Prune(b.failures) \in Seq(Ages)
    BY <2>1, PruneType
  <2> QED
    BY <2>1, <2>2
<1>2. << >> \in Seq(Ages)
  BY EmptySeq
<1>3. Reset(b) \in Breakers
  <2>1. "closed" \in CircuitStates /\ 0 \in 0 .. HalfOpenMaxCalls
    BY BreakerAssumption DEF CircuitStates
  <2> QED
    BY <1>2, <2>1 DEF Reset, Breakers
<1>4. [b EXCEPT !.failures = w] \in Breakers
  <2> HIDE DEF w
  <2> QED
    BY <1>1 DEF Breakers
<1> QED
  BY <1>3, <1>4 DEF OnSuccess

LEMMA OnFailureType ==
  ASSUME NEW b \in Breakers
  PROVE  OnFailure(b) \in Breakers
<1> DEFINE w == Prune(Append(b.failures, 0))
<1>1. Append(b.failures, 0) \in Seq(Ages)
  <2>1. 0 \in Ages
    BY BreakerAssumption DEF Ages
  <2>2. b.failures \in Seq(Ages)
    BY DEF Breakers
  <2> HIDE DEF w
  <2> QED
    BY <2>1, <2>2, AppendProperties
<1>2. w \in Seq(Ages)
  BY <1>1, PruneType
<1>3. << >> \in Seq(Ages)
  BY EmptySeq
<1>4. Opened(b) \in Breakers
  <2>1. "open" \in CircuitStates /\ 0 \in 0 .. HalfOpenMaxCalls /\ 0 \in 0 .. OpenSeconds
    BY BreakerAssumption DEF CircuitStates
  <2> QED
    BY <1>3, <2>1 DEF Opened, Breakers
<1>5. [b EXCEPT !.failures = w] \in Breakers
  <2> HIDE DEF w
  <2> QED
    BY <1>2 DEF Breakers
<1> QED
  BY <1>4, <1>5 DEF OnFailure

(***************************************************************************)
(* The inductive invariant                                                 *)
(***************************************************************************)

Inside == {"gate", "running", "sleeping"}

\* What holds of one call.  A call about to start an attempt has one left, it
\* has applied nothing while it is inside, and it has slept no longer than its
\* time inside plus the backoff it is in, which is shorter than its deadline.
CallInv(r) ==
  /\ r \in CallRecords
  /\ r.pc \in {"gate", "sleeping"} => r.attempt < Attempts
  /\ r.pc \in {"gate", "running"} => r.delay = 0
  /\ r.pc \in Inside => r.applied = 0 /\ r.slept <= r.elapsed + r.delay
  /\ r.applied <= 1
  /\ r.slept > 0 => r.slept < MaximumTotal
  /\ r.pc = "sleeping" /\ r.left # NoDeadline /\ r.delay > 0 => r.delay < r.left

\* An open breaker is at most as old as its last opening.
BreakerInv ==
  /\ breaker \in Breakers
  /\ sinceOpen \in 0 .. OpenSeconds
  /\ IF breaker.state = "open" THEN breaker.openedAge <= sinceOpen
                               ELSE sinceOpen >= OpenSeconds

IInv ==
  /\ BreakerInv
  /\ call \in [Calls -> CallRecords]
  /\ \A c \in Calls : CallInv(call[c])

LEMMA BackoffBounded ==
  ASSUME NEW n, NEW d \in BackoffDelays(n)
  PROVE  d \in 0 .. MaximumDelay
BY Zenon DEF BackoffDelays

\* Driving the breaker to b preserves the invariant when b is no older than the
\* breaker in the same state, has just been opened, or is not open and neither was
\* the breaker.
LEMMA BreakerStep ==
  ASSUME BreakerInv, NEW b \in Breakers, BreakerBecomes(b),
         \/ b.state = breaker.state /\ b.openedAge = breaker.openedAge
         \/ b.state = "open" /\ b.openedAge = 0
         \/ b.state # "open" /\ sinceOpen >= OpenSeconds
  PROVE  BreakerInv'
<1>1. Advance(b) \in Breakers
  BY AdvanceType
<1>2. b.openedAge \in Nat /\ breaker.openedAge \in Nat /\ sinceOpen \in Nat /\ sinceOpen' \in 0 .. OpenSeconds
  BY BreakerAssumption DEF BreakerInv, Breakers, BreakerBecomes
<1>3. CASE b.state = "open" /\ b.openedAge >= OpenSeconds
  <2>1. Advance(b).state = "half_open"
    BY <1>3 DEF Advance, Breakers
  <2>2. sinceOpen' >= OpenSeconds
    BY <1>2, <1>3, BreakerAssumption DEF BreakerInv, BreakerBecomes
  <2> QED
    BY <1>1, <1>2, <2>1, <2>2 DEF BreakerInv, BreakerBecomes
<1>4. CASE ~(b.state = "open" /\ b.openedAge >= OpenSeconds)
  <2>1. Advance(b) = b
    BY <1>4 DEF Advance
  <2>2. IF b.state = "open" THEN b.openedAge <= sinceOpen' ELSE sinceOpen' >= OpenSeconds
    BY <1>2, <1>4 DEF BreakerInv, BreakerBecomes
  <2> QED
    BY <1>1, <1>2, <2>1, <2>2 DEF BreakerInv, BreakerBecomes
<1> QED
  BY <1>3, <1>4

\* A caller leaves with at most one application of its write on record.
LEMMA LeftInv ==
  ASSUME NEW r, CallInv(r), NEW how \in Ended, NEW a \in Nat, a <= 1,
         NEW d \in 0 .. MaximumDelay
  PROVE  CallInv(Left(r, how, a, d))
<1> DEFINE q == Left(r, how, a, d)
<1>1. how \in Phases /\ "read" \in AllKinds /\ 0 \in 0 .. Attempts /\ 0 \in 0 .. MaximumTotal
  BY RetryAssumption DEF Phases, AllKinds
<1>2. how \notin Inside
  BY DEF Ended, Inside
<1>3. r \in CallRecords
  BY DEF CallInv
<1>4. q \in CallRecords /\ q.pc = how /\ q.applied = a /\ q.slept = r.slept
  BY <1>1, <1>3 DEF Left, CallRecords
<1> HIDE DEF q
<1>5. CallInv(q)
  BY <1>2, <1>4 DEF CallInv, Inside
<1> QED
  BY <1>5 DEF q

\* One tick inside the call: the elapsed time grows as the backoff shrinks.
LEMMA ElapseInv ==
  ASSUME NEW r, CallInv(r), r.pc \in Inside
  PROVE  CallInv(Elapse(r))
<1> DEFINE e == IF r.elapsed < MaximumTotal THEN r.elapsed + 1 ELSE r.elapsed
           l == IF r.left \in {NoDeadline, 0} THEN r.left ELSE r.left - 1
           d == IF r.pc = "sleeping" /\ r.delay > 0 THEN r.delay - 1 ELSE r.delay
<1>1. r \in CallRecords
  BY DEF CallInv
<1>2. e \in 0 .. MaximumTotal /\ l \in Nat \cup {NoDeadline} /\ d \in 0 .. MaximumDelay
  BY <1>1, RetryAssumption DEF CallRecords, NoDeadline
<1>3. r.slept <= e + d
  BY <1>1, RetryAssumption DEF CallInv, CallRecords
<1>4. r.pc = "sleeping" /\ l # NoDeadline /\ d > 0 => d < l
  BY <1>1 DEF CallInv, CallRecords, NoDeadline
<1>5. r.pc \in {"gate", "running"} => d = 0
  BY <1>1 DEF CallInv, CallRecords
<1>6. Elapse(r) = [r EXCEPT !.elapsed = e, !.left = l, !.delay = d]
  BY DEF Elapse
<1> HIDE DEF e, l, d
<1> QED
  BY <1>1, <1>2, <1>3, <1>4, <1>5, <1>6 DEF CallInv, CallRecords

LEMMA InitIInv == Init => IInv
<1> SUFFICES ASSUME Init PROVE IInv
  OBVIOUS
<1>1. BreakerInv
  <2>1. "closed" \in CircuitStates /\ << >> \in Seq(Ages)
    BY EmptySeq DEF CircuitStates
  <2> QED
    BY <2>1, BreakerAssumption DEF Init, BreakerInv, NewBreaker, Breakers
<1>2. \A c \in Calls : call[c] = [pc |-> "idle", kind |-> "read", attempt |-> 0, elapsed |-> 0,
                                  left |-> NoDeadline, delay |-> 0, slept |-> 0, applied |-> 0]
  BY DEF Init
<1>3. \A c \in Calls : CallInv(call[c])
  <2> SUFFICES ASSUME NEW c \in Calls PROVE CallInv(call[c])
    OBVIOUS
  <2>1. "idle" \in Phases /\ "read" \in AllKinds
    BY DEF Phases, AllKinds
  <2> QED
    BY <1>2, <2>1, RetryAssumption DEF CallInv, CallRecords, Inside
<1>4. call \in [Calls -> CallRecords]
  BY <1>3 DEF Init, CallInv
<1> QED
  BY <1>1, <1>3, <1>4 DEF IInv

\* A step that changes the record of one caller to one that satisfies CallInv.
LEMMA OneCall ==
  ASSUME call \in [Calls -> CallRecords], \A c \in Calls : CallInv(call[c]),
         NEW c \in Calls, NEW r, CallInv(r), call' = [call EXCEPT ![c] = r]
  PROVE  /\ call' \in [Calls -> CallRecords]
         /\ \A d \in Calls : CallInv(call'[d])
<1>1. r \in CallRecords
  BY DEF CallInv
<1>2. \A d \in Calls : call'[d] = IF d = c THEN r ELSE call[d]
  OBVIOUS
<1> QED
  BY <1>1, <1>2

LEMMA FeedbackShape ==
  ASSUME NEW b \in Breakers
  PROVE  /\ \/ OnSuccess(b).state = b.state /\ OnSuccess(b).openedAge = b.openedAge
            \/ OnSuccess(b).state # "open" /\ b.state # "open"
         /\ \/ OnFailure(b).state = b.state /\ OnFailure(b).openedAge = b.openedAge
            \/ OnFailure(b).state = "open" /\ OnFailure(b).openedAge = 0
<1>1. OnSuccess(b).state = "closed" \/ b.state # "half_open"
  BY DEF OnSuccess, Reset, Breakers
<1>2. b.state # "half_open" => OnSuccess(b).state = b.state /\ OnSuccess(b).openedAge = b.openedAge
  <2> DEFINE w == IF b.state = "closed" THEN Prune(b.failures) ELSE b.failures
  <2>1. b.state # "half_open" => OnSuccess(b) = [b EXCEPT !.failures = w]
    BY DEF OnSuccess
  <2> HIDE DEF w
  <2> QED
    BY <2>1 DEF Breakers
<1>3. Opened(b).state = "open" /\ Opened(b).openedAge = 0
  BY DEF Opened, Breakers
<1>4. \A w : [b EXCEPT !.failures = w].state = b.state
          /\ [b EXCEPT !.failures = w].openedAge = b.openedAge
  BY DEF Breakers
<1>5. OnFailure(b) = Opened(b)
      \/ OnFailure(b) = [b EXCEPT !.failures = Prune(Append(b.failures, 0))]
  BY DEF OnFailure
<1> QED
  BY <1>1, <1>2, <1>3, <1>4, <1>5

LEMMA AdmitInv ==
  ASSUME IInv, NEW c \in Calls, Admit(c)
  PROVE  IInv'
<1> DEFINE b == Advance(breaker)
           r == Started(call[c])
<1>1. breaker \in Breakers /\ CallInv(call[c]) /\ call[c] \in CallRecords
  BY DEF IInv, BreakerInv
<1>2. b \in Breakers /\ Admits(b)
  BY <1>1, AdvanceType DEF Admit
<1>3. Admitted(b) \in Breakers
  BY <1>2, AdmittedType
<1>4. b.state # "open"
  BY <1>2 DEF Admits
<1>5. Admitted(b).state = b.state
  BY <1>2 DEF Admitted, Breakers
<1>6. sinceOpen >= OpenSeconds
  <2>1. breaker.openedAge \in Nat /\ sinceOpen \in Nat /\ OpenSeconds \in Nat
    BY <1>1, BreakerAssumption DEF Breakers, IInv, BreakerInv
  <2> QED
    BY <1>4, <2>1 DEF IInv, BreakerInv, Advance
<1>7. BreakerInv'
  <2> HIDE DEF b
  <2>1. BreakerInv /\ BreakerBecomes(Admitted(b))
    BY DEF IInv, Admit, b
  <2> QED
    BY <1>3, <1>4, <1>5, <1>6, <2>1, BreakerStep
<1>8. CallInv(r)
  <2>1. "running" \in Phases
    BY DEF Phases
  <2>2. call[c].attempt + 1 \in 0 .. Attempts
    BY <1>1, RetryAssumption DEF Admit, AtGate, CallInv, CallRecords
  <2>3. call[c].delay = 0 /\ call[c].applied = 0 /\ call[c].slept <= call[c].elapsed + call[c].delay
    BY <1>1 DEF Admit, AtGate, CallInv, Inside
  <2> QED
    BY <1>1, <2>1, <2>2, <2>3 DEF CallInv, CallRecords, Inside, Started
<1>9. call' = [call EXCEPT ![c] = r]
  BY DEF Admit, IInv
<1> HIDE DEF b, r
<1> QED
  BY <1>7, <1>8, <1>9, OneCall DEF IInv

LEMMA RejectInv ==
  ASSUME IInv, NEW c \in Calls, Reject(c)
  PROVE  IInv'
<1> DEFINE r == Left(call[c], "rejected", call[c].applied, 0)
<1>1. BreakerInv /\ breaker \in Breakers /\ CallInv(call[c])
  BY DEF IInv, BreakerInv
<1>2. BreakerInv'
  <2>1. Advance(breaker) \in Breakers /\ BreakerBecomes(Advance(breaker))
    BY <1>1, AdvanceType DEF Reject
  <2>2. \/ Advance(breaker) = breaker
        \/ Advance(breaker).state = "half_open" /\ sinceOpen >= OpenSeconds
    <3>1. breaker.openedAge \in Nat /\ sinceOpen \in Nat
      BY <1>1, BreakerAssumption DEF BreakerInv, Breakers
    <3> QED
      BY <1>1, <3>1, BreakerAssumption DEF BreakerInv, Breakers, Advance
  <2> QED
    BY <1>1, <2>1, <2>2, BreakerStep
<1>3. call[c].applied \in Nat /\ call[c].applied <= 1
  BY <1>1 DEF CallInv, CallRecords
<1>4. "rejected" \in Ended /\ 0 \in 0 .. MaximumDelay
  BY RetryAssumption DEF Ended
<1>5. CallInv(r)
  BY <1>1, <1>3, <1>4, LeftInv
<1>6. call' = [call EXCEPT ![c] = r]
  BY DEF Reject, IInv
<1> HIDE DEF r
<1> QED
  BY <1>2, <1>5, <1>6, OneCall DEF IInv

LEMMA SucceedInv ==
  ASSUME IInv, NEW c \in Calls, Succeed(c)
  PROVE  IInv'
<1> DEFINE a == IF call[c].kind = "read" THEN call[c].applied ELSE call[c].applied + 1
           r == Left(call[c], "returned", a, 0)
<1>1. BreakerInv /\ breaker \in Breakers /\ CallInv(call[c])
  BY DEF IInv, BreakerInv
<1>2. BreakerInv'
  <2>1. OnSuccess(breaker) \in Breakers /\ BreakerBecomes(OnSuccess(breaker))
    BY <1>1, OnSuccessType DEF Succeed
  <2>2. breaker.state # "open" => sinceOpen >= OpenSeconds
    BY <1>1 DEF BreakerInv
  <2> QED
    BY <1>1, <2>1, <2>2, FeedbackShape, BreakerStep
<1>3. a \in Nat /\ a <= 1
  BY <1>1 DEF Succeed, CallInv, CallRecords, Inside
<1>4. "returned" \in Ended /\ 0 \in 0 .. MaximumDelay
  BY RetryAssumption DEF Ended
<1>5. CallInv(r)
  <2> HIDE DEF a
  <2> QED
    BY <1>1, <1>3, <1>4, LeftInv
<1>6. call' = [call EXCEPT ![c] = r]
  BY DEF Succeed, IInv
<1> HIDE DEF r
<1> QED
  BY <1>2, <1>5, <1>6, OneCall DEF IInv

\* What an attempt may have applied, and that a repeated one applied nothing.
LEMMA AppliedBounded ==
  ASSUME NEW c \in Calls, CallInv(call[c]), call[c].pc = "running",
         NEW e, NEW a \in AppliedAfter(c, e)
  PROVE  /\ a \in Nat /\ a <= 1
         /\ e \in RetryableClasses /\ e \notin UnknownOutcomeClasses => a = 0
<1>1. call[c].applied = 0
  BY DEF CallInv, Inside
<1>2. e \in RetryableClasses /\ e \notin UnknownOutcomeClasses => e \notin MayHaveApplied
  BY DEF RetryableClasses, UnknownOutcomeClasses, MayHaveApplied, Cancelled
<1> QED
  BY <1>1, <1>2 DEF AppliedAfter

LEMMA CancelInv ==
  ASSUME IInv, NEW c \in Calls, Cancel(c)
  PROVE  IInv'
<1>1. CallInv(call[c])
  BY DEF IInv
<1>2. PICK a : /\ a \in IF call[c].pc = "running" THEN AppliedAfter(c, Cancelled)
                                                  ELSE {call[c].applied}
               /\ call' = [call EXCEPT ![c] = Left(call[c], "cancelled", a, 0)]
  BY DEF Cancel, IInv
<1>3. a \in Nat /\ a <= 1
  <2>1. CASE call[c].pc = "running"
    BY <1>1, <1>2, <2>1, AppliedBounded
  <2>2. CASE call[c].pc # "running"
    BY <1>1, <1>2, <2>2 DEF CallInv, CallRecords
  <2> QED
    BY <2>1, <2>2
<1>4. "cancelled" \in Ended /\ 0 \in 0 .. MaximumDelay
  BY RetryAssumption DEF Ended
<1>5. CallInv(Left(call[c], "cancelled", a, 0))
  BY <1>1, <1>3, <1>4, LeftInv
<1>6. BreakerInv'
  BY DEF Cancel, IInv, BreakerInv
<1> QED
  BY <1>2, <1>5, <1>6, OneCall DEF IInv

LEMMA FailInv ==
  ASSUME IInv, NEW c \in Calls, NEW e \in ErrorClasses, Fail(c, e)
  PROVE  IInv'
<1>1. BreakerInv /\ breaker \in Breakers /\ CallInv(call[c]) /\ call[c] \in CallRecords
  BY DEF IInv, BreakerInv, CallInv
<1>2. BreakerInv'
  <2>1. CASE CountsAsFailure(e)
    <3>1. OnFailure(breaker) \in Breakers /\ BreakerBecomes(OnFailure(breaker))
      BY <1>1, <2>1, OnFailureType DEF Fail
    <3> QED
      BY <1>1, <3>1, FeedbackShape, BreakerStep
  <2>2. CASE ~CountsAsFailure(e)
    <3>1. BreakerBecomes(breaker)
      BY <2>2 DEF Fail
    <3> QED
      BY <1>1, <3>1, BreakerStep
  <2> QED
    BY <2>1, <2>2
<1>3. PICK a \in AppliedAfter(c, e) :
        IF ShouldRetry(call[c].kind, e, call[c].attempt)
          THEN \E delay \in BackoffDelays(call[c].attempt) :
                 IF Verdict(c, delay) = "sleeping"
                   THEN call' = [call EXCEPT ![c] = Backing(@, a, delay)]
                   ELSE call' = [call EXCEPT ![c] = Left(@, Verdict(c, delay), a, delay)]
          ELSE call' = [call EXCEPT ![c] = Left(@, "failed", a, 0)]
  BY DEF Fail
<1>4. a \in Nat /\ a <= 1
  BY <1>1, AppliedBounded DEF Fail
<1>5. CASE ~ShouldRetry(call[c].kind, e, call[c].attempt)
  <2> DEFINE r == Left(call[c], "failed", a, 0)
  <2>1. "failed" \in Ended /\ 0 \in 0 .. MaximumDelay
    BY RetryAssumption DEF Ended
  <2>2. CallInv(r)
    BY <1>1, <1>4, <2>1, LeftInv
  <2>3. call' = [call EXCEPT ![c] = r]
    BY <1>3, <1>5 DEF IInv
  <2> HIDE DEF r
  <2> QED
    BY <1>2, <2>2, <2>3, OneCall DEF IInv
<1>6. CASE ShouldRetry(call[c].kind, e, call[c].attempt)
  <2>1. PICK d \in BackoffDelays(call[c].attempt) :
          IF Verdict(c, d) = "sleeping"
            THEN call' = [call EXCEPT ![c] = Backing(@, a, d)]
            ELSE call' = [call EXCEPT ![c] = Left(@, Verdict(c, d), a, d)]
    BY <1>3, <1>6
  <2>2. d \in 0 .. MaximumDelay
    BY BackoffBounded
  <2>3. a = 0 /\ call[c].attempt < Attempts
    BY <1>1, <1>6, AppliedBounded DEF Fail, ShouldRetry
  <2>4. CASE Verdict(c, d) = "sleeping"
    <3> DEFINE r == Backing(call[c], a, d)
    <3>1. ~(call[c].left # NoDeadline /\ d >= call[c].left)
      BY <2>4 DEF Verdict
    <3>2. ~(call[c].elapsed + d >= MaximumTotal)
      BY <2>4, <3>1 DEF Verdict
    <3>3. call[c].slept <= call[c].elapsed /\ call[c].delay = 0
      <4>1. call[c].pc = "running"
        BY DEF Fail
      <4>2. call[c].delay = 0 /\ call[c].slept <= call[c].elapsed + call[c].delay
        BY <1>1, <4>1 DEF CallInv, Inside
      <4>3. call[c].elapsed \in Nat /\ call[c].slept \in Nat
        BY <1>1, RetryAssumption DEF CallRecords
      <4> QED
        BY <4>2, <4>3
    <3>4. call[c].slept + d < MaximumTotal /\ call[c].slept + d \in Nat
      BY <1>1, <2>2, <3>2, <3>3, RetryAssumption DEF CallRecords
    <3>5. "sleeping" \in Phases
      BY DEF Phases
    <3>6. r \in CallRecords /\ r.pc = "sleeping" /\ r.applied = 0 /\ r.delay = d
          /\ r.slept = call[c].slept + d /\ r.elapsed = call[c].elapsed
          /\ r.left = call[c].left /\ r.attempt = call[c].attempt
      BY <1>1, <1>4, <2>2, <2>3, <3>4, <3>5 DEF CallRecords, Backing
    <3>7. call' = [call EXCEPT ![c] = r]
      BY <2>1, <2>4 DEF IInv
    <3> HIDE DEF r
    <3>8. r.slept <= r.elapsed + r.delay
      BY <1>1, <2>2, <3>3, <3>6, RetryAssumption DEF CallRecords
    <3>9. r.left # NoDeadline => r.delay < r.left
      BY <1>1, <2>2, <3>1, <3>6, RetryAssumption DEF CallRecords, NoDeadline
    <3>10. CallInv(r)
      BY <2>3, <3>4, <3>6, <3>8, <3>9 DEF CallInv
    <3> QED
      BY <1>2, <3>7, <3>10, OneCall DEF IInv
  <2>5. CASE Verdict(c, d) # "sleeping"
    <3> DEFINE r == Left(call[c], Verdict(c, d), a, d)
    <3>1. Verdict(c, d) \in Ended
      BY <2>5 DEF Verdict, Ended
    <3>2. CallInv(r)
      BY <1>1, <1>4, <2>2, <3>1, LeftInv
    <3>3. call' = [call EXCEPT ![c] = r]
      BY <2>1, <2>5 DEF IInv
    <3> HIDE DEF r
    <3> QED
      BY <1>2, <3>2, <3>3, OneCall DEF IInv
  <2> QED
    BY <2>4, <2>5
<1> QED
  BY <1>5, <1>6

LEMMA SubmitInv ==
  ASSUME IInv, NEW c \in Calls, Submit(c)
  PROVE  IInv'
<1>1. PICK kind \in Kinds, deadline \in Deadlines :
        call' = [call EXCEPT ![c] =
                   [pc |-> "gate", kind |-> kind, attempt |-> 0, elapsed |-> 0,
                    left |-> deadline, delay |-> 0, slept |-> 0, applied |-> 0]]
  BY DEF Submit
<1> DEFINE r == [pc |-> "gate", kind |-> kind, attempt |-> 0, elapsed |-> 0,
                 left |-> deadline, delay |-> 0, slept |-> 0, applied |-> 0]
<1>2. "gate" \in Phases /\ kind \in AllKinds /\ deadline \in Nat \cup {NoDeadline}
  BY RetryAssumption DEF Phases
<1>3. CallInv(r)
  BY <1>2, RetryAssumption DEF CallInv, CallRecords, Inside
<1>4. call' = [call EXCEPT ![c] = r]
  BY <1>1
<1>5. BreakerInv'
  BY DEF Submit, IInv, BreakerInv
<1> HIDE DEF r
<1> QED
  BY <1>3, <1>4, <1>5, OneCall DEF IInv

LEMMA TickInv ==
  ASSUME IInv, Tick
  PROVE  IInv'
<1>1. breaker \in Breakers /\ breaker' = Aged(breaker)
  BY DEF IInv, BreakerInv, Tick
<1>2. breaker' \in Breakers
  BY <1>1, AgedType
<1>3. /\ breaker'.state = breaker.state
      /\ breaker'.openedAge = IF breaker.openedAge < OpenSeconds THEN breaker.openedAge + 1
                                                                  ELSE breaker.openedAge
  <2> DEFINE g == [i \in 1 .. Len(breaker.failures) |->
                     IF breaker.failures[i] > WindowSeconds THEN breaker.failures[i]
                                                            ELSE breaker.failures[i] + 1]
             age == IF breaker.openedAge < OpenSeconds THEN breaker.openedAge + 1
                                                       ELSE breaker.openedAge
  <2>1. breaker' = [breaker EXCEPT !.failures = g, !.openedAge = age]
    BY <1>1 DEF Aged
  <2> HIDE DEF g, age
  <2>2. breaker'.state = breaker.state /\ breaker'.openedAge = age
    BY <1>1, <2>1 DEF Breakers
  <2> QED
    BY <2>2 DEF age
<1>4. BreakerInv'
  <2>1. breaker.openedAge \in 0 .. OpenSeconds
    BY <1>1 DEF Breakers
  <2> QED
    BY <1>2, <1>3, <2>1, BreakerAssumption DEF IInv, BreakerInv, Tick
<1>5. \A c \in Calls : call'[c] = IF InCall(c) THEN Elapse(call[c]) ELSE call[c]
  BY DEF Tick
<1>6. \A c \in Calls : CallInv(call'[c])
  BY <1>5, ElapseInv DEF IInv, InCall, Inside
<1>7. call' \in [Calls -> CallRecords]
  BY <1>6 DEF Tick, CallInv
<1> QED
  BY <1>4, <1>6, <1>7 DEF IInv

LEMMA NextIInv == IInv /\ [Next]_vars => IInv'
<1> SUFFICES ASSUME IInv, [Next]_vars PROVE IInv'
  OBVIOUS
<1>1. ASSUME NEW c \in Calls, Submit(c) PROVE IInv'
  BY <1>1, SubmitInv
<1>2. ASSUME NEW c \in Calls, Gate(c) PROVE IInv'
  BY <1>2, AdmitInv, RejectInv DEF Gate
<1>3. ASSUME NEW c \in Calls, Succeed(c) PROVE IInv'
  BY <1>3, SucceedInv
<1>4. ASSUME NEW c \in Calls, AttemptFails(c) PROVE IInv'
  <2>1. PICK e \in Outcomes \ {Cancelled} : Fail(c, e)
    BY <1>4 DEF AttemptFails
  <2>2. e \in ErrorClasses
    BY RetryAssumption
  <2> QED
    BY <2>1, <2>2, FailInv
<1>5. ASSUME NEW c \in Calls, Cancel(c) PROVE IInv'
  BY <1>5, CancelInv
<1>6. CASE Tick
  BY <1>6, TickInv
<1>7. CASE UNCHANGED vars
  BY <1>7 DEF vars, IInv, BreakerInv
<1> QED
  BY <1>1, <1>2, <1>3, <1>4, <1>5, <1>6, <1>7 DEF Next, AttemptEnds

(***************************************************************************)
(* What the breaker's moves rest on: the deque keeps its oldest failure    *)
(* first, so pruning its too-old prefix leaves only recent ones            *)
(***************************************************************************)

OldestFirst(f) == \A i, j \in 1 .. Len(f) : i < j => f[i] >= f[j]

FailuresInOrder == OldestFirst(breaker.failures)

\* Pruning shifts the deque by the length of its too-old prefix, after which a deque
\* in order holds only ages within the window (CircuitBreaker._prune).
LEMMA PruneShifts ==
  ASSUME NEW f \in Seq(Ages), OldestFirst(f)
  PROVE  \E m \in 0 .. Len(f) :
           /\ Len(Prune(f)) = Len(f) - m
           /\ \A i \in 1 .. Len(Prune(f)) : Prune(f)[i] = f[i + m]
           /\ \A i \in m + 1 .. Len(f) : f[i] <= WindowSeconds
<1> DEFINE stale == {i \in 1 .. Len(f) : \A j \in 1 .. i : f[j] > WindowSeconds}
           m == Cardinality(stale)
<1>1. Len(f) \in Nat /\ \A i \in 1 .. Len(f) : f[i] \in Ages
  BY LenProperties
<1>2. IsFiniteSet(1 .. Len(f)) /\ Cardinality(1 .. Len(f)) = Len(f)
  BY <1>1, FS_Interval
<1>3. IsFiniteSet(stale) /\ m <= Len(f)
  BY <1>2, FS_Subset
<1>4. m \in 0 .. Len(f)
  <2>1. m \in Nat
    BY <1>3, FS_CardinalityType
  <2> QED
    BY <1>1, <1>3, <2>1
<1>5. /\ Len(Prune(f)) = Len(f) - m
      /\ \A i \in 1 .. Len(Prune(f)) : Prune(f)[i] = f[i + m]
  <2> DEFINE first == m + 1
  <2>1. Prune(f) = SubSeq(f, first, Len(f))
    BY DEF Prune
  <2> HIDE DEF m
  <2>2. first \in Int /\ Len(f) \in Int /\ \A i \in first .. Len(f) : f[i] \in Ages
    BY <1>1, <1>4
  <2>3. first <= Len(f) + 1
    BY <1>1, <1>4
  <2> HIDE DEF first
  <2>4. /\ Len(Prune(f)) = IF first <= Len(f) THEN Len(f) - first + 1 ELSE 0
        /\ \A i \in 1 .. Len(f) - first + 1 : Prune(f)[i] = f[first + i - 1]
    BY <2>1, <2>2, SubSeqProperties
  <2>5. Len(Prune(f)) = Len(f) - first + 1
    BY <2>2, <2>3, <2>4
  <2>6. \A i \in 1 .. Len(Prune(f)) : first + i - 1 = i + m
    BY <1>1, <1>4, <2>2, <2>5 DEF first
  <2> QED
    BY <1>1, <1>4, <2>4, <2>5, <2>6 DEF first
<1>6. ASSUME NEW i \in m + 1 .. Len(f) PROVE f[i] <= WindowSeconds
  <2>1. i \in 1 .. Len(f) /\ i > m /\ i \in Int
    BY <1>1, <1>4
  <2>2. i \notin stale
    <3> SUFFICES ASSUME i \in stale PROVE FALSE
      OBVIOUS
    <3>1. 1 .. i \subseteq stale
      BY <1>1, <2>1
    <3>2. Cardinality(1 .. i) <= m
      BY <1>3, <3>1, FS_Subset
    <3>3. Cardinality(1 .. i) = i
      BY <2>1, FS_Interval
    <3> QED
      BY <1>4, <2>1, <3>2, <3>3
  <2>3. PICK j \in 1 .. i : ~(f[j] > WindowSeconds)
    BY <2>1, <2>2
  <2>4. j \in 1 .. Len(f) /\ (j < i \/ j = i)
    BY <1>1, <2>1, <2>3
  <2>5. f[j] \in Nat /\ f[i] \in Nat /\ WindowSeconds \in Nat
    BY <1>1, <2>1, <2>4, BreakerAssumption DEF Ages
  <2>6. f[j] >= f[i]
    BY <2>1, <2>4, <2>5 DEF OldestFirst
  <2> QED
    BY <2>3, <2>5, <2>6
<1> HIDE DEF m
<1> QED
  BY <1>4, <1>5, <1>6

\* Pruning keeps the deque in order.
LEMMA PruneInOrder ==
  ASSUME NEW f \in Seq(Ages), OldestFirst(f)
  PROVE  OldestFirst(Prune(f))
<1>1. Len(f) \in Nat
  BY LenProperties
<1>2. PICK m \in 0 .. Len(f) :
        /\ Len(Prune(f)) = Len(f) - m
        /\ \A i \in 1 .. Len(Prune(f)) : Prune(f)[i] = f[i + m]
  BY PruneShifts
<1>3. \A i, j \in 1 .. Len(Prune(f)) :
        i < j => i + m \in 1 .. Len(f) /\ j + m \in 1 .. Len(f) /\ i + m < j + m
  BY <1>1, <1>2
<1>4. ASSUME NEW i \in 1 .. Len(Prune(f)), NEW j \in 1 .. Len(Prune(f)), i < j
      PROVE  Prune(f)[i] >= Prune(f)[j]
  <2>1. f[i + m] >= f[j + m]
    BY <1>3, <1>4 DEF OldestFirst
  <2> QED
    BY <1>2, <2>1
<1> QED
  BY <1>4 DEF OldestFirst

\* A failure recorded now is the youngest.
LEMMA AppendInOrder ==
  ASSUME NEW f \in Seq(Ages), OldestFirst(f)
  PROVE  Append(f, 0) \in Seq(Ages) /\ OldestFirst(Append(f, 0))
<1>1. 0 \in Ages
  BY BreakerAssumption DEF Ages
<1>2. Len(f) \in Nat /\ \A i \in 1 .. Len(f) : f[i] \in Nat
  BY LenProperties, BreakerAssumption DEF Ages
<1> DEFINE g == Append(f, 0)
<1>3. /\ g \in Seq(Ages) /\ Len(g) = Len(f) + 1 /\ g[Len(f) + 1] = 0
      /\ \A i \in 1 .. Len(f) : g[i] = f[i]
  BY <1>1, AppendProperties
<1> HIDE DEF g
<1>4. ASSUME NEW i \in 1 .. Len(g), NEW j \in 1 .. Len(g), i < j
      PROVE  g[i] >= g[j]
  <2>1. i \in 1 .. Len(f) /\ g[i] = f[i] /\ f[i] \in Nat
    BY <1>2, <1>3, <1>4
  <2>2. CASE j = Len(f) + 1
    BY <1>3, <2>1, <2>2
  <2>3. CASE j # Len(f) + 1
    <3>1. j \in 1 .. Len(f) /\ g[j] = f[j]
      BY <1>2, <1>3, <2>3
    <3> QED
      BY <1>4, <2>1, <3>1 DEF OldestFirst
  <2> QED
    BY <2>2, <2>3
<1>5. OldestFirst(g)
  BY <1>4 DEF OldestFirst
<1> QED
  BY <1>3, <1>5 DEF g

\* A tick keeps the deque in order, although ages stop growing at "too old".
LEMMA AgedInOrder ==
  ASSUME NEW b \in Breakers, OldestFirst(b.failures)
  PROVE  OldestFirst(Aged(b).failures) /\ Aged(b).state = b.state
<1> DEFINE f == b.failures
           g == [i \in 1 .. Len(f) |-> IF f[i] > WindowSeconds THEN f[i] ELSE f[i] + 1]
           age == IF b.openedAge < OpenSeconds THEN b.openedAge + 1 ELSE b.openedAge
<1>1. f \in Seq(Ages)
  BY DEF Breakers
<1>2. Len(f) \in Nat /\ \A i \in 1 .. Len(f) : f[i] \in Ages
  BY <1>1, LenProperties
<1>3. Aged(b).failures = g /\ Aged(b).state = b.state
  <2>1. Aged(b) = [b EXCEPT !.failures = g, !.openedAge = age]
    BY DEF Aged
  <2> HIDE DEF f, g, age
  <2> QED
    BY <2>1 DEF Breakers
<1>4. Len(g) = Len(f)
  <2>1. DOMAIN g = 1 .. Len(f)
    OBVIOUS
  <2>2. g \in Seq(Ages)
    <3>1. g \in [1 .. Len(f) -> Ages]
      BY <1>2, BreakerAssumption DEF Ages
    <3> QED
      BY <1>2, <3>1, SeqDef
  <2> HIDE DEF g
  <2> QED
    BY <1>2, <2>1, <2>2, LenProperties
<1>5. \A i \in 1 .. Len(f) : g[i] = IF f[i] > WindowSeconds THEN f[i] ELSE f[i] + 1
  OBVIOUS
<1>6. OldestFirst(f)
  OBVIOUS
<1> HIDE DEF f, g
<1>7. ASSUME NEW i \in 1 .. Len(g), NEW j \in 1 .. Len(g), i < j
      PROVE  g[i] >= g[j]
  <2>1. f[i] >= f[j] /\ f[i] \in Ages /\ f[j] \in Ages
    BY <1>2, <1>4, <1>6, <1>7 DEF OldestFirst
  <2>2. /\ g[i] = IF f[i] > WindowSeconds THEN f[i] ELSE f[i] + 1
        /\ g[j] = IF f[j] > WindowSeconds THEN f[j] ELSE f[j] + 1
    BY <1>4, <1>5
  <2> QED
    BY <2>1, <2>2, BreakerAssumption DEF Ages
<1> QED
  BY <1>3, <1>7 DEF OldestFirst

\* The gauge and the gate leave the deque alone; a look never closes the breaker, and
\* never moves one that is not open.
LEMMA LookShape ==
  ASSUME NEW b \in Breakers
  PROVE  /\ Advance(b).failures = b.failures
         /\ Advance(b).state # "closed" <=> b.state # "closed"
         /\ b.state # "open" => Advance(b) = b
         /\ Admitted(b).failures = b.failures /\ Admitted(b).state = b.state
<1>1. [b EXCEPT !.state = "half_open", !.halfOpenCalls = 0].failures = b.failures
  BY DEF Breakers
<1>2. [b EXCEPT !.state = "half_open", !.halfOpenCalls = 0].state = "half_open"
  BY DEF Breakers
<1>3. \A n : [b EXCEPT !.halfOpenCalls = n].failures = b.failures
             /\ [b EXCEPT !.halfOpenCalls = n].state = b.state
  BY DEF Breakers
<1> QED
  BY <1>1, <1>2, <1>3 DEF Advance, Admitted

\* What feedback does to the deque and the state: a success closes the breaker only
\* from HALF_OPEN, and from CLOSED a failure opens it only when the window is full.
LEMMA FeedbackMoves ==
  ASSUME NEW b \in Breakers, OldestFirst(b.failures)
  PROVE  /\ OldestFirst(OnSuccess(b).failures) /\ OldestFirst(OnFailure(b).failures)
         /\ OnSuccess(b).state = "closed" => b.state \in {"closed", "half_open"}
         /\ OnFailure(b).state = "closed" => b.state = "closed"
         /\ b.state = "closed" => OnSuccess(b).state = "closed"
         /\ b.state = "closed" /\ OnFailure(b).state # "closed"
              => Len(Prune(Append(b.failures, 0))) >= FailureThreshold
<1> DEFINE w == Prune(Append(b.failures, 0))
           v == IF b.state = "closed" THEN Prune(b.failures) ELSE b.failures
<1>1. b.failures \in Seq(Ages)
  BY DEF Breakers
<1>2. OldestFirst(w)
  BY <1>1, AppendInOrder, PruneInOrder
<1>3. OldestFirst(v)
  BY <1>1, PruneInOrder
<1>4. OldestFirst(<< >>)
  BY DEF OldestFirst
<1>5. /\ Opened(b).failures = << >> /\ Opened(b).state = "open"
      /\ Reset(b).failures = << >> /\ Reset(b).state = "closed"
  BY DEF Opened, Reset, Breakers
<1>6. \A u : [b EXCEPT !.failures = u].failures = u /\ [b EXCEPT !.failures = u].state = b.state
  BY DEF Breakers
<1>7. \/ OnSuccess(b) = Reset(b) /\ b.state = "half_open"
      \/ OnSuccess(b) = [b EXCEPT !.failures = v]
  BY DEF OnSuccess
<1>8. \/ OnFailure(b) = Opened(b) /\ (b.state = "half_open" \/ Len(w) >= FailureThreshold)
      \/ OnFailure(b) = [b EXCEPT !.failures = w]
  BY DEF OnFailure
<1> HIDE DEF w, v
<1>9. OldestFirst(OnSuccess(b).failures) /\ OldestFirst(OnFailure(b).failures)
  BY <1>2, <1>3, <1>4, <1>5, <1>6, <1>7, <1>8
<1>10. /\ OnSuccess(b).state = "closed" => b.state \in {"closed", "half_open"}
       /\ OnFailure(b).state = "closed" => b.state = "closed"
       /\ b.state = "closed" => OnSuccess(b).state = "closed"
  BY <1>5, <1>6, <1>7, <1>8
<1>11. b.state = "closed" /\ OnFailure(b).state # "closed" => Len(w) >= FailureThreshold
  BY <1>5, <1>6, <1>8
<1> QED
  BY <1>9, <1>10, <1>11 DEF w

\* Every failure the pruned window holds, but the one just recorded, was recent.
LEMMA WindowIsRecent ==
  ASSUME NEW f \in Seq(Ages), OldestFirst(f)
  PROVE  LET recent == {i \in DOMAIN f : f[i] <= WindowSeconds}
         IN  /\ Cardinality(recent) \in Nat
             /\ Len(Prune(Append(f, 0))) <= Cardinality(recent) + 1
<1> DEFINE recent == {i \in DOMAIN f : f[i] <= WindowSeconds}
           g == Append(f, 0)
<1>1. Len(f) \in Nat /\ DOMAIN f = 1 .. Len(f)
  BY LenProperties
<1>2. g \in Seq(Ages) /\ OldestFirst(g)
  BY AppendInOrder
<1>3. Len(g) = Len(f) + 1 /\ \A i \in 1 .. Len(f) : g[i] = f[i]
  <2>1. 0 \in Ages
    BY BreakerAssumption DEF Ages
  <2> QED
    BY <2>1, AppendProperties
<1> HIDE DEF g
<1>4. PICK m \in 0 .. Len(g) :
        /\ Len(Prune(g)) = Len(g) - m
        /\ \A i \in m + 1 .. Len(g) : g[i] <= WindowSeconds
  BY <1>2, PruneShifts
<1>5. m + 1 .. Len(f) \subseteq recent
  BY <1>1, <1>3, <1>4
<1>6. IsFiniteSet(recent) /\ Cardinality(recent) \in Nat
  <2>1. IsFiniteSet(1 .. Len(f))
    BY <1>1, FS_Interval
  <2>2. IsFiniteSet(recent)
    BY <1>1, <2>1, FS_Subset
  <2> QED
    BY <2>2, FS_CardinalityType
<1> HIDE DEF recent
<1>7. Cardinality(m + 1 .. Len(f)) <= Cardinality(recent)
  BY <1>5, <1>6, FS_Subset
<1>8. m \in Nat /\ m <= Len(f) + 1
  BY <1>1, <1>3, <1>4
<1>9. Cardinality(m + 1 .. Len(f)) = IF m + 1 > Len(f) THEN 0 ELSE Len(f) - (m + 1) + 1
  <2>1. m + 1 \in Int /\ Len(f) \in Int
    BY <1>1, <1>8
  <2> QED
    BY <2>1, FS_Interval
<1>10. Len(Prune(g)) <= Cardinality(recent) + 1
  BY <1>1, <1>3, <1>4, <1>6, <1>7, <1>8, <1>9
<1> QED
  BY <1>6, <1>10 DEF recent, g

\* The ways one step moves the breaker.
LEMMA BreakerSteps ==
  ASSUME IInv, [Next]_vars
  PROVE  \/ breaker' = breaker
         \/ breaker' = Aged(breaker)
         \/ breaker' = Advance(Admitted(Advance(breaker))) /\ Admits(Advance(breaker))
         \/ breaker' = Advance(Advance(breaker))
         \/ breaker' = Advance(OnSuccess(breaker))
         \/ breaker' = Advance(OnFailure(breaker))
         \/ breaker' = Advance(breaker)
<1>1. ASSUME NEW c \in Calls, Submit(c) \/ Cancel(c) PROVE breaker' = breaker
  BY <1>1 DEF Submit, Cancel
<1>2. ASSUME NEW c \in Calls, Admit(c)
      PROVE  breaker' = Advance(Admitted(Advance(breaker))) /\ Admits(Advance(breaker))
  BY <1>2 DEF Admit, BreakerBecomes
<1>3. ASSUME NEW c \in Calls, Reject(c) PROVE breaker' = Advance(Advance(breaker))
  BY <1>3 DEF Reject, BreakerBecomes
<1>4. ASSUME NEW c \in Calls, Succeed(c) PROVE breaker' = Advance(OnSuccess(breaker))
  BY <1>4 DEF Succeed, BreakerBecomes
<1>5. ASSUME NEW c \in Calls, AttemptFails(c)
      PROVE  breaker' = Advance(OnFailure(breaker)) \/ breaker' = Advance(breaker)
  <2>1. PICK e \in Outcomes \ {Cancelled} : Fail(c, e)
    BY <1>5 DEF AttemptFails
  <2>2. breaker' = Advance(IF CountsAsFailure(e) THEN OnFailure(breaker) ELSE breaker)
    BY <2>1 DEF Fail, BreakerBecomes
  <2> QED
    BY <2>2
<1>6. CASE Tick
  BY <1>6 DEF Tick
<1>7. CASE UNCHANGED vars
  BY <1>7 DEF vars
<1> QED
  BY <1>1, <1>2, <1>3, <1>4, <1>5, <1>6, <1>7 DEF Next, Gate, AttemptEnds

\* Admitting a call counts the trial in the state the look left the breaker in.
LEMMA AdmittedLook ==
  ASSUME NEW b \in Breakers, Admits(Advance(b))
  PROVE  Advance(Admitted(Advance(b))) = Admitted(Advance(b))
<1> DEFINE a == Advance(b)
<1>1. a \in Breakers
  BY AdvanceType
<1>2. Admitted(a) \in Breakers /\ a.state # "open"
  BY <1>1, AdmittedType DEF Admits
<1> HIDE DEF a
<1>3. Admitted(a).state # "open"
  BY <1>1, <1>2, LookShape
<1>4. Advance(Admitted(a)) = Admitted(a)
  BY <1>2, <1>3, LookShape
<1> QED
  BY <1>4 DEF a

\* One step keeps the deque in order, and moves the breaker only as its failures allow.
LEMMA MoveStep ==
  ASSUME IInv, FailuresInOrder, [Next]_vars
  PROVE  /\ FailuresInOrder'
         /\ breaker'.state = "closed" => breaker.state \in {"closed", "half_open"}
         /\ breaker.state = "closed" /\ breaker'.state # "closed" =>
              LET recent == {i \in DOMAIN breaker.failures : breaker.failures[i] <= WindowSeconds}
              IN  Cardinality(recent) + 1 >= FailureThreshold
<1> DEFINE recent == {i \in DOMAIN breaker.failures : breaker.failures[i] <= WindowSeconds}
<1>1. breaker \in Breakers /\ OldestFirst(breaker.failures) /\ breaker.failures \in Seq(Ages)
  BY DEF IInv, BreakerInv, FailuresInOrder, Breakers
<1>2. CASE breaker' = breaker
  BY <1>1, <1>2 DEF FailuresInOrder
<1>3. CASE breaker' = Aged(breaker)
  BY <1>1, <1>3, AgedInOrder DEF FailuresInOrder
<1>4. ASSUME NEW b \in Breakers, breaker' = Advance(b), b.failures = breaker.failures,
             b.state = "closed" <=> breaker.state = "closed"
      PROVE  /\ FailuresInOrder'
             /\ breaker'.state = "closed" <=> breaker.state = "closed"
  <2>1. breaker'.failures = breaker.failures /\ (breaker'.state # "closed" <=> b.state # "closed")
    BY <1>4, LookShape
  <2> QED
    BY <1>1, <1>4, <2>1 DEF FailuresInOrder
<1>5. CASE breaker' = Advance(Admitted(Advance(breaker))) /\ Admits(Advance(breaker))
  <2> DEFINE a == Advance(breaker)
  <2>1. a \in Breakers /\ Admitted(a) \in Breakers
    BY <1>1, <1>5, AdvanceType, AdmittedType
  <2>2. a.failures = breaker.failures /\ (a.state = "closed" <=> breaker.state = "closed")
    BY <1>1, LookShape
  <2> HIDE DEF a
  <2>3. Admitted(a).failures = a.failures /\ Admitted(a).state = a.state
    BY <2>1, LookShape
  <2>4. breaker' = Advance(Admitted(a))
    BY <1>5 DEF a
  <2> QED
    BY <1>4, <2>1, <2>2, <2>3, <2>4
<1>6. CASE breaker' = Advance(Advance(breaker))
  <2> DEFINE a == Advance(breaker)
  <2>1. a \in Breakers
    BY <1>1, AdvanceType
  <2>2. a.failures = breaker.failures /\ (a.state = "closed" <=> breaker.state = "closed")
    BY <1>1, LookShape
  <2> HIDE DEF a
  <2>3. breaker' = Advance(a)
    BY <1>6 DEF a
  <2> QED
    BY <1>4, <2>1, <2>2, <2>3
<1>7. CASE breaker' = Advance(breaker)
  BY <1>1, <1>4, <1>7
<1>8. CASE breaker' = Advance(OnSuccess(breaker))
  <2>1. OnSuccess(breaker) \in Breakers
    BY <1>1, OnSuccessType
  <2>2. /\ breaker'.failures = OnSuccess(breaker).failures
        /\ breaker'.state # "closed" <=> OnSuccess(breaker).state # "closed"
    BY <1>8, <2>1, LookShape
  <2> QED
    BY <1>1, <2>2, FeedbackMoves DEF FailuresInOrder
<1>9. CASE breaker' = Advance(OnFailure(breaker))
  <2>1. OnFailure(breaker) \in Breakers
    BY <1>1, OnFailureType
  <2>2. /\ breaker'.failures = OnFailure(breaker).failures
        /\ breaker'.state # "closed" <=> OnFailure(breaker).state # "closed"
    BY <1>9, <2>1, LookShape
  <2>3. FailuresInOrder' /\ (breaker'.state = "closed" => breaker.state = "closed")
    BY <1>1, <2>2, FeedbackMoves DEF FailuresInOrder
  <2>4. ASSUME breaker.state = "closed", breaker'.state # "closed"
        PROVE  Cardinality(recent) + 1 >= FailureThreshold
    <3>1. Len(Prune(Append(breaker.failures, 0))) >= FailureThreshold
      BY <1>1, <2>2, <2>4, FeedbackMoves
    <3>2. /\ Cardinality(recent) \in Nat
          /\ Len(Prune(Append(breaker.failures, 0))) <= Cardinality(recent) + 1
      BY <1>1, WindowIsRecent
    <3>3. Len(Prune(Append(breaker.failures, 0))) \in Nat
      BY <1>1, AppendInOrder, PruneType, LenProperties
    <3> HIDE DEF recent
    <3> QED
      BY <3>1, <3>2, <3>3, BreakerAssumption
  <2> QED
    BY <2>3, <2>4
<1> QED
  BY <1>2, <1>3, <1>5, <1>6, <1>7, <1>8, <1>9, BreakerSteps

(***************************************************************************)
(* The theorems                                                            *)
(***************************************************************************)

\* The inductive invariant holds throughout every run.
THEOREM Invariance == Spec => []IInv
BY InitIInv, NextIInv, PTL DEF Spec

\* Every variable keeps its type: attempts within the limit, ages and counters
\* within theirs, for every policy the configuration accepts.
THEOREM TypeCorrect == Spec => []TypeOK
<1>1. IInv => TypeOK
  BY DEF IInv, BreakerInv, TypeOK
<1> QED
  BY <1>1, Invariance, PTL

\* No logical call has its write applied twice, however many attempts it makes:
\* run_with_retries repeats only attempts that left nothing behind.
THEOREM AppliedAtMostOnce == Spec => []AtMostOnceApplied
<1>1. IInv => AtMostOnceApplied
  BY DEF IInv, CallInv, AtMostOnceApplied
<1> QED
  BY <1>1, Invariance, PTL

\* The breaker is out of OPEN only once a whole cooldown has passed since it last
\* opened, whatever calls admitted earlier report meanwhile.
THEOREM CooldownServed == Spec => []CooldownHolds
<1>1. IInv => CooldownHolds
  BY DEF IInv, BreakerInv, CooldownHolds
<1> QED
  BY <1>1, Invariance, PTL

\* Backoffs stay within the retry budget and the caller's deadline.
THEOREM BackoffStaysWithinLimits == Spec => []BackoffWithinLimits
<1>1. IInv => BackoffWithinLimits
  BY DEF IInv, CallInv, BackoffWithinLimits
<1> QED
  BY <1>1, Invariance, PTL

\* Whoever reports to it, and however late, the breaker closes only from HALF_OPEN and
\* opens from CLOSED only on enough failures that are recent at that moment.
THEOREM BreakerMovesJustified == Spec => BreakerMoves
<1>1. Init => FailuresInOrder
  BY DEF Init, NewBreaker, FailuresInOrder, OldestFirst
<1>2. IInv /\ FailuresInOrder /\ [Next]_vars => FailuresInOrder'
  BY MoveStep
<1>3. IInv /\ FailuresInOrder /\ [Next]_vars
        => [breaker'.state = "closed" => breaker.state \in {"closed", "half_open"}]_vars
  BY MoveStep
<1>4. IInv /\ FailuresInOrder /\ [Next]_vars
        => [breaker.state = "closed" /\ breaker'.state # "closed" =>
              LET recent == {i \in DOMAIN breaker.failures : breaker.failures[i] <= WindowSeconds}
              IN  Cardinality(recent) + 1 >= FailureThreshold]_vars
  BY MoveStep
<1>5. Spec => ClosesOnlyFromHalfOpen
  BY <1>1, <1>2, <1>3, Invariance, PTL DEF Spec, ClosesOnlyFromHalfOpen
<1>6. Spec => OpensOnlyOnRecentFailures
  BY <1>1, <1>2, <1>4, Invariance, PTL DEF Spec, OpensOnlyOnRecentFailures
<1> QED
  BY <1>5, <1>6 DEF BreakerMoves

-----------------------------------------------------------------------------
(***************************************************************************)
(* The decisions of the pure core, for every statement, policy, timeout    *)
(* and bulk write.                                                         *)
(***************************************************************************)

\* A set of natural numbers has a least element.
LEMMA LeastOf ==
  ASSUME NEW S, S \subseteq Nat, S # {}
  PROVE  Min(S) \in S /\ \A y \in S : Min(S) <= y
<1> DEFINE R == {ss \in Nat \X Nat : ss[1] < ss[2]}
<1>1. IsWellFoundedOn(R, Nat)
  BY NatLessThanWellFounded, Zenon DEF OpToRel
<1>2. \A x, y \in Nat : x < y => <<x, y>> \in R
  OBVIOUS
<1> HIDE DEF R
<1>3. PICK x \in S : \A y \in S : ~ (<<y, x>> \in R)
  BY <1>1, WFMin
<1>4. \A y \in S : ~ (y < x)
  BY <1>2, <1>3
<1>5. \A y \in S : x <= y
  BY <1>4
<1> QED
  BY <1>5 DEF Min

\* The first answer that is one is the one that those before are not.
LEMMA FirstKnownIs ==
  ASSUME NEW q, NEW k \in Nat, DOMAIN q \subseteq Nat, k \in DOMAIN q, q[k] # None,
         \A i \in DOMAIN q : i < k => q[i] = None
  PROVE  FirstKnown(q) = q[k]
<1> DEFINE K == {i \in DOMAIN q : Given(q[i])}
<1>1. FirstKnown(q) = IF K = {} THEN None ELSE q[Min(K)]
  BY DEF FirstKnown
<1>2. K \subseteq Nat /\ k \in K /\ \A i \in K : ~(i < k)
  BY DEF Given
<1> HIDE DEF K
<1>3. PICK m \in Nat : m = Min(K) /\ m \in K /\ m <= k
  BY <1>2, LeastOf
<1>4. Min(K) = k
  BY <1>2, <1>3
<1> QED
  BY <1>1, <1>2, <1>4

\* One error class is listed for "statement completion unknown".
LEMMA CompletionUnknown ==
  Lookup(CodesOf, <<"40", "003">>) = "CommitUnknown"
<1> DEFINE x == <<"40", "003">>
<1>1. /\ DOMAIN CodesOf = {"Integrity", "Serialization", "Deadlock", "Transaction",
                           "CommitUnknown", "LockTimeout", "QueryTimeout", "Connection",
                           "Unavailable", "Permission", "Programming"}
      /\ CodesOf["CommitUnknown"] = {x}
  BY DEF CodesOf
<1>2. x \notin CodesOf["Integrity"] /\ x \notin CodesOf["Serialization"]
      /\ x \notin CodesOf["Deadlock"] /\ x \notin CodesOf["Transaction"]
  BY DEF CodesOf
<1>3. x \notin CodesOf["LockTimeout"] /\ x \notin CodesOf["QueryTimeout"]
      /\ x \notin CodesOf["Connection"] /\ x \notin CodesOf["Unavailable"]
  BY DEF CodesOf
<1>4. x \notin CodesOf["Permission"] /\ x \notin CodesOf["Programming"]
  BY DEF CodesOf
<1> HIDE DEF x
<1>5. \A c \in DOMAIN CodesOf : x \in CodesOf[c] <=> c = "CommitUnknown"
  BY <1>1, <1>2, <1>3, <1>4
<1>6. Lookup(CodesOf, x) = "CommitUnknown"
  BY <1>1, <1>5 DEF Lookup
<1> QED
  BY <1>6 DEF x

\* An exception of COMMIT after which the transaction may be committed is reported as that.
LEMMA InDoubtReported ==
  ASSUME DecisionsAssumption, NEW e \in Exceptions, e.form # "driver", MayBeCommitted(e)
  PROVE  Reported(e, "commit") = "CommitUnknown"
<1>1. CASE IsConnectionError(e)
  BY <1>1 DEF Reported
<1>2. CASE ~IsConnectionError(e)
  <2> DEFINE q == <<IF e.form = "dbkit" THEN e.class ELSE None,
                    IF e.form = "deadline" THEN "QueryTimeout" ELSE None,
                    ErrorClassForSqlstate(e.code), FromSqlalchemyType(e),
                    IF e.form = "os" THEN "Connection" ELSE None,
                    "Database">>
  <2>1. Reported(e, "commit") = FirstKnown(q)
    BY <1>2 DEF Reported, Classify
  <2>2. DOMAIN q = 1..6
    OBVIOUS
  <2>3. "CommitUnknown" \in ErrorClasses
    BY DEF ErrorClasses, Category
  <2>4. "CommitUnknown" # None
    BY <2>3 DEF DecisionsAssumption
  <2>5. CASE e.form = "dbkit" /\ e.class = "CommitUnknown"
    <3>1. q[1] = "CommitUnknown"
      BY <2>5
    <3> HIDE DEF q
    <3> QED
      BY <2>1, <2>2, <2>4, <3>1, FirstKnownIs
  <2>6. CASE e.code = <<"40", "003">>
    <3>1. e.form = "dbapi"
      <4>1. <<"40", "003">> \in Codes
        BY DEF Codes, MappedCodes, CodesOf
      <4>2. None # <<"40", "003">>
        BY <4>1 DEF DecisionsAssumption
      <4> QED
        BY <2>6, <4>2 DEF Exceptions, Plain, Codes
    <3>2. ErrorClassForSqlstate(e.code) = "CommitUnknown"
      <4>1. <<"40", "003">> \in Codes
        BY DEF Codes, MappedCodes, CodesOf
      <4>2. <<"40", "003">> # None
        BY <4>1 DEF DecisionsAssumption
      <4> DEFINE r == <<Lookup(CodesOf, e.code), Lookup(PrefixesOf, e.code[1])>>
      <4>3. r[1] = "CommitUnknown" /\ DOMAIN r = 1..2
        BY <2>6, CompletionUnknown
      <4>4. ErrorClassForSqlstate(e.code) = FirstKnown(r)
        BY <2>6, <4>2 DEF ErrorClassForSqlstate
      <4> HIDE DEF r
      <4> QED
        BY <2>4, <4>3, <4>4, FirstKnownIs
    <3>3. q[1] = None /\ q[2] = None /\ q[3] = "CommitUnknown"
      BY <3>1, <3>2
    <3> HIDE DEF q
    <3> QED
      BY <2>1, <2>2, <2>4, <3>3, FirstKnownIs
  <2> QED
    BY <1>2, <2>5, <2>6 DEF MayBeCommitted, IsConnectionError
<1> QED
  BY <1>1, <1>2

\* A question that is asked, and what is known of it.
LEMMA FailureAsked ==
  ASSUME AskFailure
  PROVE  /\ asked'.about = "failure" /\ asked'.error \in Exceptions
         /\ asked'.phase = "commit" => asked'.error.form # "driver"
         /\ asked'.statement \in StatementForms /\ IsSensible(asked'.statement)
  BY DEF AskFailure

\* What the other questions are about.
LEMMA OthersAsked ==
  /\ AskTiming => asked'.about = "timing"
  /\ AskBatches => asked'.about = "batches"
  /\ AskConfig => asked'.about = "config"
  /\ Answered => asked'.about = "nothing"
  /\ DecisionsInit => asked.about = "nothing"
  BY DEF AskTiming, AskBatches, AskConfig, Answered, DecisionsInit, NoQuestion

\* A COMMIT that may have been carried out is never repeated, by no policy and for no
\* statement, and never answered with a 503 that asks for the same request again.
THEOREM CommitInDoubtIsFinal == DecisionsSpec => []OutcomeUnknownIsFinal
<1>1. DecisionsInit => OutcomeUnknownIsFinal
  BY OthersAsked DEF OutcomeUnknownIsFinal
<1>2. OutcomeUnknownIsFinal /\ [DecisionsNext]_asked => OutcomeUnknownIsFinal'
  <2> SUFFICES ASSUME OutcomeUnknownIsFinal, [DecisionsNext]_asked
               PROVE  OutcomeUnknownIsFinal'
    OBVIOUS
  <2>1. CASE AskFailure
    <3> SUFFICES ASSUME asked'.phase = "commit", MayBeCommitted(asked'.error)
                 PROVE  ~Repeated(asked') /\ Status(Class(asked')) # 503
      BY DEF OutcomeUnknownIsFinal
    <3>1. Class(asked') = "CommitUnknown"
      BY <2>1, FailureAsked, InDoubtReported, DecisionsAssumption DEF Class
    <3>2. ~Repeated(asked')
      BY <3>1 DEF Repeated, Repeats, UnknownOutcomeClasses
    <3>3. Category["CommitUnknown"] = "transaction"
      BY DEF Category
    <3>4. Status("CommitUnknown") = 500
      BY <3>3 DEF Status, TimeoutCategories, OverloadCategories
    <3> QED
      BY <3>1, <3>2, <3>4
  <2>2. CASE AskTiming \/ AskBatches \/ AskConfig \/ Answered
    BY <2>2, OthersAsked DEF OutcomeUnknownIsFinal
  <2>3. CASE UNCHANGED asked
    BY <2>3 DEF OutcomeUnknownIsFinal
  <2> QED
    BY <2>1, <2>2, <2>3 DEF DecisionsNext
<1> QED
  BY <1>1, <1>2, PTL DEF DecisionsSpec

\* A statement that writes is repeated only where the policy and its query say so, and an
\* INSERT without a guard is then flagged.
THEOREM WritesRepeatOnlyAsDeclared == DecisionsSpec => []WritesRepeatedAsDeclared
<1>1. DecisionsInit => WritesRepeatedAsDeclared
  BY OthersAsked DEF WritesRepeatedAsDeclared
<1>2. WritesRepeatedAsDeclared /\ [DecisionsNext]_asked => WritesRepeatedAsDeclared'
  <2> SUFFICES ASSUME WritesRepeatedAsDeclared, [DecisionsNext]_asked
               PROVE  WritesRepeatedAsDeclared'
    OBVIOUS
  <2>1. CASE AskFailure
    <3> DEFINE s == asked'.statement
    <3> SUFFICES ASSUME Repeated(asked'), s.writes, s.form = "query"
                 PROVE  /\ asked'.retry.writes /\ s.idempotent
                        /\ s.text = "insert" => LooksUnsafeToRetry(s)
      BY DEF WritesRepeatedAsDeclared
    <3>1. DeclaredWrite(s)
      BY DEF DeclaredWrite
    <3>2. asked'.retry.writes /\ DeclaredIdempotent(s)
      BY <3>1 DEF Repeated, Repeats
    <3> QED
      BY <3>1, <3>2 DEF DeclaredIdempotent, LooksUnsafeToRetry
  <2>2. CASE AskTiming \/ AskBatches \/ AskConfig \/ Answered
    BY <2>2, OthersAsked DEF WritesRepeatedAsDeclared
  <2>3. CASE UNCHANGED asked
    BY <2>3 DEF WritesRepeatedAsDeclared
  <2> QED
    BY <2>1, <2>2, <2>3 DEF DecisionsNext
<1> QED
  BY <1>1, <1>2, PTL DEF DecisionsSpec

\* What a timing question is.
LEMMA TimingAsked ==
  ASSUME AskTiming
  PROVE  /\ asked'.about = "timing" /\ asked'.timing \in Timings
         /\ \E m, n \in Waits : asked'.waits = <<m, n>>
  BY DEF AskTiming

\* The limit of an attempt that began in time.
LEMMA LimitIs ==
  ASSUME DecisionsAssumption, NEW t \in Timings, NEW b \in Nat,
         t.deadline # None => b < t.deadline,
         \A limit \in {t.call, t.query, t.default} : limit # None => limit > 0
  PROVE  LET l == LimitOf(FirstGiven(t.query, EffectiveTimeout(t, b)))
         IN  /\ l # NoLimit
             /\ t.deadline # None /\ t.query = None => b + l <= t.deadline
<1> DEFINE base == FirstGiven(t.call, FirstGiven(t.query, t.default))
           scope == EffectiveTimeout(t, b)
           used == FirstGiven(t.query, scope)
<1>1. /\ t.call \in Int \cup {None} /\ t.query \in Int \cup {None} /\ t.default \in Int
      /\ t.deadline \in Int \cup {None} /\ None \notin Int
  BY DEF DecisionsAssumption
<1>2. base \in Int /\ base > 0
  BY <1>1 DEF FirstGiven, Given
<1>3. scope = IF t.deadline # None /\ t.deadline - b < base THEN t.deadline - b ELSE base
  BY DEF EffectiveTimeout
<1> HIDE DEF base
<1>4. scope \in Int /\ scope > 0 /\ (t.deadline # None => b + scope <= t.deadline)
  <2>1. CASE t.deadline = None
    BY <1>2, <1>3, <2>1
  <2>2. CASE t.deadline # None
    <3>1. t.deadline \in Int /\ t.deadline - b > 0
      BY <1>1, <2>2
    <3> QED
      BY <1>2, <1>3, <3>1
  <2> QED
    BY <2>1, <2>2
<1> HIDE DEF scope
<1>5. used \in Int /\ used > 0 /\ (t.query = None => used = scope)
  BY <1>1, <1>4 DEF FirstGiven, Given
<1> HIDE DEF used
<1>6. LimitOf(used) = used
  BY <1>5 DEF LimitOf
<1>7. used # NoLimit
  BY <1>1, <1>5 DEF NoLimit
<1> QED
  BY <1>4, <1>5, <1>6, <1>7 DEF used, scope

\* A statement that got its slots in time runs under a limit, which ends by the caller's
\* deadline.
THEOREM LimitsEndInTime == DecisionsSpec => []RunsWithinDeadline
<1>1. DecisionsInit => RunsWithinDeadline
  BY OthersAsked DEF RunsWithinDeadline
<1>2. RunsWithinDeadline /\ [DecisionsNext]_asked => RunsWithinDeadline'
  <2> SUFFICES ASSUME RunsWithinDeadline, [DecisionsNext]_asked
               PROVE  RunsWithinDeadline'
    OBVIOUS
  <2>1. CASE AskTiming
    <3>1. PICK t \in Timings, m \in Waits, n \in Waits :
            asked'.timing = t /\ asked'.waits = <<m, n>>
      BY <2>1, TimingAsked
    <3>2. PICK a : a = Attempt(asked'.api, t, <<m, n>>)
      OBVIOUS
    <3>3. m + n \in Nat
      BY <3>1, DecisionsAssumption DEF DecisionsAssumption
    <3>4. /\ a.begins = m + n
          /\ a.limit = LimitOf(FirstGiven(t.query, EffectiveTimeout(t, m + n)))
      BY <3>2 DEF Attempt
    <3> SUFFICES ASSUME t.deadline # None => a.begins < t.deadline,
                        \A limit \in {t.call, t.query, t.default} : limit # None => limit > 0
                 PROVE  /\ a.limit # NoLimit
                        /\ t.deadline # None /\ t.query = None =>
                             a.begins + a.limit <= t.deadline
      BY <3>1, <3>2 DEF RunsWithinDeadline
    <3> QED
      BY <3>1, <3>3, <3>4, LimitIs, DecisionsAssumption
  <2>2. CASE AskFailure \/ AskBatches \/ AskConfig \/ Answered
    BY <2>2, OthersAsked, FailureAsked DEF RunsWithinDeadline
  <2>3. CASE UNCHANGED asked
    BY <2>3 DEF RunsWithinDeadline
  <2> QED
    BY <2>1, <2>2, <2>3 DEF DecisionsNext
<1> QED
  BY <1>1, <1>2, PTL DEF DecisionsSpec

(***************************************************************************)
(* Batches                                                                 *)
(***************************************************************************)

\* Division with a remainder.
LEMMA Division ==
  ASSUME NEW n \in Nat, NEW l \in Nat, l > 0
  PROVE  (n % l) \in Nat /\ (n % l) < l /\ (n \div l) \in Nat /\ n = (l * (n \div l)) + (n % l)
  OBVIOUS

\* Products of natural numbers, as the proofs below need them.
LEMMA Products ==
  ASSUME NEW a \in Nat, NEW b \in Nat, NEW c \in Nat, a <= b
  PROVE  a * c \in Nat /\ b * c \in Nat /\ a * c <= b * c /\ c * a = a * c
  OBVIOUS

\* The least of two numbers, and the greatest.
LEMMA OfTwo ==
  ASSUME NEW a \in Int, NEW b \in Int
  PROVE  /\ Min({a, b}) = IF a <= b THEN a ELSE b
         /\ Max({a, b}) = IF a <= b THEN b ELSE a
  BY DEF Min, Max

\* At least one.
LEMMA AtLeastOneIs ==
  ASSUME NEW i \in Int
  PROVE  AtLeastOne(i) = IF i <= 1 THEN 1 ELSE i
<1>1. Max({1, i}) = IF 1 <= i THEN i ELSE 1
  BY OfTwo
<1> QED
  BY <1>1 DEF AtLeastOne

\* A number of items that fit, each of the given size, or 1.
LEMMA Fitting ==
  ASSUME NEW total \in Nat, NEW each \in Nat, each > 0, NEW s \in Nat, s > 1,
         s <= AtLeastOne(total \div each)
  PROVE  s * each <= total
<1> PICK k \in Nat, r \in Nat : k = total \div each /\ r = total % each
  BY Division
<1>1. total = (each * k) + r
  BY Division
<1>2. s <= k
  BY AtLeastOneIs
<1>3. s * each <= k * each /\ k * each = each * k
  BY <1>2, Products
<1> QED
  BY <1>1, <1>3, Products

\* The least of three numbers is no greater than any of them.
LEMMA LeastOfThree ==
  ASSUME NEW a \in Int, NEW b \in Int, NEW c \in Int
  PROVE  /\ Min({a, b, c}) \in Int
         /\ Min({a, b, c}) <= a /\ Min({a, b, c}) <= b /\ Min({a, b, c}) <= c
<1> DEFINE all == {a, b, c}
<1>1. \E x \in all : \A y \in all : x <= y
  OBVIOUS
<1>2. Min(all) \in all /\ \A y \in all : Min(all) <= y
  BY <1>1 DEF Min
<1> QED
  BY <1>2

\* Nor is the least of four.
LEMMA LeastOfFour ==
  ASSUME NEW a \in Int, NEW b \in Int, NEW c \in Int, NEW d \in Int
  PROVE  /\ Min({a, b, c, d}) \in Int /\ Min({a, b, c, d}) <= a
         /\ Min({a, b, c, d}) <= b /\ Min({a, b, c, d}) <= c /\ Min({a, b, c, d}) <= d
<1> DEFINE all == {a, b, c, d}
<1>1. \E x \in all : \A y \in all : x <= y
  OBVIOUS
<1>2. Min(all) \in all /\ \A y \in all : Min(all) <= y
  BY <1>1 DEF Min
<1> QED
  BY <1>2

\* A batch of several rows is within each limit.
LEMMA SizeIs ==
  ASSUME DecisionsAssumption, NEW columns \in Nat, NEW requested \in Requests,
         NEW limits \in BatchLimits, NEW rowBytes \in Nat
  PROVE  LET s == ResolveBatchRows(columns, requested, limits, rowBytes)
         IN  /\ s \in Nat /\ s >= 1
             /\ s > 1 /\ columns > 0 =>
                  /\ s <= limits.rows /\ s * columns <= limits.params
                  /\ limits.bytes # None => s * rowBytes <= limits.bytes
<1> DEFINE s == ResolveBatchRows(columns, requested, limits, rowBytes)
           wanted == Wanted(requested, limits)
           byParams == AtLeastOne(limits.params \div columns)
           byBytes == AtLeastOne(limits.bytes \div rowBytes)
           bytes == IF limits.bytes # None /\ rowBytes > 0 THEN {byBytes} ELSE {}
           all == {wanted, limits.rows, byParams} \cup bytes
<1>1. /\ limits.rows \in Nat /\ limits.params \in Nat /\ limits.bytes \in Nat \cup {None}
      /\ requested \in Int \cup {None}
  BY DEF DecisionsAssumption
<1>2. wanted \in Int
  BY <1>1 DEF Wanted
<1>3. \A i \in Int : AtLeastOne(i) \in Nat /\ AtLeastOne(i) >= 1
                     /\ (AtLeastOne(i) > 1 => AtLeastOne(i) = i)
  BY AtLeastOneIs
<1>4. s = IF columns = 0 THEN AtLeastOne(wanted) ELSE AtLeastOne(Min(all))
  BY DEF ResolveBatchRows
<1>5. columns > 0 => byParams \in Nat
  BY <1>1, <1>3, Division
<1>6. limits.bytes # None /\ rowBytes > 0 => byBytes \in Nat
  BY <1>1, <1>3, Division
<1> HIDE DEF wanted, byParams, byBytes, s
<1>7. CASE columns = 0
  <2>1. s \in Nat /\ s >= 1
    BY <1>2, <1>3, <1>4, <1>7
  <2> QED
    BY <1>7, <2>1 DEF s
<1>8. CASE columns > 0
  <2>1. /\ Min(all) \in Int /\ Min(all) <= limits.rows /\ Min(all) <= byParams
        /\ limits.bytes # None /\ rowBytes > 0 => Min(all) <= byBytes
    <3>1. CASE limits.bytes # None /\ rowBytes > 0
      <4>1. all = {wanted, limits.rows, byParams, byBytes}
        BY <3>1
      <4>2. /\ wanted \in Int /\ limits.rows \in Int
            /\ byParams \in Int /\ byBytes \in Int
        BY <1>1, <1>2, <1>5, <1>6, <1>8, <3>1
      <4> HIDE DEF all
      <4> QED
        BY <4>1, <4>2, LeastOfFour
    <3>2. CASE ~(limits.bytes # None /\ rowBytes > 0)
      <4>1. all = {wanted, limits.rows, byParams}
        BY <3>2
      <4>2. wanted \in Int /\ limits.rows \in Int /\ byParams \in Int
        BY <1>1, <1>2, <1>5, <1>8
      <4> HIDE DEF all
      <4>3. Min(all) \in Int /\ Min(all) <= limits.rows /\ Min(all) <= byParams
        BY <4>1, <4>2, LeastOfThree
      <4> QED
        BY <3>2, <4>3
    <3> QED
      BY <3>1, <3>2
  <2> HIDE DEF all
  <2>2. s \in Nat /\ s >= 1 /\ (s > 1 => s <= limits.rows /\ s <= byParams)
    BY <1>1, <1>3, <1>4, <1>5, <1>8, <2>1
  <2>3. s > 1 /\ limits.bytes # None /\ rowBytes > 0 => s <= byBytes
    BY <1>3, <1>4, <1>6, <1>8, <2>1
  <2>4. s > 1 => s * columns <= limits.params
    BY <1>1, <1>8, <2>2, Fitting DEF byParams
  <2>5. s > 1 /\ limits.bytes # None => s * rowBytes <= limits.bytes
    <3>1. CASE rowBytes = 0
      BY <1>1, <2>2, <3>1
    <3>2. CASE rowBytes > 0
      BY <1>1, <2>2, <2>3, <3>2, Fitting DEF byBytes
    <3> QED
      BY <3>1, <3>2
  <2> QED
    BY <2>2, <2>4, <2>5 DEF s
<1> QED
  BY <1>7, <1>8 DEF s

\* Where the batches of n rows end.
LEMMA Ends ==
  ASSUME NEW n \in Nat, n > 0, NEW size \in Nat, size > 0
  PROVE  LET m == (n + size - 1) \div size
             end(i) == Min({i * size, n})
         IN  /\ m \in Nat /\ m >= 1 /\ end(m) = n
             /\ \A i \in 1..m : /\ (i - 1) * size \in Nat /\ end(i) \in Nat /\ end(i) <= n
                                /\ (i - 1) * size < end(i) /\ end(i) <= (i - 1) * size + size
             /\ \A i \in 1..m : i # m => end(i) = i * size
<1> DEFINE m == (n + size - 1) \div size
           end(i) == Min({i * size, n})
<1>1. n + size - 1 \in Nat
  OBVIOUS
<1>2. PICK r \in Nat : r < size /\ n + size - 1 = (size * m) + r /\ m \in Nat
  BY <1>1, Division
<1> HIDE DEF m
<1>3. size * m = m * size /\ m * size \in Nat
  BY <1>2, Products
<1>4. m * size >= n /\ m * size < n + size
  BY <1>2, <1>3
<1>5. m >= 1
  <2>1. m # 0
    BY <1>2, <1>4
  <2> QED
    BY <1>2, <2>1
<1>6. ASSUME NEW i \in Nat, i >= 1, i <= m
      PROVE  (i - 1) * size \in Nat /\ (i - 1) * size + size = i * size /\ (i - 1) * size < n
  <2> PICK j \in Nat : j = i - 1
    BY <1>6
  <2>1. j * size \in Nat /\ j * size + size = i * size
    BY <1>6
  <2> PICK k \in Nat : k = m - 1
    BY <1>2, <1>5
  <2>2. j <= k
    <3>1. i \in Int /\ m \in Int /\ i <= m /\ j = i - 1 /\ k = m - 1
      BY <1>2, <1>6
    <3> QED
      BY <3>1
  <2>3. j * size <= k * size
    BY <2>2, Products
  <2>4. k * size + size = m * size /\ k * size \in Nat
    BY <1>2
  <2>5. k * size < n
    BY <1>3, <1>4, <2>4
  <2> QED
    BY <2>1, <2>3, <2>4, <2>5
<1>7. ASSUME NEW i \in Nat, i >= 1, i <= m
      PROVE  i * size \in Nat /\ end(i) = IF i * size <= n THEN i * size ELSE n
  <2>1. i * size \in Nat
    OBVIOUS
  <2> QED
    BY <2>1, OfTwo
<1>8. ASSUME NEW i \in Nat, i >= 1, i <= m, i # m PROVE i * size < n
  <2> PICK k \in Nat : k = i + 1
    OBVIOUS
  <2>1. k >= 1 /\ k <= m /\ k - 1 = i
    BY <1>2, <1>8
  <2> QED
    BY <1>6, <2>1
<1> HIDE DEF end
<1>9. end(m) = n
  BY <1>2, <1>3, <1>4, <1>5, <1>7
<1>10. ASSUME NEW i \in 1..m
       PROVE  /\ (i - 1) * size \in Nat /\ end(i) \in Nat /\ end(i) <= n
              /\ (i - 1) * size < end(i) /\ end(i) <= (i - 1) * size + size
              /\ i # m => end(i) = i * size
  <2>1. i \in Nat /\ i >= 1 /\ i <= m
    BY <1>2
  <2> PICK a \in Nat, b \in Nat : a = (i - 1) * size /\ b = i * size
    BY <1>6, <1>7, <2>1
  <2>2. a + size = b /\ a < n /\ end(i) = IF b <= n THEN b ELSE n
    BY <1>6, <1>7, <2>1
  <2>3. i # m => b < n
    BY <1>8, <2>1
  <2> QED
    BY <2>2, <2>3
<1> QED
  BY <1>2, <1>5, <1>9, <1>10 DEF m, end

\* Two neighbouring pieces of a sequence.
LEMMA Pieces ==
  ASSUME NEW S, NEW q \in Seq(S), NEW a \in Nat, NEW b \in Nat, a <= b, b <= Len(q)
  PROVE  SubSeq(q, 1, a) \o SubSeq(q, a + 1, b) = SubSeq(q, 1, b)
<1> DEFINE x == SubSeq(q, 1, a)
           y == SubSeq(q, a + 1, b)
           z == SubSeq(q, 1, b)
<1>1. Len(q) \in Nat /\ \A i \in 1..Len(q) : q[i] \in S
  BY LenProperties
<1>2. x \in Seq(S) /\ Len(x) = a /\ \A i \in 1..a : x[i] = q[i]
  BY <1>1, SubSeqProperties
<1>3. y \in Seq(S) /\ Len(y) = b - a /\ \A i \in 1..b - a : y[i] = q[a + i]
  BY <1>1, SubSeqProperties
<1>4. z \in Seq(S) /\ Len(z) = b /\ \A i \in 1..b : z[i] = q[i]
  BY <1>1, SubSeqProperties
<1> HIDE DEF x, y, z
<1>5. /\ x \o y \in Seq(S) /\ Len(x \o y) = Len(x) + Len(y)
      /\ \A i \in 1..Len(x) + Len(y) :
           (x \o y)[i] = IF i <= Len(x) THEN x[i] ELSE y[i - Len(x)]
  BY <1>2, <1>3, ConcatProperties
<1>6. Len(x \o y) = Len(z)
  BY <1>2, <1>3, <1>4, <1>5
<1>7. ASSUME NEW i \in 1..b PROVE (x \o y)[i] = z[i]
  <2>1. (x \o y)[i] = IF i <= a THEN x[i] ELSE y[i - a]
    BY <1>2, <1>3, <1>5
  <2>2. CASE i <= a
    BY <1>2, <1>4, <2>1, <2>2
  <2>3. CASE i > a
    <3> PICK j \in 1..b - a : j = i - a
      BY <2>3
    <3>1. y[j] = q[a + j] /\ a + j = i
      BY <1>3
    <3> QED
      BY <1>4, <2>1, <2>3, <3>1
  <2>4. i <= a \/ i > a
    OBVIOUS
  <2> QED
    BY <2>2, <2>3, <2>4
<1> QED
  BY <1>4, <1>5, <1>6, <1>7, SeqEqual DEF x, y, z

\* Batches laid end to end are the rows again: each is in one batch, in order.
LEMMA Flattened ==
  ASSUME NEW S, NEW rows \in Seq(S), rows # <<>>, NEW size \in Nat, size > 0
  PROVE  /\ FlattenSeq(IterBatches(rows, size)) = rows
         /\ \A i \in DOMAIN IterBatches(rows, size) :
              /\ IterBatches(rows, size)[i] # <<>>
              /\ Len(IterBatches(rows, size)[i]) \in 1..size
<1> DEFINE n == Len(rows)
           m == (n + size - 1) \div size
           end(i) == Min({i * size, n})
           from(i) == (i - 1) * size
           b == IterBatches(rows, size)
<1>1. n \in Nat /\ n > 0
  BY LenProperties, EmptySeq
<1>2. /\ m \in Nat /\ m >= 1 /\ end(m) = n
      /\ \A i \in 1..m : /\ from(i) \in Nat /\ end(i) \in Nat /\ end(i) <= n
                         /\ from(i) < end(i) /\ end(i) <= from(i) + size
      /\ \A i \in 1..m : i # m => end(i) = i * size
  BY <1>1, Ends
<1>3. b = [i \in 1..m |-> SubSeq(rows, from(i) + 1, end(i))]
  BY DEF IterBatches
<1>4. \A i \in 1..m : i # 1 => i - 1 \in 1..m /\ end(i - 1) = from(i)
  <2> TAKE i \in 1..m
  <2> HAVE i # 1
  <2>1. i - 1 \in 1..m /\ i - 1 # m
    BY <1>2
  <2> QED
    BY <1>2, <2>1
<1>5. from(1) = 0 /\ from(1) + 1 = 1
  BY <1>1
<1> HIDE DEF n, m, end, from, b
<1>6. ASSUME NEW i \in 1..m
      PROVE  b[i] \in Seq(S) /\ Len(b[i]) = end(i) - from(i) /\ Len(b[i]) \in 1..size
  <2>1. b[i] = SubSeq(rows, from(i) + 1, end(i))
    BY <1>3
  <2>2. \A j \in 1..Len(rows) : rows[j] \in S
    BY LenProperties
  <2> PICK f \in Nat, e \in Nat : f = from(i) /\ e = end(i)
    BY <1>2
  <2>3. f < e /\ e <= f + size /\ e <= n
    BY <1>2
  <2>4. SubSeq(rows, f + 1, e) \in Seq(S) /\ Len(SubSeq(rows, f + 1, e)) = e - f
    <3>1. \A j \in f + 1 .. e : rows[j] \in S
      BY <1>1, <2>2, <2>3 DEF n
    <3> QED
      BY <1>1, <2>3, <3>1, SubSeqProperties DEF n
  <2> QED
    BY <2>1, <2>3, <2>4
<1>7. DOMAIN b = 1..m /\ Len(b) = m /\ b \in Seq(Seq(S))
  <2>1. b \in [1..m -> Seq(S)]
    BY <1>3, <1>6
  <2> QED
    BY <1>2, <2>1
<1> DEFINE Laid(f, i) == IF i = 1 THEN b[i] ELSE f[i - 1] \o b[i]
           F == [i \in 1..m |-> SubSeq(rows, 1, end(i))]
           f == CHOOSE g : g = [i \in 1..m |-> IF i = 1 THEN b[i] ELSE g[i - 1] \o b[i]]
<1>8. FlattenSeq(b) = f[m]
  BY <1>2, <1>7 DEF FlattenSeq
<1>9. ASSUME NEW i \in 1..m PROVE F[i] = Laid(F, i)
  <2>1. b[i] = SubSeq(rows, from(i) + 1, end(i)) /\ F[i] = SubSeq(rows, 1, end(i))
    BY <1>3
  <2>2. CASE i = 1
    BY <1>5, <2>1, <2>2
  <2>3. CASE i # 1
    <3>1. F[i - 1] = SubSeq(rows, 1, from(i))
      BY <1>4, <2>3
    <3>2. SubSeq(rows, 1, from(i)) \o SubSeq(rows, from(i) + 1, end(i)) = SubSeq(rows, 1, end(i))
      <4>1. from(i) \in Nat /\ end(i) \in Nat /\ from(i) <= end(i) /\ end(i) <= Len(rows)
        BY <1>2 DEF n
      <4> QED
        BY <4>1, Pieces
    <3> QED
      BY <2>1, <2>3, <3>1, <3>2
  <2> QED
    BY <2>2, <2>3
<1>10. F = [i \in 1..m |-> IF i = 1 THEN b[i] ELSE F[i - 1] \o b[i]]
  BY <1>9
<1>11. f = [i \in 1..m |-> IF i = 1 THEN b[i] ELSE f[i - 1] \o b[i]]
  <2> HIDE DEF F
  <2> QED
    BY <1>10
<1> HIDE DEF f, F
<1>12. \A i \in 1..m : f[i] = F[i]
  <2> DEFINE D == {i \in 1..m : f[i] # F[i]}
  <2> SUFFICES ASSUME D # {} PROVE FALSE
    OBVIOUS
  <2>1. D \subseteq Nat
    BY <1>2
  <2>5. \A i : i \in D <=> i \in 1..m /\ f[i] # F[i]
    OBVIOUS
  <2> HIDE DEF D
  <2> PICK k \in Nat : k = Min(D) /\ k \in D /\ \A y \in D : k <= y
    BY <2>1, LeastOf
  <2>6. k \in 1..m /\ f[k] # F[k]
    BY <2>5
  <2>7. ASSUME NEW i \in 1..m, i < k PROVE f[i] = F[i]
    <3>1. i \in Int /\ ~(k <= i)
      BY <1>2, <2>7
    <3> QED
      BY <2>5, <3>1
  <2>2. k \in 1..m /\ f[k] # F[k] /\ \A i \in 1..m : i < k => f[i] = F[i]
    BY <2>6, <2>7
  <2>3. k = 1 \/ (k - 1 \in 1..m /\ k - 1 < k)
    <3>1. k \in Int /\ m \in Int /\ 1 <= k /\ k <= m
      BY <1>2, <2>6
    <3> QED
      BY <3>1
  <2>4. f[k] = Laid(f, k) /\ F[k] = Laid(F, k)
    BY <1>10, <1>11, <2>2
  <2> QED
    BY <2>2, <2>3, <2>4
<1>13. f[m] = SubSeq(rows, 1, n)
  <2>1. m \in 1..m
    BY <1>2
  <2> QED
    BY <1>2, <1>12, <2>1 DEF F
<1>14. SubSeq(rows, 1, n) = rows
  <2>1. Len(rows) \in Nat /\ \A i \in 1..Len(rows) : rows[i] \in S
    BY LenProperties
  <2>2. /\ SubSeq(rows, 1, n) \in Seq(S) /\ Len(SubSeq(rows, 1, n)) = n
        /\ \A i \in 1..n : SubSeq(rows, 1, n)[i] = rows[i]
    BY <2>1, SubSeqProperties DEF n
  <2> QED
    BY <2>2, SeqEqual DEF n
<1>15. \A i \in 1..m : b[i] # <<>> /\ Len(b[i]) \in 1..size
  <2> TAKE i \in 1..m
  <2>1. Len(b[i]) \in 1..size
    BY <1>6
  <2>2. b[i] # <<>>
    BY <2>1
  <2> QED
    BY <2>1, <2>2
<1> QED
  BY <1>7, <1>8, <1>13, <1>14, <1>15 DEF b

\* What a question about batches is asked of.
LEMMA BatchesAsked ==
  ASSUME AskBatches
  PROVE  /\ asked'.about = "batches"
         /\ asked'.rows \in Seq(RowSizes) /\ asked'.rows # <<>>
         /\ asked'.columns \in 0 .. MaxColumns
         /\ asked'.requested \in Requests /\ asked'.limits \in BatchLimits
<1> PICK rows \in BoundedSeq(RowSizes, MaxRows), columns \in 0 .. MaxColumns,
         requested \in Requests, limits \in BatchLimits :
      /\ rows # <<>>
      /\ asked' = [about |-> "batches", rows |-> rows, columns |-> columns,
                   requested |-> requested, limits |-> limits]
  BY DEF AskBatches
<1>1. PICK m \in 0 .. MaxRows : rows \in [1 .. m -> RowSizes]
  BY DEF BoundedSeq, SeqOf
<1>2. rows \in Seq(RowSizes)
  <2>1. m \in Nat
    BY DecisionsAssumption DEF DecisionsAssumption
  <2> QED
    BY <1>1, <2>1
<1> QED
  BY <1>2

\* Every row is in one batch, in order; and a batch of several rows stays within each of the
\* limits.
THEOREM BatchesAreRight == DecisionsSpec => []BatchesFit
<1>1. DecisionsInit => BatchesFit
  BY OthersAsked DEF BatchesFit
<1>2. BatchesFit /\ [DecisionsNext]_asked => BatchesFit'
  <2> SUFFICES ASSUME BatchesFit, [DecisionsNext]_asked
               PROVE  BatchesFit'
    OBVIOUS
  <2>1. CASE AskBatches
    <3>1. PICK rows, columns, requested, limits :
            /\ rows = asked'.rows /\ columns = asked'.columns
            /\ requested = asked'.requested /\ limits = asked'.limits
      OBVIOUS
    <3>2. /\ rows \in Seq(RowSizes) /\ rows # <<>>
          /\ columns \in Nat /\ requested \in Requests /\ limits \in BatchLimits
      BY <2>1, <3>1, BatchesAsked, DecisionsAssumption DEF DecisionsAssumption
    <3>3. PICK row \in Nat : row = Head(rows)
      <4>1. Head(rows) \in RowSizes
        BY <3>2, HeadTailProperties
      <4> QED
        BY <4>1, DecisionsAssumption DEF DecisionsAssumption
    <3>4. PICK size : size = ResolveBatchRows(columns, requested, limits, row)
      OBVIOUS
    <3>5. /\ size \in Nat /\ size >= 1
          /\ size > 1 /\ columns > 0 =>
               /\ size <= limits.rows /\ size * columns <= limits.params
               /\ limits.bytes # None => size * row <= limits.bytes
      BY <3>2, <3>4, SizeIs, DecisionsAssumption
    <3>6. PICK batches : batches = IterBatches(rows, size)
      OBVIOUS
    <3>7. /\ FlattenSeq(batches) = rows
          /\ \A i \in DOMAIN batches : batches[i] # <<>> /\ Len(batches[i]) \in 1 .. size
      BY <3>2, <3>5, <3>6, Flattened
    <3>8. ASSUME NEW i \in DOMAIN batches, Len(batches[i]) > 1, columns > 0
          PROVE  /\ Len(batches[i]) <= limits.rows
                 /\ Len(batches[i]) * columns <= limits.params
                 /\ limits.bytes # None => Len(batches[i]) * row <= limits.bytes
      <4>1. PICK l \in Nat : l = Len(batches[i]) /\ l <= size /\ l > 1
        BY <3>5, <3>7, <3>8
      <4>2. limits.rows \in Nat /\ limits.params \in Nat /\ limits.bytes \in Nat \cup {None}
        BY <3>2, DecisionsAssumption DEF DecisionsAssumption
      <4>3. /\ size > 1 /\ size <= limits.rows /\ size * columns <= limits.params
            /\ limits.bytes # None => size * row <= limits.bytes
        BY <3>5, <3>8, <4>1
      <4>4. l * columns \in Nat /\ size * columns \in Nat /\ l * columns <= size * columns
        BY <3>2, <3>5, <4>1, Products
      <4>5. l * row \in Nat /\ size * row \in Nat /\ l * row <= size * row
        BY <3>3, <3>5, <4>1, Products
      <4>6. l <= limits.rows
        BY <3>5, <4>1, <4>2, <4>3
      <4>7. l * columns <= limits.params
        BY <4>2, <4>3, <4>4
      <4>8. limits.bytes # None => l * row <= limits.bytes
        BY <4>2, <4>3, <4>5
      <4> QED
        BY <4>1, <4>6, <4>7, <4>8
    <3> QED
      BY <3>1, <3>3, <3>4, <3>6, <3>7, <3>8 DEF BatchesFit
  <2>2. CASE AskFailure \/ AskTiming \/ AskConfig \/ Answered
    BY <2>2, OthersAsked, FailureAsked, TimingAsked DEF BatchesFit
  <2>3. CASE UNCHANGED asked
    BY <2>3 DEF BatchesFit
  <2> QED
    BY <2>1, <2>2, <2>3 DEF DecisionsNext
<1> QED
  BY <1>1, <1>2, PTL DEF DecisionsSpec

(***************************************************************************)
(* The connection budget                                                   *)
(***************************************************************************)

\* Induction over the natural numbers, as a statement about a set.
LEMMA Induction ==
  ASSUME NEW S, 0 \in S, \A n \in Nat : n \in S => n + 1 \in S
  PROVE  \A n \in Nat : n \in S
<1> SUFFICES ASSUME Nat \ S # {} PROVE FALSE
  OBVIOUS
<1> PICK x \in Nat \ S : \A y \in Nat \ S : x <= y
  BY LeastOf
<1>1. x - 1 \in Nat /\ x = (x - 1) + 1
  OBVIOUS
<1>2. x - 1 \in S
  BY <1>1
<1> QED
  BY <1>1, <1>2

Chosen(S) == CHOOSE x \in S : TRUE

\* The value at S of the function that adds up v, by its values g.
Summed(v, g, S) == IF S = {} THEN 0 ELSE v[Chosen(S)] + g[S \ {Chosen(S)}]

Sums(v, F, g) == g = [S \in F |-> Summed(v, g, S)]

UpTo(T, n) == {S \in SUBSET T : Cardinality(S) <= n}

\* What is left of a set without the element chosen is smaller.
LEMMA Smaller ==
  ASSUME NEW T, IsFiniteSet(T), NEW n \in Nat, NEW S \in UpTo(T, n + 1), S # {}
  PROVE  Chosen(S) \in S /\ S \ {Chosen(S)} \in UpTo(T, n)
<1>1. IsFiniteSet(S)
  BY FS_Subset DEF UpTo
<1>2. Chosen(S) \in S
  BY DEF Chosen
<1>3. Cardinality(S \ {Chosen(S)}) = Cardinality(S) - 1
  BY <1>1, <1>2, FS_RemoveElement
<1>4. Cardinality(S) \in Nat /\ Cardinality(S) <= n + 1
  BY <1>1, FS_CardinalityType DEF UpTo
<1>5. Cardinality(S \ {Chosen(S)}) <= n
  BY <1>3, <1>4
<1> QED
  BY <1>2, <1>5 DEF UpTo

\* The empty set is the only one with no element, and every subset has so many at most.
LEMMA Sizes ==
  ASSUME NEW T, IsFiniteSet(T)
  PROVE  /\ UpTo(T, 0) = {{}}
         /\ \A n \in Nat : UpTo(T, n) \subseteq UpTo(T, n + 1)
         /\ \E n \in Nat : SUBSET T = UpTo(T, n)
<1>1. ASSUME NEW S \in SUBSET T
      PROVE  IsFiniteSet(S) /\ Cardinality(S) \in Nat /\ Cardinality(S) <= Cardinality(T)
  BY FS_Subset, FS_CardinalityType
<1>2. UpTo(T, 0) = {{}}
  <2>1. ASSUME NEW S \in UpTo(T, 0) PROVE S = {}
    <3>1. S \in SUBSET T /\ Cardinality(S) <= 0
      BY DEF UpTo
    <3>2. Cardinality(S) = 0 /\ IsFiniteSet(S)
      BY <1>1, <3>1
    <3> QED
      BY <3>2, FS_EmptySet
  <2>2. Cardinality({}) = 0
    BY FS_EmptySet
  <2>3. {} \in UpTo(T, 0)
    BY <2>2 DEF UpTo
  <2> QED
    BY <2>1, <2>3
<1>3. \A n \in Nat : UpTo(T, n) \subseteq UpTo(T, n + 1)
  BY <1>1 DEF UpTo
<1>4. SUBSET T = UpTo(T, Cardinality(T)) /\ Cardinality(T) \in Nat
  BY <1>1, FS_CardinalityType DEF UpTo
<1> QED
  BY <1>2, <1>3, <1>4

\* There is such a function.
LEMMA SumsExist ==
  ASSUME NEW T, IsFiniteSet(T), NEW v
  PROVE  \A n \in Nat : \E g : Sums(v, UpTo(T, n), g)
<1> DEFINE N == {n \in Nat : \E g : Sums(v, UpTo(T, n), g)}
<1>1. 0 \in N
  <2> DEFINE g == [S \in UpTo(T, 0) |-> 0]
  <2>1. \A S \in UpTo(T, 0) : Summed(v, g, S) = 0
    BY Sizes DEF Summed
  <2>2. g = [S \in UpTo(T, 0) |-> Summed(v, g, S)]
    BY <2>1
  <2> QED
    BY <2>2 DEF Sums
<1>2. ASSUME NEW n \in Nat, n \in N PROVE n + 1 \in N
  <2>1. PICK g : Sums(v, UpTo(T, n), g)
    BY <1>2
  <2> DEFINE h == [S \in UpTo(T, n + 1) |-> Summed(v, g, S)]
  <2>2. \A S \in UpTo(T, n) : g[S] = Summed(v, g, S)
    BY <2>1 DEF Sums
  <2>3. \A S \in UpTo(T, n) : S \in UpTo(T, n + 1) /\ h[S] = g[S]
    BY <2>2, Sizes
  <2>4. ASSUME NEW S \in UpTo(T, n + 1) PROVE Summed(v, h, S) = Summed(v, g, S)
    <3>1. CASE S = {}
      BY <3>1 DEF Summed
    <3>2. CASE S # {}
      <4>1. h[S \ {Chosen(S)}] = g[S \ {Chosen(S)}]
        BY <2>3, <3>2, Smaller
      <4> HIDE DEF h
      <4> QED
        BY <3>2, <4>1 DEF Summed
    <3> QED
      BY <3>1, <3>2
  <2>5. h = [S \in UpTo(T, n + 1) |-> Summed(v, h, S)]
    BY <2>4
  <2>6. \E f : f = [S \in UpTo(T, n + 1) |-> Summed(v, f, S)]
    BY <2>5
  <2> QED
    BY <2>6 DEF Sums
<1> HIDE DEF N
<1>3. \A n \in Nat : n \in N
  BY <1>1, <1>2, Induction
<1> QED
  BY <1>3 DEF N

\* A sum is the last value of such a function.
LEMMA SumIs ==
  ASSUME NEW T, IsFiniteSet(T), NEW v, DOMAIN v = T
  PROVE  \E g : Sums(v, SUBSET T, g) /\ SumFunction(v) = g[T]
<1>1. SumFunction(v) = (CHOOSE g : Sums(v, SUBSET T, g))[T]
  BY DEF SumFunction, SumFunctionOnSet, FoldFunctionOnSet, MapThenFoldSet, Sums, Summed, Chosen
<1>2. \E g : Sums(v, SUBSET T, g)
  <2>1. PICK n \in Nat : SUBSET T = UpTo(T, n)
    BY Sizes
  <2>2. \E g : Sums(v, UpTo(T, n), g)
    BY SumsExist
  <2> QED
    BY <2>1, <2>2
<1> QED
  BY <1>1, <1>2

\* A sum grows with its terms.
LEMMA SumGrows ==
  ASSUME NEW T, IsFiniteSet(T), NEW v \in [T -> Nat], NEW w \in [T -> Nat],
         \A x \in T : v[x] <= w[x]
  PROVE  SumFunction(v) \in Nat /\ SumFunction(w) \in Nat /\ SumFunction(v) <= SumFunction(w)
<1>1. PICK g : Sums(v, SUBSET T, g) /\ SumFunction(v) = g[T]
  BY SumIs
<1>2. PICK h : Sums(w, SUBSET T, h) /\ SumFunction(w) = h[T]
  BY SumIs
<1> DEFINE Grown(S) == g[S] \in Nat /\ h[S] \in Nat /\ g[S] <= h[S]
           N == {n \in Nat : \A S \in UpTo(T, n) : Grown(S)}
<1>3. ASSUME NEW S \in SUBSET T PROVE g[S] = Summed(v, g, S) /\ h[S] = Summed(w, h, S)
  BY <1>1, <1>2 DEF Sums
<1>4. 0 \in N
  <2>1. g[{}] = 0 /\ h[{}] = 0
    BY <1>3 DEF Summed
  <2>2. Grown({})
    BY <2>1
  <2> HIDE DEF Grown
  <2>3. \A S \in UpTo(T, 0) : Grown(S)
    BY <2>2, Sizes
  <2> QED
    BY <2>3
<1>5. ASSUME NEW n \in Nat, n \in N PROVE n + 1 \in N
  <2> SUFFICES ASSUME NEW S \in UpTo(T, n + 1) PROVE Grown(S)
    OBVIOUS
  <2>1. CASE S = {}
    <3>1. g[{}] = 0 /\ h[{}] = 0
      BY <1>3 DEF Summed
    <3> QED
      BY <2>1, <3>1
  <2>2. CASE S # {}
    <3>1. Chosen(S) \in T /\ S \ {Chosen(S)} \in UpTo(T, n) /\ S \in SUBSET T
      BY <2>2, Smaller DEF UpTo
    <3>2. Grown(S \ {Chosen(S)})
      BY <1>5, <3>1
    <3>3. /\ g[S] = v[Chosen(S)] + g[S \ {Chosen(S)}]
          /\ h[S] = w[Chosen(S)] + h[S \ {Chosen(S)}]
      BY <1>3, <2>2, <3>1 DEF Summed
    <3>4. v[Chosen(S)] \in Nat /\ w[Chosen(S)] \in Nat /\ v[Chosen(S)] <= w[Chosen(S)]
      BY <3>1
    <3> QED
      BY <3>2, <3>3, <3>4
  <2> QED
    BY <2>1, <2>2
<1> HIDE DEF N
<1>6. \A n \in Nat : n \in N
  BY <1>4, <1>5, Induction
<1>7. Grown(T)
  BY <1>6, Sizes DEF N
<1> QED
  BY <1>1, <1>2, <1>7

\* The sum of one term.
LEMMA SumOfOne ==
  ASSUME NEW a, NEW v, DOMAIN v = {a}, v[a] \in Int
  PROVE  SumFunction(v) = v[a]
<1>1. IsFiniteSet({a})
  BY FS_Singleton
<1>2. PICK g : Sums(v, SUBSET {a}, g) /\ SumFunction(v) = g[{a}]
  BY <1>1, SumIs
<1>3. Chosen({a}) = a /\ {a} \ {a} = {}
  BY DEF Chosen
<1>4. g[{}] = 0 /\ g[{a}] = v[a] + g[{}]
  BY <1>2, <1>3 DEF Sums, Summed
<1> QED
  BY <1>2, <1>4

\* A configuration in which no pool has negative numbers opens no more than is counted.
LEMMA OpensNoMore ==
  ASSUME NEW config, HasNumbers(config), ~HasNegativePool(config)
  PROVE  /\ \A name \in DOMAIN config.databases :
              LET db == config.databases[name]
              IN  /\ DatabaseOpens(db, config.defaults) \in Nat
                  /\ DatabaseConnections(db, config.defaults) \in Nat
                  /\ DatabaseOpens(db, config.defaults)
                       <= DatabaseConnections(db, config.defaults)
         /\ LET opens == [name \in DOMAIN config.databases |->
                            DatabaseOpens(config.databases[name], config.defaults)]
            IN  /\ SumFunction(opens) \in Nat /\ ProcessConnections(config) \in Nat
                /\ SumFunction(opens) <= ProcessConnections(config)
<1>1. ASSUME NEW name \in DOMAIN config.databases
      PROVE  LET db == config.databases[name]
             IN  /\ DatabaseOpens(db, config.defaults) \in Nat
                 /\ DatabaseConnections(db, config.defaults) \in Nat
                 /\ DatabaseOpens(db, config.defaults) <= DatabaseConnections(db, config.defaults)
  <2> DEFINE db == config.databases[name]
             pool(i) == PoolFor(db.targets[i], config.defaults)
             v == [i \in DOMAIN db.targets |-> Opens(pool(i))]
             w == [i \in DOMAIN db.targets |-> MaxConnections(pool(i))]
  <2>1. IsFiniteSet(DOMAIN db.targets)
    BY DEF HasNumbers
  <2>2. ASSUME NEW i \in DOMAIN db.targets
        PROVE  /\ pool(i).size \in Int /\ pool(i).max_overflow \in Int
               /\ pool(i).size >= 0 /\ pool(i).max_overflow >= 0
    <3>1. pool(i).size \in Int /\ pool(i).max_overflow \in Int
      BY DEF HasNumbers
    <3>2. ~(pool(i).size < 0) /\ ~(pool(i).max_overflow < 0)
      BY DEF HasNegativePool
    <3> HIDE DEF pool
    <3> QED
      BY <3>1, <3>2
  <2>3. DatabaseOpens(db, config.defaults) = SumFunction(v)
    BY DEF DatabaseOpens
  <2>4. DatabaseConnections(db, config.defaults) = SumFunction(w)
    BY DEF DatabaseConnections
  <2> HIDE DEF pool
  <2>5. ASSUME NEW i \in DOMAIN db.targets
        PROVE  /\ Opens(pool(i)) \in Nat /\ MaxConnections(pool(i)) \in Nat
               /\ Opens(pool(i)) <= MaxConnections(pool(i))
    BY <2>2 DEF Opens, MaxConnections
  <2>6. /\ v \in [DOMAIN db.targets -> Nat] /\ w \in [DOMAIN db.targets -> Nat]
        /\ \A i \in DOMAIN db.targets : v[i] <= w[i]
    BY <2>5
  <2> HIDE DEF v, w, db
  <2>7. SumFunction(v) \in Nat /\ SumFunction(w) \in Nat /\ SumFunction(v) <= SumFunction(w)
    BY <2>1, <2>6, SumGrows
  <2> QED
    BY <2>3, <2>4, <2>7 DEF db
<1> DEFINE D == DOMAIN config.databases
           opens == [name \in D |-> DatabaseOpens(config.databases[name], config.defaults)]
           counted == [name \in D |-> DatabaseConnections(config.databases[name], config.defaults)]
<1>2. /\ opens \in [D -> Nat] /\ counted \in [D -> Nat]
      /\ \A name \in D : opens[name] <= counted[name]
  BY <1>1
<1>3. IsFiniteSet(D)
  BY DEF HasNumbers
<1>4. ProcessConnections(config) = SumFunction(counted)
  BY DEF ProcessConnections
<1> HIDE DEF opens, counted, D
<1>5. /\ SumFunction(opens) \in Nat /\ SumFunction(counted) \in Nat
      /\ SumFunction(opens) <= SumFunction(counted)
  BY <1>2, <1>3, SumGrows
<1> QED
  BY <1>1, <1>4, <1>5 DEF opens, D

\* A configuration that is valid keeps the budgets that are enforced, or that go without a
\* warning outside development.
LEMMA ValidHolds ==
  ASSUME NEW config, HasNumbers(config), Valid(config), ~HasNegativePool(config), NEW silent,
         silent <=> (config.environment # "development" /\ BudgetWarnings(config) = {})
  PROVE  /\ config.connection_budget.enforce_at_startup \/ silent =>
              OpensWithin(config, config.connection_budget, DOMAIN config.databases)
         /\ \A name \in DOMAIN config.databases :
              config.databases[name].connection_budget.enforce_at_startup \/ silent =>
                OpensWithin(config, config.databases[name].connection_budget, {name})
         /\ silent => config.connection_budget.maximum_per_process # None
<1>1. silent => /\ config.connection_budget.maximum_per_process # None
                /\ ~Unenforced(config.connection_budget)
                /\ \A name \in DOMAIN config.databases :
                     ~Unenforced(config.databases[name].connection_budget)
  BY DEF BudgetWarnings
<1>2. config.connection_budget.enforce_at_startup \/ silent =>
        OpensWithin(config, config.connection_budget, DOMAIN config.databases)
  <2> DEFINE opens == [name \in DOMAIN config.databases |->
                         DatabaseOpens(config.databases[name], config.defaults)]
             budget == config.connection_budget
  <2>1. /\ SumFunction(opens) \in Nat /\ ProcessConnections(config) \in Nat
        /\ SumFunction(opens) <= ProcessConnections(config)
    BY OpensNoMore
  <2>2. budget.maximum_per_process \in Int \cup {None}
    BY DEF HasNumbers
  <2>3. WithinLimit(budget, ProcessConnections(config))
    BY DEF Valid
  <2>4. OpensWithin(config, budget, DOMAIN config.databases)
          <=> (budget.maximum_per_process # None =>
                 SumFunction(opens) <= budget.maximum_per_process)
    BY DEF OpensWithin
  <2>5. silent => ~Unenforced(budget)
    BY <1>1
  <2> HIDE DEF opens, budget
  <2>6. budget.enforce_at_startup \/ silent =>
          (budget.maximum_per_process # None =>
             ProcessConnections(config) <= budget.maximum_per_process)
    BY <2>3, <2>5 DEF WithinLimit, Unenforced
  <2>7. budget.enforce_at_startup \/ silent =>
          (budget.maximum_per_process # None =>
             SumFunction(opens) <= budget.maximum_per_process)
    BY <2>1, <2>2, <2>6
  <2> QED
    BY <2>4, <2>7 DEF budget
<1>3. ASSUME NEW name \in DOMAIN config.databases
      PROVE  config.databases[name].connection_budget.enforce_at_startup \/ silent =>
               OpensWithin(config, config.databases[name].connection_budget, {name})
  <2> DEFINE db == config.databases[name]
             budget == db.connection_budget
             opens == DatabaseOpens(db, config.defaults)
             counted == DatabaseConnections(db, config.defaults)
  <2>1. opens \in Nat /\ counted \in Nat /\ opens <= counted
    BY OpensNoMore
  <2>2. budget.maximum_per_process \in Int \cup {None}
    BY DEF HasNumbers
  <2>3. WithinLimit(budget, counted)
    BY DEF Valid
  <2>4. OpensWithin(config, budget, {name})
          <=> (budget.maximum_per_process # None => opens <= budget.maximum_per_process)
    <3> DEFINE v == [n \in {name} |-> DatabaseOpens(config.databases[n], config.defaults)]
    <3>1. DOMAIN v = {name} /\ v[name] = opens
      OBVIOUS
    <3>2. OpensWithin(config, budget, {name})
            <=> (budget.maximum_per_process # None =>
                   SumFunction(v) <= budget.maximum_per_process)
      BY DEF OpensWithin
    <3> HIDE DEF v, opens
    <3>3. SumFunction(v) = opens
      BY <2>1, <3>1, SumOfOne
    <3> QED
      BY <3>2, <3>3
  <2>5. silent => ~Unenforced(budget)
    BY <1>1
  <2> HIDE DEF opens, counted, budget
  <2>6. budget.enforce_at_startup \/ silent =>
          (budget.maximum_per_process # None => counted <= budget.maximum_per_process)
    BY <2>3, <2>5 DEF WithinLimit, Unenforced
  <2>7. budget.enforce_at_startup \/ silent =>
          (budget.maximum_per_process # None => opens <= budget.maximum_per_process)
    BY <2>1, <2>2, <2>6
  <2> QED
    BY <2>4, <2>7 DEF budget
<1> QED
  BY <1>1, <1>2, <1>3

\* An accepted configuration cannot open more connections than its budgets say, where they
\* are enforced or nothing is warned of.
THEOREM BudgetsHold == DecisionsSpec => []BudgetHolds
<1>1. DecisionsInit => BudgetHolds
  BY OthersAsked DEF BudgetHolds
<1>2. BudgetHolds /\ [DecisionsNext]_asked => BudgetHolds'
  <2> SUFFICES ASSUME BudgetHolds, [DecisionsNext]_asked
               PROVE  BudgetHolds'
    OBVIOUS
  <2>1. CASE AskConfig
    <3>1. PICK raw \in RawConfigs : asked'.about = "config" /\ asked'.raw = raw
      BY <2>1 DEF AskConfig
    <3> SUFFICES ASSUME Accepted(raw), ~HasNegativePool(BuildConfig(raw))
                 PROVE  LET config == BuildConfig(raw)
                            silent == /\ config.environment # "development"
                                      /\ BudgetWarnings(config) = {}
                            Holds(budget, names) ==
                              budget.enforce_at_startup \/ silent =>
                                OpensWithin(config, budget, names)
                        IN  /\ Holds(config.connection_budget, DOMAIN config.databases)
                            /\ \A name \in DOMAIN config.databases :
                                 Holds(config.databases[name].connection_budget, {name})
                            /\ silent => config.connection_budget.maximum_per_process # None
      BY <3>1 DEF BudgetHolds
    <3>2. HasNumbers(BuildConfig(raw)) /\ Valid(BuildConfig(raw))
      BY DecisionsAssumption DEF DecisionsAssumption, Accepted
    <3>3. PICK config : config = BuildConfig(raw)
      OBVIOUS
    <3> QED
      BY <3>2, <3>3, ValidHolds
  <2>2. CASE AskFailure \/ AskTiming \/ AskBatches \/ Answered
    BY <2>2, OthersAsked, FailureAsked, TimingAsked DEF BudgetHolds
  <2>3. CASE UNCHANGED asked
    BY <2>3 DEF BudgetHolds
  <2> QED
    BY <2>1, <2>2, <2>3 DEF DecisionsNext
<1> QED
  BY <1>1, <1>2, PTL DEF DecisionsSpec
=============================================================================
