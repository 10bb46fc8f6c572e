--------------------------- MODULE ResilientCalls ---------------------------
(***************************************************************************)
(* run_with_retries (dbkit/_async/resilience.py) run by several coroutines *)
(* that share the circuit breaker of one database target, with the retry   *)
(* policy of dbkit/_core/policies.py.                                      *)
(*                                                                         *)
(* Coroutines interleave only at the awaits of run_with_retries, which are *)
(* the attempt itself (`await operation()`) and the backoff (`await        *)
(* sleep(delay)`).  Everything between two awaits is one action: the gate  *)
(* (allow, then the gauge, which looks at the breaker again), the end of   *)
(* an attempt (breaker feedback, gauge, retry decision, backoff, deadline  *)
(* and budget tests), and the clock.  An attempt may end in any class of   *)
(* Outcomes; the write it carries may have been applied only when its end  *)
(* leaves the outcome of COMMIT open (executor.py, scope).                 *)
(***************************************************************************)
EXTENDS Integers, DbErrors, CircuitBreaker

CONSTANTS
  Calls,          \* concurrent callers of one database target
  Kinds,          \* kinds of statements they submit
  Outcomes,       \* ways an attempt may fail: error classes and Cancelled
  Deadlines,      \* caller deadlines, in ticks from the start; NoDeadline for None
  Attempts, InitialDelay, MaximumDelay, Multiplier, Jitter, MaximumTotal,
  RetryReads, RetryWrites   \* RetryConfig

NoDeadline == -1

\* "adhoc" is a statement that is not a Query: query_meta returns None for it,
\* so the policy takes it for a read although db.execute commits it.
AllKinds == {"read", "adhoc", "write", "idempotent_write"}

ASSUME RetryAssumption ==
  /\ Kinds \subseteq AllKinds
  /\ Outcomes \subseteq ErrorClasses \cup {Cancelled}
  /\ Deadlines \subseteq Nat \cup {NoDeadline}
  /\ Attempts \in Nat \ {0}
  /\ InitialDelay \in Nat /\ MaximumDelay \in Nat /\ Multiplier \in Nat
  /\ Jitter \in {"full", "none"}
  /\ MaximumTotal \in Nat
  /\ RetryReads \in BOOLEAN /\ RetryWrites \in BOOLEAN

VARIABLES
  breaker,    \* the CircuitBreaker of the target
  call,       \* one record per caller, the locals of its run_with_retries
  sinceOpen   \* history: ticks since the breaker last entered OPEN

vars == <<breaker, call, sinceOpen>>

Ended == {"returned", "rejected", "failed", "deadline", "budget", "cancelled"}
Phases == {"idle", "gate", "running", "sleeping"} \cup Ended

\* elapsed saturates at MaximumTotal and left (of the deadline) at 0; slept and
\* applied are history: backoff time so far, attempts whose write took effect.
CallRecords ==
  [pc : Phases, kind : AllKinds, attempt : 0 .. Attempts, elapsed : 0 .. MaximumTotal,
   left : Nat \cup {NoDeadline}, delay : 0 .. MaximumDelay, slept : Nat, applied : Nat]

TypeOK ==
  /\ breaker \in Breakers
  /\ call \in [Calls -> CallRecords]
  /\ sinceOpen \in 0 .. OpenSeconds

Init ==
  /\ breaker = NewBreaker
  /\ call = [c \in Calls |->
               [pc |-> "idle", kind |-> "read", attempt |-> 0, elapsed |-> 0,
                left |-> NoDeadline, delay |-> 0, slept |-> 0, applied |-> 0]]
  /\ sinceOpen = OpenSeconds

-----------------------------------------------------------------------------
(* The retry policy *)

IsWrite(kind) == kind \in {"write", "idempotent_write"}

IsIdempotent(kind) == kind = "idempotent_write"

\* Mutant: the attributes of the error are not consulted.
ShouldRetry_AnyError(kind, e, n) ==
  /\ n < Attempts
  /\ IF IsWrite(kind) THEN RetryWrites /\ IsIdempotent(kind) ELSE RetryReads

\* should_retry, the error e having ended attempt number n.
ShouldRetry(kind, e, n) ==
  /\ n < Attempts
  /\ e \in RetryableClasses
  /\ e \notin UnknownOutcomeClasses
  /\ IF IsWrite(kind) THEN RetryWrites /\ IsIdempotent(kind) ELSE RetryReads

\* backoff_delay_ms: the capped exponential, or anything below it with full jitter.
BackoffDelays(n) ==
  LET exp == InitialDelay * Multiplier^(n - 1)
  IN  {d \in 0 .. MaximumDelay : d <= exp /\ (Jitter = "none" => d \in {exp, MaximumDelay})}

\* Ends of an attempt after which its COMMIT may have been applied: no answer to
\* COMMIT, or a COMMIT interrupted by something that is not a connection error.
MayHaveApplied == UnknownOutcomeClasses \cup {"Database", Cancelled}

\* Values of the history field applied after an attempt ends in e.
AppliedAfter(c, e) ==
  IF call[c].kind # "read" /\ e \in MayHaveApplied
    THEN {call[c].applied, call[c].applied + 1}
    ELSE {call[c].applied}

-----------------------------------------------------------------------------
(* The callers *)

\* The record of a call that has left run_with_retries: its locals are gone, the
\* history (and the backoff it was refused) stays until its caller submits again.
Left(r, how, applied, delay) ==
  [r EXCEPT !.pc = how, !.kind = "read", !.attempt = 0, !.elapsed = 0, !.left = NoDeadline,
            !.applied = applied, !.delay = delay]

\* The breaker is driven to b and then looked at by the gauge (_emit_circuit_state).
BreakerBecomes(b) ==
  /\ breaker' = Advance(b)
  /\ sinceOpen' = IF b.state = "open" /\ breaker.state # "open" THEN 0 ELSE sinceOpen

\* A caller that is not inside run_with_retries enters it with a new statement.
Submit(c) ==
  /\ call[c].pc \in Ended \cup {"idle"}
  /\ \E kind \in Kinds, deadline \in Deadlines :
       call' = [call EXCEPT ![c] =
                  [pc |-> "gate", kind |-> kind, attempt |-> 0, elapsed |-> 0,
                   left |-> deadline, delay |-> 0, slept |-> 0, applied |-> 0]]
  /\ UNCHANGED <<breaker, sinceOpen>>

AtGate(c) ==
  \/ call[c].pc = "gate"
  \/ call[c].pc = "sleeping" /\ call[c].delay = 0

Started(r) == [r EXCEPT !.pc = "running", !.attempt = @ + 1]

\* Top of the loop: allow() lets the next attempt start.
Admit(c) ==
  /\ AtGate(c)
  /\ Admits(Advance(breaker))
  /\ BreakerBecomes(Admitted(Advance(breaker)))
  /\ call' = [call EXCEPT ![c] = Started(@)]

\* Mutant: a refused call waits for the breaker instead of raising.
Reject_Waits(c) == AtGate(c) /\ FALSE /\ UNCHANGED vars

\* Top of the loop: allow() refuses and DatabaseCircuitOpenError is raised.
Reject(c) ==
  /\ AtGate(c)
  /\ ~Admits(Advance(breaker))
  /\ BreakerBecomes(Advance(breaker))
  /\ call' = [call EXCEPT ![c] = Left(@, "rejected", @.applied, 0)]

\* The attempt succeeds: its write, if any, is committed.
Succeed(c) ==
  /\ call[c].pc = "running"
  /\ BreakerBecomes(OnSuccess(breaker))
  /\ call' = [call EXCEPT ![c] =
                 Left(@, "returned", IF @.kind = "read" THEN @.applied ELSE @.applied + 1, 0)]

\* Mutant: the caller's deadline is not compared with the delay.
Verdict_NoDeadline(c, delay) ==
  IF call[c].elapsed + delay >= MaximumTotal THEN "budget" ELSE "sleeping"

\* What the loop does about a retryable error once a backoff delay is drawn.
Verdict(c, delay) ==
  CASE call[c].left # NoDeadline /\ delay >= call[c].left -> "deadline"
    [] call[c].elapsed + delay >= MaximumTotal            -> "budget"
    [] OTHER                                              -> "sleeping"

Backing(r, applied, delay) ==
  [r EXCEPT !.pc = "sleeping", !.applied = applied, !.delay = delay, !.slept = @ + delay]

\* The attempt raises a DatabaseError: feedback, then raise or back off.
Fail(c, e) ==
  /\ call[c].pc = "running"
  /\ BreakerBecomes(IF CountsAsFailure(e) THEN OnFailure(breaker) ELSE breaker)
  /\ \E applied \in AppliedAfter(c, e) :
       IF ShouldRetry(call[c].kind, e, call[c].attempt)
         THEN \E delay \in BackoffDelays(call[c].attempt) :
                IF Verdict(c, delay) = "sleeping"
                  THEN call' = [call EXCEPT ![c] = Backing(@, applied, delay)]
                  ELSE call' = [call EXCEPT ![c] = Left(@, Verdict(c, delay), applied, delay)]
         ELSE call' = [call EXCEPT ![c] = Left(@, "failed", applied, 0)]

\* The caller is cancelled in an await: the breaker is told nothing.
Cancel(c) ==
  /\ Cancelled \in Outcomes
  /\ call[c].pc \in {"running", "sleeping"}
  /\ \E applied \in IF call[c].pc = "running" THEN AppliedAfter(c, Cancelled)
                                              ELSE {call[c].applied} :
       call' = [call EXCEPT ![c] = Left(@, "cancelled", applied, 0)]
  /\ UNCHANGED <<breaker, sinceOpen>>

AttemptFails(c) == \E e \in Outcomes \ {Cancelled} : Fail(c, e)

AttemptEnds(c) == Succeed(c) \/ AttemptFails(c)

Gate(c) == Admit(c) \/ Reject(c)

InCall(c) == call[c].pc \in {"gate", "running", "sleeping"}

\* The clock of one call while it is inside run_with_retries.
Elapse(r) ==
  [r EXCEPT !.elapsed = IF @ < MaximumTotal THEN @ + 1 ELSE @,
            !.left = IF @ \in {NoDeadline, 0} THEN @ ELSE @ - 1,
            !.delay = IF r.pc = "sleeping" /\ @ > 0 THEN @ - 1 ELSE @]

Tick ==
  /\ breaker' = Aged(breaker)
  /\ sinceOpen' = IF sinceOpen < OpenSeconds THEN sinceOpen + 1 ELSE sinceOpen
  /\ call' = [c \in Calls |-> IF InCall(c) THEN Elapse(call[c]) ELSE call[c]]

Next ==
  \/ \E c \in Calls : Submit(c) \/ Gate(c) \/ AttemptEnds(c) \/ Cancel(c)
  \/ Tick

Spec == Init /\ [][Next]_vars

\* asyncio runs every ready coroutine, the per-attempt timeouts end every
\* attempt, and time passes.
FairSpec ==
  /\ Spec
  /\ WF_vars(Tick)
  /\ \A c \in Calls : WF_vars(Gate(c)) /\ WF_vars(AttemptEnds(c))

\* The same under constant demand: callers keep submitting statements.
DemandSpec == FairSpec /\ \A c \in Calls : WF_vars(Submit(c))

-----------------------------------------------------------------------------
(* Properties *)

\* However attempts fail, and whichever of them the policy repeats, the write of
\* one logical call is never applied twice: only attempts known to have left no
\* effect are repeated (should_retry, and CommitUnknown in scope).
AtMostOnceApplied == \A c \in Calls : call[c].applied <= 1

\* Nothing brings the breaker out of OPEN before a whole cooldown has passed since
\* it last opened: neither late successes of attempts started earlier, nor the
\* gauge, nor a rejected call (state, on_success, on_failure).
CooldownHolds == breaker.state # "open" => sinceOpen >= OpenSeconds

\* A breaker that is open closes only by way of HALF_OPEN, after a probe.
ClosesOnlyFromHalfOpen ==
  [][breaker'.state = "closed" => breaker.state \in {"closed", "half_open"}]_vars

\* From CLOSED the breaker opens only when enough infrastructure failures, the new
\* one included, lie within the rolling window at that moment (_prune).
OpensOnlyOnRecentFailures ==
  [][breaker.state = "closed" /\ breaker'.state # "closed" =>
       LET recent == {i \in DOMAIN breaker.failures : breaker.failures[i] <= WindowSeconds}
       IN  Cardinality(recent) + 1 >= FailureThreshold]_vars

\* Whoever reports to it, and however late, the breaker moves only where its failures and
\* its probes justify it.
BreakerMoves == ClosesOnlyFromHalfOpen /\ OpensOnlyOnRecentFailures

\* A call never sleeps, over all its backoffs together, past the retry budget, and
\* no backoff that has begun ends after the caller's deadline (resilience.py:96-102).
BackoffWithinLimits ==
  \A c \in Calls :
    /\ call[c].slept > 0 => call[c].slept < MaximumTotal
    /\ call[c].pc = "sleeping" /\ call[c].left # NoDeadline /\ call[c].delay > 0
         => call[c].delay < call[c].left

\* Every call that enters run_with_retries leaves it.
EveryCallEnds == \A c \in Calls : InCall(c) ~> call[c].pc \in Ended

\* Under constant demand attempts keep reaching the database: an open breaker
\* always comes to probe again on its own.
KeepsProbing == []<>(\E c \in Calls : call[c].pc = "running")

\* The breaker refuses every call although it is not serving a cooldown: its trial slots
\* are all taken and no trial is running.
SlotsLost ==
  /\ breaker.state = "half_open" /\ breaker.halfOpenCalls = HalfOpenMaxCalls
  /\ \A c \in Calls : call[c].pc # "running"

\* Attempts stop reaching the database in one way only: trials that end without a
\* word to the breaker have used up all its slots.  Cooldowns, stragglers, rejections
\* and looks at the gauge never keep it from probing (state, allow).
ProbesUnlessSlotsLost == KeepsProbing \/ <>[]SlotsLost
=============================================================================
