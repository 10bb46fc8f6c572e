--------------------------- MODULE CircuitBreaker ---------------------------
(***************************************************************************)
(* dbkit/_core/circuit.py as operators over one breaker record.            *)
(*                                                                         *)
(* The code stores monotonic timestamps and compares `now - stamp` with a  *)
(* configured length, so a stamp is represented by its age in whole ticks. *)
(* An age stops growing at the first value from which every comparison of  *)
(* the code gives the same answer, which keeps the state finite without a  *)
(* bound on time.                                                          *)
(***************************************************************************)
EXTENDS Naturals, Sequences, FiniteSets

CONSTANTS FailureThreshold, WindowSeconds, OpenSeconds, HalfOpenMaxCalls

\* CircuitBreakerConfig.validate only checks the threshold.
ASSUME BreakerAssumption ==
  /\ FailureThreshold \in Nat \ {0}
  /\ WindowSeconds \in Nat
  /\ OpenSeconds \in Nat
  /\ HalfOpenMaxCalls \in Nat

CircuitStates == {"closed", "open", "half_open"}

\* Ages of the failures deque, oldest first; WindowSeconds + 1 is "too old".
Ages == 0 .. WindowSeconds + 1

Breakers == [state : CircuitStates, failures : Seq(Ages),
             openedAge : 0 .. OpenSeconds, halfOpenCalls : 0 .. HalfOpenMaxCalls]

NewBreaker == [state |-> "closed", failures |-> <<>>,
               openedAge |-> OpenSeconds, halfOpenCalls |-> 0]

\* state(now): an elapsed cooldown turns OPEN into HALF_OPEN when it is looked at.
Advance(b) ==
  IF b.state = "open" /\ b.openedAge >= OpenSeconds
    THEN [b EXCEPT !.state = "half_open", !.halfOpenCalls = 0]
    ELSE b

\* Mutant: one trial too few.
Admits_OneTooFew(b) ==
  \/ b.state = "closed"
  \/ b.state = "half_open" /\ b.halfOpenCalls + 1 < HalfOpenMaxCalls

\* allow(now): its answer, given the breaker already advanced ...
Admits(b) ==
  \/ b.state = "closed"
  \/ b.state = "half_open" /\ b.halfOpenCalls < HalfOpenMaxCalls

\* ... and the trial slot it takes when it answers yes.
Admitted(b) ==
  IF b.state = "half_open"
    THEN [b EXCEPT !.halfOpenCalls = @ + 1]
    ELSE b

\* Mutant: the window never forgets.
Prune_Nothing(f) == f

\* _prune(now): drop the longest too-old prefix of the deque.
Prune(f) ==
  LET stale == {i \in 1 .. Len(f) : \A j \in 1 .. i : f[j] > WindowSeconds}
  IN  SubSeq(f, Cardinality(stale) + 1, Len(f))

\* Mutant: the cooldown is not restarted.
Opened_KeepsAge(b) == [b EXCEPT !.state = "open", !.failures = <<>>, !.halfOpenCalls = 0]

\* _open(now)
Opened(b) == [b EXCEPT !.state = "open", !.failures = <<>>,
                       !.openedAge = 0, !.halfOpenCalls = 0]

\* _reset()
Reset(b) == [b EXCEPT !.state = "closed", !.failures = <<>>, !.halfOpenCalls = 0]

\* Mutant: any success closes the breaker.
OnSuccess_AlwaysCloses(b) == Reset(b)

\* on_success(now): a success reported while OPEN changes nothing.
OnSuccess(b) ==
  IF b.state = "half_open"
    THEN Reset(b)
    ELSE [b EXCEPT !.failures = IF b.state = "closed" THEN Prune(@) ELSE @]

\* on_failure(now): outside HALF_OPEN the window is counted, in OPEN too.
OnFailure(b) ==
  LET window == Prune(Append(b.failures, 0))
  IN  IF b.state = "half_open" \/ Len(window) >= FailureThreshold
        THEN Opened(b)
        ELSE [b EXCEPT !.failures = window]

\* One tick of the monotonic clock.
Aged(b) ==
  [b EXCEPT !.failures = [i \in 1 .. Len(@) |-> IF @[i] > WindowSeconds THEN @[i] ELSE @[i] + 1],
            !.openedAge = IF @ < OpenSeconds THEN @ + 1 ELSE @]
=============================================================================
