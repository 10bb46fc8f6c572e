--------------------------- MODULE EffectivelyOnce ---------------------------
(***************************************************************************)
(* What the outbox and the inbox promise together (dbkit/integrations):    *)
(* an event exists if and only if its business change persisted, and its   *)
(* effects are applied at most once, however often it is delivered.  An    *)
(* event may also be given up as a dead letter.                            *)
(***************************************************************************)
EXTENDS Naturals

CONSTANT Events

VARIABLES
  committed,  \* events whose business change persisted
  applied,    \* how often the effects of each event have been applied
  dead        \* dead letters

TypeOK ==
  /\ committed \subseteq Events
  /\ applied \in [Events -> Nat]
  /\ dead \subseteq Events

Init ==
  /\ committed = {}
  /\ applied = [e \in Events |-> 0]
  /\ dead = {}

Produce(e) ==
  /\ e \notin committed
  /\ committed' = committed \cup {e}
  /\ UNCHANGED <<applied, dead>>

Apply(e) ==
  /\ e \in committed
  /\ applied[e] = 0
  /\ applied' = [applied EXCEPT ![e] = 1]
  /\ UNCHANGED <<committed, dead>>

GiveUp(e) ==
  /\ e \in committed
  /\ dead' = dead \cup {e}
  /\ UNCHANGED <<committed, applied>>

\* A COMMIT interrupted by a cancellation does both at once.
ApplyAndGiveUp(e) ==
  /\ e \in committed
  /\ applied[e] = 0
  /\ applied' = [applied EXCEPT ![e] = 1]
  /\ dead' = dead \cup {e}
  /\ UNCHANGED committed

Next == \E e \in Events : Produce(e) \/ Apply(e) \/ GiveUp(e) \/ ApplyAndGiveUp(e)

Spec == Init /\ [][Next]_<<committed, applied, dead>>
==============================================================================
