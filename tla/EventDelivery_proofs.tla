------------------------ MODULE EventDelivery_proofs ------------------------
(***************************************************************************)
(* Proofs about EventDelivery: the outbox, any at-least-once broker and    *)
(* the inbox together keep the promise of EffectivelyOnce, and no event is *)
(* lost on the way, for any number of events, relays and consumers.        *)
(*                                                                         *)
(* The second part is about Routing, a component of its own, whose names   *)
(* are distinct.                                                           *)
(***************************************************************************)
EXTENDS EventDelivery, Routing, FiniteSetTheorems, SequenceTheorems, WellFoundedInduction, TLAPS

\* The rows a relay has locked are unsent, and nobody else has them.
RelayInv ==
  /\ \A r \in Relays : \A e \in relay[r].rows : outbox[e] = "unsent"
  /\ RelaysDisjoint

\* Only committed events are under way, so that an effect has a cause.
CauseInv ==
  /\ \A e \in Events : broker[e] > 0 => e \in Committed
  /\ \A c \in Consumers : consumer[c] # Idle => consumer[c].event \in Committed
  /\ dead \subseteq Committed

\* c has an inbox row of its own that is not committed yet.
Claiming(c) == consumer[c].pc \in {"working", "committing"} /\ consumer[c].first

\* The inbox remembers what was applied, and a claim is one that nobody else has made.
OnceInv ==
  /\ \A e \in Events : effects[e] <= 1 /\ (effects[e] > 0 => e \in inbox)
  /\ \A c \in Consumers : Claiming(c) => consumer[c].event \notin inbox
  /\ \A c, d \in Consumers :
       Claiming(c) /\ Claiming(d) /\ consumer[c].event = consumer[d].event => c = d

\* What a relay has published of its batch is not lost.
PublishedInv ==
  \A r \in Relays : \A e \in relay[r].rows \ relay[r].todo :
    UnderWay(e) \/ effects[e] > 0 \/ e \in dead

\* What was recorded in the inbox, or may yet be acked, has been applied.
AppliedInv ==
  /\ \A e \in inbox : effects[e] > 0
  /\ \A c \in Consumers :
       /\ consumer[c].pc = "acking" => effects[consumer[c].event] > 0
       /\ consumer[c].pc = "working" => consumer[c].first
       /\ consumer[c].pc = "committing" /\ ~consumer[c].first => consumer[c].event \in inbox

IInv ==
  TypeOK /\ RelayInv /\ CauseInv /\ OnceInv /\ AppliedInv /\ PublishedInv /\ NoEventLost

(***************************************************************************)
(* The inductive invariant                                                 *)
(***************************************************************************)

\* Nothing has happened yet.
LEMMA InitIInv == Init => IInv
<1> SUFFICES ASSUME Init PROVE IInv
  OBVIOUS
<1>1. TypeOK
  BY DEF Init, TypeOK, Drained
<1>2. RelayInv
  BY DEF Init, RelayInv, RelaysDisjoint, Drained
<1>3. CauseInv
  BY DEF Init, CauseInv
<1>4. OnceInv
  BY DEF Init, OnceInv, Claiming, Idle
<1>5. AppliedInv
  BY DEF Init, AppliedInv, Idle
<1>6. NoEventLost
  BY DEF Init, NoEventLost, Committed
<1>7. PublishedInv
  BY DEF Init, PublishedInv, Drained
<1> QED
  BY <1>1, <1>2, <1>3, <1>4, <1>5, <1>6, <1>7 DEF IInv

\* The transaction of an event ends: whatever mentions the event is still about the
\* others (enqueue).
LEMMA EnqueueInv ==
  ASSUME IInv, NEW e \in Events, Enqueue(e)
  PROVE  IInv'
<1> USE DEF IInv, Enqueue
<1>1. \A f \in Committed : f # e /\ f \in Committed' /\ outbox'[f] = outbox[f]
  BY DEF TypeOK, Committed
<1>2. TypeOK'
  BY DEF TypeOK
<1>3. RelayInv'
  BY DEF TypeOK, RelayInv, RelaysDisjoint
<1>4. CauseInv'
  BY <1>1 DEF CauseInv
<1>5. OnceInv'
  BY DEF OnceInv, Claiming
<1>6. AppliedInv'
  BY DEF AppliedInv
<1>7. NoEventLost'
  BY <1>1 DEF NoEventLost, TypeOK, Committed, UnderWay, BusyWith
<1>8. PublishedInv'
  BY DEF PublishedInv, UnderWay, BusyWith
<1> QED
  BY <1>2, <1>3, <1>4, <1>5, <1>6, <1>7, <1>8

\* Only unlocked rows are locked (FOR UPDATE SKIP LOCKED).
LEMMA DrainInv ==
  ASSUME IInv, NEW r \in Relays, Drain(r)
  PROVE  IInv'
<1> USE DEF IInv, Drain, Claimable, Locked, Drained
<1>1. TypeOK'
  BY DEF TypeOK
<1>2. RelayInv'
  BY DEF TypeOK, RelayInv, RelaysDisjoint
<1>3. CauseInv'
  BY DEF TypeOK, CauseInv, Committed, RelayInv
<1>4. OnceInv'
  BY DEF TypeOK, OnceInv, Claiming
<1>5. AppliedInv'
  BY DEF TypeOK, AppliedInv, OnceInv, Claiming
<1>6. NoEventLost'
  BY DEF TypeOK, NoEventLost, Committed, UnderWay, BusyWith, AppliedInv, PublishedInv
<1>7. PublishedInv'
  BY DEF TypeOK, PublishedInv, UnderWay, BusyWith, AppliedInv, RelayInv
<1> QED
  BY <1>1, <1>2, <1>3, <1>4, <1>5, <1>6, <1>7

\* What is published is locked, hence committed.
LEMMA PublishInv ==
  ASSUME IInv, NEW r \in Relays, NEW e \in Events, Publish(r, e)
  PROVE  IInv'
<1> USE DEF IInv, Publish
<1>1. TypeOK'
  BY DEF TypeOK
<1>2. RelayInv'
  BY DEF TypeOK, RelayInv, RelaysDisjoint
<1>3. CauseInv'
  BY DEF TypeOK, CauseInv, Committed, RelayInv
<1>4. OnceInv'
  BY DEF TypeOK, OnceInv, Claiming
<1>5. AppliedInv'
  BY DEF TypeOK, AppliedInv, OnceInv, Claiming
<1>6. NoEventLost'
  BY DEF TypeOK, NoEventLost, Committed, UnderWay, BusyWith, AppliedInv, PublishedInv
<1>7. PublishedInv'
  BY DEF TypeOK, PublishedInv, UnderWay, BusyWith, AppliedInv, RelayInv
<1> QED
  BY <1>1, <1>2, <1>3, <1>4, <1>5, <1>6, <1>7

\* Every row marked sent has been published.
LEMMA MarkSentInv ==
  ASSUME IInv, NEW r \in Relays, MarkSent(r)
  PROVE  IInv'
<1> USE DEF IInv, MarkSent, Drained
<1>1. TypeOK'
  BY DEF TypeOK
<1>2. RelayInv'
  BY DEF TypeOK, RelayInv, RelaysDisjoint
<1>3. CauseInv'
  BY DEF TypeOK, CauseInv, Committed, RelayInv
<1>4. OnceInv'
  BY DEF TypeOK, OnceInv, Claiming
<1>5. AppliedInv'
  BY DEF TypeOK, AppliedInv, OnceInv, Claiming
<1>6. NoEventLost'
  BY DEF TypeOK, NoEventLost, Committed, UnderWay, BusyWith, AppliedInv, PublishedInv
<1>7. PublishedInv'
  BY DEF TypeOK, PublishedInv, UnderWay, BusyWith, AppliedInv, RelayInv
<1> QED
  BY <1>1, <1>2, <1>3, <1>4, <1>5, <1>6, <1>7

\* A drain that fails leaves its rows unsent.
LEMMA DrainFailsInv ==
  ASSUME IInv, NEW r \in Relays, DrainFails(r)
  PROVE  IInv'
<1> USE DEF IInv, DrainFails, Drained
<1>1. TypeOK'
  BY DEF TypeOK
<1>2. RelayInv'
  BY DEF TypeOK, RelayInv, RelaysDisjoint
<1>3. CauseInv'
  BY DEF TypeOK, CauseInv, Committed, RelayInv
<1>4. OnceInv'
  BY DEF TypeOK, OnceInv, Claiming
<1>5. AppliedInv'
  BY DEF TypeOK, AppliedInv, OnceInv, Claiming
<1>6. NoEventLost'
  BY DEF TypeOK, NoEventLost, Committed, UnderWay, BusyWith, AppliedInv, PublishedInv
<1>7. PublishedInv'
  BY DEF TypeOK, PublishedInv, UnderWay, BusyWith, AppliedInv, RelayInv
<1> QED
  BY <1>1, <1>2, <1>3, <1>4, <1>5, <1>6, <1>7

\* A delivered copy moves from the broker to its consumer.
LEMMA DeliverInv ==
  ASSUME IInv, NEW c \in Consumers, NEW e \in Events, Deliver(c, e)
  PROVE  IInv'
<1> USE DEF IInv, Deliver, At
<1>1. TypeOK'
  BY DEF TypeOK
<1>2. RelayInv'
  BY DEF TypeOK, RelayInv, RelaysDisjoint
<1>3. CauseInv'
  BY DEF TypeOK, CauseInv, Committed, RelayInv
<1>4. OnceInv'
  BY DEF TypeOK, OnceInv, Claiming
<1>5. AppliedInv'
  BY DEF TypeOK, AppliedInv, OnceInv, Claiming
<1>6. NoEventLost'
  BY DEF TypeOK, NoEventLost, Committed, UnderWay, BusyWith, AppliedInv, PublishedInv
<1>7. PublishedInv'
  BY DEF TypeOK, PublishedInv, UnderWay, BusyWith, AppliedInv, RelayInv
<1> QED
  BY <1>1, <1>2, <1>3, <1>4, <1>5, <1>6, <1>7

\* A claim is made only by the first, and only alone (_claim).
LEMMA ClaimInv ==
  ASSUME IInv, NEW c \in Consumers, Claim(c)
  PROVE  IInv'
<1> DEFINE e == consumer[c].event
           n == Claimed(consumer[c])
           Busy == [pc : {"claiming", "working", "committing", "acking"},
                    event : Events, first : BOOLEAN]
<1>1. TypeOK /\ RelayInv /\ CauseInv /\ OnceInv /\ AppliedInv /\ PublishedInv /\ NoEventLost
  BY DEF IInv
<1>2. consumer[c] \in Busy /\ consumer[c].pc = "claiming"
  BY <1>1 DEF Claim, At, TypeOK, Idle
<1>3. /\ n \in Busy /\ n.event = e
      /\ n.first = (e \notin inbox)
      /\ n.pc = IF e \notin inbox THEN "working" ELSE "committing"
  BY <1>2 DEF Claimed
<1>4. /\ consumer' = [consumer EXCEPT ![c] = n]
      /\ UNCHANGED <<outbox, relay, broker, inbox, effects, dead>>
  BY DEF Claim
<1>5. consumer'[c] = n /\ \A d \in Consumers \ {c} : consumer'[d] = consumer[d]
  BY <1>1, <1>4 DEF TypeOK
<1>6. n # Idle /\ consumer[c] # Idle
  BY <1>2, <1>3 DEF Idle
<1>7. \A d \in Consumers : Claiming(d) => consumer[d].event # e
  BY <1>1, <1>6 DEF Claim, Claimants, At, BusyWith, Claiming, TypeOK, Idle
<1>8. \A f \in Events : UnderWay(f)' <=> UnderWay(f)
  BY <1>3, <1>4, <1>5, <1>6 DEF UnderWay, BusyWith, Idle
<1> HIDE DEF n
<1>9. TypeOK'
  BY <1>1, <1>3, <1>4 DEF TypeOK
<1>10. RelayInv'
  BY <1>1, <1>4 DEF RelayInv, RelaysDisjoint
<1>11. CauseInv'
  BY <1>1, <1>3, <1>4, <1>5, <1>6 DEF CauseInv, Committed, Idle
<1>12. OnceInv'
  <2>1. \A d \in Consumers : Claiming(d)' => IF d = c THEN e \notin inbox ELSE Claiming(d)
    BY <1>3, <1>5 DEF Claiming
  <2> QED
    BY <1>1, <1>3, <1>4, <1>5, <1>7, <2>1 DEF OnceInv
<1>13. AppliedInv'
  BY <1>1, <1>3, <1>4, <1>5 DEF AppliedInv
<1>14. PublishedInv'
  BY <1>1, <1>4, <1>8 DEF PublishedInv, TypeOK
<1>15. NoEventLost'
  BY <1>1, <1>4, <1>8 DEF NoEventLost, Committed
<1> QED
  BY <1>9, <1>10, <1>11, <1>12, <1>13, <1>14, <1>15 DEF IInv

\* Work keeps the claim.
LEMMA WorkedInv ==
  ASSUME IInv, NEW c \in Consumers, Worked(c)
  PROVE  IInv'
<1> USE DEF IInv, Worked, At, Idle
<1>1. TypeOK'
  BY DEF TypeOK
<1>2. RelayInv'
  BY DEF TypeOK, RelayInv, RelaysDisjoint
<1>3. CauseInv'
  BY DEF TypeOK, CauseInv, Committed, RelayInv
<1>4. OnceInv'
  BY DEF TypeOK, OnceInv, Claiming
<1>5. AppliedInv'
  BY DEF TypeOK, AppliedInv, OnceInv, Claiming
<1>6. NoEventLost'
  BY DEF TypeOK, NoEventLost, Committed, UnderWay, BusyWith, AppliedInv, PublishedInv
<1>7. PublishedInv'
  BY DEF TypeOK, PublishedInv, UnderWay, BusyWith, AppliedInv, RelayInv
<1> QED
  BY <1>1, <1>2, <1>3, <1>4, <1>5, <1>6, <1>7

\* However a COMMIT of c is reported, its claim becomes an inbox row, and an event is
\* applied for the first time if c has claimed it.
LEMMA CommitsOnce ==
  ASSUME TypeOK, OnceInv, AppliedInv, NEW c \in Consumers, At(c, "committing"), Commits(c),
         \A d \in Consumers \ {c} : consumer'[d] = consumer[d],
         consumer'[c].pc \notin {"working", "committing"}
  PROVE  OnceInv'
<1> DEFINE e == consumer[c].event
<1>1. e \in Events /\ effects \in [Events -> Nat] /\ inbox' = inbox \cup {e}
  BY DEF TypeOK, At, Commits, Idle
<1>2. consumer[c].first => e \notin inbox /\ effects[e] = 0
  BY <1>1 DEF OnceInv, Claiming, At
<1>3. \A f \in Events : effects'[f] <= 1 /\ (effects'[f] > 0 => f \in inbox')
  <2>1. CASE consumer[c].first
    BY <1>1, <1>2, <2>1 DEF OnceInv, Commits
  <2>2. CASE ~consumer[c].first
    BY <1>1, <2>2 DEF OnceInv, Commits
  <2> QED
    BY <2>1, <2>2
<1>4. \A d \in Consumers : Claiming(d)' => d # c /\ Claiming(d) /\ consumer'[d] = consumer[d]
  BY DEF Claiming
<1>5. \A d \in Consumers : Claiming(d)' => consumer'[d].event \notin inbox'
  <2> SUFFICES ASSUME NEW d \in Consumers, Claiming(d)'
               PROVE  consumer[d].event \notin inbox /\ consumer[d].event # e
    BY <1>1, <1>4
  <2>1. consumer[d].event \notin inbox
    BY <1>4 DEF OnceInv
  <2>2. CASE consumer[c].first
    BY <1>4, <2>1, <2>2 DEF OnceInv, Claiming, At
  <2>3. CASE ~consumer[c].first
    BY <1>4, <2>1, <2>3 DEF OnceInv, AppliedInv, Claiming, At
  <2> QED
    BY <2>1, <2>2, <2>3
<1> QED
  BY <1>3, <1>4, <1>5 DEF OnceInv

\* A COMMIT turns the claim into an inbox row, and applies the effects with it.
LEMMA CommitInv ==
  ASSUME IInv, NEW c \in Consumers, Commit(c)
  PROVE  IInv'
<1> USE DEF IInv, Commit, At, Commits, Idle
<1>1. TypeOK'
  BY DEF TypeOK
<1>2. RelayInv'
  BY DEF TypeOK, RelayInv, RelaysDisjoint
<1>3. CauseInv'
  BY DEF TypeOK, CauseInv, Committed, RelayInv
<1>4. OnceInv'
  BY CommitsOnce DEF TypeOK
<1>5. AppliedInv'
  BY DEF TypeOK, AppliedInv, OnceInv, Claiming
<1>6. NoEventLost'
  BY DEF TypeOK, NoEventLost, Committed, UnderWay, BusyWith, AppliedInv, PublishedInv
<1>7. PublishedInv'
  BY DEF TypeOK, PublishedInv, UnderWay, BusyWith, AppliedInv, RelayInv
<1> QED
  BY <1>1, <1>2, <1>3, <1>4, <1>5, <1>6, <1>7

\* Whatever the COMMIT did, the message is in the broker again.
LEMMA CommitUnknownInv ==
  ASSUME IInv, NEW c \in Consumers, CommitUnknown(c)
  PROVE  IInv'
<1> USE DEF IInv, CommitUnknown, At, Commits, Requeued, Done, Idle
<1>1. TypeOK'
  BY DEF TypeOK
<1>2. RelayInv'
  BY DEF TypeOK, RelayInv, RelaysDisjoint
<1>3. CauseInv'
  BY DEF TypeOK, CauseInv, Committed, RelayInv
<1>4. OnceInv'
  <2>1. CASE Commits(c)
    BY <2>1, CommitsOnce DEF TypeOK
  <2>2. CASE UNCHANGED <<inbox, effects>>
    BY <2>2 DEF TypeOK, OnceInv, Claiming
  <2> QED
    BY <2>1, <2>2
<1>5. AppliedInv'
  BY DEF TypeOK, AppliedInv, OnceInv, Claiming
<1>6. NoEventLost'
  BY DEF TypeOK, NoEventLost, Committed, UnderWay, BusyWith, AppliedInv, PublishedInv
<1>7. PublishedInv'
  BY DEF TypeOK, PublishedInv, UnderWay, BusyWith, AppliedInv, RelayInv
<1> QED
  BY <1>1, <1>2, <1>3, <1>4, <1>5, <1>6, <1>7

\* A cancelled COMMIT applies the effects and gives the message up.
LEMMA CommitCancelledInv ==
  ASSUME IInv, NEW c \in Consumers, CommitCancelled(c)
  PROVE  IInv'
<1> USE DEF IInv, CommitCancelled, At, Commits, Done, Idle
<1>1. TypeOK'
  BY DEF TypeOK
<1>2. RelayInv'
  BY DEF TypeOK, RelayInv, RelaysDisjoint
<1>3. CauseInv'
  BY DEF TypeOK, CauseInv, Committed, RelayInv
<1>4. OnceInv'
  BY CommitsOnce DEF TypeOK
<1>5. AppliedInv'
  BY DEF TypeOK, AppliedInv, OnceInv, Claiming
<1>6. NoEventLost'
  BY DEF TypeOK, NoEventLost, Committed, UnderWay, BusyWith, AppliedInv, PublishedInv
<1>7. PublishedInv'
  BY DEF TypeOK, PublishedInv, UnderWay, BusyWith, AppliedInv, RelayInv
<1> QED
  BY <1>1, <1>2, <1>3, <1>4, <1>5, <1>6, <1>7

\* A delivery that ends without a COMMIT leaves nothing behind but the message.
LEMMA RequeueInv ==
  ASSUME IInv, NEW c \in Consumers, Requeue(c)
  PROVE  IInv'
<1> USE DEF IInv, Requeue, At, Requeued, Done, Idle
<1>1. TypeOK'
  BY DEF TypeOK
<1>2. RelayInv'
  BY DEF TypeOK, RelayInv, RelaysDisjoint
<1>3. CauseInv'
  BY DEF TypeOK, CauseInv, Committed, RelayInv
<1>4. OnceInv'
  BY DEF TypeOK, OnceInv, Claiming
<1>5. AppliedInv'
  BY DEF TypeOK, AppliedInv, OnceInv, Claiming
<1>6. NoEventLost'
  BY DEF TypeOK, NoEventLost, Committed, UnderWay, BusyWith, AppliedInv, PublishedInv
<1>7. PublishedInv'
  BY DEF TypeOK, PublishedInv, UnderWay, BusyWith, AppliedInv, RelayInv
<1> QED
  BY <1>1, <1>2, <1>3, <1>4, <1>5, <1>6, <1>7

\* A dead letter is a committed event.
LEMMA DeadLetterInv ==
  ASSUME IInv, NEW c \in Consumers, DeadLetter(c)
  PROVE  IInv'
<1> USE DEF IInv, DeadLetter, At, Done, Idle
<1>1. TypeOK'
  BY DEF TypeOK
<1>2. RelayInv'
  BY DEF TypeOK, RelayInv, RelaysDisjoint
<1>3. CauseInv'
  BY DEF TypeOK, CauseInv, Committed, RelayInv
<1>4. OnceInv'
  BY DEF TypeOK, OnceInv, Claiming
<1>5. AppliedInv'
  BY DEF TypeOK, AppliedInv, OnceInv, Claiming
<1>6. NoEventLost'
  BY DEF TypeOK, NoEventLost, Committed, UnderWay, BusyWith, AppliedInv, PublishedInv
<1>7. PublishedInv'
  BY DEF TypeOK, PublishedInv, UnderWay, BusyWith, AppliedInv, RelayInv
<1> QED
  BY <1>1, <1>2, <1>3, <1>4, <1>5, <1>6, <1>7

\* Only what has been applied is acked.
LEMMA AckInv ==
  ASSUME IInv, NEW c \in Consumers, Ack(c)
  PROVE  IInv'
<1> USE DEF IInv, Ack, At, Done, Idle
<1>1. TypeOK'
  BY DEF TypeOK
<1>2. RelayInv'
  BY DEF TypeOK, RelayInv, RelaysDisjoint
<1>3. CauseInv'
  BY DEF TypeOK, CauseInv, Committed, RelayInv
<1>4. OnceInv'
  BY DEF TypeOK, OnceInv, Claiming
<1>5. AppliedInv'
  BY DEF TypeOK, AppliedInv, OnceInv, Claiming
<1>6. NoEventLost'
  BY DEF TypeOK, NoEventLost, Committed, UnderWay, BusyWith, AppliedInv, PublishedInv
<1>7. PublishedInv'
  BY DEF TypeOK, PublishedInv, UnderWay, BusyWith, AppliedInv, RelayInv
<1> QED
  BY <1>1, <1>2, <1>3, <1>4, <1>5, <1>6, <1>7

\* Every step keeps the invariant.
LEMMA NextInv == IInv /\ [Next]_vars => IInv'
<1> SUFFICES ASSUME IInv, [Next]_vars PROVE IInv'
  OBVIOUS
<1>1. CASE \E e \in Events : Enqueue(e)
  BY <1>1, EnqueueInv
<1>2. ASSUME NEW r \in Relays, RelayStep(r) \/ DrainFails(r) PROVE IInv'
  BY <1>2, DrainInv, PublishInv, MarkSentInv, DrainFailsInv DEF RelayStep
<1>3. ASSUME NEW c \in Consumers, ConsumerStep(c) PROVE IInv'
  BY <1>3, DeliverInv, ClaimInv, WorkedInv, CommitInv, DeadLetterInv, AckInv DEF ConsumerStep
<1>4. ASSUME NEW c \in Consumers, CommitUnknown(c) \/ CommitCancelled(c) \/ Requeue(c)
      PROVE  IInv'
  BY <1>4, CommitUnknownInv, CommitCancelledInv, RequeueInv
<1>5. CASE UNCHANGED vars
  BY <1>5 DEF vars, IInv, TypeOK, RelayInv, RelaysDisjoint, CauseInv, OnceInv, Claiming,
              AppliedInv, PublishedInv, UnderWay, BusyWith, NoEventLost, Committed
<1> QED
  BY <1>1, <1>2, <1>3, <1>4, <1>5 DEF Next

\* The invariant holds in every behaviour.
LEMMA Invariance == Spec => []IInv
BY InitIInv, NextInv, PTL DEF Spec

(***************************************************************************)
(* Safety                                                                  *)
(***************************************************************************)

\* Every variable keeps its type.
THEOREM TypeCorrect == Spec => []TypeOK
<1>1. IInv => TypeOK
  BY DEF IInv
<1> QED
  BY <1>1, Invariance, PTL

\* No committed event is ever lost between its outbox row and its effects, whatever
\* crashes (drain, ack_after_commit).
THEOREM Delivery == Spec => []NoEventLost
<1>1. IInv => NoEventLost
  BY DEF IInv
<1> QED
  BY <1>1, Invariance, PTL

\* No two relays ever work on one row (SKIP LOCKED in drain).
THEOREM Relaying == Spec => []RelaysDisjoint
<1>1. IInv => RelaysDisjoint
  BY DEF IInv, RelayInv
<1> QED
  BY <1>1, Invariance, PTL

\* The work of a message never runs in two transactions that could both commit, nor
\* again once it has been applied (_claim).
THEOREM Deduplication == Spec => []WorkedOnOnce
<1>1. IInv => WorkedOnOnce
  <2> SUFFICES ASSUME IInv, NEW e \in Events
               PROVE  /\ effects[e] <= 1
                      /\ \A c, d \in Claimants(e) : c = d /\ effects[e] = 0
    BY DEF WorkedOnOnce
  <2>1. effects[e] \in Nat /\ effects[e] <= 1 /\ (effects[e] > 0 => e \in inbox)
    BY DEF IInv, TypeOK, OnceInv
  <2>2. \A c \in Claimants(e) : c \in Consumers /\ Claiming(c) /\ consumer[c].event = e
    BY DEF Claimants, Claiming, At, BusyWith
  <2> QED
    BY <2>1, <2>2 DEF IInv, OnceInv
<1> QED
  BY <1>1, Invariance, PTL

(***************************************************************************)
(* Refinement                                                              *)
(***************************************************************************)

\* A COMMIT of a consumer applies one event for the first time, or none.
LEMMA CommitsApply ==
  ASSUME IInv, NEW c \in Consumers, At(c, "committing"), Commits(c)
  PROVE  LET e == consumer[c].event IN
         /\ e \in Committed
         /\ \/ effects' = effects
            \/ effects[e] = 0 /\ effects' = [effects EXCEPT ![e] = 1]
<1> DEFINE e == consumer[c].event
<1>1. e \in Committed /\ e \in Events /\ effects \in [Events -> Nat]
  BY DEF IInv, CauseInv, TypeOK, At, Idle
<1>2. CASE consumer[c].first
  <2>1. effects[e] = 0
    BY <1>1, <1>2 DEF IInv, OnceInv, Claiming, At
  <2> QED
    BY <1>1, <1>2, <2>1 DEF Commits
<1>3. CASE ~consumer[c].first
  BY <1>1, <1>3 DEF Commits
<1> QED
  BY <1>2, <1>3

\* Every step of the outbox, the broker and the inbox is one that the promise allows,
\* or changes nothing the promise is about.
LEMMA StepImplements ==
  IInv /\ [Next]_vars => [Promise!Next]_<<Committed, effects, dead>>
<1> SUFFICES ASSUME IInv, [Next]_vars
             PROVE  Promise!Next \/ UNCHANGED <<Committed, effects, dead>>
  OBVIOUS
<1> USE DEF Promise!Next
<1>1. ASSUME NEW e \in Events, Enqueue(e)
      PROVE  Promise!Produce(e) \/ UNCHANGED <<Committed, effects, dead>>
  BY <1>1 DEF Enqueue, Promise!Produce, Committed, IInv, TypeOK
<1>2. ASSUME NEW r \in Relays, RelayStep(r) \/ DrainFails(r)
      PROVE  UNCHANGED <<Committed, effects, dead>>
  <2>1. CASE MarkSent(r)
    BY <2>1 DEF MarkSent, Committed, IInv, TypeOK, RelayInv
  <2>2. CASE Drain(r) \/ (\E e \in Events : Publish(r, e)) \/ DrainFails(r)
    BY <2>2 DEF Drain, Publish, DrainFails, Committed
  <2> QED
    BY <1>2, <2>1, <2>2 DEF RelayStep
<1>3. ASSUME NEW c \in Consumers,
             (\E e \in Events : Deliver(c, e)) \/ Claim(c) \/ Worked(c) \/ Requeue(c) \/ Ack(c)
      PROVE  UNCHANGED <<Committed, effects, dead>>
  BY <1>3 DEF Deliver, Claim, Worked, Requeue, Ack, Committed
<1>4. ASSUME NEW c \in Consumers, DeadLetter(c)
      PROVE  Promise!GiveUp(consumer[c].event) /\ consumer[c].event \in Events
  BY <1>4 DEF DeadLetter, Promise!GiveUp, Committed, At, Idle, IInv, TypeOK, CauseInv
<1>5. ASSUME NEW c \in Consumers, Commit(c) \/ CommitUnknown(c)
      PROVE  \/ Promise!Apply(consumer[c].event) /\ consumer[c].event \in Events
             \/ UNCHANGED <<Committed, effects, dead>>
  <2>1. CASE Commits(c) /\ At(c, "committing")
    BY <1>5, <2>1, CommitsApply DEF Commit, CommitUnknown, Promise!Apply, Committed
  <2>2. CASE UNCHANGED <<inbox, effects>>
    BY <1>5, <2>2 DEF Commit, CommitUnknown, Committed
  <2> QED
    BY <1>5, <2>1, <2>2 DEF Commit, CommitUnknown
<1>6. ASSUME NEW c \in Consumers, CommitCancelled(c)
      PROVE  /\ consumer[c].event \in Events
             /\ Promise!ApplyAndGiveUp(consumer[c].event) \/ Promise!GiveUp(consumer[c].event)
  BY <1>6, CommitsApply DEF CommitCancelled, Promise!ApplyAndGiveUp, Promise!GiveUp, Committed
<1>7. CASE UNCHANGED vars
  BY <1>7 DEF vars, Committed
<1> QED
  BY <1>1, <1>2, <1>3, <1>4, <1>5, <1>6, <1>7 DEF Next, ConsumerStep

\* Relays and consumers exclude each other.
THEOREM Exclusion == Spec => []Exclusive
  BY Relaying, Deduplication, PTL DEF Exclusive

\* The outbox, the broker and the inbox keep the promise: the effects of an event are
\* applied at most once, and only if its producer's transaction committed.
THEOREM Refinement == Spec => Implements
<1>1. Init => Promise!Init
  BY DEF Init, Promise!Init, Committed
<1> QED
  BY <1>1, Invariance, StepImplements, PTL DEF Spec, Implements, Promise!Spec

-----------------------------------------------------------------------------
(***************************************************************************)
(* Routing, for any number of threads, replicas, shards and keys: the      *)
(* cache of shards answers for the key that was asked, a call is refused   *)
(* only when its database was being changed, and the rotation goes on.     *)
(***************************************************************************)

CacheEntry == [key : Keys, shard : Shards]

Typed ==
  /\ kinds \in Kinds /\ config \in {NoDatabase} \cup Versions
  /\ names \in Seq(Names) /\ counter \in Nat \cup {None}
  /\ cache \in Seq(CacheEntry) /\ directory \in [Values -> Shards \cup {None}]
  /\ call \in [Threads -> CallRecords]
  /\ mode \in [Threads -> BOOLEAN] /\ scopes \in [Threads -> Seq(BOOLEAN)]

\* The buckets of the keys that a dictionary holds equal to a key.
Alike(key) == {Bucket[k] : k \in {k \in Keys : Equal(k, key)}}

Caching == {"touch", "store", "trim", "evict"}

\* A thread that still has to trim the cache.
Trimmers == {t \in Threads : call[t].pc \in {"trim", "evict"}}

\* An OrderedDict of buckets: each under a key equal to its own, and no key twice.
IsCache(d) ==
  /\ d \in Seq(CacheEntry)
  /\ \A i \in 1..Len(d) : d[i].shard \in Alike(d[i].key)
  /\ \A i, j \in 1..Len(d) : Equal(d[i].key, d[j].key) => i = j

Holds(d, key) == \E i \in 1..Len(d) : Equal(d[i].key, key)

CacheRight ==
  /\ IsCache(cache)
  /\ Len(cache) <= CacheSize + Cardinality(Trimmers)

\* The swap of a registration, step by step: at its end the selector has the replicas of
\* the configuration.
Swapping ==
  \E v \in {NoDatabase} \cup Versions :
    \/ admin = <<>> /\ config = v /\ names = ListOf(v)
    \/ admin = <<<<"config", v>>, <<"names", v>>, <<"counter", v>>>>
    \/ admin = <<<<"names", v>>, <<"counter", v>>>> /\ config = v
    \/ admin = <<<<"counter", v>>>> /\ config = v /\ names = ListOf(v)

\* The tokens of the scopes that a thread is in restore the mode scope by scope.
Nested ==
  \A t \in Threads :
    /\ mode[t] <=> scopes[t] # <<>>
    /\ \A i \in 1..Len(scopes[t]) : scopes[t][i] <=> i < Len(scopes[t])

\* The shard is that of the range between whose bounds the key lies.
InRange(key, shard) ==
  \E i \in DOMAIN Ranges :
    /\ Ranges[i].shard = shard /\ Value[key] < Ranges[i].upper
    /\ \A j \in DOMAIN Ranges : Ranges[j].upper < Ranges[i].upper => Ranges[j].upper <= Value[key]

\* What a call c knows of its key and its shard.
Keyed(c) ==
  /\ c.pc \in {"shard"} \cup Caching => c.key \in Keys
  /\ c.pc \in Caching => kinds.resolver = "hash" /\ c.shard # None
  /\ kinds.resolver = "hash" /\ c.shard # None => c.shard \in Alike(c.key)
  /\ kinds.resolver = "range" /\ c.shard # None => InRange(c.key, c.shard)

\* Where a call c of thread t may read.
Reading(t, c) ==
  /\ c.pc \in Selecting => Len(c.listed) > 0
  /\ c.pc \in {"count", "advance"} => c.index < Len(c.listed)
  /\ c.pc \notin Ended \cup {"target"} => c.replica = None
  /\ mode[t] => ~c.reads /\ c.replica = None /\ c.pc \notin {"select"} \cup Selecting

\* A call that nobody disturbed finds what it was resolved for.
Undisturbed(c) ==
  /\ config # NoDatabase /\ names = ListOf(config)
  /\ c.pc \in Selecting => c.listed = names
  /\ c.replica # None => Contains(names, c.replica)
  /\ c.pc = "touch" => Holds(cache, c.key)

Explained(c) ==
  /\ c.pc \notin Ended /\ ~c.disturbed => Undisturbed(c)
  /\ c.pc \in {"refused", "KeyError"} => c.disturbed

\* A call that selects alone has the counter for itself.
InTurn(c) ==
  c.alone =>
    /\ c.pc \in Selecting
    /\ c.pc \in {"count", "advance"} => c.index = Count % Len(c.listed)
    /\ c.pc = "advance" => c.read = Count

OneAlone ==
  \A t, s \in Threads : call[t].alone /\ s # t => call[s].pc \notin Selecting

\* The counter is past the last selection that stood alone.
Rotating ==
  last # None => \E n \in Nat : counter = n + 1 /\ last.index = n % Len(last.listed)

RightCall(t, c) == c \in CallRecords /\ Keyed(c) /\ Reading(t, c) /\ Explained(c) /\ InTurn(c)

RoutingInv ==
  /\ Typed /\ CacheRight /\ Swapping /\ Nested
  /\ \A t \in Threads : RightCall(t, call[t])
  /\ OneAlone /\ Rotating

(***************************************************************************)
(* The cache                                                               *)
(***************************************************************************)

\* A set of natural numbers has a least element.
LEMMA Least ==
  ASSUME NEW S, S \subseteq Nat, S # {}
  PROVE  Min(S) \in S /\ \A y \in S : Min(S) <= y
<1> DEFINE R == {ss \in Nat \X Nat : ss[1] < ss[2]}
<1>1. IsWellFoundedOn(R, Nat)
  BY NatLessThanWellFounded, Zenon DEF OpToRel
<1>2. \A x, y \in Nat : x < y => <<x, y>> \in R
  OBVIOUS
<1> HIDE DEF R
<1>3. PICK x \in S : \A y \in S : ~ (<<y, x>> \in R)
  BY <1>1, WFMin
<1>4. \A y \in S : ~ (y < x)
  BY <1>2, <1>3
<1>5. \A y \in S : x <= y
  BY <1>4
<1> QED
  BY <1>5 DEF Min

\* The place of a key is that of an equal one, if there is one.
LEMMA PlaceIs ==
  ASSUME cache \in Seq(CacheEntry), NEW key
  PROVE  /\ Place(key) \in 0..Len(cache)
         /\ Place(key) # 0 => Place(key) \in 1..Len(cache) /\ Equal(cache[Place(key)].key, key)
         /\ Place(key) # 0 <=> Holds(cache, key)
<1> DEFINE I == {i \in 1..Len(cache) : Equal(cache[i].key, key)}
<1>1. Len(cache) \in Nat
  BY LenProperties
<1>2. Place(key) = IF I # {} THEN Min(I) ELSE 0
  BY DEF Place, SelectInSeq
<1>3. \A i \in I : i \in 1..Len(cache) /\ Equal(cache[i].key, key)
  OBVIOUS
<1>4. I # {} <=> Holds(cache, key)
  BY DEF Holds
<1>5. I \subseteq Nat
  BY <1>1
<1> HIDE DEF I
<1>6. CASE I = {}
  BY <1>1, <1>2, <1>4, <1>6
<1>7. CASE I # {}
  <2> DEFINE k == Place(key)
  <2>1. k \in I
    BY <1>2, <1>5, <1>7, Least
  <2> HIDE DEF k
  <2>2. k \in 1..Len(cache) /\ Equal(cache[k].key, key)
    BY <1>3, <2>1
  <2>3. k # 0 /\ k \in 0..Len(cache)
    BY <1>1, <2>2
  <2> QED
    BY <1>4, <1>7, <2>2, <2>3 DEF k
<1> QED
  BY <1>6, <1>7

\* What is found under a key is a bucket of an equal one.
LEMMA CachedIs ==
  ASSUME RoutingAssumption, IsCache(cache), NEW key
  PROVE  /\ Cached(key) = None <=> Place(key) = 0
         /\ Cached(key) # None => Cached(key) \in Alike(key) /\ Cached(key) \in Shards
<1> DEFINE k == Place(key)
<1>1. k = 0 \/ (k \in 1..Len(cache) /\ Equal(cache[k].key, key))
  BY PlaceIs DEF IsCache
<1>2. Cached(key) = IF k = 0 THEN None ELSE cache[k].shard
  BY DEF Cached
<1> HIDE DEF k
<1>3. CASE k = 0
  BY <1>2, <1>3 DEF k
<1>4. CASE k # 0
  <2>1. cache[k] \in CacheEntry
    BY <1>1, <1>4, ElementOfSeq DEF IsCache
  <2>2. cache[k].shard \in Shards /\ cache[k].shard # None
    BY <2>1 DEF CacheEntry, RoutingAssumption
  <2>3. cache[k].shard \in Alike(cache[k].key)
    BY <1>1, <1>4 DEF IsCache
  <2>4. Alike(cache[k].key) = Alike(key)
    BY <1>1, <1>4 DEF Alike, Equal
  <2> QED
    BY <1>2, <1>4, <2>2, <2>3, <2>4 DEF k
<1> QED
  BY <1>3, <1>4

\* What is left of a sequence without the element at one place.
LEMMA Remaining ==
  ASSUME NEW S, NEW q \in Seq(S), NEW k \in 1..Len(q)
  PROVE  /\ RemoveAt(q, k) \in Seq(S)
         /\ Len(RemoveAt(q, k)) = Len(q) - 1
         /\ \A i \in 1..Len(q) - 1 : RemoveAt(q, k)[i] = IF i < k THEN q[i] ELSE q[i + 1]
<1> DEFINE before == SubSeq(q, 1, k - 1)
           after == SubSeq(q, k + 1, Len(q))
<1>1. Len(q) \in Nat /\ \A i \in 1..Len(q) : q[i] \in S
  BY LenProperties
<1>2. /\ before \in Seq(S) /\ Len(before) = k - 1
      /\ \A i \in 1..k - 1 : before[i] = q[i]
  BY <1>1, SubSeqProperties
<1>3. /\ after \in Seq(S) /\ Len(after) = Len(q) - k
      /\ \A i \in 1..Len(q) - k : after[i] = q[k + i]
  BY <1>1, SubSeqProperties
<1>4. RemoveAt(q, k) = before \o after
  BY DEF RemoveAt
<1> HIDE DEF before, after
<1>5. /\ before \o after \in Seq(S)
      /\ Len(before \o after) = Len(before) + Len(after)
      /\ \A i \in 1..Len(before) + Len(after) :
           (before \o after)[i] = IF i <= Len(before) THEN before[i] ELSE after[i - Len(before)]
  BY <1>2, <1>3, ConcatProperties
<1> QED
  BY <1>1, <1>2, <1>3, <1>4, <1>5

\* A key that moves to the end takes its bucket along, and the others stay.
LEMMA MovedIs ==
  ASSUME cache \in Seq(CacheEntry), NEW key, Place(key) # 0
  PROVE  LET d == MovedToEnd(key)
             from(i) == IF i = Len(cache) THEN Place(key) ELSE IF i < Place(key) THEN i ELSE i + 1
         IN  /\ d \in Seq(CacheEntry) /\ Len(d) = Len(cache)
             /\ \A i \in 1..Len(cache) : from(i) \in 1..Len(cache) /\ d[i] = cache[from(i)]
             /\ \A i, j \in 1..Len(cache) : from(i) = from(j) => i = j
             /\ \A j \in 1..Len(cache) : \E i \in 1..Len(cache) : from(i) = j
<1> DEFINE k == Place(key)
           r == RemoveAt(cache, k)
           d == MovedToEnd(key)
           from(i) == IF i = Len(cache) THEN k ELSE IF i < k THEN i ELSE i + 1
<1>1. Len(cache) \in Nat /\ k \in 1..Len(cache)
  BY LenProperties, PlaceIs
<1>2. d = Append(r, cache[k])
  BY DEF MovedToEnd
<1> HIDE DEF k, d
<1>3. /\ r \in Seq(CacheEntry) /\ Len(r) = Len(cache) - 1
      /\ \A i \in 1..Len(cache) - 1 : r[i] = IF i < k THEN cache[i] ELSE cache[i + 1]
  BY <1>1, Remaining
<1>4. cache[k] \in CacheEntry
  BY <1>1, ElementOfSeq
<1> HIDE DEF r
<1>5. /\ d \in Seq(CacheEntry) /\ Len(d) = Len(r) + 1
      /\ \A i \in 1..Len(r) : d[i] = r[i]
      /\ d[Len(r) + 1] = cache[k]
  BY <1>2, <1>3, <1>4, AppendProperties
<1>6. Len(d) = Len(cache)
  BY <1>1, <1>3, <1>5
<1>7. ASSUME NEW i \in 1..Len(cache) PROVE from(i) \in 1..Len(cache) /\ d[i] = cache[from(i)]
  <2>1. CASE i = Len(cache)
    <3>1. i = Len(r) + 1 /\ from(i) = k
      BY <1>1, <1>3, <2>1
    <3> QED
      BY <1>1, <1>5, <3>1
  <2>2. CASE i # Len(cache)
    <3>1. i \in 1..Len(cache) - 1 /\ i \in 1..Len(r)
      BY <1>1, <1>3, <2>2
    <3> QED
      BY <1>1, <1>3, <1>5, <2>2, <3>1
  <2> QED
    BY <2>1, <2>2
<1>8. \A i, j \in 1..Len(cache) : from(i) = from(j) => i = j
  BY <1>1
<1>9. ASSUME NEW j \in 1..Len(cache) PROVE \E i \in 1..Len(cache) : from(i) = j
  <2> DEFINE i == IF j = k THEN Len(cache) ELSE IF j < k THEN j ELSE j - 1
  <2>1. i \in 1..Len(cache) /\ from(i) = j
    BY <1>1
  <2> QED
    BY <2>1
<1> QED
  BY <1>5, <1>6, <1>7, <1>8, <1>9 DEF k, d

\* A hit keeps the cache what it is, and every key that it holds.
LEMMA MovedRight ==
  ASSUME IsCache(cache), NEW key, Place(key) # 0
  PROVE  /\ IsCache(MovedToEnd(key)) /\ Len(MovedToEnd(key)) = Len(cache)
         /\ \A m : Holds(cache, m) => Holds(MovedToEnd(key), m)
<1> DEFINE d == MovedToEnd(key)
           from(i) == IF i = Len(cache) THEN Place(key) ELSE IF i < Place(key) THEN i ELSE i + 1
<1>1. cache \in Seq(CacheEntry)
  BY DEF IsCache
<1>2. /\ d \in Seq(CacheEntry) /\ Len(d) = Len(cache)
      /\ \A i \in 1..Len(cache) : from(i) \in 1..Len(cache) /\ d[i] = cache[from(i)]
      /\ \A i, j \in 1..Len(cache) : from(i) = from(j) => i = j
      /\ \A j \in 1..Len(cache) : \E i \in 1..Len(cache) : from(i) = j
  BY <1>1, MovedIs
<1> HIDE DEF d, from
<1>3. IsCache(d)
  <2>1. \A i \in 1..Len(d) : d[i].shard \in Alike(d[i].key)
    BY <1>2 DEF IsCache
  <2>2. ASSUME NEW i \in 1..Len(d), NEW j \in 1..Len(d), Equal(d[i].key, d[j].key) PROVE i = j
    <3>1. from(i) = from(j)
      BY <1>2, <2>2 DEF IsCache
    <3> QED
      BY <1>2, <3>1
  <2> QED
    BY <1>2, <2>1, <2>2 DEF IsCache
<1>4. \A m : Holds(cache, m) => Holds(d, m)
  BY <1>2 DEF Holds
<1> QED
  BY <1>2, <1>3, <1>4 DEF d

\* A bucket that is stored under its key, or under one that is equal to it.
LEMMA StoredRight ==
  ASSUME IsCache(cache), NEW key \in Keys, NEW shard \in Alike(key), shard \in Shards
  PROVE  /\ IsCache(Stored(key, shard))
         /\ Len(Stored(key, shard)) \in {Len(cache), Len(cache) + 1}
         /\ \A m : Holds(cache, m) => Holds(Stored(key, shard), m)
<1> DEFINE k == Place(key)
           d == Stored(key, shard)
<1>1. cache \in Seq(CacheEntry) /\ Len(cache) \in Nat
  BY LenProperties DEF IsCache
<1>2. /\ k \in 0..Len(cache)
      /\ k # 0 => k \in 1..Len(cache) /\ Equal(cache[k].key, key)
      /\ k # 0 <=> Holds(cache, key)
  BY <1>1, PlaceIs
<1>3. CASE k = 0
  <2> DEFINE e == [key |-> key, shard |-> shard]
  <2>1. d = Append(cache, e)
    BY <1>3 DEF Stored
  <2>2. e \in CacheEntry /\ e.key = key /\ e.shard = shard
    BY DEF CacheEntry
  <2> HIDE DEF d, e, k
  <2>3. /\ d \in Seq(CacheEntry) /\ Len(d) = Len(cache) + 1
        /\ \A i \in 1..Len(cache) : d[i] = cache[i]
        /\ d[Len(cache) + 1] = e
    BY <1>1, <2>1, <2>2, AppendProperties
  <2>4. \A i \in 1..Len(d) : i \in 1..Len(cache) \/ i = Len(cache) + 1
    BY <1>1, <2>3
  <2>5. \A i \in 1..Len(cache) : ~Equal(cache[i].key, key)
    BY <1>2, <1>3 DEF Holds
  <2>6. \A i \in 1..Len(d) : d[i].shard \in Alike(d[i].key)
    BY <2>2, <2>3, <2>4 DEF IsCache
  <2>7. \A i, j \in 1..Len(d) : Equal(d[i].key, d[j].key) => i = j
    BY <2>2, <2>3, <2>4, <2>5 DEF IsCache, Equal
  <2>8. \A i \in 1..Len(cache) : i \in 1..Len(d)
    BY <1>1, <2>3
  <2>9. \A m : Holds(cache, m) => Holds(d, m)
    BY <2>3, <2>8 DEF Holds
  <2> QED
    BY <2>3, <2>6, <2>7, <2>9 DEF IsCache, d
<1>4. CASE k # 0
  <2> DEFINE e == [cache[k] EXCEPT !.shard = shard]
  <2>1. k \in 1..Len(cache) /\ Equal(cache[k].key, key)
    BY <1>2, <1>4
  <2>2. d = [cache EXCEPT ![k] = e]
    BY <1>4 DEF Stored
  <2>3. cache[k] \in CacheEntry
    BY <1>1, <2>1, ElementOfSeq
  <2>4. e \in CacheEntry /\ e.key = cache[k].key /\ e.shard = shard
    BY <2>3 DEF CacheEntry
  <2> HIDE DEF d, e, k
  <2>5. /\ d \in Seq(CacheEntry) /\ Len(d) = Len(cache)
        /\ \A j \in 1..Len(cache) : d[j] = IF j = k THEN e ELSE cache[j]
    BY <1>1, <2>1, <2>2, <2>4, ExceptSeq
  <2>6. \A j \in 1..Len(cache) : d[j].key = cache[j].key
    BY <2>4, <2>5
  <2>7. Alike(cache[k].key) = Alike(key)
    BY <2>1 DEF Alike, Equal
  <2>8. \A i \in 1..Len(cache) : d[i].shard \in Alike(d[i].key)
    BY <2>4, <2>5, <2>6, <2>7 DEF IsCache
  <2>9. \A i, j \in 1..Len(cache) : Equal(d[i].key, d[j].key) => i = j
    BY <2>6 DEF IsCache
  <2>10. \A m : Holds(cache, m) => Holds(d, m)
    BY <2>5, <2>6 DEF Holds
  <2> QED
    BY <2>5, <2>8, <2>9, <2>10 DEF IsCache, d
<1> QED
  BY <1>3, <1>4

\* popitem: the keys that are not equal to the first one stay.
LEMMA EvictedRight ==
  ASSUME IsCache(cache), cache # <<>>
  PROVE  /\ IsCache(Tail(cache)) /\ Len(Tail(cache)) = Len(cache) - 1
         /\ \A m : Holds(cache, m) /\ ~Equal(m, Head(cache).key) => Holds(Tail(cache), m)
<1> DEFINE d == Tail(cache)
<1>1. cache \in Seq(CacheEntry) /\ Len(cache) \in Nat
  BY LenProperties DEF IsCache
<1>2. /\ d \in Seq(CacheEntry) /\ Len(d) = Len(cache) - 1
      /\ \A i \in 1..Len(d) : d[i] = cache[i + 1]
  BY <1>1, HeadTailProperties
<1>3. Head(cache) = cache[1]
  BY <1>1
<1> HIDE DEF d
<1>4. \A i \in 1..Len(d) : i + 1 \in 1..Len(cache)
  BY <1>1, <1>2
<1>5. \A i \in 1..Len(d) : d[i].shard \in Alike(d[i].key)
  BY <1>2, <1>4 DEF IsCache
<1>6. ASSUME NEW i \in 1..Len(d), NEW j \in 1..Len(d), Equal(d[i].key, d[j].key) PROVE i = j
  <2>1. i + 1 = j + 1
    BY <1>2, <1>4, <1>6 DEF IsCache
  <2> QED
    BY <2>1
<1>7. ASSUME NEW m, Holds(cache, m), ~Equal(m, Head(cache).key) PROVE Holds(d, m)
  <2>1. PICK i \in 1..Len(cache) : Equal(cache[i].key, m)
    BY <1>7 DEF Holds
  <2>2. i # 1
    BY <1>3, <1>7, <2>1 DEF Equal
  <2>3. i - 1 \in 1..Len(d) /\ (i - 1) + 1 = i
    BY <1>1, <1>2, <2>1, <2>2
  <2>4. d[i - 1] = cache[i]
    BY <1>2, <2>3
  <2> QED
    BY <2>1, <2>3, <2>4 DEF Holds
<1> QED
  BY <1>2, <1>5, <1>6, <1>7 DEF IsCache, d

(***************************************************************************)
(* What a step leaves as it is                                             *)
(***************************************************************************)

\* There are finitely many trimmers.
LEMMA TrimmersFinite ==
  ASSUME RoutingAssumption
  PROVE  IsFiniteSet(Trimmers) /\ Cardinality(Trimmers) \in Nat
<1>1. IsFiniteSet(Threads) /\ Trimmers \in SUBSET Threads
  BY DEF RoutingAssumption, Trimmers
<1> HIDE DEF Trimmers
<1> QED
  BY <1>1, FS_Subset, FS_CardinalityType

\* The trimmers once t has gone to p.
LEMMA TrimmersBecome ==
  ASSUME RoutingAssumption, NEW t \in Threads, NEW p,
         \A s \in Threads : call'[s].pc = IF s = t THEN p ELSE call[s].pc
  PROVE  /\ p \in {"trim", "evict"} /\ call[t].pc \notin {"trim", "evict"} =>
              Cardinality(Trimmers') = Cardinality(Trimmers) + 1
         /\ p \notin {"trim", "evict"} /\ call[t].pc \in {"trim", "evict"} =>
              Cardinality(Trimmers') = Cardinality(Trimmers) - 1
         /\ (p \in {"trim", "evict"} <=> call[t].pc \in {"trim", "evict"}) =>
              Cardinality(Trimmers') = Cardinality(Trimmers)
         /\ Cardinality(Trimmers') \in Nat
<1>1. IsFiniteSet(Trimmers)
  BY TrimmersFinite
<1>2. IsFiniteSet(Threads)
  BY DEF RoutingAssumption
<1>3. t \in Trimmers <=> call[t].pc \in {"trim", "evict"}
  BY DEF Trimmers
<1>4. Trimmers' = IF p \in {"trim", "evict"} THEN Trimmers \cup {t} ELSE Trimmers \ {t}
  BY DEF Trimmers
<1> DEFINE T == Trimmers
<1>5. IsFiniteSet(T) /\ (t \in T <=> call[t].pc \in {"trim", "evict"})
      /\ Trimmers' = IF p \in {"trim", "evict"} THEN T \cup {t} ELSE T \ {t}
  BY <1>1, <1>3, <1>4
<1> HIDE DEF T
<1>6. t \notin T => Cardinality(T \cup {t}) = Cardinality(T) + 1
  BY <1>5, FS_AddElement
<1>7. t \in T => Cardinality(T \ {t}) = Cardinality(T) - 1
  BY <1>5, FS_RemoveElement
<1>8. (t \in T => T \cup {t} = T) /\ (t \notin T => T \ {t} = T)
  OBVIOUS
<1>9. Cardinality(Trimmers') \in Nat
  <2>1. Trimmers' \in SUBSET Threads
    BY DEF Trimmers
  <2>2. PICK U \in SUBSET Threads : U = Trimmers'
    BY <2>1
  <2>3. Cardinality(U) \in Nat
    BY <1>2, FS_Subset, FS_CardinalityType
  <2> QED
    BY <2>2, <2>3
<1> QED
  BY <1>5, <1>6, <1>7, <1>8, <1>9 DEF T

\* A swap stays where it is while its variables do.
LEMMA SwappingKept ==
  ASSUME Swapping, UNCHANGED <<admin, config, names>>
  PROVE  Swapping'
  BY DEF Swapping, ListOf

\* The scopes stay nested while nobody enters or leaves one.
LEMMA NestedKept ==
  ASSUME Nested, UNCHANGED <<mode, scopes>>
  PROVE  Nested'
  BY DEF Nested

\* The rotation stays where it is while its counter does.
LEMMA RotatingKept ==
  ASSUME Rotating, UNCHANGED <<counter, last>>
  PROVE  Rotating'
  BY DEF Rotating

\* A call that is right stays so while the cache holds the keys that it held.
LEMMA CallKept ==
  ASSUME NEW s \in Threads, NEW x, RightCall(s, x),
         UNCHANGED <<kinds, config, names>>, x.alone => counter' = counter, mode'[s] = mode[s],
         x.pc = "touch" /\ Holds(cache, x.key) => Holds(cache', x.key) \/ x.disturbed,
         call'[s] = x
  PROVE  RightCall(s, call[s])'
<1>1. x \in CallRecords /\ Keyed(x) /\ Reading(s, x) /\ Explained(x) /\ InTurn(x)
  BY DEF RightCall
<1>2. CallRecords' = CallRecords
  BY DEF CallRecords
<1>3. Keyed(call[s])'
  BY <1>1 DEF Keyed, Alike, Equal, InRange
<1>4. Reading(s, call[s])'
  BY <1>1 DEF Reading
<1>5. Explained(call[s])'
  BY <1>1 DEF Explained, Undisturbed, ListOf, Holds, Contains
<1>6. InTurn(call[s])'
  BY <1>1 DEF InTurn, Count
<1> QED
  BY <1>1, <1>2, <1>3, <1>4, <1>5, <1>6 DEF RightCall

\* The call of t becomes c and the cache d.
LEMMA OneCall ==
  ASSUME RoutingAssumption, RoutingInv, NEW t \in Threads, NEW c, RightCall(t, c),
         call' = [call EXCEPT ![t] = c], IsCache(cache'),
         \A m : Holds(cache, m) => Holds(cache', m),
         Len(cache') <= CacheSize + Cardinality(Trimmers'),
         UNCHANGED <<kinds, config, selector, directory, admin, mode, scopes>>,
         c.pc \in Selecting => call[t].pc \in Selecting, c.alone => call[t].alone
  PROVE  RoutingInv'
<1>1. Typed /\ CacheRight /\ Swapping /\ Nested /\ OneAlone /\ Rotating
  BY DEF RoutingInv
<1>2. call \in [Threads -> CallRecords] /\ c \in CallRecords
  BY <1>1 DEF Typed, RightCall
<1>3. call'[t] = c /\ \A s \in Threads \ {t} : call'[s] = call[s]
  BY <1>2
<1>4. UNCHANGED <<kinds, config, names, counter, last, directory, admin, mode, scopes>>
  BY DEF selector
<1>5. Typed'
  <2>1. call' \in [Threads -> CallRecords]
    BY <1>2
  <2>2. CallRecords' = CallRecords
    BY DEF CallRecords
  <2>3. cache' \in Seq(CacheEntry)
    BY DEF IsCache
  <2> QED
    BY <1>1, <1>4, <2>1, <2>2, <2>3 DEF Typed
<1>6. CacheRight'
  BY DEF CacheRight, IsCache, Alike, Equal
<1>7. Swapping' /\ Nested' /\ Rotating'
  BY <1>1, <1>4, SwappingKept, NestedKept, RotatingKept
<1>8. ASSUME NEW s \in Threads PROVE RightCall(s, call[s])'
  <2>1. PICK x : x = call'[s]
    OBVIOUS
  <2>2. RightCall(s, x)
    BY <1>3, <2>1 DEF RoutingInv
  <2> QED
    BY <1>4, <2>1, <2>2, CallKept
<1>9. OneAlone'
  BY <1>1, <1>3 DEF OneAlone
<1> QED
  BY <1>5, <1>6, <1>7, <1>8, <1>9 DEF RoutingInv

\* As it is said of most steps.
LEMMA BecomesKeeps ==
  ASSUME RoutingAssumption, RoutingInv, NEW t \in Threads, NEW c, RightCall(t, c), Becomes(t, c),
         c.pc \in {"trim", "evict"} <=> call[t].pc \in {"trim", "evict"},
         c.pc \in Selecting => call[t].pc \in Selecting, c.alone => call[t].alone
  PROVE  RoutingInv'
<1>1. /\ call' = [call EXCEPT ![t] = c]
      /\ UNCHANGED <<kinds, config, selector, cache, directory, admin, mode, scopes>>
  BY DEF Becomes
<1>2. Cardinality(Trimmers') = Cardinality(Trimmers)
  <2>1. call \in [Threads -> CallRecords]
    BY DEF RoutingInv, Typed
  <2>2. \A s \in Threads : call'[s].pc = IF s = t THEN c.pc ELSE call[s].pc
    BY <1>1, <2>1
  <2> QED
    BY <2>2, TrimmersBecome
<1>3. /\ IsCache(cache') /\ \A m : Holds(cache, m) => Holds(cache', m)
      /\ Len(cache') <= CacheSize + Cardinality(Trimmers')
  BY <1>1, <1>2 DEF RoutingInv, CacheRight
<1> QED
  BY <1>1, <1>3, OneCall

(***************************************************************************)
(* The range of a key                                                      *)
(***************************************************************************)

\* The ranges are a sequence of records.
LEMMA RangesAre ==
  ASSUME RoutingAssumption
  PROVE  /\ Len(Ranges) \in Nat /\ DOMAIN Ranges = 1..Len(Ranges)
         /\ \A i \in DOMAIN Ranges : Ranges[i].upper \in Int /\ Ranges[i].shard \in Shards
<1> DEFINE R == [upper : Int, shard : Shards]
<1>1. Ranges \in Seq(R)
  BY DEF RoutingAssumption
<1>2. \A r \in R : r.upper \in Int /\ r.shard \in Shards
  OBVIOUS
<1> HIDE DEF R
<1>3. /\ Len(Ranges) \in Nat /\ DOMAIN Ranges = 1..Len(Ranges)
      /\ \A i \in 1..Len(Ranges) : Ranges[i] \in R
  BY <1>1, LenProperties
<1> QED
  BY <1>2, <1>3

\* Each range has a place of its own, and the places are those of a sequence.
LEMMA PlacesAre ==
  ASSUME RoutingAssumption
  PROVE  /\ \A i \in DOMAIN Ranges : PlaceAmong(i) \in DOMAIN Ranges
         /\ \A i, j \in DOMAIN Ranges :
              Before(i, j) => PlaceAmong(i) < PlaceAmong(j)
         /\ \A i, j \in DOMAIN Ranges : PlaceAmong(i) = PlaceAmong(j) => i = j
         /\ \A k \in DOMAIN Ranges : \E i \in DOMAIN Ranges : PlaceAmong(i) = k
<1> DEFINE D == DOMAIN Ranges
           n == Len(Ranges)
           earlier(i) == {j \in D : Before(j, i)}
<1>1. n \in Nat /\ D = 1..n
  BY RangesAre
<1>2. \A i \in D : Ranges[i].upper \in Int
  BY RangesAre
<1>3. /\ \A i \in D : ~Before(i, i)
      /\ \A i, j, k \in D : Before(i, j) /\ Before(j, k) => Before(i, k)
      /\ \A i, j \in D : i # j => Before(i, j) \/ Before(j, i)
  BY <1>1, <1>2 DEF Before
<1>4. IsFiniteSet(D) /\ Cardinality(D) = n
  BY <1>1, FS_Interval
<1> HIDE DEF D, n
<1>5. ASSUME NEW i \in D
      PROVE  /\ IsFiniteSet(earlier(i)) /\ Cardinality(earlier(i)) \in Nat
             /\ Cardinality(earlier(i)) < n /\ PlaceAmong(i) = Cardinality(earlier(i)) + 1
  <2>1. earlier(i) \subseteq D /\ earlier(i) # D
    BY <1>3
  <2>2. PlaceAmong(i) = Cardinality(earlier(i)) + 1
    BY DEF PlaceAmong, D
  <2> HIDE DEF earlier
  <2>3. /\ IsFiniteSet(earlier(i)) /\ Cardinality(earlier(i)) <= n
        /\ Cardinality(earlier(i)) # n
    BY <1>4, <2>1, FS_Subset
  <2>4. Cardinality(earlier(i)) \in Nat
    BY <2>3, FS_CardinalityType
  <2> QED
    BY <1>1, <2>2, <2>3, <2>4
<1>6. ASSUME NEW i \in D, NEW j \in D, Before(i, j) PROVE PlaceAmong(i) < PlaceAmong(j)
  <2>1. earlier(i) \subseteq earlier(j) /\ earlier(i) # earlier(j)
    BY <1>3, <1>6
  <2> HIDE DEF earlier
  <2>2. /\ Cardinality(earlier(i)) <= Cardinality(earlier(j))
        /\ Cardinality(earlier(i)) # Cardinality(earlier(j))
    BY <1>5, <2>1, FS_Subset
  <2>3. Cardinality(earlier(i)) \in Nat /\ Cardinality(earlier(j)) \in Nat
    BY <1>5
  <2>4. /\ PlaceAmong(i) = Cardinality(earlier(i)) + 1
        /\ PlaceAmong(j) = Cardinality(earlier(j)) + 1
    BY <1>5
  <2> QED
    BY <2>2, <2>3, <2>4
<1>7. ASSUME NEW i \in D PROVE PlaceAmong(i) \in D /\ PlaceAmong(i) \in Nat
  <2> HIDE DEF earlier
  <2> QED
    BY <1>1, <1>5
<1>8. ASSUME NEW i \in D, NEW j \in D, PlaceAmong(i) = PlaceAmong(j) PROVE i = j
  <2> SUFFICES ASSUME i # j PROVE FALSE
    OBVIOUS
  <2>1. PlaceAmong(i) < PlaceAmong(j) \/ PlaceAmong(j) < PlaceAmong(i)
    BY <1>3, <1>6
  <2> QED
    BY <1>7, <1>8, <2>1
<1>9. \A k \in D : \E i \in D : PlaceAmong(i) = k
  <2> DEFINE f == [i \in D |-> PlaceAmong(i)]
  <2>1. f \in [D -> D] /\ \A i \in D : f[i] = PlaceAmong(i)
    BY <1>7
  <2> HIDE DEF f
  <2>2. f \in Injection(D, D)
    BY <1>8, <2>1, Zenon DEF Injection, IsInjective
  <2>3. f \in Surjection(D, D)
    BY <1>4, <2>2, FS_Injection
  <2>4. \A k \in D : \E i \in D : f[i] = k
    BY <2>3 DEF Surjection
  <2> QED
    BY <2>1, <2>4
<1> QED
  BY <1>6, <1>7, <1>8, <1>9 DEF D

\* The range resolver answers with the range between whose bounds the key lies.
LEMMA RangeShardIs ==
  ASSUME RoutingAssumption, NEW key \in Keys
  PROVE  /\ RangeShard(Value[key]) \in Shards \cup {None}
         /\ RangeShard(Value[key]) # None => InRange(key, RangeShard(Value[key]))
<1> DEFINE D == DOMAIN Ranges
           v == Value[key]
           q == SortedRanges
           above == {k \in D : v < q[k].upper}
<1>1. D = 1..Len(Ranges) /\ D \subseteq Nat
  BY RangesAre
<1>2. \A i \in D : Ranges[i].upper \in Int /\ Ranges[i].shard \in Shards
  BY RangesAre
<1>3. v \in Nat
  BY DEF RoutingAssumption
<1>4. \A i \in D : q[PlaceAmong(i)] = Ranges[i]
  BY PlacesAre DEF SortedRanges
<1>5. RangeShard(v) = IF above = {} THEN None ELSE q[Min(above)].shard
  BY DEF RangeShard, FirstAbove, SortedRanges
<1>6. above \subseteq Nat /\ \A k : k \in above <=> k \in D /\ v < q[k].upper
  BY <1>1
<1> HIDE DEF above, q, v
<1>7. CASE above = {}
  BY <1>5, <1>7 DEF v
<1>8. CASE above # {}
  <2> PICK k \in Nat : k = Min(above) /\ k \in above /\ \A m \in above : k <= m
    BY <1>6, <1>8, Least
  <2>1. PICK i \in D : PlaceAmong(i) = k
    BY <1>6, PlacesAre DEF D
  <2>2. q[k] = Ranges[i] /\ v < Ranges[i].upper
    BY <1>4, <1>6, <2>1
  <2>3. ASSUME NEW j \in D, Ranges[j].upper < Ranges[i].upper PROVE Ranges[j].upper <= v
    <3>1. PlaceAmong(j) < k /\ PlaceAmong(j) \in D /\ q[PlaceAmong(j)] = Ranges[j]
      <4>1. Before(j, i)
        BY <2>3 DEF Before
      <4> QED
        BY <1>4, <2>1, <4>1, PlacesAre DEF D
    <3>2. PlaceAmong(j) \notin above
      BY <1>1, <3>1
    <3> QED
      BY <1>2, <1>3, <1>6, <3>1, <3>2
  <2>4. RangeShard(v) = Ranges[i].shard
    BY <1>5, <1>8, <2>2
  <2>5. RangeShard(v) \in Shards /\ InRange(key, RangeShard(v))
    BY <1>2, <2>2, <2>3, <2>4 DEF InRange, v, D
  <2> QED
    BY <2>5 DEF v
<1> QED
  BY <1>7, <1>8

(***************************************************************************)
(* The steps of a call                                                     *)
(***************************************************************************)

\* The call of a thread that makes none.
LEMMA NoCallIs ==
  /\ NoCall \in CallRecords /\ NoCall.pc = "idle" /\ NoCall.reads = FALSE /\ NoCall.key = None
  /\ NoCall.listed = <<>> /\ NoCall.shard = None /\ NoCall.replica = None
  /\ NoCall.disturbed = FALSE /\ NoCall.alone = FALSE
<1>1. <<>> \in Seq(Names)
  OBVIOUS
<1> QED
  BY <1>1 DEF NoCall, CallRecords, Ended

\* A call that is over, and that nothing has gone wrong with.
LEMMA OverRight ==
  ASSUME NEW t \in Threads, NEW c \in CallRecords, c.pc \in {"idle", "unknown", "unmapped"},
         c.shard = None, c.replica = None, ~c.reads, ~c.alone
  PROVE  RightCall(t, c)
  BY DEF RightCall, Keyed, Reading, Explained, InTurn, Caching, Selecting, Ended

\* A call whose shard is known selects, or goes to the primary.
LEMMA ShardedRight ==
  ASSUME NEW t \in Threads, NEW c \in CallRecords,
         kinds.resolver = "hash" /\ c.shard # None => c.shard \in Alike(c.key),
         kinds.resolver = "range" /\ c.shard # None => InRange(c.key, c.shard),
         mode[t] => ~c.reads, c.replica = None, ~c.alone,
         ~c.disturbed => config # NoDatabase /\ names = ListOf(config)
  PROVE  /\ RightCall(t, Sharded(t, c)) /\ Sharded(t, c).pc \in {"select", "target"}
         /\ ~Sharded(t, c).alone
<1> DEFINE p == IF c.reads THEN "select" ELSE "target"
           d == Sharded(t, c)
<1>1. d = [c EXCEPT !.pc = p, !.reads = FALSE]
  BY DEF Sharded
<1>2. p \in Ended \cup Labels /\ p \in {"select", "target"} /\ (~c.reads => p = "target")
  BY DEF Labels
<1> HIDE DEF p, d
<1>3. /\ d \in CallRecords /\ d.pc = p /\ d.reads = FALSE /\ d.key = c.key /\ d.shard = c.shard
      /\ d.replica = c.replica /\ d.disturbed = c.disturbed /\ d.alone = c.alone
  BY <1>1, <1>2 DEF CallRecords
<1>4. d.pc \notin {"shard"} \cup Caching \cup Selecting \cup {"refused", "KeyError"}
  BY <1>2, <1>3 DEF Caching, Selecting
<1>5. Keyed(d)
  BY <1>3, <1>4 DEF Keyed
<1>6. Reading(t, d)
  BY <1>2, <1>3, <1>4 DEF Reading, Selecting
<1>7. Explained(d)
  BY <1>3, <1>4 DEF Explained, Undisturbed, Caching
<1>8. InTurn(d)
  BY <1>3 DEF InTurn
<1> QED
  BY <1>2, <1>3, <1>5, <1>6, <1>7, <1>8 DEF RightCall, d

\* Between registrations the selector has what the configuration says.
LEMMA BetweenRegistrations ==
  ASSUME Swapping, admin = <<>>
  PROVE  names = ListOf(config)
  BY DEF Swapping

\* _resolve begins: the database is looked up, and reads in a scope go to the primary.
LEMMA BeginStep ==
  ASSUME RoutingAssumption, RoutingInv, NEW t \in Threads, Begin(t)
  PROVE  RoutingInv'
<1>1. call[t].pc \in Ended
  BY DEF Begin
<1>2. call[t].pc \notin {"trim", "evict"}
  BY <1>1 DEF Ended
<1>3. PICK wants \in BOOLEAN, key \in Keys \cup {None} :
        LET c == [NoCall EXCEPT !.reads = wants /\ Replicas[config] # <<>> /\ ~mode[t],
                                !.key = key, !.disturbed = admin # <<>>]
        IN  Becomes(t, IF config = NoDatabase THEN [NoCall EXCEPT !.pc = "unknown"]
                       ELSE IF key # None THEN [c EXCEPT !.pc = "shard"] ELSE Sharded(t, c))
  BY DEF Begin
<1> DEFINE reads == wants /\ Replicas[config] # <<>> /\ ~mode[t]
           disturbed == admin # <<>>
           c == [NoCall EXCEPT !.reads = reads, !.key = key, !.disturbed = disturbed]
<1>4. reads \in BOOLEAN /\ disturbed \in BOOLEAN /\ (mode[t] => ~reads)
  OBVIOUS
<1>5. ~disturbed => names = ListOf(config)
  BY BetweenRegistrations DEF RoutingInv
<1>6. Becomes(t, IF config = NoDatabase THEN [NoCall EXCEPT !.pc = "unknown"]
                 ELSE IF key # None THEN [c EXCEPT !.pc = "shard"] ELSE Sharded(t, c))
  BY <1>3
<1> HIDE DEF reads, disturbed
<1>7. /\ c \in CallRecords /\ c.pc = "idle" /\ c.reads = reads /\ c.key = key
      /\ c.shard = None /\ c.replica = None /\ c.disturbed = disturbed /\ c.alone = FALSE
  BY <1>4, NoCallIs DEF CallRecords
<1> HIDE DEF c
<1>8. CASE config = NoDatabase
  <2> DEFINE d == [NoCall EXCEPT !.pc = "unknown"]
  <2>1. Becomes(t, d)
    BY <1>6, <1>8
  <2>2. /\ d \in CallRecords /\ d.pc = "unknown" /\ d.shard = None /\ d.replica = None
        /\ d.reads = FALSE /\ d.alone = FALSE
    BY NoCallIs DEF CallRecords, Ended
  <2> HIDE DEF d
  <2>3. RightCall(t, d)
    BY <2>2, OverRight
  <2> QED
    BY <1>2, <2>1, <2>2, <2>3, BecomesKeeps DEF Selecting
<1>9. CASE config # NoDatabase /\ key # None
  <2> DEFINE d == [c EXCEPT !.pc = "shard"]
  <2>1. Becomes(t, d)
    BY <1>6, <1>9
  <2>2. /\ d \in CallRecords /\ d.pc = "shard" /\ d.reads = reads /\ d.key = key
        /\ d.shard = None /\ d.replica = None /\ d.disturbed = disturbed /\ d.alone = FALSE
    BY <1>7 DEF CallRecords, Labels
  <2> HIDE DEF d
  <2>3. Keyed(d) /\ InTurn(d)
    BY <1>9, <2>2 DEF Keyed, InTurn, Caching
  <2>4. Reading(t, d)
    BY <1>4, <2>2 DEF Reading, Selecting
  <2>5. Explained(d)
    BY <1>5, <1>9, <2>2 DEF Explained, Undisturbed, Selecting
  <2>6. RightCall(t, d)
    BY <2>2, <2>3, <2>4, <2>5 DEF RightCall
  <2> QED
    BY <1>2, <2>1, <2>2, <2>6, BecomesKeeps DEF Selecting
<1>10. CASE config # NoDatabase /\ key = None
  <2> DEFINE d == Sharded(t, c)
  <2>1. Becomes(t, d)
    BY <1>6, <1>10
  <2>2. RightCall(t, d) /\ d.pc \in {"select", "target"} /\ ~d.alone
    BY <1>4, <1>5, <1>7, <1>10, ShardedRight
  <2> HIDE DEF d
  <2> QED
    BY <1>2, <2>1, <2>2, BecomesKeeps DEF Selecting
<1> QED
  BY <1>8, <1>9, <1>10

\* A call that goes on to another label without more.
LEMMA GoesIs ==
  ASSUME NEW t \in Threads, call[t] \in CallRecords, NEW p \in Ended \cup Labels
  PROVE  LET c == Goes(t, p)
         IN  /\ c \in CallRecords /\ c.pc = p /\ c.reads = call[t].reads /\ c.key = call[t].key
             /\ c.listed = call[t].listed /\ c.index = call[t].index /\ c.read = call[t].read
             /\ c.shard = call[t].shard /\ c.replica = call[t].replica
             /\ c.disturbed = call[t].disturbed /\ c.alone = call[t].alone
  BY DEF Goes, CallRecords

\* What is known of a call that waits at a label.
LEMMA CallIs ==
  ASSUME RoutingInv, NEW t \in Threads
  PROVE  /\ call[t] \in CallRecords /\ Keyed(call[t]) /\ Reading(t, call[t])
         /\ Explained(call[t]) /\ InTurn(call[t])
  BY DEF RoutingInv, RightCall

\* The hash resolver looks into its cache.
LEMMA HashStep ==
  ASSUME RoutingAssumption, RoutingInv, NEW t \in Threads, Hash(t)
  PROVE  RoutingInv'
<1> DEFINE x == call[t]
           key == x.key
           hit == Cached(key)
           p == IF hit # None THEN "touch" ELSE "store"
           s == IF hit # None THEN hit ELSE Bucket[key]
           c == Goes(t, p)
           d == [c EXCEPT !.shard = s]
<1>1. x.pc = "shard" /\ kinds.resolver = "hash" /\ Becomes(t, d)
  BY DEF Hash
<1>2. x \in CallRecords /\ Keyed(x) /\ Reading(t, x) /\ Explained(x) /\ InTurn(x)
  BY CallIs
<1>3. key \in Keys
  BY <1>1, <1>2 DEF Keyed
<1>4. IsCache(cache)
  BY DEF RoutingInv, CacheRight
<1>5. /\ hit = None <=> ~Holds(cache, key)
      /\ hit # None => hit \in Alike(key) /\ hit \in Shards
  BY <1>4, CachedIs, PlaceIs DEF IsCache
<1>6. Bucket[key] \in Alike(key) /\ Bucket[key] \in Shards
  BY <1>3 DEF Alike, Equal, Shards
<1>7. s \in Alike(key) /\ s \in Shards /\ s # None
  BY <1>5, <1>6 DEF RoutingAssumption
<1>8. p \in Ended \cup Labels /\ p \in {"touch", "store"} /\ (p = "touch" => Holds(cache, key))
  BY <1>5 DEF Labels
<1> HIDE DEF p, s, hit
<1>9. /\ c \in CallRecords /\ c.pc = p /\ c.reads = x.reads /\ c.key = key
      /\ c.listed = x.listed /\ c.replica = x.replica
      /\ c.disturbed = x.disturbed /\ c.alone = x.alone
  BY <1>2, <1>8, GoesIs
<1> HIDE DEF c
<1>10. /\ d \in CallRecords /\ d.pc = p /\ d.reads = x.reads /\ d.key = key
       /\ d.listed = x.listed /\ d.replica = x.replica /\ d.shard = s
       /\ d.disturbed = x.disturbed /\ d.alone = x.alone
  <2>1. s \in Shards \cup {None}
    BY <1>7
  <2> QED
    BY <1>9, <2>1 DEF CallRecords
<1> HIDE DEF d, x
<1>11. ~x.alone
  BY <1>1, <1>2 DEF InTurn, Selecting
<1>12. Keyed(d)
  BY <1>1, <1>3, <1>7, <1>10 DEF Keyed
<1>13. Reading(t, d)
  BY <1>1, <1>2, <1>8, <1>10 DEF Reading, Selecting, Ended
<1>14. Explained(d)
  BY <1>1, <1>2, <1>8, <1>10 DEF Explained, Undisturbed, Selecting, Ended
<1>15. InTurn(d)
  BY <1>10, <1>11 DEF InTurn
<1>16. RightCall(t, d)
  BY <1>10, <1>12, <1>13, <1>14, <1>15 DEF RightCall
<1>17. d.pc \notin {"trim", "evict"} \cup Selecting /\ call[t].pc \notin {"trim", "evict"}
  BY <1>1, <1>8, <1>10 DEF Selecting, x
<1> QED
  BY <1>1, <1>10, <1>11, <1>16, <1>17, BecomesKeeps

\* The other resolvers answer, or raise UnknownShard.
LEMMA LookUpStep ==
  ASSUME RoutingAssumption, RoutingInv, NEW t \in Threads, LookUp(t)
  PROVE  RoutingInv'
<1> DEFINE x == call[t]
           key == x.key
           answer == CASE kinds.resolver = "single"    -> "default"
                       [] kinds.resolver = "range"     -> RangeShard(Value[key])
                       [] kinds.resolver = "directory" -> directory[Value[key]]
           c == [x EXCEPT !.shard = answer]
<1>1. /\ x.pc = "shard" /\ kinds.resolver # "hash"
      /\ Becomes(t, IF answer = None THEN [NoCall EXCEPT !.pc = "unmapped"] ELSE Sharded(t, c))
  BY DEF LookUp
<1>2. x \in CallRecords /\ Keyed(x) /\ Reading(t, x) /\ Explained(x) /\ InTurn(x)
  BY CallIs
<1>3. key \in Keys
  BY <1>1, <1>2 DEF Keyed
<1>4. answer \in Shards \cup {None}
      /\ (kinds.resolver = "range" /\ answer # None => InRange(key, answer))
  <2>1. Value[key] \in Values
    BY <1>3 DEF Values
  <2>2. directory[Value[key]] \in Shards \cup {None}
    BY <2>1 DEF RoutingInv, Typed
  <2>3. kinds.resolver \in {"single", "range", "directory"}
    BY <1>1 DEF RoutingInv, Typed, RoutingAssumption
  <2>4. "default" \in Shards
    BY DEF Shards
  <2>5. CASE kinds.resolver = "single"
    BY <2>4, <2>5
  <2>6. CASE kinds.resolver = "range"
    BY <1>3, <2>6, RangeShardIs
  <2>7. CASE kinds.resolver = "directory"
    BY <2>2, <2>7
  <2> QED
    BY <2>3, <2>5, <2>6, <2>7
<1> HIDE DEF answer
<1>5. call[t].pc \notin {"trim", "evict"}
  BY <1>1
<1>6. CASE answer = None
  <2> DEFINE d == [NoCall EXCEPT !.pc = "unmapped"]
  <2>1. Becomes(t, d)
    BY <1>1, <1>6
  <2>2. /\ d \in CallRecords /\ d.pc = "unmapped" /\ d.shard = None /\ d.replica = None
        /\ d.reads = FALSE /\ d.alone = FALSE
    BY NoCallIs DEF CallRecords, Ended
  <2> HIDE DEF d
  <2>3. RightCall(t, d)
    BY <2>2, OverRight
  <2> QED
    BY <1>5, <2>1, <2>2, <2>3, BecomesKeeps DEF Selecting
<1>7. CASE answer # None
  <2> DEFINE d == Sharded(t, c)
  <2>1. Becomes(t, d)
    BY <1>1, <1>7
  <2>2. /\ c \in CallRecords /\ c.reads = x.reads /\ c.replica = x.replica
        /\ c.disturbed = x.disturbed /\ c.alone = x.alone
        /\ c.shard = answer /\ c.key = key
    BY <1>2, <1>4 DEF CallRecords
  <2> HIDE DEF c
  <2>3. ~x.alone
    BY <1>1, <1>2 DEF InTurn, Selecting
  <2>4. x.replica = None
    BY <1>1, <1>2 DEF Reading, Ended
  <2>5. ~x.disturbed => config # NoDatabase /\ names = ListOf(config)
    BY <1>1, <1>2 DEF Explained, Undisturbed, Ended
  <2>6. RightCall(t, d) /\ d.pc \in {"select", "target"} /\ ~d.alone
    BY <1>1, <1>2, <1>4, <2>2, <2>3, <2>4, <2>5, ShardedRight DEF Reading
  <2> HIDE DEF d
  <2> QED
    BY <1>5, <2>1, <2>6, BecomesKeeps DEF Selecting
<1> QED
  BY <1>6, <1>7

\* The call of t becomes one whose shard is known.
LEMMA CacheAnswers ==
  ASSUME RoutingInv, NEW t \in Threads, call[t].pc \in Caching
  PROVE  /\ RightCall(t, Sharded(t, call[t])) /\ Sharded(t, call[t]).pc \in {"select", "target"}
         /\ ~Sharded(t, call[t]).alone
<1> DEFINE x == call[t]
<1>1. x \in CallRecords /\ Keyed(x) /\ Reading(t, x) /\ Explained(x) /\ InTurn(x)
  BY CallIs
<1>2. x.pc \notin Ended \cup Selecting \cup {"select", "target"}
  BY DEF Caching, Ended, Selecting
<1>3. ~x.alone
  BY <1>1, <1>2 DEF InTurn
<1>4. x.replica = None /\ (mode[t] => ~x.reads)
  BY <1>1, <1>2 DEF Reading
<1>5. ~x.disturbed => config # NoDatabase /\ names = ListOf(config)
  BY <1>1, <1>2 DEF Explained, Undisturbed
<1>6. kinds.resolver = "hash" /\ x.shard # None => x.shard \in Alike(x.key)
  BY <1>1 DEF Keyed
<1>8. kinds.resolver = "range" /\ x.shard # None => InRange(x.key, x.shard)
  BY <1>1 DEF Keyed
<1> HIDE DEF x
<1>7. /\ RightCall(t, Sharded(t, x)) /\ Sharded(t, x).pc \in {"select", "target"}
      /\ ~Sharded(t, x).alone
  BY <1>1, <1>3, <1>4, <1>5, <1>6, <1>8, ShardedRight
<1> QED
  BY <1>7 DEF x

\* The call of t becomes c, and the cache d.
LEMMA CacheKeeps ==
  ASSUME RoutingAssumption, RoutingInv, NEW t \in Threads, NEW c, RightCall(t, c),
         NEW d, IsCache(d), \A m : Holds(cache, m) => Holds(d, m),
         CacheBecomes(t, d, c), Len(d) <= CacheSize + Cardinality(Trimmers'),
         c.pc \notin Selecting, ~c.alone
  PROVE  RoutingInv'
<1>1. /\ cache' = d /\ call' = [call EXCEPT ![t] = c]
      /\ UNCHANGED <<kinds, config, selector, directory, admin, mode, scopes>>
  BY DEF CacheBecomes, selector
<1> QED
  BY <1>1, OneCall

\* Who trims after t has gone to c.
LEMMA CallsTrimmers ==
  ASSUME RoutingAssumption, RoutingInv, NEW t \in Threads, NEW c, call' = [call EXCEPT ![t] = c]
  PROVE  /\ c.pc \in {"trim", "evict"} /\ call[t].pc \notin {"trim", "evict"} =>
              Cardinality(Trimmers') = Cardinality(Trimmers) + 1
         /\ c.pc \notin {"trim", "evict"} /\ call[t].pc \notin {"trim", "evict"} =>
              Cardinality(Trimmers') = Cardinality(Trimmers)
         /\ Cardinality(Trimmers') \in Nat
<1>1. call \in [Threads -> CallRecords]
  BY DEF RoutingInv, Typed
<1>2. \A s \in Threads : call'[s].pc = IF s = t THEN c.pc ELSE call[s].pc
  BY <1>1
<1> DEFINE p == c.pc
<1>3. \A s \in Threads : call'[s].pc = IF s = t THEN p ELSE call[s].pc
  BY <1>2
<1> HIDE DEF p
<1>4. /\ p \in {"trim", "evict"} /\ call[t].pc \notin {"trim", "evict"} =>
           Cardinality(Trimmers') = Cardinality(Trimmers) + 1
      /\ (p \in {"trim", "evict"} <=> call[t].pc \in {"trim", "evict"}) =>
           Cardinality(Trimmers') = Cardinality(Trimmers)
      /\ Cardinality(Trimmers') \in Nat
  BY <1>3, TrimmersBecome
<1> QED
  BY <1>4 DEF p

\* A hit moves to the end; it is gone only when it was evicted meanwhile.
LEMMA TouchStep ==
  ASSUME RoutingAssumption, RoutingInv, NEW t \in Threads, Touch(t)
  PROVE  RoutingInv'
<1> DEFINE x == call[t]
           key == x.key
<1>1. /\ x.pc = "touch"
      /\ IF Cached(key) = None THEN Becomes(t, Goes(t, "KeyError"))
                               ELSE CacheBecomes(t, MovedToEnd(key), Sharded(t, x))
  BY DEF Touch
<1>2. x \in CallRecords /\ Keyed(x) /\ Reading(t, x) /\ Explained(x) /\ InTurn(x)
  BY CallIs
<1>3. IsCache(cache) /\ cache \in Seq(CacheEntry) /\ Len(cache) <= CacheSize + Cardinality(Trimmers)
  BY DEF RoutingInv, CacheRight, IsCache
<1>4. (Cached(key) = None <=> Place(key) = 0) /\ (Place(key) # 0 <=> Holds(cache, key))
  BY <1>3, CachedIs, PlaceIs
<1>5. ~x.alone /\ x.pc \notin Ended
  BY <1>1, <1>2 DEF InTurn, Selecting, Ended
<1>6. CASE Cached(key) = None
  <2> DEFINE c == Goes(t, "KeyError")
  <2>1. Becomes(t, c)
    BY <1>1, <1>6
  <2>2. "KeyError" \in Ended \cup Labels
    BY DEF Ended
  <2>3. /\ c \in CallRecords /\ c.pc = "KeyError" /\ c.reads = x.reads /\ c.key = key
        /\ c.shard = x.shard /\ c.replica = x.replica
        /\ c.disturbed = x.disturbed /\ c.alone = x.alone
    BY <1>2, <2>2, GoesIs
  <2> HIDE DEF c
  <2>4. x.disturbed
    BY <1>1, <1>2, <1>4, <1>5, <1>6 DEF Explained, Undisturbed
  <2> HIDE DEF x
  <2>5. Keyed(c)
    BY <1>2, <2>3 DEF Keyed, Caching
  <2>6. Reading(t, c)
    BY <1>2, <2>3 DEF Reading, Selecting, Ended
  <2>7. Explained(c) /\ InTurn(c)
    BY <1>5, <2>3, <2>4 DEF Explained, InTurn, Ended
  <2>8. RightCall(t, c)
    BY <2>3, <2>5, <2>6, <2>7 DEF RightCall
  <2>9. /\ call[t].pc \notin {"trim", "evict"}
        /\ c.pc \notin {"trim", "evict"} \cup Selecting /\ ~c.alone
    BY <1>1, <1>5, <2>3 DEF Selecting, x
  <2> QED
    BY <2>1, <2>8, <2>9, BecomesKeeps
<1>7. CASE Cached(key) # None
  <2> DEFINE c == Sharded(t, x)
             d == MovedToEnd(key)
  <2>1. CacheBecomes(t, d, c)
    BY <1>1, <1>7
  <2>2. RightCall(t, c) /\ c.pc \in {"select", "target"} /\ ~c.alone
    BY <1>1, CacheAnswers DEF Caching
  <2>3. IsCache(d) /\ Len(d) = Len(cache) /\ \A m : Holds(cache, m) => Holds(d, m)
    BY <1>3, <1>4, <1>7, MovedRight
  <2> HIDE DEF c, d
  <2>4. Cardinality(Trimmers') = Cardinality(Trimmers)
    BY <1>1, <2>1, <2>2, CallsTrimmers DEF CacheBecomes
  <2>5. c.pc \notin Selecting
    BY <2>2 DEF Selecting
  <2> QED
    BY <1>3, <2>1, <2>2, <2>3, <2>4, <2>5, CacheKeeps
<1> QED
  BY <1>6, <1>7

\* A miss is stored under its key.
LEMMA StoreStep ==
  ASSUME RoutingAssumption, RoutingInv, NEW t \in Threads, Store(t)
  PROVE  RoutingInv'
<1> DEFINE x == call[t]
           c == Goes(t, "trim")
           d == Stored(x.key, x.shard)
<1>1. x.pc = "store" /\ CacheBecomes(t, d, c)
  BY DEF Store
<1>2. x \in CallRecords /\ Keyed(x) /\ Reading(t, x) /\ Explained(x) /\ InTurn(x)
  BY CallIs
<1>3. IsCache(cache) /\ Len(cache) <= CacheSize + Cardinality(Trimmers) /\ Len(cache) \in Nat
  BY LenProperties DEF RoutingInv, CacheRight, IsCache
<1>4. ~x.alone /\ x.pc \notin Ended
  BY <1>1, <1>2 DEF InTurn, Selecting, Ended
<1>5. x.key \in Keys /\ x.shard \in Alike(x.key) /\ x.shard \in Shards
  <2>1. x.key \in Keys /\ x.shard \in Alike(x.key)
    BY <1>1, <1>2 DEF Keyed, Caching
  <2> QED
    BY <2>1 DEF Alike, Shards
<1>6. "trim" \in Ended \cup Labels
  BY DEF Labels
<1>7. /\ c \in CallRecords /\ c.pc = "trim" /\ c.reads = x.reads /\ c.key = x.key
      /\ c.shard = x.shard /\ c.replica = x.replica
      /\ c.disturbed = x.disturbed /\ c.alone = x.alone
  BY <1>2, <1>6, GoesIs
<1>8. /\ IsCache(d) /\ Len(d) \in {Len(cache), Len(cache) + 1}
      /\ \A m : Holds(cache, m) => Holds(d, m)
  BY <1>3, <1>5, StoredRight
<1> HIDE DEF c, d, x
<1>9. Keyed(c)
  BY <1>1, <1>2, <1>5, <1>7 DEF Keyed, Caching
<1>10. Reading(t, c)
  BY <1>1, <1>2, <1>7 DEF Reading, Selecting, Ended
<1>11. Explained(c) /\ InTurn(c)
  BY <1>2, <1>4, <1>7 DEF Explained, Undisturbed, InTurn, Ended, Selecting
<1>12. RightCall(t, c)
  BY <1>7, <1>9, <1>10, <1>11 DEF RightCall
<1>13. Cardinality(Trimmers') = Cardinality(Trimmers) + 1
  BY <1>1, <1>7, CallsTrimmers DEF CacheBecomes, x
<1>14. Len(d) <= CacheSize + Cardinality(Trimmers')
  <2>1. Cardinality(Trimmers) \in Nat /\ CacheSize \in Nat
    BY TrimmersFinite DEF RoutingAssumption
  <2> QED
    BY <1>3, <1>8, <1>13, <2>1
<1>15. c.pc \notin Selecting /\ ~c.alone
  BY <1>4, <1>7 DEF Selecting
<1> QED
  BY <1>1, <1>8, <1>12, <1>14, <1>15, CacheKeeps

\* A thread that stored looks whether the cache is too large.
LEMMA TrimStep ==
  ASSUME RoutingAssumption, RoutingInv, NEW t \in Threads, Trim(t)
  PROVE  RoutingInv'
<1> DEFINE x == call[t]
<1>1. x.pc = "trim"
      /\ Becomes(t, IF Len(cache) > CacheSize THEN Goes(t, "evict") ELSE Sharded(t, x))
  BY DEF Trim
<1>2. x \in CallRecords /\ Keyed(x) /\ Reading(t, x) /\ Explained(x) /\ InTurn(x)
  BY CallIs
<1>3. ~x.alone /\ x.pc \notin Ended
  BY <1>1, <1>2 DEF InTurn, Selecting, Ended
<1>4. CASE Len(cache) > CacheSize
  <2> DEFINE c == Goes(t, "evict")
  <2>1. Becomes(t, c)
    BY <1>1, <1>4
  <2>2. "evict" \in Ended \cup Labels
    BY DEF Labels
  <2>3. /\ c \in CallRecords /\ c.pc = "evict" /\ c.reads = x.reads /\ c.key = x.key
        /\ c.shard = x.shard /\ c.replica = x.replica
        /\ c.disturbed = x.disturbed /\ c.alone = x.alone
    BY <1>2, <2>2, GoesIs
  <2> HIDE DEF c, x
  <2>4. Keyed(c)
    BY <1>1, <1>2, <2>3 DEF Keyed, Caching
  <2>5. Reading(t, c)
    BY <1>1, <1>2, <2>3 DEF Reading, Selecting, Ended
  <2>6. Explained(c) /\ InTurn(c)
    BY <1>2, <1>3, <2>3 DEF Explained, Undisturbed, InTurn, Ended, Selecting
  <2>7. RightCall(t, c)
    BY <2>3, <2>4, <2>5, <2>6 DEF RightCall
  <2>8. call[t].pc = "trim" /\ c.pc \notin Selecting /\ ~c.alone
    BY <1>1, <1>3, <2>3 DEF Selecting, x
  <2> QED
    BY <2>1, <2>3, <2>7, <2>8, BecomesKeeps
<1>5. CASE ~(Len(cache) > CacheSize)
  <2> DEFINE c == Sharded(t, x)
  <2>1. Becomes(t, c)
    BY <1>1, <1>5
  <2>2. RightCall(t, c) /\ c.pc \in {"select", "target"} /\ ~c.alone
    BY <1>1, CacheAnswers DEF Caching
  <2> HIDE DEF c
  <2>3. /\ call' = [call EXCEPT ![t] = c]
        /\ UNCHANGED <<kinds, config, selector, cache, directory, admin, mode, scopes>>
    BY <2>1 DEF Becomes
  <2>4. Cardinality(Trimmers') \in Nat /\ CacheSize \in Nat
    BY <2>3, CallsTrimmers DEF RoutingAssumption
  <2>5. IsCache(cache) /\ Len(cache) \in Nat
    BY LenProperties DEF RoutingInv, CacheRight, IsCache
  <2>6. Len(cache') <= CacheSize + Cardinality(Trimmers')
    BY <1>5, <2>3, <2>4, <2>5
  <2>7. IsCache(cache') /\ (\A m : Holds(cache, m) => Holds(cache', m)) /\ c.pc \notin Selecting
    BY <2>2, <2>3, <2>5 DEF Selecting
  <2> QED
    BY <2>2, <2>3, <2>6, <2>7, OneCall
<1> QED
  BY <1>4, <1>5

\* A call that is disturbed, or no longer alone, loses nothing else.
LEMMA UnsettledRight ==
  ASSUME NEW s \in Threads, NEW x, RightCall(s, x), NEW y \in CallRecords,
         y.pc = x.pc, y.reads = x.reads, y.key = x.key, y.listed = x.listed, y.index = x.index,
         y.read = x.read, y.shard = x.shard, y.replica = x.replica,
         x.disturbed => y.disturbed, y.alone => x.alone
  PROVE  RightCall(s, y)
<1>1. x \in CallRecords /\ Keyed(x) /\ Reading(s, x) /\ Explained(x) /\ InTurn(x)
  BY DEF RightCall
<1>2. Keyed(y)
  BY <1>1 DEF Keyed
<1>3. Reading(s, y)
  BY <1>1 DEF Reading
<1>4. Explained(y)
  BY <1>1 DEF Explained, Undisturbed
<1>5. InTurn(y)
  BY <1>1 DEF InTurn
<1> QED
  BY <1>2, <1>3, <1>4, <1>5 DEF RightCall

\* popitem evicts the oldest key; a thread that was to touch it is disturbed.
LEMMA EvictStep ==
  ASSUME RoutingAssumption, RoutingInv, NEW t \in Threads, Evict(t)
  PROVE  RoutingInv'
<1> DEFINE x == call[t]
           c == Sharded(t, x)
           gone == Head(cache).key
           hit(s) == call[s].pc = "touch" /\ Equal(call[s].key, gone)
           y(s) == [call[s] EXCEPT !.disturbed = TRUE]
<1>1. /\ x.pc = "evict" /\ cache # <<>> /\ cache' = Tail(cache)
      /\ call' = [s \in Threads |-> IF s = t THEN c ELSE IF hit(s) THEN y(s) ELSE call[s]]
      /\ UNCHANGED <<kinds, config, names, counter, last, directory, admin, mode, scopes>>
  BY DEF Evict, selector
<1>2. Typed /\ CacheRight /\ Swapping /\ Nested /\ OneAlone /\ Rotating
  BY DEF RoutingInv
<1>3. RightCall(t, c) /\ c.pc \in {"select", "target"} /\ ~c.alone
  BY <1>1, CacheAnswers DEF Caching
<1>4. /\ IsCache(cache') /\ Len(cache') = Len(cache) - 1
      /\ \A m : Holds(cache, m) /\ ~Equal(m, gone) => Holds(cache', m)
  BY <1>1, <1>2, EvictedRight DEF CacheRight
<1>5. ASSUME NEW s \in Threads \ {t}
      PROVE  /\ RightCall(s, call'[s]) /\ call'[s].pc = call[s].pc
             /\ call'[s].alone = call[s].alone
             /\ call'[s].pc = "touch" /\ Holds(cache, call'[s].key) /\ ~Holds(cache', call'[s].key)
                  => call'[s].disturbed
  <2>1. RightCall(s, call[s])
    BY DEF RoutingInv
  <2>2. CASE hit(s)
    <3>1. PICK z : z = call[s]
      OBVIOUS
    <3>2. z \in CallRecords
      BY <2>1, <3>1 DEF RightCall
    <3> DEFINE w == [z EXCEPT !.disturbed = TRUE]
    <3>3. /\ w \in CallRecords /\ w.pc = z.pc /\ w.reads = z.reads /\ w.key = z.key
          /\ w.listed = z.listed /\ w.index = z.index /\ w.read = z.read
          /\ w.shard = z.shard /\ w.replica = z.replica
          /\ w.disturbed = TRUE /\ w.alone = z.alone
      BY <3>2 DEF CallRecords
    <3>4. call'[s] = w
      BY <1>1, <2>2, <3>1
    <3> HIDE DEF w
    <3>5. RightCall(s, w)
      BY <2>1, <3>1, <3>3, UnsettledRight
    <3> QED
      BY <3>1, <3>3, <3>4, <3>5
  <2>3. CASE ~hit(s)
    BY <1>1, <1>4, <2>1, <2>3
  <2> QED
    BY <2>2, <2>3
<1>6. call'[t] = c /\ DOMAIN call' = Threads
  BY <1>1
<1> HIDE DEF c, x, y, hit
<1>7. \A s \in Threads : call'[s].pc = IF s = t THEN c.pc ELSE call[s].pc
  BY <1>5, <1>6
<1>8. Typed'
  <2>1. \A s \in Threads : call'[s] \in CallRecords
    BY <1>3, <1>5, <1>6 DEF RightCall
  <2>2. \E f : call' = [s \in Threads |-> f[s]]
    <3>1. call' = [s \in Threads |-> call'[s]]
      BY <1>1
    <3> QED
      BY <3>1
  <2>3. call' \in [Threads -> CallRecords]
    BY <1>6, <2>1, <2>2
  <2>4. CallRecords' = CallRecords
    BY DEF CallRecords
  <2> QED
    BY <1>1, <1>2, <1>4, <2>3, <2>4 DEF Typed, IsCache
<1>9. CacheRight'
  <2>1. Cardinality(Trimmers') = Cardinality(Trimmers) - 1
    BY <1>1, <1>3, <1>7, TrimmersBecome DEF x
  <2>2. Len(cache) <= CacheSize + Cardinality(Trimmers) /\ Len(cache) \in Nat
    BY <1>2, LenProperties DEF CacheRight, IsCache
  <2>3. Cardinality(Trimmers) \in Nat /\ CacheSize \in Nat
    BY TrimmersFinite DEF RoutingAssumption
  <2>4. Len(cache') <= CacheSize + Cardinality(Trimmers')
    BY <1>4, <2>1, <2>2, <2>3
  <2> QED
    BY <1>4, <2>4 DEF CacheRight, IsCache, Alike, Equal
<1>10. Swapping' /\ Nested' /\ Rotating'
  BY <1>1, <1>2, SwappingKept, NestedKept, RotatingKept
<1>11. ASSUME NEW s \in Threads PROVE RightCall(s, call[s])'
  <2>1. PICK z : z = call'[s]
    OBVIOUS
  <2>2. /\ RightCall(s, z)
        /\ z.pc = "touch" /\ Holds(cache, z.key) => Holds(cache', z.key) \/ z.disturbed
    BY <1>3, <1>5, <1>6, <2>1
  <2> QED
    BY <1>1, <2>1, <2>2, CallKept
<1>12. OneAlone'
  BY <1>2, <1>3, <1>5, <1>6 DEF OneAlone, Selecting
<1> QED
  BY <1>8, <1>9, <1>10, <1>11, <1>12 DEF RoutingInv

\* Several calls change at once, and nothing else does.
LEMMA ManyCalls ==
  ASSUME RoutingAssumption, RoutingInv, call' \in [Threads -> CallRecords],
         UNCHANGED <<kinds, config, selector, cache, directory, admin, mode, scopes>>,
         \A s \in Threads : RightCall(s, call'[s]),
         \A s \in Threads : call'[s].pc \in {"trim", "evict"} <=> call[s].pc \in {"trim", "evict"},
         OneAlone'
  PROVE  RoutingInv'
<1>1. Typed /\ CacheRight /\ Swapping /\ Nested /\ Rotating
  BY DEF RoutingInv
<1>2. UNCHANGED <<kinds, config, names, counter, last, cache, directory, admin, mode, scopes>>
  BY DEF selector
<1>3. Typed'
  <2>1. CallRecords' = CallRecords
    BY DEF CallRecords
  <2> QED
    BY <1>1, <1>2, <2>1 DEF Typed
<1>4. CacheRight'
  <2>1. Trimmers' = Trimmers
    BY DEF Trimmers
  <2> QED
    BY <1>1, <1>2, <2>1 DEF CacheRight, IsCache, Alike, Equal
<1>5. Swapping' /\ Nested' /\ Rotating'
  BY <1>1, <1>2, SwappingKept, NestedKept, RotatingKept
<1>6. ASSUME NEW s \in Threads PROVE RightCall(s, call[s])'
  <2>1. PICK x : x = call'[s]
    OBVIOUS
  <2>2. RightCall(s, x)
    BY <2>1
  <2>3. x.pc = "touch" /\ Holds(cache, x.key) => Holds(cache', x.key) \/ x.disturbed
    BY <1>2
  <2> QED
    BY <1>2, <2>1, <2>2, <2>3, CallKept
<1> QED
  BY <1>3, <1>4, <1>5, <1>6 DEF RoutingInv

\* A selection by rotation that begins takes the counter from those that had it alone.
LEMMA SelectStep ==
  ASSUME RoutingAssumption, RoutingInv, NEW t \in Threads, Select(t)
  PROVE  RoutingInv'
<1> DEFINE x == call[t]
           others == {s \in Threads \ {t} : call[s].pc \in Selecting}
           rotates == kinds.selector = "round_robin" /\ names # <<>>
           p == IF rotates THEN "turn" ELSE "target"
           a == rotates /\ others = {}
           c == [x EXCEPT !.listed = names, !.pc = p, !.alone = a]
           y(s) == [call[s] EXCEPT !.alone = FALSE]
<1>1. /\ x.pc = "select"
      /\ call' = [s \in Threads |-> IF s = t THEN c
                                    ELSE IF rotates /\ s \in others THEN y(s) ELSE call[s]]
      /\ UNCHANGED <<kinds, config, selector, cache, directory, admin, mode, scopes>>
  <2> DEFINE l == [x EXCEPT !.listed = names]
  <2>1. x \in CallRecords
    BY CallIs
  <2>2. l.pc = x.pc /\ [l EXCEPT !.pc = p, !.alone = a] = c
    BY <2>1 DEF CallRecords
  <2> HIDE DEF p, a
  <2>3. /\ l.pc = "select"
        /\ call' = [s \in Threads |-> IF s = t THEN [l EXCEPT !.pc = p, !.alone = a]
                                      ELSE IF rotates /\ s \in others THEN y(s) ELSE call[s]]
        /\ UNCHANGED <<kinds, config, selector, cache, directory, admin, mode, scopes>>
    BY DEF Select, p, a
  <2> QED
    BY <2>2, <2>3
<1>2. x \in CallRecords /\ Keyed(x) /\ Reading(t, x) /\ Explained(x) /\ InTurn(x)
  BY CallIs
<1>3. Typed /\ OneAlone
  BY DEF RoutingInv
<1>4. p \in Ended \cup Labels /\ p \in {"turn", "target"} /\ (p = "turn" <=> rotates)
  BY DEF Labels, Selecting
<1>5. a \in BOOLEAN /\ (a => rotates) /\ (a => others = {})
  OBVIOUS
<1>6. rotates => names # <<>>
  OBVIOUS
<1>7. DOMAIN call' = Threads /\ call'[t] = c
  BY <1>1
<1>8. \A s \in Threads \ {t} : call'[s] = IF rotates /\ s \in others THEN y(s) ELSE call[s]
  BY <1>1
<1>9. call' = [s \in Threads |-> call'[s]]
  BY <1>1
<1>10. \A s \in Threads \ {t} : s \in others <=> call[s].pc \in Selecting
  OBVIOUS
<1> HIDE DEF p, a, rotates, others
<1>11. /\ c \in CallRecords /\ c.pc = p /\ c.reads = x.reads /\ c.key = x.key
       /\ c.listed = names /\ c.shard = x.shard /\ c.replica = x.replica
       /\ c.disturbed = x.disturbed /\ c.alone = a
  BY <1>2, <1>3, <1>4, <1>5 DEF CallRecords, Typed
<1> HIDE DEF c
<1>12. RightCall(t, c)
  <2>1. Keyed(c)
    BY <1>2, <1>4, <1>11 DEF Keyed, Caching
  <2>2. x.replica = None /\ ~mode[t]
    BY <1>1, <1>2 DEF Reading, Ended
  <2>3. names # <<>> => Len(names) > 0
    BY <1>3, LenProperties, EmptySeq DEF Typed
  <2>4. Reading(t, c)
    BY <1>4, <1>6, <1>11, <2>2, <2>3 DEF Reading, Selecting
  <2>5. Explained(c)
    BY <1>1, <1>2, <1>4, <1>11, <2>2 DEF Explained, Undisturbed, Ended
  <2>6. InTurn(c)
    BY <1>4, <1>5, <1>11 DEF InTurn, Selecting
  <2> QED
    BY <1>11, <2>1, <2>4, <2>5, <2>6 DEF RightCall
<1>13. ASSUME NEW s \in Threads \ {t}
       PROVE  /\ RightCall(s, call'[s]) /\ call'[s].pc = call[s].pc
              /\ call'[s].alone => call[s].alone /\ ~(rotates /\ s \in others)
  <2>1. PICK z : z = call[s]
    OBVIOUS
  <2>2. RightCall(s, z) /\ z \in CallRecords
    BY <2>1 DEF RoutingInv, RightCall
  <2>3. CASE rotates /\ s \in others
    <3> DEFINE w == [z EXCEPT !.alone = FALSE]
    <3>1. /\ w \in CallRecords /\ w.pc = z.pc /\ w.reads = z.reads /\ w.key = z.key
          /\ w.listed = z.listed /\ w.index = z.index /\ w.read = z.read
          /\ w.shard = z.shard /\ w.replica = z.replica
          /\ w.disturbed = z.disturbed /\ w.alone = FALSE
      BY <2>2 DEF CallRecords
    <3>2. call'[s] = w
      BY <1>8, <2>1, <2>3
    <3> HIDE DEF w
    <3>3. RightCall(s, w)
      BY <2>2, <3>1, UnsettledRight
    <3> QED
      BY <2>1, <3>1, <3>2, <3>3
  <2>4. CASE ~(rotates /\ s \in others)
    BY <1>8, <2>1, <2>2, <2>4
  <2> QED
    BY <2>3, <2>4
<1> HIDE DEF x, y
<1>14. \A s \in Threads : RightCall(s, call'[s])
  BY <1>7, <1>12, <1>13
<1>15. call' \in [Threads -> CallRecords]
  <2>1. \A s \in Threads : call'[s] \in CallRecords
    BY <1>14 DEF RightCall
  <2> QED
    BY <1>9, <2>1
<1>16. ASSUME NEW s \in Threads
       PROVE  call'[s].pc \in {"trim", "evict"} <=> call[s].pc \in {"trim", "evict"}
  <2>1. CASE s = t
    BY <1>1, <1>4, <1>7, <1>11, <2>1 DEF x
  <2>2. CASE s # t
    BY <1>13, <2>2
  <2> QED
    BY <2>1, <2>2
<1>17. ASSUME NEW b \in Threads, NEW s \in Threads, call'[b].alone, s # b
       PROVE  call'[s].pc \notin Selecting
  <2>1. CASE b = t
    <3>1. others = {} /\ s \in Threads \ {t}
      BY <1>5, <1>7, <1>11, <1>17, <2>1
    <3> QED
      BY <1>10, <1>13, <3>1
  <2>2. CASE b # t
    <3>1. call[b].alone /\ ~(rotates /\ b \in others)
      BY <1>13, <1>17, <2>2
    <3>2. call[b].pc \in Selecting
      BY <3>1, CallIs DEF InTurn
    <3>3. ~rotates
      BY <1>10, <2>2, <3>1, <3>2
    <3>4. CASE s = t
      BY <1>4, <1>7, <1>11, <3>3, <3>4 DEF Selecting
    <3>5. CASE s # t
      <4>1. call[s].pc \notin Selecting
        BY <1>3, <1>17, <3>1 DEF OneAlone
      <4> QED
        BY <1>13, <3>5, <4>1
    <3> QED
      BY <3>4, <3>5
  <2> QED
    BY <2>1, <2>2
<1>18. OneAlone'
  BY <1>17 DEF OneAlone
<1> QED
  BY <1>1, <1>14, <1>15, <1>16, <1>18, ManyCalls

\* The weighted selector picks one of the replicas.
LEMMA PickIs ==
  ASSUME NEW listed \in Seq(Names), listed # <<>>, NEW point
  PROVE  \E i \in 1..Len(listed) : WeightedPick(listed, point) = listed[i]
<1> DEFINE H == {i \in DOMAIN listed : point < Upto(listed)[i]}
           k == IF H = {} THEN Len(listed) ELSE Min(H)
<1>1. WeightedPick(listed, point) = listed[k]
  BY DEF WeightedPick
<1>2. Len(listed) \in Nat /\ Len(listed) > 0 /\ DOMAIN listed = 1..Len(listed)
  BY LenProperties, EmptySeq
<1>3. H \subseteq 1..Len(listed) /\ H \subseteq Nat
  BY <1>2
<1> HIDE DEF H
<1>4. k \in 1..Len(listed)
  <2>1. CASE H = {}
    BY <1>2, <2>1
  <2>2. CASE H # {}
    BY <1>3, <2>2, Least
  <2> QED
    BY <2>1, <2>2
<1> QED
  BY <1>1, <1>4

\* A weighted selection.
LEMMA SelectWeightedStep ==
  ASSUME RoutingAssumption, RoutingInv, NEW t \in Threads, SelectWeighted(t)
  PROVE  RoutingInv'
<1> DEFINE x == call[t]
           g == Goes(t, "target")
<1>1. PICK point \in 0 .. Total(names) - 1 :
        Becomes(t, [g EXCEPT !.replica = WeightedPick(names, point)])
  BY DEF SelectWeighted
<1>2. x.pc = "select" /\ names # <<>>
  BY DEF SelectWeighted
<1>3. x \in CallRecords /\ Keyed(x) /\ Reading(t, x) /\ Explained(x) /\ InTurn(x)
  BY CallIs
<1>4. names \in Seq(Names)
  BY DEF RoutingInv, Typed
<1>5. PICK i \in 1..Len(names) : WeightedPick(names, point) = names[i]
  BY <1>2, <1>4, PickIs
<1>6. names[i] \in Names /\ Contains(names, names[i])
  BY <1>4, <1>5, ElementOfSeq DEF Contains
<1> DEFINE c == [g EXCEPT !.replica = names[i]]
<1>7. Becomes(t, c)
  BY <1>1, <1>5
<1>8. "target" \in Ended \cup Labels
  BY DEF Labels
<1>9. /\ g \in CallRecords /\ g.pc = "target" /\ g.reads = x.reads /\ g.key = x.key
      /\ g.shard = x.shard /\ g.disturbed = x.disturbed /\ g.alone = x.alone
  BY <1>3, <1>8, GoesIs
<1> HIDE DEF g
<1>10. /\ c \in CallRecords /\ c.pc = "target" /\ c.reads = x.reads /\ c.key = x.key
       /\ c.shard = x.shard /\ c.replica = names[i]
       /\ c.disturbed = x.disturbed /\ c.alone = x.alone
  BY <1>6, <1>9 DEF CallRecords
<1> HIDE DEF c, x
<1>11. ~x.alone /\ ~mode[t]
  BY <1>2, <1>3 DEF InTurn, Reading, Selecting
<1>12. Keyed(c)
  BY <1>3, <1>10 DEF Keyed, Caching
<1>13. Reading(t, c)
  BY <1>10, <1>11 DEF Reading, Selecting
<1>14. Explained(c)
  BY <1>2, <1>3, <1>6, <1>10 DEF Explained, Undisturbed, Ended, Selecting
<1>15. InTurn(c)
  BY <1>10, <1>11 DEF InTurn
<1>16. RightCall(t, c)
  BY <1>10, <1>12, <1>13, <1>14, <1>15 DEF RightCall
<1>17. /\ call[t].pc \notin {"trim", "evict"}
       /\ c.pc \notin {"trim", "evict"} \cup Selecting /\ ~c.alone
  BY <1>2, <1>10, <1>11 DEF Selecting, x
<1> QED
  BY <1>7, <1>16, <1>17, BecomesKeeps

\* Division with a remainder.
LEMMA Remainder ==
  ASSUME NEW n \in Nat, NEW l \in Nat, l > 0
  PROVE  (n % l) \in Nat /\ (n % l) < l /\ (n \div l) \in Nat /\ n = (l * (n \div l)) + (n % l)
  OBVIOUS

\* A multiple of l that is nearer to 0 than l is 0.
LEMMA NoMultiple ==
  ASSUME NEW l \in Nat, l > 0, NEW d \in Int, NEW a \in Int, a < l, a > 0 - l, l * d = a
  PROVE  d = 0
<1>1. d >= 1 => l * d >= l
  OBVIOUS
<1>2. d <= (0 - 1) => l * d <= 0 - l
  OBVIOUS
<1> QED
  BY <1>1, <1>2

\* There is one remainder.
LEMMA OneRemainder ==
  ASSUME NEW l \in Nat, l > 0, NEW q \in Nat, NEW m \in Nat, m < l
  PROVE  ((l * q) + m) % l = m
<1> PICK n \in Nat : n = (l * q) + m
  OBVIOUS
<1> PICK z \in Nat, p \in Nat : z = n % l /\ p = n \div l
  BY Remainder
<1>1. z < l /\ n = (l * p) + z
  BY Remainder
<1>2. l * (q - p) = z - m
  BY <1>1
<1>3. q - p = 0
  <2> PICK a \in Int, d \in Int : a = z - m /\ d = q - p
    OBVIOUS
  <2>1. a < l /\ a > 0 - l /\ l * d = a
    BY <1>1, <1>2
  <2> QED
    BY <2>1, NoMultiple
<1>4. z - m = 0
  BY <1>2, <1>3
<1> QED
  BY <1>4

\* The next index of a rotation is that of the next count.
LEMMA NextRemainder ==
  ASSUME NEW n \in Nat, NEW l \in Nat, l > 0
  PROVE  (n + 1) % l = ((n % l) + 1) % l
<1> PICK q \in Nat, m \in Nat : q = n \div l /\ m = n % l
  BY Remainder
<1>1. m < l /\ n = (l * q) + m
  BY Remainder
<1>2. CASE m + 1 < l
  <2>1. n + 1 = (l * q) + (m + 1)
    BY <1>1
  <2>2. m + 1 \in Nat
    OBVIOUS
  <2>3. ((l * q) + (m + 1)) % l = m + 1
    BY <1>2, <2>2, OneRemainder
  <2>4. ((l * 0) + (m + 1)) % l = m + 1
    BY <1>2, <2>2, OneRemainder
  <2>5. (l * 0) + (m + 1) = m + 1
    OBVIOUS
  <2> QED
    BY <2>1, <2>3, <2>4, <2>5
<1>3. CASE m + 1 = l
  <2>1. n + 1 = (l * (q + 1)) + 0
    BY <1>1, <1>3
  <2>2. ((l * (q + 1)) + 0) % l = 0
    BY OneRemainder
  <2>3. ((l * 1) + 0) % l = 0
    BY OneRemainder
  <2>4. (l * 1) + 0 = m + 1
    BY <1>3
  <2> QED
    BY <2>1, <2>2, <2>3, <2>4
<1> QED
  BY <1>1, <1>2, <1>3

\* The value of the counter.
LEMMA CountIs ==
  ASSUME RoutingInv
  PROVE  Count \in Nat
  BY DEF RoutingInv, Typed, Count

\* A thread reads the counter and takes its place in the list.
LEMMA TurnStep ==
  ASSUME RoutingAssumption, RoutingInv, NEW t \in Threads, Turn(t)
  PROVE  RoutingInv'
<1> DEFINE x == call[t]
           g == Goes(t, "count")
           k == Count % Len(x.listed)
           c == [g EXCEPT !.index = k]
<1>1. x.pc = "turn" /\ Becomes(t, c)
  BY DEF Turn
<1>2. x \in CallRecords /\ Keyed(x) /\ Reading(t, x) /\ Explained(x) /\ InTurn(x)
  BY CallIs
<1>3. Len(x.listed) > 0 /\ Len(x.listed) \in Nat
  BY <1>1, <1>2, LenProperties DEF Reading, Selecting, CallRecords
<1>4. k \in Nat /\ k < Len(x.listed)
  <2>1. PICK n, l \in Nat : n = Count /\ l = Len(x.listed)
    BY <1>3, CountIs
  <2>2. (n % l) \in Nat /\ (n % l) < l
    BY <1>3, <2>1, Remainder
  <2> QED
    BY <2>1, <2>2
<1>5. "count" \in Ended \cup Labels
  BY DEF Labels, Selecting
<1>6. /\ g \in CallRecords /\ g.pc = "count" /\ g.reads = x.reads /\ g.key = x.key
      /\ g.listed = x.listed /\ g.shard = x.shard /\ g.replica = x.replica
      /\ g.disturbed = x.disturbed /\ g.alone = x.alone
  BY <1>2, <1>5, GoesIs
<1>7. k = Count % Len(x.listed)
  OBVIOUS
<1> HIDE DEF g, k
<1>8. /\ c \in CallRecords /\ c.pc = "count" /\ c.reads = x.reads /\ c.key = x.key
      /\ c.listed = x.listed /\ c.index = k /\ c.shard = x.shard /\ c.replica = x.replica
      /\ c.disturbed = x.disturbed /\ c.alone = x.alone
  BY <1>4, <1>6 DEF CallRecords
<1> HIDE DEF c, x
<1>9. Keyed(c)
  BY <1>2, <1>8 DEF Keyed, Caching
<1>10. Reading(t, c)
  BY <1>1, <1>2, <1>3, <1>4, <1>8 DEF Reading, Selecting, Ended
<1>11. Explained(c)
  BY <1>1, <1>2, <1>8 DEF Explained, Undisturbed, Ended, Selecting
<1>12. InTurn(c)
  BY <1>7, <1>8 DEF InTurn, Selecting
<1>13. RightCall(t, c)
  BY <1>8, <1>9, <1>10, <1>11, <1>12 DEF RightCall
<1>14. /\ call[t].pc \notin {"trim", "evict"} /\ call[t].pc \in Selecting
       /\ c.pc \notin {"trim", "evict"} /\ (c.alone => call[t].alone)
  BY <1>1, <1>8 DEF Selecting, x
<1> QED
  BY <1>1, <1>13, <1>14, BecomesKeeps

\* A thread reads the counter once more, to add one to it.
LEMMA RereadStep ==
  ASSUME RoutingAssumption, RoutingInv, NEW t \in Threads, Reread(t)
  PROVE  RoutingInv'
<1> DEFINE x == call[t]
           g == Goes(t, "advance")
           c == [g EXCEPT !.read = Count]
<1>1. x.pc = "count" /\ Becomes(t, c)
  BY DEF Reread
<1>2. x \in CallRecords /\ Keyed(x) /\ Reading(t, x) /\ Explained(x) /\ InTurn(x)
  BY CallIs
<1>3. "advance" \in Ended \cup Labels
  BY DEF Labels, Selecting
<1>4. /\ g \in CallRecords /\ g.pc = "advance" /\ g.reads = x.reads /\ g.key = x.key
      /\ g.listed = x.listed /\ g.index = x.index /\ g.shard = x.shard /\ g.replica = x.replica
      /\ g.disturbed = x.disturbed /\ g.alone = x.alone
  BY <1>2, <1>3, GoesIs
<1> HIDE DEF g
<1>5. /\ c \in CallRecords /\ c.pc = "advance" /\ c.reads = x.reads /\ c.key = x.key
      /\ c.listed = x.listed /\ c.index = x.index /\ c.read = Count
      /\ c.shard = x.shard /\ c.replica = x.replica
      /\ c.disturbed = x.disturbed /\ c.alone = x.alone
  BY <1>4, CountIs DEF CallRecords
<1> HIDE DEF c, x
<1>6. Keyed(c)
  BY <1>2, <1>5 DEF Keyed, Caching
<1>7. Reading(t, c)
  BY <1>1, <1>2, <1>5 DEF Reading, Selecting, Ended
<1>8. Explained(c)
  BY <1>1, <1>2, <1>5 DEF Explained, Undisturbed, Ended, Selecting
<1>9. InTurn(c)
  BY <1>1, <1>2, <1>5 DEF InTurn, Selecting
<1>10. RightCall(t, c)
  BY <1>5, <1>6, <1>7, <1>8, <1>9 DEF RightCall
<1>11. /\ call[t].pc \notin {"trim", "evict"} /\ call[t].pc \in Selecting
       /\ c.pc \notin {"trim", "evict"} /\ (c.alone => call[t].alone)
  BY <1>1, <1>5 DEF Selecting, x
<1> QED
  BY <1>1, <1>10, <1>11, BecomesKeeps

\* What a selection by rotation ends with.
LEMMA ChosenIs ==
  ASSUME RoutingInv, NEW t \in Threads, call[t].pc = "advance"
  PROVE  LET x == call[t]
             c == Chosen(x)
         IN  RightCall(t, c) /\ c.pc = "target" /\ ~c.alone
<1> DEFINE x == call[t]
           c == Chosen(x)
           r == x.listed[x.index + 1]
<1>1. x.pc = "advance" /\ c = [x EXCEPT !.pc = "target", !.replica = r, !.index = 0, !.read = 0,
                                        !.listed = <<>>, !.alone = FALSE]
  BY DEF Chosen
<1>2. x \in CallRecords /\ Keyed(x) /\ Reading(t, x) /\ Explained(x) /\ InTurn(x)
  BY CallIs
<1>3. x.listed \in Seq(Names) /\ Len(x.listed) \in Nat /\ x.index \in Nat
  BY <1>2, LenProperties DEF CallRecords
<1>4. x.index < Len(x.listed)
  BY <1>1, <1>2 DEF Reading
<1>5. r \in Names /\ Contains(x.listed, r)
  <2>1. x.index + 1 \in 1..Len(x.listed)
    BY <1>3, <1>4
  <2>2. r \in Names
    BY <1>3, <2>1, ElementOfSeq
  <2> QED
    BY <2>1, <2>2 DEF Contains
<1>6. <<>> \in Seq(Names) /\ "target" \in Ended \cup Labels
  BY DEF Labels
<1> HIDE DEF r, c
<1>7. /\ c \in CallRecords /\ c.pc = "target" /\ c.reads = x.reads /\ c.key = x.key
      /\ c.shard = x.shard /\ c.replica = r /\ c.disturbed = x.disturbed /\ c.alone = FALSE
  BY <1>1, <1>2, <1>5, <1>6 DEF CallRecords
<1> HIDE DEF x
<1>8. ~mode[t]
  BY <1>1, <1>2 DEF Reading, Selecting
<1>9. Keyed(c)
  BY <1>2, <1>7 DEF Keyed, Caching
<1>10. Reading(t, c)
  BY <1>7, <1>8 DEF Reading, Selecting
<1>11. Explained(c)
  BY <1>1, <1>2, <1>5, <1>7 DEF Explained, Undisturbed, Ended, Selecting
<1>12. InTurn(c)
  BY <1>7 DEF InTurn
<1> QED
  BY <1>7, <1>9, <1>10, <1>11, <1>12 DEF RightCall, c, x

\* The counter goes on by one; whoever had it alone was the one that moved it.
LEMMA AdvanceStep ==
  ASSUME RoutingAssumption, RoutingInv, NEW t \in Threads, Advance(t)
  PROVE  RoutingInv'
<1> DEFINE x == call[t]
           c == Chosen(x)
<1>1. /\ x.pc = "advance" /\ counter' = x.read + 1
      /\ call' = [call EXCEPT ![t] = c] /\ last' = Selected(x)
      /\ UNCHANGED <<kinds, config, names, cache, directory, admin, mode, scopes>>
  BY DEF Advance
<1>2. x \in CallRecords /\ Keyed(x) /\ Reading(t, x) /\ Explained(x) /\ InTurn(x)
  BY CallIs
<1>3. Typed /\ CacheRight /\ Swapping /\ Nested /\ OneAlone /\ Rotating
  BY DEF RoutingInv
<1>4. RightCall(t, c) /\ c.pc = "target" /\ ~c.alone
  BY <1>1, ChosenIs
<1>5. x.read \in Nat /\ c \in CallRecords /\ call \in [Threads -> CallRecords]
  BY <1>2, <1>3, <1>4 DEF CallRecords, RightCall, Typed
<1> HIDE DEF c
<1>6. call'[t] = c /\ \A s \in Threads \ {t} : call'[s] = call[s]
  BY <1>1, <1>5
<1>7. \A s \in Threads \ {t} : ~call[s].alone
  BY <1>1, <1>3 DEF OneAlone, Selecting
<1>8. Typed'
  <2>1. CallRecords' = CallRecords
    BY DEF CallRecords
  <2>2. call' \in [Threads -> CallRecords] /\ counter' \in Nat
    BY <1>1, <1>5
  <2> QED
    BY <1>1, <1>3, <2>1, <2>2 DEF Typed
<1>9. CacheRight'
  <2>1. Trimmers' = Trimmers
    BY <1>1, <1>4, <1>6 DEF Trimmers
  <2> QED
    BY <1>1, <1>3, <2>1 DEF CacheRight, IsCache, Alike, Equal
<1>10. Swapping' /\ Nested'
  BY <1>1, <1>3, SwappingKept, NestedKept
<1>11. Rotating'
  <2>1. CASE ~x.alone
    BY <1>1, <2>1 DEF Rotating, Selected
  <2>2. CASE x.alone
    <3>1. x.read = Count /\ x.index = Count % Len(x.listed)
      BY <1>1, <1>2, <2>2 DEF InTurn
    <3>2. last'.listed = x.listed /\ last'.index = x.index
      BY <1>1, <2>2 DEF Selected
    <3>3. PICK n \in Nat : n = Count
      BY CountIs
    <3>4. counter' = n + 1 /\ last'.index = n % Len(last'.listed)
      BY <1>1, <3>1, <3>2, <3>3
    <3> QED
      BY <3>4 DEF Rotating
  <2> QED
    BY <2>1, <2>2
<1>12. ASSUME NEW s \in Threads PROVE RightCall(s, call[s])'
  <2>1. PICK z : z = call'[s]
    OBVIOUS
  <2>2. RightCall(s, z) /\ ~z.alone
    BY <1>4, <1>6, <1>7, <2>1 DEF RoutingInv
  <2>3. z.pc = "touch" /\ Holds(cache, z.key) => Holds(cache', z.key) \/ z.disturbed
    BY <1>1
  <2> QED
    BY <1>1, <2>1, <2>2, <2>3, CallKept
<1>13. OneAlone'
  BY <1>4, <1>6, <1>7 DEF OneAlone
<1> QED
  BY <1>8, <1>9, <1>10, <1>11, <1>12, <1>13 DEF RoutingInv

\* A call that nobody disturbed finds its target.
LEMMA TargetStep ==
  ASSUME RoutingAssumption, RoutingInv, NEW t \in Threads, Target(t)
  PROVE  RoutingInv'
<1> DEFINE x == call[t]
           found == /\ config # NoDatabase
                    /\ x.replica # None => Contains(Replicas[config], x.replica)
           g == Goes(t, "refused")
<1>1. x.pc = "target" /\ Becomes(t, IF found THEN NoCall ELSE g)
  BY DEF Target
<1>2. x \in CallRecords /\ Keyed(x) /\ Reading(t, x) /\ Explained(x) /\ InTurn(x)
  BY CallIs
<1>3. call[t].pc \notin {"trim", "evict"} /\ ~x.alone
  BY <1>1, <1>2 DEF InTurn, Selecting
<1>4. CASE found
  <2>1. RightCall(t, NoCall) /\ NoCall.pc = "idle" /\ ~NoCall.alone
    BY NoCallIs, OverRight
  <2>2. NoCall.pc \notin {"trim", "evict"} \cup Selecting
    BY <2>1 DEF Selecting
  <2>3. Becomes(t, NoCall)
    BY <1>1, <1>4
  <2> QED
    BY <1>3, <2>1, <2>2, <2>3, BecomesKeeps
<1>5. CASE ~found
  <2>1. Becomes(t, g)
    BY <1>1, <1>5
  <2>2. x.disturbed
    BY <1>1, <1>2, <1>5 DEF Explained, Undisturbed, ListOf, Ended
  <2>3. "refused" \in Ended \cup Labels
    BY DEF Ended
  <2>4. /\ g \in CallRecords /\ g.pc = "refused" /\ g.reads = x.reads /\ g.key = x.key
        /\ g.shard = x.shard /\ g.replica = x.replica
        /\ g.disturbed = x.disturbed /\ g.alone = x.alone
    BY <1>2, <2>3, GoesIs
  <2> HIDE DEF g, x
  <2>5. Keyed(g)
    BY <1>2, <2>4 DEF Keyed, Caching
  <2>6. Reading(t, g)
    BY <1>2, <2>4 DEF Reading, Selecting, Ended
  <2>7. Explained(g) /\ InTurn(g)
    BY <1>3, <2>2, <2>4 DEF Explained, InTurn, Ended
  <2>8. RightCall(t, g)
    BY <2>4, <2>5, <2>6, <2>7 DEF RightCall
  <2>9. g.pc \notin {"trim", "evict"} \cup Selecting /\ ~g.alone
    BY <1>3, <2>4 DEF Selecting
  <2> QED
    BY <1>3, <2>1, <2>8, <2>9, BecomesKeeps
<1> QED
  BY <1>4, <1>5

(***************************************************************************)
(* Registration, migration and consistency scopes                          *)
(***************************************************************************)

\* No call changes, and nothing that a call depends on.
LEMMA NoCalls ==
  ASSUME RoutingAssumption, RoutingInv,
         UNCHANGED <<kinds, config, names, counter, last, cache, call, mode, scopes>>,
         directory' \in [Values -> Shards \cup {None}], Swapping'
  PROVE  RoutingInv'
<1>1. Typed /\ CacheRight /\ Nested /\ OneAlone /\ Rotating
  BY DEF RoutingInv
<1>2. Typed'
  <2>1. CallRecords' = CallRecords
    BY DEF CallRecords
  <2> QED
    BY <1>1, <2>1 DEF Typed
<1>3. CacheRight'
  <2>1. Trimmers' = Trimmers
    BY DEF Trimmers
  <2> QED
    BY <1>1, <2>1 DEF CacheRight, IsCache, Alike, Equal
<1>4. Nested' /\ Rotating' /\ OneAlone'
  BY <1>1, NestedKept, RotatingKept DEF OneAlone
<1>5. ASSUME NEW s \in Threads PROVE RightCall(s, call[s])'
  <2>1. PICK x : x = call'[s]
    OBVIOUS
  <2>2. RightCall(s, x)
    BY <2>1 DEF RoutingInv
  <2>3. x.pc = "touch" /\ Holds(cache, x.key) => Holds(cache', x.key) \/ x.disturbed
    OBVIOUS
  <2> QED
    BY <2>1, <2>2, <2>3, CallKept
<1> QED
  BY <1>2, <1>3, <1>4, <1>5 DEF RoutingInv

\* register_database and unregister_database begin: three steps are to come.
LEMMA ReconfigureStep ==
  ASSUME RoutingAssumption, RoutingInv, NEW v \in {NoDatabase} \cup Versions, Reconfigure(v)
  PROVE  RoutingInv'
<1>1. /\ admin' = <<<<"config", v>>, <<"names", v>>, <<"counter", v>>>>
      /\ UNCHANGED <<kinds, config, names, counter, last, cache, directory, call, mode, scopes>>
  BY DEF Reconfigure, selector
<1>2. Swapping'
  BY <1>1 DEF Swapping
<1>3. directory' \in [Values -> Shards \cup {None}]
  BY <1>1 DEF RoutingInv, Typed
<1> QED
  BY <1>1, <1>2, <1>3, NoCalls

\* set_mapping, for a call that comes later.
LEMMA SetMappingStep ==
  ASSUME RoutingAssumption, RoutingInv, NEW m \in Moves, SetMapping(m[1], m[2])
  PROVE  RoutingInv'
<1>1. /\ directory' = [directory EXCEPT ![Value[m[1]]] = m[2]]
      /\ UNCHANGED <<kinds, config, names, counter, last, cache, admin, call, mode, scopes>>
  BY DEF SetMapping, selector
<1>2. m[2] \in Shards
  BY DEF Shards
<1>3. directory' \in [Values -> Shards \cup {None}]
  BY <1>1, <1>2 DEF RoutingInv, Typed
<1>4. Swapping'
  BY <1>1, SwappingKept DEF RoutingInv
<1> QED
  BY <1>1, <1>3, <1>4, NoCalls

\* A call that is over, or disturbed, is right whatever becomes of the configuration.
LEMMA UnsettledKept ==
  ASSUME NEW s \in Threads, NEW x, RightCall(s, x), UNCHANGED kinds, mode'[s] = mode[s],
         x.pc \in Ended \/ x.disturbed, ~x.alone, call'[s] = x
  PROVE  RightCall(s, call[s])'
<1>1. x \in CallRecords /\ Keyed(x) /\ Reading(s, x) /\ Explained(x)
  BY DEF RightCall
<1>2. CallRecords' = CallRecords
  BY DEF CallRecords
<1>3. Keyed(call[s])'
  BY <1>1 DEF Keyed, Alike, Equal, InRange
<1>4. Reading(s, call[s])'
  BY <1>1 DEF Reading
<1>5. Explained(call[s])'
  BY <1>1 DEF Explained
<1>6. InTurn(call[s])'
  BY DEF InTurn
<1> QED
  BY <1>1, <1>2, <1>3, <1>4, <1>5, <1>6 DEF RightCall

\* What the steps of a swap lead to.
LEMMA SwapGoesOn ==
  ASSUME RoutingAssumption, RoutingInv, Reconfigured
  PROVE  /\ Swapping' /\ config' \in {NoDatabase} \cup Versions
         /\ names' \in Seq(Names) /\ counter' \in Nat \cup {None}
<1> DEFINE step == Head(admin)[1]
           v == Head(admin)[2]
<1>1. /\ admin # <<>> /\ admin' = Tail(admin)
      /\ config'  = IF step = "config"  THEN v ELSE config
      /\ names'   = IF step = "names"   THEN ListOf(v) ELSE names
      /\ counter' = IF step = "counter" THEN NewCounter(v) ELSE counter
  BY DEF Reconfigured
<1>2. /\ config \in {NoDatabase} \cup Versions /\ names \in Seq(Names)
      /\ counter \in Nat \cup {None}
  BY DEF RoutingInv, Typed
<1>3. PICK u \in {NoDatabase} \cup Versions :
        \/ admin = <<<<"config", u>>, <<"names", u>>, <<"counter", u>>>>
        \/ admin = <<<<"names", u>>, <<"counter", u>>>> /\ config = u
        \/ admin = <<<<"counter", u>>>> /\ config = u /\ names = ListOf(u)
  BY <1>1 DEF RoutingInv, Swapping
<1>4. ListOf(u) \in Seq(Names)
  BY DEF ListOf, RoutingAssumption
<1>5. NewCounter(u) \in Nat \cup {None}
  BY CountIs DEF NewCounter
<1> HIDE DEF step, v
<1>6. CASE admin = <<<<"config", u>>, <<"names", u>>, <<"counter", u>>>>
  <2>1. step = "config" /\ v = u /\ Tail(admin) = <<<<"names", u>>, <<"counter", u>>>>
    BY <1>6 DEF step, v
  <2> QED
    BY <1>1, <1>2, <2>1 DEF Swapping
<1>7. CASE admin = <<<<"names", u>>, <<"counter", u>>>> /\ config = u
  <2>1. step = "names" /\ v = u /\ Tail(admin) = <<<<"counter", u>>>>
    BY <1>7 DEF step, v
  <2> QED
    BY <1>1, <1>2, <1>4, <1>7, <2>1 DEF Swapping, ListOf
<1>8. CASE admin = <<<<"counter", u>>>> /\ config = u /\ names = ListOf(u)
  <2>1. step = "counter" /\ v = u /\ Tail(admin) = <<>>
    BY <1>8 DEF step, v
  <2> QED
    BY <1>1, <1>2, <1>5, <1>8, <2>1 DEF Swapping, ListOf
<1> QED
  BY <1>3, <1>6, <1>7, <1>8

\* A step of the swap disturbs the calls that are under way, and stops them being alone.
LEMMA ReconfiguredStep ==
  ASSUME RoutingAssumption, RoutingInv, Reconfigured
  PROVE  RoutingInv'
<1> DEFINE y(s) == [call[s] EXCEPT !.disturbed = TRUE, !.alone = FALSE]
<1>1. /\ call' = [s \in Threads |-> IF call[s].pc \in Ended THEN call[s] ELSE y(s)]
      /\ last' = None /\ UNCHANGED <<kinds, cache, directory, mode, scopes>>
  BY DEF Reconfigured
<1>2. Typed /\ CacheRight /\ Nested
  BY DEF RoutingInv
<1>3. ASSUME NEW s \in Threads
      PROVE  /\ RightCall(s, call'[s]) /\ call'[s].pc = call[s].pc /\ ~call'[s].alone
             /\ call'[s].pc \in Ended \/ call'[s].disturbed
  <2>1. PICK z : z = call[s]
    OBVIOUS
  <2>2. RightCall(s, z) /\ z \in CallRecords
    BY <2>1 DEF RoutingInv, RightCall
  <2>3. CASE z.pc \in Ended
    <3>1. ~z.alone
      BY <2>2, <2>3 DEF RightCall, InTurn, Selecting, Ended
    <3> QED
      BY <1>1, <2>1, <2>2, <2>3, <3>1
  <2>4. CASE z.pc \notin Ended
    <3> DEFINE w == [z EXCEPT !.disturbed = TRUE, !.alone = FALSE]
    <3>1. /\ w \in CallRecords /\ w.pc = z.pc /\ w.reads = z.reads /\ w.key = z.key
          /\ w.listed = z.listed /\ w.index = z.index /\ w.read = z.read
          /\ w.shard = z.shard /\ w.replica = z.replica
          /\ w.disturbed = TRUE /\ w.alone = FALSE
      BY <2>2 DEF CallRecords
    <3>2. call'[s] = w
      BY <1>1, <2>1, <2>4
    <3> HIDE DEF w
    <3>3. RightCall(s, w)
      BY <2>2, <3>1, UnsettledRight
    <3> QED
      BY <2>1, <3>1, <3>2, <3>3
  <2> QED
    BY <2>3, <2>4
<1>4. call' = [s \in Threads |-> call'[s]]
  BY <1>1
<1> HIDE DEF y
<1>5. call' \in [Threads -> CallRecords]
  <2>1. \A s \in Threads : call'[s] \in CallRecords
    BY <1>3 DEF RightCall
  <2> QED
    BY <1>4, <2>1
<1>6. Typed'
  <2>1. CallRecords' = CallRecords
    BY DEF CallRecords
  <2>2. /\ config' \in {NoDatabase} \cup Versions /\ names' \in Seq(Names)
        /\ counter' \in Nat \cup {None}
    BY SwapGoesOn
  <2> QED
    BY <1>1, <1>2, <1>5, <2>1, <2>2 DEF Typed
<1>7. CacheRight'
  <2>1. Trimmers' = Trimmers
    BY <1>3 DEF Trimmers
  <2> QED
    BY <1>1, <1>2, <2>1 DEF CacheRight, IsCache, Alike, Equal
<1>8. Swapping' /\ Nested'
  BY <1>1, <1>2, SwapGoesOn, NestedKept
<1>9. ASSUME NEW s \in Threads PROVE RightCall(s, call[s])'
  <2>1. PICK z : z = call'[s]
    OBVIOUS
  <2>2. RightCall(s, z) /\ ~z.alone /\ (z.pc \in Ended \/ z.disturbed)
    BY <1>3, <2>1
  <2> QED
    BY <1>1, <2>1, <2>2, UnsettledKept
<1>10. OneAlone' /\ Rotating'
  BY <1>1, <1>3 DEF OneAlone, Rotating
<1> QED
  BY <1>6, <1>7, <1>8, <1>9, <1>10 DEF RoutingInv

\* A thread between two calls enters or leaves a scope.
LEMMA ScopeKeeps ==
  ASSUME RoutingAssumption, RoutingInv, NEW t \in Threads, call[t].pc \in Ended,
         call' = [call EXCEPT ![t] = NoCall], Nested',
         \A s \in Threads \ {t} : mode'[s] = mode[s],
         mode' \in [Threads -> BOOLEAN], scopes' \in [Threads -> Seq(BOOLEAN)],
         UNCHANGED <<kinds, config, selector, cache, directory, admin>>
  PROVE  RoutingInv'
<1>1. Typed /\ CacheRight /\ Swapping /\ OneAlone /\ Rotating
  BY DEF RoutingInv
<1>2. UNCHANGED <<kinds, config, names, counter, last, cache, directory, admin>>
  BY DEF selector
<1>3. call'[t] = NoCall /\ \A s \in Threads \ {t} : call'[s] = call[s]
  BY <1>1 DEF Typed
<1>4. Typed'
  <2>1. CallRecords' = CallRecords
    BY DEF CallRecords
  <2>2. call' \in [Threads -> CallRecords]
    BY <1>1, NoCallIs DEF Typed
  <2> QED
    BY <1>1, <1>2, <2>1, <2>2 DEF Typed
<1>5. CacheRight'
  <2>1. Trimmers' = Trimmers
    BY <1>3, NoCallIs DEF Trimmers, Ended
  <2> QED
    BY <1>1, <1>2, <2>1 DEF CacheRight, IsCache, Alike, Equal
<1>6. Swapping' /\ Rotating'
  BY <1>1, <1>2, SwappingKept, RotatingKept
<1>7. ASSUME NEW s \in Threads PROVE RightCall(s, call[s])'
  <2>1. CASE s = t
    <3>1. CallRecords' = CallRecords
      BY DEF CallRecords
    <3> DEFINE x == call'[t]
    <3>2. /\ x \in CallRecords /\ x.pc = "idle" /\ x.reads = FALSE /\ x.shard = None
          /\ x.replica = None /\ x.alone = FALSE
      BY <1>3, NoCallIs
    <3>3. Keyed(call[t])' /\ InTurn(call[t])'
      BY <3>2 DEF Keyed, InTurn, Caching
    <3>4. Reading(t, call[t])'
      BY <3>2 DEF Reading, Selecting, Ended
    <3>5. Explained(call[t])'
      BY <3>2 DEF Explained, Ended
    <3> QED
      BY <2>1, <3>1, <3>2, <3>3, <3>4, <3>5 DEF RightCall
  <2>2. CASE s # t
    <3>1. PICK x : x = call'[s]
      OBVIOUS
    <3>2. RightCall(s, x) /\ mode'[s] = mode[s]
      BY <1>3, <2>2, <3>1 DEF RoutingInv
    <3>3. x.pc = "touch" /\ Holds(cache, x.key) => Holds(cache', x.key) \/ x.disturbed
      BY <1>2
    <3> QED
      BY <1>2, <3>1, <3>2, <3>3, CallKept
  <2> QED
    BY <2>1, <2>2
<1>8. OneAlone'
  BY <1>1, <1>3, NoCallIs DEF OneAlone, Selecting
<1> QED
  BY <1>4, <1>5, <1>6, <1>7, <1>8 DEF RoutingInv

\* A scope remembers the mode that it found.
LEMMA EnterScopeStep ==
  ASSUME RoutingAssumption, RoutingInv, NEW t \in Threads, EnterScope(t)
  PROVE  RoutingInv'
<1>1. /\ call[t].pc \in Ended /\ mode' = [mode EXCEPT ![t] = TRUE]
      /\ scopes' = [scopes EXCEPT ![t] = <<mode[t]>> \o scopes[t]]
      /\ call' = [call EXCEPT ![t] = NoCall]
      /\ UNCHANGED <<kinds, config, selector, cache, directory, admin>>
  BY DEF EnterScope
<1>2. Typed /\ Nested
  BY DEF RoutingInv
<1>3. mode \in [Threads -> BOOLEAN] /\ scopes \in [Threads -> Seq(BOOLEAN)]
  BY <1>2 DEF Typed
<1> DEFINE q == scopes[t]
           r == <<mode[t]>> \o q
<1>4. q \in Seq(BOOLEAN) /\ <<mode[t]>> \in Seq(BOOLEAN) /\ Len(q) \in Nat
  BY <1>3, LenProperties
<1>5. /\ r \in Seq(BOOLEAN) /\ Len(r) = Len(q) + 1 /\ r[1] = mode[t]
      /\ \A i \in 2..Len(r) : r[i] = q[i - 1]
  BY <1>4
<1>6. (mode[t] <=> q # <<>>) /\ \A i \in 1..Len(q) : q[i] <=> i < Len(q)
  BY <1>2 DEF Nested
<1>7. q # <<>> <=> 0 < Len(q)
  BY <1>4, EmptySeq, LenProperties
<1>8. mode' \in [Threads -> BOOLEAN] /\ scopes' \in [Threads -> Seq(BOOLEAN)]
  BY <1>1, <1>3, <1>5
<1>9. /\ mode'[t] = TRUE /\ scopes'[t] = r
      /\ \A s \in Threads \ {t} : mode'[s] = mode[s] /\ scopes'[s] = scopes[s]
  BY <1>1, <1>3
<1> HIDE DEF q, r
<1>10. \A i \in 1..Len(r) : r[i] <=> i < Len(r)
  <2> TAKE i \in 1..Len(r)
  <2>1. CASE i = 1
    BY <1>4, <1>5, <1>6, <1>7, <2>1
  <2>2. CASE i # 1
    <3>1. i \in 2..Len(r) /\ i - 1 \in 1..Len(q) /\ (i - 1 < Len(q) <=> i < Len(r))
      BY <1>4, <1>5, <2>2
    <3> QED
      BY <1>5, <1>6, <3>1
  <2> QED
    BY <2>1, <2>2
<1>11. r # <<>>
  BY <1>4, <1>5
<1>12. Nested'
  BY <1>2, <1>9, <1>10, <1>11 DEF Nested
<1> QED
  BY <1>1, <1>8, <1>9, <1>12, ScopeKeeps

\* Leaving a scope resets the mode to that of the scope around it.
LEMMA LeaveScopeStep ==
  ASSUME RoutingAssumption, RoutingInv, NEW t \in Threads, LeaveScope(t)
  PROVE  RoutingInv'
<1>1. /\ call[t].pc \in Ended /\ scopes[t] # <<>> /\ mode' = [mode EXCEPT ![t] = Head(scopes[t])]
      /\ scopes' = [scopes EXCEPT ![t] = Tail(scopes[t])]
      /\ call' = [call EXCEPT ![t] = NoCall]
      /\ UNCHANGED <<kinds, config, selector, cache, directory, admin>>
  BY DEF LeaveScope
<1>2. Typed /\ Nested
  BY DEF RoutingInv
<1>3. mode \in [Threads -> BOOLEAN] /\ scopes \in [Threads -> Seq(BOOLEAN)]
  BY <1>2 DEF Typed
<1> DEFINE q == scopes[t]
           r == Tail(q)
           h == Head(q)
<1>4. q \in Seq(BOOLEAN) /\ q # <<>> /\ Len(q) \in Nat
  BY <1>1, <1>3, LenProperties
<1>5. /\ r \in Seq(BOOLEAN) /\ Len(r) = Len(q) - 1 /\ h = q[1] /\ h \in BOOLEAN
      /\ \A i \in 1..Len(r) : r[i] = q[i + 1]
  <2> HIDE DEF q
  <2>1. r \in Seq(BOOLEAN) /\ Len(r) = Len(q) - 1 /\ \A i \in 1..Len(r) : r[i] = q[i + 1]
    BY <1>4, HeadTailProperties
  <2>2. h = q[1]
    BY <1>4
  <2>3. h \in BOOLEAN
    BY <1>4, HeadTailProperties
  <2> QED
    BY <2>1, <2>2, <2>3
<1>6. \A i \in 1..Len(q) : q[i] <=> i < Len(q)
  BY <1>2 DEF Nested
<1>7. 0 < Len(q)
  BY <1>4, EmptySeq
<1>8. mode' \in [Threads -> BOOLEAN] /\ scopes' \in [Threads -> Seq(BOOLEAN)]
  BY <1>1, <1>3, <1>5
<1>9. /\ mode'[t] = h /\ scopes'[t] = r
      /\ \A s \in Threads \ {t} : mode'[s] = mode[s] /\ scopes'[s] = scopes[s]
  BY <1>1, <1>3
<1> HIDE DEF q, r, h
<1>10. \A i \in 1..Len(r) : r[i] <=> i < Len(r)
  <2> TAKE i \in 1..Len(r)
  <2>1. i + 1 \in 1..Len(q) /\ (i + 1 < Len(q) <=> i < Len(r))
    BY <1>4, <1>5
  <2> QED
    BY <1>5, <1>6, <2>1
<1>11. h <=> r # <<>>
  <2>1. h <=> 1 < Len(q)
    BY <1>4, <1>5, <1>6, <1>7
  <2>2. r # <<>> <=> 0 < Len(r)
    BY <1>5, EmptySeq, LenProperties
  <2> QED
    BY <1>4, <1>5, <2>1, <2>2
<1>12. Nested'
  BY <1>2, <1>9, <1>10, <1>11 DEF Nested
<1> QED
  BY <1>1, <1>8, <1>9, <1>12, ScopeKeeps

(***************************************************************************)
(* The share of a replica                                                  *)
(***************************************************************************)

\* Induction over the natural numbers, as a statement about a set.
LEMMA Induction ==
  ASSUME NEW S, 0 \in S, \A n \in Nat : n \in S => n + 1 \in S
  PROVE  \A n \in Nat : n \in S
<1> SUFFICES ASSUME Nat \ S # {} PROVE FALSE
  OBVIOUS
<1> PICK x \in Nat \ S : \A y \in Nat \ S : x <= y
  BY Least
<1>1. x - 1 \in Nat /\ x = (x - 1) + 1
  OBVIOUS
<1>2. x - 1 \in S
  BY <1>1
<1> QED
  BY <1>1, <1>2

Weight(name) == Max({Weights[name], 1})

\* The value at i of the function in Upto, by its values g.
Added(listed, g, i) == IF i = 0 THEN 0 ELSE g[i - 1] + Weight(listed[i])

\* A weight that counts is at least one.
LEMMA WeightIs ==
  ASSUME RoutingAssumption, NEW name \in Names
  PROVE  Weight(name) \in Nat /\ Weight(name) >= 1
<1> PICK w \in Int : w = Weights[name]
  BY DEF RoutingAssumption
<1>1. \E x \in {w, 1} : \A y \in {w, 1} : x >= y
  OBVIOUS
<1>2. Max({w, 1}) \in {w, 1} /\ Max({w, 1}) >= 1
  BY <1>1 DEF Max
<1> QED
  BY <1>2 DEF Weight

\* There is such a function.
LEMMA UptoExists ==
  ASSUME NEW listed
  PROVE  \A n \in Nat : \E g : g = [i \in 0..n |-> Added(listed, g, i)]
<1> DEFINE N == {n \in Nat : \E g : g = [i \in 0..n |-> Added(listed, g, i)]}
<1>1. 0 \in N
  <2> DEFINE g == [i \in 0..0 |-> 0]
  <2>1. g = [i \in 0..0 |-> Added(listed, g, i)]
    BY DEF Added
  <2> QED
    BY <2>1
<1>2. ASSUME NEW n \in Nat, n \in N PROVE n + 1 \in N
  <2>1. PICK g : g = [i \in 0..n |-> Added(listed, g, i)]
    BY <1>2
  <2> DEFINE h == [i \in 0..n + 1 |-> Added(listed, g, i)]
  <2>2. \A i \in 0..n : g[i] = Added(listed, g, i)
    BY <2>1
  <2>3. \A i \in 0..n : h[i] = g[i]
    BY <2>2
  <2> HIDE DEF h
  <2>4. ASSUME NEW i \in 0..n + 1 PROVE Added(listed, h, i) = Added(listed, g, i)
    <3>1. CASE i = 0
      BY <3>1 DEF Added
    <3>2. CASE i # 0
      <4>1. i - 1 \in 0..n
        BY <3>2
      <4>2. h[i - 1] = g[i - 1]
        BY <2>3, <4>1
      <4> QED
        BY <3>2, <4>2 DEF Added
    <3> QED
      BY <3>1, <3>2
  <2>5. h = [i \in 0..n + 1 |-> Added(listed, h, i)]
    BY <2>4 DEF h
  <2>6. \E f : f = [i \in 0..n + 1 |-> Added(listed, f, i)]
    BY <2>5
  <2> QED
    BY <2>6
<1> HIDE DEF N
<1>3. \A n \in Nat : n \in N
  BY <1>1, <1>2, Induction
<1> QED
  BY <1>3 DEF N

\* `upto` grows by the weight of each replica.
LEMMA UptoIs ==
  ASSUME RoutingAssumption, NEW listed \in Seq(Names)
  PROVE  LET u == Upto(listed)
         IN  /\ u[0] = 0 /\ \A i \in 0..Len(listed) : u[i] \in Nat
             /\ \A i \in 1..Len(listed) : u[i] = u[i - 1] + Weight(listed[i])
             /\ \A i, j \in 0..Len(listed) : i <= j => u[i] <= u[j]
<1> DEFINE n == Len(listed)
           u == Upto(listed)
<1>1. n \in Nat /\ \A i \in 1..n : listed[i] \in Names
  BY LenProperties
<1>2. u = CHOOSE g : g = [i \in 0..n |-> Added(listed, g, i)]
  BY DEF Upto, Added, Weight
<1>3. u = [i \in 0..n |-> Added(listed, u, i)]
  <2> HIDE DEF u
  <2>1. \E g : g = [i \in 0..n |-> Added(listed, g, i)]
    BY <1>1, UptoExists
  <2> QED
    BY <1>2, <2>1
<1> HIDE DEF n, u
<1>4. \A i \in 0..n : u[i] = Added(listed, u, i)
  BY <1>3
<1>5. u[0] = 0
  BY <1>1, <1>4 DEF Added
<1>6. ASSUME NEW i \in 1..n
      PROVE  /\ i - 1 \in 0..n /\ u[i] = u[i - 1] + Weight(listed[i])
             /\ Weight(listed[i]) \in Nat
  <2>1. i \in 0..n /\ i # 0 /\ i - 1 \in 0..n
    BY <1>1
  <2>2. u[i] = Added(listed, u, i)
    BY <1>4, <2>1
  <2> QED
    BY <1>1, <2>1, <2>2, WeightIs DEF Added
<1> DEFINE Grows(k) == k <= n => /\ u[k] \in Nat
                                 /\ \A i \in 0..k : u[i] \in Nat /\ u[i] <= u[k]
           N == {k \in Nat : Grows(k)}
<1>7. 0 \in N
  <2>1. \A i \in 0..0 : i = 0
    OBVIOUS
  <2> QED
    BY <1>5, <2>1
<1>8. ASSUME NEW k \in Nat, k \in N PROVE k + 1 \in N
  <2> SUFFICES ASSUME k + 1 <= n
               PROVE  /\ u[k + 1] \in Nat
                      /\ \A i \in 0..k + 1 : u[i] \in Nat /\ u[i] <= u[k + 1]
    OBVIOUS
  <2>1. k <= n /\ k + 1 \in 1..n /\ (k + 1) - 1 = k
    BY <1>1
  <2>2. u[k] \in Nat /\ \A i \in 0..k : u[i] \in Nat /\ u[i] <= u[k]
    BY <1>8, <2>1
  <2>3. u[k + 1] = u[k] + Weight(listed[k + 1]) /\ Weight(listed[k + 1]) \in Nat
    BY <1>6, <2>1
  <2>4. u[k + 1] \in Nat /\ u[k] <= u[k + 1]
    BY <2>2, <2>3
  <2>5. ASSUME NEW i \in 0..k + 1 PROVE u[i] \in Nat /\ u[i] <= u[k + 1]
    <3>1. CASE i = k + 1
      BY <2>4, <3>1
    <3>2. CASE i # k + 1
      <4>1. i \in 0..k
        BY <3>2
      <4> QED
        BY <2>2, <2>3, <2>4, <4>1
    <3> QED
      BY <3>1, <3>2
  <2> QED
    BY <2>4, <2>5
<1> HIDE DEF N
<1>9. \A k \in Nat : k \in N
  BY <1>7, <1>8, Induction
<1>10. \A k \in Nat : Grows(k)
  BY <1>9 DEF N
<1> QED
  BY <1>1, <1>5, <1>6, <1>10 DEF n, u

\* So many numbers from one on.
LEMMA IntervalIs ==
  \A a, w, e \in Int : w >= 1 /\ e + 1 = a + w => Cardinality(a .. e) = w
<1> TAKE a, w, e \in Int
<1> HAVE w >= 1 /\ e + 1 = a + w
<1>1. Cardinality(a .. e) = IF a > e THEN 0 ELSE e - a + 1
  BY FS_Interval, Zenon
<1>2. ~(a > e)
  OBVIOUS
<1>3. (e - a) + 1 = w
  OBVIOUS
<1> QED
  BY <1>1, <1>2, <1>3, Zenon

\* A replica that is listed once gets as many of the points as its weight.
LEMMA ShareIs ==
  ASSUME RoutingAssumption, NEW listed \in Seq(Names), NEW i \in 1..Len(listed),
         \A j \in 1..Len(listed) : listed[j] = listed[i] => j = i
  PROVE  Cardinality({p \in 0 .. Total(listed) - 1 : WeightedPick(listed, p) = listed[i]})
           = Weight(listed[i])
<1> DEFINE n == Len(listed)
           u == Upto(listed)
           points == {p \in 0 .. Total(listed) - 1 : WeightedPick(listed, p) = listed[i]}
<1>1. n \in Nat /\ i \in 1..n /\ i - 1 \in 0..n /\ i \in 0..n /\ DOMAIN listed = 1..n
  BY LenProperties
<1>2. /\ u[0] = 0 /\ \A j \in 0..n : u[j] \in Nat
      /\ \A j \in 1..n : u[j] = u[j - 1] + Weight(listed[j])
      /\ \A j, k \in 0..n : j <= k => u[j] <= u[k]
  BY UptoIs
<1>3. Total(listed) = u[n]
  BY DEF Total
<1> HIDE DEF n, u
<1>4. ASSUME NEW p \in 0 .. u[n] - 1
      PROVE  WeightedPick(listed, p) = listed[i] <=> u[i - 1] <= p /\ p < u[i]
  <2> DEFINE H == {j \in 1..n : p < u[j]}
  <2>1. u[n] \in Nat /\ p \in Nat /\ p < u[n] /\ n \in 0..n
    BY <1>1, <1>2
  <2>2. n # 0 /\ n \in 1..n
    BY <1>1, <1>2, <2>1
  <2>3. n \in H /\ H \subseteq Nat /\ \A j : j \in H <=> j \in 1..n /\ p < u[j]
    BY <1>1, <2>1, <2>2
  <2>4. WeightedPick(listed, p) = listed[IF H = {} THEN Len(listed) ELSE Min(H)]
    BY <1>1 DEF WeightedPick, u
  <2> HIDE DEF H
  <2> PICK k \in Nat : k = Min(H) /\ k \in H /\ \A y \in H : k <= y
    BY <2>3, Least
  <2>5. WeightedPick(listed, p) = listed[k] /\ k \in 1..n /\ p < u[k]
    BY <2>3, <2>4
  <2>6. WeightedPick(listed, p) = listed[i] <=> k = i
    BY <2>5 DEF n
  <2>7. ASSUME k = i PROVE u[i - 1] <= p /\ p < u[i]
    <3>1. CASE i = 1
      BY <1>2, <2>1, <2>5, <2>7, <3>1
    <3>2. CASE i # 1
      <4>1. i - 1 \in 1..n /\ ~(k <= i - 1)
        BY <1>1, <2>7, <3>2
      <4>2. ~(p < u[i - 1])
        BY <2>3, <4>1
      <4> QED
        BY <1>1, <1>2, <2>1, <2>5, <2>7, <4>2
    <3> QED
      BY <3>1, <3>2
  <2>8. ASSUME u[i - 1] <= p, p < u[i] PROVE k = i
    <3>1. i \in H /\ k <= i
      BY <1>1, <2>3, <2>8
    <3>2. ~(k <= i - 1)
      <4> SUFFICES ASSUME k <= i - 1 PROVE FALSE
        OBVIOUS
      <4>1. k \in 0..n /\ u[k] <= u[i - 1]
        BY <1>1, <1>2, <2>5
      <4>2. u[k] \in Nat /\ u[i - 1] \in Nat
        BY <1>1, <1>2, <4>1
      <4> QED
        BY <2>1, <2>5, <2>8, <4>1, <4>2
    <3> QED
      BY <1>1, <3>1, <3>2
  <2> QED
    BY <2>6, <2>7, <2>8
<1>5. /\ u[i - 1] \in Nat /\ u[i] \in Nat /\ u[n] \in Nat /\ u[i] <= u[n]
      /\ u[i] = u[i - 1] + Weight(listed[i])
  <2>1. n \in 0..n /\ i <= n
    BY <1>1
  <2> QED
    BY <1>1, <1>2, <2>1
<1>6. Weight(listed[i]) \in Nat /\ Weight(listed[i]) >= 1
  BY <1>1, ElementOfSeq, WeightIs
<1> PICK a \in Nat, b \in Nat, m \in Nat : a = u[i - 1] /\ b = u[i] /\ m = u[n]
  BY <1>5
<1>7. points = a .. b - 1
  <2>1. \A p : p \in points <=> p \in 0 .. m - 1 /\ WeightedPick(listed, p) = listed[i]
    BY <1>3
  <2> HIDE DEF points
  <2>2. ASSUME NEW p \in 0 .. m - 1 PROVE p \in points <=> a <= p /\ p < b
    BY <1>4, <2>1
  <2>3. b <= m
    BY <1>5
  <2>4. ASSUME NEW p \in points PROVE p \in a .. b - 1
    <3>1. p \in 0 .. m - 1
      BY <2>1
    <3> QED
      BY <2>2, <3>1
  <2>5. ASSUME NEW p \in a .. b - 1 PROVE p \in points
    <3>1. p \in 0 .. m - 1 /\ a <= p /\ p < b
      BY <2>3
    <3> QED
      BY <2>2, <3>1
  <2> QED
    BY <2>4, <2>5
<1> HIDE DEF points
<1> PICK e \in Int : e = b - 1
  OBVIOUS
<1>9. b = a + Weight(listed[i])
  BY <1>5
<1> PICK w \in Nat : w = Weight(listed[i]) /\ w >= 1
  BY <1>6
<1>10. Cardinality(a .. e) = w
  <2>1. a \in Int
    OBVIOUS
  <2>2. w \in Int
    OBVIOUS
  <2>3. w >= 1
    OBVIOUS
  <2>4. e \in Int
    OBVIOUS
  <2>5. e + 1 = a + w
    BY <1>9
  <2>6. w >= 1 /\ e + 1 = a + w
    BY <2>3, <2>5, Zenon
  <2> QED
    BY ONLY <2>1, <2>2, <2>4, <2>6, IntervalIs, Zenon
<1> QED
  BY <1>7, <1>10 DEF points

(***************************************************************************)
(* The theorems                                                            *)
(***************************************************************************)

\* No call is under way and nothing is registered at first.
LEMMA InitRouting ==
  ASSUME RoutingAssumption, RoutingInit
  PROVE  RoutingInv
<1>1. /\ kinds \in Kinds /\ config = NoDatabase /\ names = <<>> /\ counter = None
      /\ cache = <<>> /\ directory = [v \in Values |-> None] /\ admin = <<>>
      /\ call = [t \in Threads |-> NoCall] /\ mode = [t \in Threads |-> FALSE]
      /\ scopes = [t \in Threads |-> <<>>] /\ last = None
  BY DEF RoutingInit
<1>2. \A S : <<>> \in Seq(S)
  OBVIOUS
<1>3. call \in [Threads -> CallRecords] /\ scopes \in [Threads -> Seq(BOOLEAN)]
  BY <1>1, <1>2, NoCallIs
<1>4. Typed
  BY <1>1, <1>2, <1>3 DEF Typed
<1>5. CacheRight
  <2>1. IsCache(cache)
    BY <1>1, <1>2 DEF IsCache
  <2>2. Len(cache) <= CacheSize + Cardinality(Trimmers)
    BY <1>1, TrimmersFinite DEF RoutingAssumption
  <2> QED
    BY <2>1, <2>2 DEF CacheRight
<1>6. Swapping /\ Nested /\ Rotating
  BY <1>1 DEF Swapping, ListOf, Nested, Rotating
<1>7. \A t \in Threads : RightCall(t, call[t]) /\ ~call[t].alone
  BY <1>1, NoCallIs, OverRight
<1>8. OneAlone
  BY <1>7 DEF OneAlone
<1> QED
  BY <1>4, <1>5, <1>6, <1>7, <1>8 DEF RoutingInv

\* Every step of a thread and of the registration keeps the invariant.
LEMMA NextRouting ==
  ASSUME RoutingAssumption, RoutingInv, [RoutingNext]_routingVars
  PROVE  RoutingInv'
<1>1. ASSUME NEW t \in Threads,
             \/ Begin(t) \/ Hash(t) \/ LookUp(t) \/ Touch(t) \/ Store(t) \/ Trim(t)
             \/ Evict(t) \/ Select(t) \/ SelectWeighted(t) \/ Turn(t) \/ Reread(t) \/ Advance(t)
             \/ Target(t) \/ EnterScope(t) \/ LeaveScope(t)
      PROVE  RoutingInv'
  BY <1>1, BeginStep, HashStep, LookUpStep, TouchStep, StoreStep, TrimStep, EvictStep,
     SelectStep, SelectWeightedStep, TurnStep, RereadStep, AdvanceStep, TargetStep,
     EnterScopeStep, LeaveScopeStep
<1>2. ASSUME NEW v \in Versions, Register(v) PROVE RoutingInv'
  BY <1>2, ReconfigureStep DEF Register
<1>3. ASSUME Unregister PROVE RoutingInv'
  BY <1>3, ReconfigureStep DEF Unregister
<1>4. ASSUME Reconfigured PROVE RoutingInv'
  BY <1>4, ReconfiguredStep
<1>5. ASSUME NEW m \in Moves, SetMapping(m[1], m[2]) PROVE RoutingInv'
  BY <1>5, SetMappingStep
<1>6. ASSUME UNCHANGED routingVars PROVE RoutingInv'
  <2>1. /\ UNCHANGED <<kinds, config, names, counter, last, cache, directory, admin>>
        /\ UNCHANGED <<call, mode, scopes>>
    BY <1>6 DEF routingVars
  <2>2. Swapping' /\ directory' \in [Values -> Shards \cup {None}]
    BY <2>1, SwappingKept DEF RoutingInv, Typed
  <2> QED
    BY <2>1, <2>2, NoCalls
<1> QED
  BY <1>1, <1>2, <1>3, <1>4, <1>5, <1>6 DEF RoutingNext

\* The invariant holds in every behaviour, whatever the threads and their order.
LEMMA RoutingInvariant == RoutingSpec => []RoutingInv
<1>1. RoutingInit => RoutingInv
  BY InitRouting, RoutingAssumption
<1>2. RoutingInv /\ [RoutingNext]_routingVars => RoutingInv'
  BY NextRouting, RoutingAssumption
<1> QED
  BY <1>1, <1>2, PTL DEF RoutingSpec

\* A call that found its database and its shard is refused, or ends in a KeyError, only
\* if the database was being changed, or its cached key evicted, while it resolved.
THEOREM RefusalsAreExplained == RoutingSpec => []RefusalsExplained
<1>1. RoutingInv => RefusalsExplained
  BY DEF RoutingInv, RightCall, Explained, RefusalsExplained
<1> QED
  BY <1>1, RoutingInvariant, PTL

\* The selector has the replicas of the configuration between registrations, and no read
\* in a consistency scope, however deep, goes to a replica.
THEOREM ReplicasAreRight == RoutingSpec => []ReplicasRight
<1>1. RoutingInv => SelectorAgrees
  BY BetweenRegistrations DEF RoutingInv, SelectorAgrees
<1>2. RoutingInv => ReadYourWrites
  BY DEF RoutingInv, Nested, RightCall, Reading, ReadYourWrites
<1> QED
  BY <1>1, <1>2, RoutingInvariant, PTL DEF ReplicasRight

\* Two selections by rotation that follow each other alone are neighbours in the list.
THEOREM RotationAdvances == RoutingSpec => TurnsAdvance
<1> DEFINE Neighbours ==
             \A t \in Threads :
               LET c == call[t]
                   follows == c.pc = "advance" /\ call'[t].pc = "target" /\ c.alone /\ last # None
               IN  follows /\ c.listed = last.listed => c.index = (last.index + 1) % Len(c.listed)
<1>1. RoutingInv /\ [RoutingNext]_routingVars => [Neighbours]_routingVars
  <2> SUFFICES ASSUME RoutingInv, NEW t \in Threads, call[t].pc = "advance", call[t].alone,
                      last # None, call[t].listed = last.listed
               PROVE  call[t].index = (last.index + 1) % Len(call[t].listed)
    OBVIOUS
  <2>1. PICK x : x = call[t]
    OBVIOUS
  <2>2. x \in CallRecords /\ Reading(t, x) /\ InTurn(x)
    BY <2>1, CallIs
  <2>3. PICK l \in Nat : l = Len(x.listed) /\ l > 0
    BY <2>1, <2>2, LenProperties DEF Reading, Selecting, CallRecords
  <2>4. x.index = Count % l
    BY <2>1, <2>2, <2>3 DEF InTurn
  <2>5. PICK n \in Nat : counter = n + 1 /\ last.index = n % l
    BY <2>1, <2>3 DEF RoutingInv, Rotating
  <2>6. Count = n + 1
    BY <2>5, RoutingAssumption DEF Count, RoutingAssumption
  <2> QED
    BY <2>1, <2>3, <2>4, <2>5, <2>6, NextRemainder
<1> QED
  BY <1>1, RoutingInvariant, PTL DEF RoutingSpec, TurnsAdvance

\* The hash resolver gives a key the bucket of an equal one, whoever resolves at the same
\* time, and its cache holds a key once and no more than its size and the threads that
\* have not come to trim it.
THEOREM CacheAnswersForItsKeys == RoutingSpec => [](ShardOfKey /\ CacheBounded)
<1>1. RoutingInv => ShardOfKey
  BY DEF RoutingInv, RightCall, Keyed, Alike, ShardOfKey
<1>2. RoutingInv => CacheBounded
  <2> SUFFICES ASSUME RoutingInv PROVE CacheBounded
    OBVIOUS
  <2>1. DOMAIN cache = 1..Len(cache)
    BY LenProperties DEF RoutingInv, CacheRight, IsCache
  <2> QED
    BY <2>1 DEF RoutingInv, CacheRight, IsCache, Trimmers, CacheBounded
<1> QED
  BY <1>1, <1>2, RoutingInvariant, PTL

\* Every resolver gives the shard it should, the weighted selector a replica that is listed
\* once its share of the points, and the cache stays a cache.
THEOREM ShardsAreRight == RoutingSpec => []ShardsRight
<1>1. RoutingInv => ResolversExact
  <2> SUFFICES ASSUME RoutingInv PROVE ResolversExact
    OBVIOUS
  <2>1. \A t \in Threads :
          kinds.resolver = "range" /\ call[t].shard # None => InRange(call[t].key, call[t].shard)
    BY DEF RoutingInv, RightCall, Keyed
  <2>2. names \in Seq(Names) /\ DOMAIN names = 1..Len(names)
    BY LenProperties DEF RoutingInv, Typed
  <2>3. ASSUME NEW i \in DOMAIN names, \A j \in DOMAIN names : names[j] = names[i] => j = i
        PROVE  Cardinality({p \in 0 .. Total(names) - 1 : WeightedPick(names, p) = names[i]})
                 = Max({Weights[names[i]], 1})
    BY <2>2, <2>3, ShareIs, RoutingAssumption DEF Weight
  <2> QED
    BY <2>1, <2>3 DEF ResolversExact, InRange
<1>2. RoutingInv => RoutingTypeOK
  <2> SUFFICES ASSUME RoutingInv PROVE RoutingTypeOK
    OBVIOUS
  <2>1. Typed
    BY DEF RoutingInv
  <2>2. PICK v \in {NoDatabase} \cup Versions :
          admin \in {<<>>, <<<<"config", v>>, <<"names", v>>, <<"counter", v>>>>,
                     <<<<"names", v>>, <<"counter", v>>>>, <<<<"counter", v>>>>}
    BY DEF RoutingInv, Swapping
  <2> DEFINE A == {"config", "names", "counter"} \X ({NoDatabase} \cup Versions)
  <2>3. <<"config", v>> \in A /\ <<"names", v>> \in A /\ <<"counter", v>> \in A
    OBVIOUS
  <2> HIDE DEF A
  <2>4. admin \in Seq(A)
    <3> PICK x \in A, y \in A, z \in A : admin \in {<<>>, <<x, y, z>>, <<y, z>>, <<z>>}
      BY <2>2, <2>3
    <3>1. <<>> \in Seq(A)
      OBVIOUS
    <3>2. <<x, y, z>> \in Seq(A)
      OBVIOUS
    <3>3. <<y, z>> \in Seq(A) /\ <<z>> \in Seq(A)
      OBVIOUS
    <3> QED
      BY <3>1, <3>2, <3>3
  <2>5. \A t \in Threads : call[t].pc \in {"count", "advance"} => call[t].index < Len(call[t].listed)
    BY DEF RoutingInv, RightCall, Reading
  <2>6. cache \in Seq([key : Keys, shard : Shards])
    BY <2>1 DEF Typed, CacheEntry
  <2> QED
    BY <2>1, <2>4, <2>5, <2>6 DEF RoutingTypeOK, Typed, A
<1> QED
  BY <1>1, <1>2, CacheAnswersForItsKeys, RoutingInvariant, PTL DEF ShardsRight
=============================================================================
