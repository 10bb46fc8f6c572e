---------------------------- MODULE EventDelivery ----------------------------
(***************************************************************************)
(* Events from a producer's transaction to a consumer's effects: enqueue   *)
(* and drain of dbkit/integrations/outbox.py, process_once and             *)
(* ack_after_commit of dbkit/integrations/inbox.py, and between them a     *)
(* broker that delivers at least once, in any order.                       *)
(*                                                                         *)
(* A transaction of the database is a claim that is invisible to the       *)
(* others until its COMMIT: relays skip the rows another relay has locked, *)
(* an INSERT of an inbox row waits for an uncommitted row of the same key. *)
(* Any process may die between two awaits; what it had not committed is    *)
(* rolled back, what it had not acked is delivered again.                  *)
(***************************************************************************)
EXTENDS Naturals, FiniteSets

CONSTANTS
  Events,        \* ids of outbox rows, which grow with every enqueue
  Relays,        \* processes that run drain
  Consumers,     \* processes that run ack_after_commit for one consumer name
  BatchSize,     \* batch_size of drain
  MaxCopies      \* bound: copies of one event on their way to a consumer or with one

ASSUME DeliveryAssumption ==
  /\ Events \subseteq Nat
  /\ BatchSize \in Nat \ {0}
  /\ MaxCopies \in Nat \ {0}

VARIABLES
  outbox,     \* the row of each event: absent, unsent, sent or rolled back
  relay,      \* the rows each relay has locked, and those it has yet to publish
  broker,     \* copies of each event that wait for delivery
  consumer,   \* the delivery each consumer is busy with
  inbox,      \* committed inbox rows
  effects,    \* how often the effects of each event were committed
  dead        \* events handed to dead_letter

vars == <<outbox, relay, broker, consumer, inbox, effects, dead>>

Idle == [pc |-> "idle"]
Drained == [rows |-> {}, todo |-> {}]

TypeOK ==
  /\ outbox \in [Events -> {"absent", "unsent", "sent", "rolled_back"}]
  /\ relay \in [Relays -> [rows : SUBSET Events, todo : SUBSET Events]]
  /\ \A r \in Relays : relay[r].todo \subseteq relay[r].rows
  /\ broker \in [Events -> Nat]
  /\ consumer \in [Consumers -> {Idle} \cup
        [pc : {"claiming", "working", "committing", "acking"}, event : Events, first : BOOLEAN]]
  /\ inbox \subseteq Events
  /\ effects \in [Events -> Nat]
  /\ dead \subseteq Events

Init ==
  /\ outbox = [e \in Events |-> "absent"]
  /\ relay = [r \in Relays |-> Drained]
  /\ broker = [e \in Events |-> 0]
  /\ consumer = [c \in Consumers |-> Idle]
  /\ inbox = {}
  /\ effects = [e \in Events |-> 0]
  /\ dead = {}

-----------------------------------------------------------------------------
(* The producer and the relays *)

\* The transaction that enqueued e commits or rolls back; either way its id is used.
Enqueue(e) ==
  /\ outbox[e] = "absent"
  /\ \E end \in {"unsent", "rolled_back"} : outbox' = [outbox EXCEPT ![e] = end]
  /\ UNCHANGED <<relay, broker, consumer, inbox, effects, dead>>

Locked == UNION {relay[r].rows : r \in Relays}

\* Mutant: rows that another relay has locked are read all the same.
Claimable_Locked == {e \in Events : outbox[e] = "unsent"}

\* Unsent rows that no relay has locked (FOR UPDATE SKIP LOCKED).
Claimable == {e \in Events : outbox[e] = "unsent"} \ Locked

\* drain locks the first BatchSize of them.
Drain(r) ==
  LET batch == {e \in Claimable : Cardinality({f \in Claimable : f < e}) < BatchSize}
  IN  /\ relay[r] = Drained
      /\ batch # {}
      /\ relay' = [relay EXCEPT ![r] = [rows |-> batch, todo |-> batch]]
      /\ UNCHANGED <<outbox, broker, consumer, inbox, effects, dead>>

BusyWith(c, e) == consumer[c] # Idle /\ consumer[c].event = e

\* Copies of e that are in the broker or with a consumer.
Copies(e) ==
  broker[e] + Cardinality({c \in Consumers : BusyWith(c, e)})

\* publish(row) of the first row e that is left is accepted by the broker.
Publish(r, e) ==
  /\ e \in relay[r].todo /\ \A f \in relay[r].todo : e <= f
  /\ Copies(e) < MaxCopies
  /\ broker' = [broker EXCEPT ![e] = @ + 1]
  /\ relay' = [relay EXCEPT ![r].todo = @ \ {e}]
  /\ UNCHANGED <<outbox, consumer, inbox, effects, dead>>

\* sent_at is stamped on the batch and the transaction commits.
MarkSent(r) ==
  /\ relay[r].rows # {} /\ relay[r].todo = {}
  /\ outbox' = [e \in Events |-> IF e \in relay[r].rows THEN "sent" ELSE outbox[e]]
  /\ relay' = [relay EXCEPT ![r] = Drained]
  /\ UNCHANGED <<broker, consumer, inbox, effects, dead>>

\* publish raises, the UPDATE or the COMMIT fails, or the relay dies.
DrainFails(r) ==
  /\ relay[r].rows # {}
  /\ relay' = [relay EXCEPT ![r] = Drained]
  /\ UNCHANGED <<outbox, broker, consumer, inbox, effects, dead>>

-----------------------------------------------------------------------------
(* The consumers *)

At(c, pc) == consumer[c].pc = pc

Requeued(e) == broker' = [broker EXCEPT ![e] = @ + 1]

\* The delivery of c is over; ack, or a dead letter, removes it from the broker.
Done(c) == consumer' = [consumer EXCEPT ![c] = Idle]

\* The broker hands a copy of e to c, which opens its transaction.
Deliver(c, e) ==
  /\ At(c, "idle")
  /\ broker[e] > 0
  /\ broker' = [broker EXCEPT ![e] = @ - 1]
  /\ consumer' = [consumer EXCEPT ![c] = [pc |-> "claiming", event |-> e, first |-> FALSE]]
  /\ UNCHANGED <<outbox, relay, inbox, effects, dead>>

\* Consumers with an uncommitted inbox row for e.
Claimants(e) ==
  {c \in Consumers : \E pc \in {"working", "committing"} :
     At(c, pc) /\ BusyWith(c, e) /\ consumer[c].first}

\* What the INSERT ... ON CONFLICT DO NOTHING RETURNING tells the consumer of d.
Claimed(d) ==
  LET first == d.event \notin inbox
  IN  [d EXCEPT !.first = first, !.pc = IF first THEN "working" ELSE "committing"]

\* Mutant: the inbox is read, and its row written with the COMMIT.
Claim_ReadsOnly(c) ==
  /\ At(c, "claiming")
  /\ consumer' = [consumer EXCEPT ![c] = Claimed(@)]
  /\ UNCHANGED <<outbox, relay, broker, inbox, effects, dead>>

\* Mutant: the inbox row is committed before work is called.
Claim_CommitsAtOnce(c) ==
  /\ At(c, "claiming")
  /\ inbox' = inbox \cup {consumer[c].event}
  /\ consumer' = [consumer EXCEPT ![c] = Claimed(@)]
  /\ UNCHANGED <<outbox, relay, broker, effects, dead>>

\* _claim inserts the inbox row, or finds one; work is called in the first case.
Claim(c) ==
  /\ At(c, "claiming")
  /\ Claimants(consumer[c].event) = {}
  /\ consumer' = [consumer EXCEPT ![c] = Claimed(@)]
  /\ UNCHANGED <<outbox, relay, broker, inbox, effects, dead>>

Worked(c) ==
  /\ At(c, "working")
  /\ consumer' = [consumer EXCEPT ![c].pc = "committing"]
  /\ UNCHANGED <<outbox, relay, broker, inbox, effects, dead>>

\* What a COMMIT of c leaves behind.
Commits(c) ==
  /\ inbox' = inbox \cup {consumer[c].event}
  /\ effects' = IF consumer[c].first THEN [effects EXCEPT ![consumer[c].event] = @ + 1]
                                     ELSE effects

Commit(c) ==
  /\ At(c, "committing")
  /\ Commits(c)
  /\ consumer' = [consumer EXCEPT ![c].pc = "acking"]
  /\ UNCHANGED <<outbox, relay, broker, dead>>

\* Mutant: an unknown outcome is acked like a commit.
CommitUnknown_Acks(c) ==
  /\ At(c, "committing")
  /\ Commits(c) \/ UNCHANGED <<inbox, effects>>
  /\ consumer' = [consumer EXCEPT ![c].pc = "acking"]
  /\ UNCHANGED <<outbox, relay, broker, dead>>

\* DatabaseCommitUnknownError, or the death of the consumer in its COMMIT: committed
\* or not, the message is not acked.
CommitUnknown(c) ==
  /\ At(c, "committing")
  /\ Commits(c) \/ UNCHANGED <<inbox, effects>>
  /\ Requeued(consumer[c].event)
  /\ Done(c)
  /\ UNCHANGED <<outbox, relay, dead>>

\* The delivery ends without a commit: a retryable error goes to the retry callback,
\* anything else that is raised, or the death of the consumer, makes the broker deliver
\* the message again.
Requeue(c) ==
  /\ \/ At(c, "claiming") \/ At(c, "working") \/ At(c, "committing") \/ At(c, "acking")
  /\ Requeued(consumer[c].event)
  /\ Done(c)
  /\ UNCHANGED <<outbox, relay, inbox, effects, dead>>

\* A permanent error of _claim, of work or of the COMMIT goes to dead_letter.
DeadLetter(c) ==
  /\ At(c, "claiming") \/ At(c, "working") \/ At(c, "committing")
  /\ dead' = dead \cup {consumer[c].event}
  /\ Done(c)
  /\ UNCHANGED <<outbox, relay, broker, inbox, effects>>

\* A cancelled COMMIT is reported as a permanent error whatever came of it.
CommitCancelled(c) ==
  /\ At(c, "committing")
  /\ Commits(c)
  /\ dead' = dead \cup {consumer[c].event}
  /\ Done(c)
  /\ UNCHANGED <<outbox, relay, broker>>

Ack(c) ==
  /\ At(c, "acking")
  /\ Done(c)
  /\ UNCHANGED <<outbox, relay, broker, inbox, effects, dead>>

-----------------------------------------------------------------------------
RelayStep(r) == Drain(r) \/ (\E e \in Events : Publish(r, e)) \/ MarkSent(r)

ConsumerStep(c) ==
  \/ \E e \in Events : Deliver(c, e)
  \/ Claim(c) \/ Worked(c) \/ Commit(c) \/ DeadLetter(c) \/ Ack(c)

Next ==
  \/ \E e \in Events : Enqueue(e)
  \/ \E r \in Relays : RelayStep(r) \/ DrainFails(r)
  \/ \E c \in Consumers :
       ConsumerStep(c) \/ CommitUnknown(c) \/ CommitCancelled(c) \/ Requeue(c)

Spec == Init /\ [][Next]_vars

\* drain is called in a loop, the broker delivers what it has, and a consumer that has
\* a message goes on with it.
FairSpec ==
  /\ Spec
  /\ \A r \in Relays : WF_vars(RelayStep(r))
  /\ \A c \in Consumers : WF_vars(ConsumerStep(c))

\* What makes a relay or the broker start over.
Fault ==
  \/ \E r \in Relays : DrainFails(r)
  \/ \E c \in Consumers : CommitUnknown(c) \/ Requeue(c)

-----------------------------------------------------------------------------
(* Properties *)

Committed == {e \in Events : outbox[e] \in {"unsent", "sent"}}

\* The effects of an event are applied at most once, and only if its producer's
\* transaction committed, through any redelivery, crash or unknown COMMIT.
Promise ==
  INSTANCE EffectivelyOnce WITH committed <- Committed, applied <- effects, dead <- dead

Implements == Promise!Spec

UnderWay(e) == broker[e] > 0 \/ \E c \in Consumers : BusyWith(c, e)

\* No committed event is ever lost: until its effects are applied or it is a dead
\* letter, its row is unsent or some copy is in the broker or with a consumer.
NoEventLost ==
  \A e \in Committed : outbox[e] = "unsent" \/ UnderWay(e) \/ effects[e] > 0 \/ e \in dead

\* Concurrent relays never work on the same row, so a second copy of an event is
\* published only after a drain has failed (SKIP LOCKED).
RelaysDisjoint ==
  \A r, q \in Relays : r # q => relay[r].rows \cap relay[q].rows = {}

\* What a consumer has claimed, and not yet committed, nobody else has applied: the
\* work of a message never runs in two transactions that could both commit.
WorkedOnOnce ==
  \A e \in Events :
    /\ effects[e] <= 1
    /\ \A c, d \in Claimants(e) : c = d /\ effects[e] = 0

\* Neither relays nor consumers work on the same thing twice at once.
Exclusive == RelaysDisjoint /\ WorkedOnOnce

\* Once nothing fails any more, the relays empty the outbox, and every committed event
\* is applied or given up: no crash, no concurrent relay or consumer and no unknown
\* COMMIT leaves a row or a message behind that nobody takes up again.
EventuallyHandled ==
  <>[][~Fault]_vars =>
    \A e \in Events :
      e \in Committed ~> (outbox[e] = "sent" /\ (effects[e] > 0 \/ e \in dead))
==============================================================================
