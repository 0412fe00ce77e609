---------------------------- MODULE ConsumerSafety ----------------------------
(***************************************************************************)
(* What the consumer must keep whatever the queue redelivers, the database *)
(* loses and the operator stops.                                           *)
(***************************************************************************)
EXTENDS Consumer

Labels == Calling \cup {"idle", "next"}

(* Every variable has its type.                                            *)
TypeOK ==
  /\ body \in Workloads
  /\ mailbox \in [Messages -> {"queued", "deleted", "dead"}]
  /\ receives \in [Messages -> Nat]
  /\ receipt \in [Messages -> Goroutines \cup {None}]
  /\ inbox \in [Ids -> Bodies \cup {None}]
  /\ rows \in [Requests -> Nat]
  /\ applied \in SUBSET Messages
  /\ run \in [Instances -> {"running", "stopping", "released", "stopped", "crashed"}]
  /\ todo \in [Goroutines -> SUBSET Messages]
  /\ current \in [Goroutines -> Messages \cup {None}]
  /\ pc \in [Goroutines -> Labels]
  /\ \A w \in Goroutines : pc[w] \in Calling => current[w] \in Messages
  /\ errors \in Nat /\ lapses \in Nat /\ stops \in Nat

Promise == INSTANCE InboxPromise
             WITH acknowledged <- {m \in Messages : mailbox[m] = "deleted"}

(* Every step of the consumer is a step of what it promises, or none: the  *)
(* inbox row and the transaction it records appear together, an id keeps   *)
(* its first body, and nothing is acknowledged before it is recorded       *)
(* (handle in consumer.go, InboxRepo.Insert).                              *)
ImplementsPromise == Promise!Spec

(* One transaction for each key and each external id, whichever of the     *)
(* queue's deliveries, instances and HTTP calls compete for it: the unique *)
(* indexes carry what the inbox cannot see.                                *)
OneTransactionPerIdentity ==
  \A r, s \in Requests :
    Stored(r) /\ Stored(s) /\ SameIdentity(r, s) => r = s /\ rows[r] = 1

(* A message that left the queue by DeleteMessage has its own body in the  *)
(* inbox, and the identity it asked for is decided: "DeleteMessage so      *)
(* pos-commit" (ARCHITECTURE.md:100), and never on behalf of another body. *)
AcknowledgedWasDecided ==
  \A m \in Messages : mailbox[m] = "deleted" =>
    /\ inbox[body[m].id] = body[m]
    /\ \E r \in Requests : Stored(r) /\ SameIdentity(r, Request(m))

(* An effect and its inbox row are one transaction: whatever the message   *)
(* caused, its redelivery finds the row (ARCHITECTURE.md:100).             *)
EffectHasInboxRow == \A m \in applied : inbox[body[m].id] = body[m]

Earlier(m, n) == GroupOf(m) = GroupOf(n) /\ Place[m] < Place[n]

(* No message takes effect after a later one of its wallet (the batch is   *)
(* handled "FIFO por carteira", ARCHITECTURE.md:123).                      *)
OutOfOrder == \E m \in applied' \ applied, n \in applied : Earlier(m, n)
GroupOrder == [][~OutOfOrder]_applied

(* The order of a wallet is kept through crashes, stops, visibility        *)
(* timeouts and competing instances, as long as no call has failed; and    *)
(* the redrive policy must allow more receives than there are faults, or   *)
(* it moves a message away under the goroutine that still handles it.      *)
OrderUntilFailure == [][errors = 0 => ~OutOfOrder]_vars

Good(m) ==
  /\ body[m].form = "good"
  /\ \A n \in Messages : body[n].id = body[m].id => body[n] = body[m]

(* A message that can be processed is received again only for a reason: a  *)
(* failed call, a timeout, a stop, or the one 23505 that a competitor may  *)
(* cause.  Contention alone never takes it to the dead-letter queue.       *)
ReceivesHaveCause ==
  \A m \in Messages : Good(m) => receives[m] <= 2 + errors + lapses + stops

(* The dead-letter queue never takes a message that can be processed, when *)
(* the redrive policy leaves room for the failures there may be: no        *)
(* redelivery of what is committed already, and no contention, fills it    *)
(* (maxReceiveCount, and the replay of a known messageId in handle).       *)
GoodMessagesSurvive ==
  2 + MaxFaults <= MaxReceives => \A m \in Messages : Good(m) => mailbox[m] # "dead"

(* When Stop has returned, nothing that the instance received is still     *)
(* hidden: work is finished in time or made visible for another instance   *)
(* (docs/CHALLENGE.md:355, consumer.go:184).                               *)
StopLeavesNothingHidden ==
  \A i \in Instances : run[i] = "stopped" =>
    \A m \in Messages : Hidden(m) => receipt[m] \notin Crew(i)

(* Every message is deleted or dead-lettered in the end: poison does not   *)
(* block its group, a stopped instance does not keep what it received.     *)
EveryMessageSettles == <>(\A m \in Messages : mailbox[m] # "queued")

(* A message that can be processed is recorded and acknowledged in the end *)
(* when the redrive policy leaves room for the failures there may be.      *)
GoodMessagesAreDecided ==
  2 + MaxFaults <= MaxReceives =>
    <>(\A m \in Messages : Good(m) => mailbox[m] = "deleted")
=============================================================================
