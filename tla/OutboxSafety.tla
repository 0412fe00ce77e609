----------------------------- MODULE OutboxSafety -----------------------------
(***************************************************************************)
(* What the outbox promises its readers: delivery at least once, repeated  *)
(* only when something failed.                                             *)
(***************************************************************************)
EXTENDS Outbox

(* Every variable has its type.                                            *)
TypeOK ==
  /\ stored \in SUBSET Events /\ published \in SUBSET stored
  /\ backingOff \in SUBSET stored /\ leased \in SUBSET stored
  /\ attempts \in [Events -> Nat]
  /\ hand \in [Publishers -> SUBSET stored]
  /\ counted \in [Publishers -> [Events -> Nat]]
  /\ current \in [Publishers -> Events \cup {None}]
  /\ pc \in [Publishers -> {"idle", "sent", "failed"}]
  /\ queue \in Seq(Events)
  /\ recent \in SUBSET Events
  /\ faults \in 0 .. MaxFaults
  /\ overrun \in SUBSET Events

Places(e) == {i \in 1 .. Len(queue) : queue[i] = e}

(* A row is marked published only when the queue has its message: no       *)
(* crash, error or second publisher makes the outbox forget an event that  *)
(* was never delivered (the order of publishOne and MarkPublished in tick).*)
PublishedWasDelivered == \A e \in published : Places(e) # {}

(* Two publishers never work on one row unless its lease ended in the      *)
(* hands of a publisher: no mark, failure or crash, of this row or of      *)
(* another, gives it away (locked_until and FOR UPDATE SKIP LOCKED in      *)
(* ClaimBatch, locked_until = NULL in both marks).                         *)
OneHolder ==
  \A p, q \in Publishers : p # q => hand[p] \cap hand[q] \subseteq overrun

(* The message of a row that was not overrun is in the queue once, and     *)
(* once more at most for every failure there was: competing publishers     *)
(* alone never repeat an event.                                            *)
RepeatsNeedFaults ==
  \A e \in Events \ overrun : Cardinality(Places(e)) <= 1 + faults

(* The attempts of a row that was not overrun, which set its backoff,      *)
(* cover every message that was sent for it: no failure path winds them    *)
(* back below the deliveries.                                              *)
AttemptsCoverDeliveries ==
  \A e \in Events \ overrun : Cardinality(Places(e)) <= attempts[e]

(* Every committed event is published in the end, across crashes of        *)
(* publishers, lost marks, failed sends and leases that end too early,     *)
(* which lets a mark end the lease of another (CHALLENGE.md section 11).   *)
EventsArePublished == \A e \in Events : e \in stored ~> e \in published
=============================================================================
