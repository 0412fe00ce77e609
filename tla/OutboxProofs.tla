----------------------------- MODULE OutboxProofs -----------------------------
(***************************************************************************)
(* Proofs about the outbox, for any events, publishers and bounds.         *)
(*                                                                         *)
(* Inv strengthens PublishedWasDelivered with what makes it inductive: a   *)
(* publisher about to mark a row has delivered it (SentIsDelivered), and a *)
(* deduplication id is remembered only for a message the queue has, so a   *)
(* send that adds nothing still leaves the event delivered                 *)
(* (RecentIsDelivered).  OneHolder needs that whatever is in a hand and    *)
(* was not overrun is leased (HandsLeased).                                *)
(* The two counts of messages need to know, beside that, what each message *)
(* is charged to: a fault, a mark that is done or due (Charged), and an    *)
(* attempt that the holder of the row has counted (Covered).               *)
(***************************************************************************)
EXTENDS OutboxSafety, FiniteSetTheorems, TLAPS

CurrentInHand == \A p \in Publishers : pc[p] # "idle" => current[p] \in hand[p]
SentIsDelivered == \A p \in Publishers : pc[p] = "sent" => Places(current[p]) # {}
RecentIsDelivered == \A e \in recent : Places(e) # {}

Inv == /\ TypeOK /\ CurrentInHand
       /\ SentIsDelivered /\ RecentIsDelivered /\ PublishedWasDelivered

HandsLeased == \A p \in Publishers : hand[p] \subseteq leased \cup overrun

(* What the queue has it keeps, and Deliver leaves it with the event.      *)
LEMMA DeliverKeeps ==
  ASSUME queue \in Seq(Events), recent \in SUBSET Events, RecentIsDelivered,
         NEW e \in Events, Deliver(e)
  PROVE  /\ queue' \in Seq(Events) /\ recent' \in SUBSET Events
         /\ \A d \in Events : Places(d) # {} => Places(d)' # {}
         /\ Places(e)' # {}
         /\ RecentIsDelivered'
<1>1. queue' \in Seq(Events) /\ recent' \in SUBSET Events
  BY DEF Deliver
<1>2. ASSUME NEW d \in Events, NEW i \in Places(d)
      PROVE  i \in Places(d)'
  BY <1>2, <1>1 DEF Deliver, Places
<1>3. \A d \in Events : Places(d) # {} => Places(d)' # {}
  BY <1>2
<1>4. Places(e)' # {}
  <2>1. CASE e \in recent
    BY <2>1, <1>3 DEF RecentIsDelivered
  <2>2. CASE e \notin recent
    <3>1. queue' = Append(queue, e)
      BY <2>2 DEF Deliver
    <3>2. Len(queue) + 1 \in 1 .. Len(queue') /\ queue'[Len(queue) + 1] = e
      BY <3>1
    <3>3. Len(queue) + 1 \in Places(e)'
      BY <3>2 DEF Places
    <3> QED BY <3>3
  <2> QED BY <2>1, <2>2
<1>5. RecentIsDelivered'
  BY <1>3, <1>4 DEF RecentIsDelivered, Deliver
<1> QED BY <1>1, <1>3, <1>4, <1>5

LEMMA InitInv == Init => Inv /\ HandsLeased /\ OneHolder
BY OutboxAssumption
   DEF Init, Inv, TypeOK, CurrentInHand, SentIsDelivered, RecentIsDelivered,
       PublishedWasDelivered, HandsLeased, OneHolder

(* A send, whatever its result.                                            *)
LEMMA SendStep ==
  ASSUME Inv, NEW p \in Publishers, NEW e \in Events,
         PublishOne(p, e) \/ SendFails(p, e)
  PROVE  Inv'
<1> USE DEF Inv
<1>1. /\ pc[p] = "idle" /\ e \in hand[p]
      /\ UNCHANGED <<stored, published, backingOff, leased, attempts, hand, counted, overrun>>
      /\ current' = [current EXCEPT ![p] = e]
  BY DEF PublishOne, SendFails, SendEnds, rows
<1>2. faults' \in 0 .. MaxFaults
  BY OutboxAssumption DEF PublishOne, SendFails, TypeOK
<1>3. /\ queue' \in Seq(Events) /\ recent' \in SUBSET Events
      /\ \A d \in Events : Places(d) # {} => Places(d)' # {}
      /\ RecentIsDelivered'
  <2>1. CASE Deliver(e)
    BY <2>1, DeliverKeeps DEF TypeOK
  <2>2. CASE UNCHANGED <<queue, recent>>
    BY <2>2 DEF TypeOK, Places, RecentIsDelivered
  <2> QED BY <2>1, <2>2 DEF PublishOne, SendFails
<1>4. \/ pc' = [pc EXCEPT ![p] = "sent"] /\ Places(e)' # {}
      \/ pc' = [pc EXCEPT ![p] = "failed"]
  <2>1. CASE PublishOne(p, e)
    BY <2>1, DeliverKeeps DEF TypeOK, PublishOne, SendEnds
  <2>2. CASE SendFails(p, e)
    BY <2>2 DEF SendFails, SendEnds
  <2> QED BY <2>1, <2>2
<1>5. TypeOK'
  BY <1>1, <1>2, <1>3, <1>4 DEF TypeOK
<1>6. CurrentInHand'
  BY <1>1, <1>4 DEF TypeOK, CurrentInHand
<1>7. SentIsDelivered'
  <2> SUFFICES ASSUME NEW q \in Publishers, pc'[q] = "sent"
               PROVE  Places(current[q])' # {}
    BY DEF SentIsDelivered
  <2>1. CASE q = p
    BY <2>1, <1>1, <1>4 DEF TypeOK, Places
  <2>2. CASE q # p
    <3>1. pc[q] = "sent" /\ current'[q] = current[q]
      BY <2>2, <1>1, <1>4 DEF TypeOK
    <3>2. current[q] \in Events /\ Places(current[q]) # {}
      BY <3>1 DEF SentIsDelivered, CurrentInHand, TypeOK
    <3> QED BY <3>1, <3>2, <1>3 DEF Places
  <2> QED BY <2>1, <2>2
<1>8. PublishedWasDelivered'
  BY <1>1, <1>3 DEF PublishedWasDelivered, TypeOK
<1> QED BY <1>3, <1>5, <1>6, <1>7, <1>8

(* The end of a row: marked, marked failed, or the mark is lost.           *)
LEMMA MarkStep ==
  ASSUME Inv, NEW p \in Publishers,
         MarkPublished(p) \/ MarkPublishFailed(p) \/ MarkLost(p)
  PROVE  Inv'
<1> USE DEF Inv
<1>1. /\ hand' = [hand EXCEPT ![p] = @ \ {current[p]}]
      /\ current' = [current EXCEPT ![p] = None]
      /\ pc' = [pc EXCEPT ![p] = "idle"]
      /\ UNCHANGED <<stored, counted, queue, recent, overrun>>
  BY DEF MarkPublished, MarkPublishFailed, MarkLost, NextRow, rows
<1>2. current[p] \in hand[p] /\ current[p] \in stored /\ current[p] \in Events
  BY DEF MarkPublished, MarkPublishFailed, MarkLost, CurrentInHand, TypeOK
<1>3. /\ published' \in SUBSET stored /\ backingOff' \in SUBSET stored
      /\ leased' \in SUBSET stored /\ attempts' \in [Events -> Nat]
      /\ faults' \in 0 .. MaxFaults
  <2>1. CASE MarkPublished(p)
    BY <2>1, <1>2 DEF MarkPublished, TypeOK
  <2>2. CASE MarkPublishFailed(p)
    <3>1. counted[p][current[p]] \in Nat
      BY <1>2 DEF TypeOK
    <3> QED BY <2>2, <1>2, <3>1 DEF MarkPublishFailed, TypeOK
  <2>3. CASE MarkLost(p)
    BY <2>3, OutboxAssumption DEF MarkLost, rows, TypeOK
  <2> QED BY <2>1, <2>2, <2>3
<1>4. TypeOK'
  BY <1>1, <1>3 DEF TypeOK
<1>5. CurrentInHand'
  BY <1>1 DEF TypeOK, CurrentInHand
<1>6. SentIsDelivered' /\ RecentIsDelivered'
  BY <1>1 DEF TypeOK, SentIsDelivered, RecentIsDelivered, Places
<1>7. PublishedWasDelivered'
  <2>1. \A e \in published' : Places(e) # {}
    <3>1. CASE MarkPublished(p)
      BY <3>1 DEF MarkPublished, PublishedWasDelivered, SentIsDelivered
    <3>2. CASE MarkPublishFailed(p) \/ MarkLost(p)
      BY <3>2 DEF MarkPublishFailed, MarkLost, rows, PublishedWasDelivered
    <3> QED BY <3>1, <3>2
  <2> QED BY <2>1, <1>1 DEF PublishedWasDelivered, Places
<1> QED BY <1>4, <1>5, <1>6, <1>7

(* Every other step leaves the queue alone and claims, drops or releases   *)
(* rows.                                                                   *)
LEMMA ClaimStep ==
  ASSUME Inv, NEW p \in Publishers, ClaimBatch(p) PROVE Inv'
<1> USE DEF Inv
<1>1. PICK claimed \in SUBSET Claimable \ {{}} :
        /\ leased' = leased \cup claimed
        /\ hand' = [hand EXCEPT ![p] = claimed]
        /\ attempts' = [e \in Events |->
             IF e \in claimed THEN attempts[e] + 1 ELSE attempts[e]]
        /\ counted' = [counted EXCEPT ![p] = attempts']
  BY DEF ClaimBatch
<1>2. /\ pc[p] = "idle"
      /\ UNCHANGED <<stored, published, backingOff, current, pc, queue, recent, faults, overrun>>
  BY DEF ClaimBatch
<1>3. claimed \in SUBSET stored
  BY DEF Claimable
<1>4. attempts' \in [Events -> Nat]
  BY <1>1 DEF TypeOK
<1>5. TypeOK'
  BY <1>1, <1>2, <1>3, <1>4 DEF TypeOK
<1>6. CurrentInHand'
  BY <1>1, <1>2 DEF TypeOK, CurrentInHand
<1>7. SentIsDelivered' /\ RecentIsDelivered' /\ PublishedWasDelivered'
  BY <1>2 DEF SentIsDelivered, RecentIsDelivered, PublishedWasDelivered, Places
<1> QED BY <1>5, <1>6, <1>7

LEMMA CrashStep ==
  ASSUME Inv, NEW p \in Publishers, Crash(p) PROVE Inv'
<1> USE DEF Inv
<1>1. TypeOK'
  BY OutboxAssumption DEF Crash, rows, TypeOK
<1>2. CurrentInHand' /\ SentIsDelivered'
  BY DEF Crash, TypeOK, CurrentInHand, SentIsDelivered, Places
<1>3. RecentIsDelivered' /\ PublishedWasDelivered'
  BY DEF Crash, rows, RecentIsDelivered, PublishedWasDelivered, Places
<1> QED BY <1>1, <1>2, <1>3

LEMMA RowStep ==
  ASSUME Inv, NEW e \in Events,
         Insert(e) \/ LeaseLapses(e) \/ BackoffEnds(e) \/ DedupWindowCloses(e)
  PROVE  Inv'
<1> USE DEF Inv
<1>1. /\ UNCHANGED <<attempts, published, hand, counted, current, pc, queue, faults>>
      /\ recent' \subseteq recent
  BY DEF Insert, LeaseLapses, BackoffEnds, DedupWindowCloses, rows, publishers
<1>2. /\ stored \subseteq stored' /\ stored' \subseteq Events
      /\ leased' \subseteq leased /\ backingOff' \subseteq backingOff
      /\ overrun' \subseteq Events
  BY DEF Insert, LeaseLapses, BackoffEnds, DedupWindowCloses, rows, TypeOK
<1>3. TypeOK'
  BY <1>1, <1>2 DEF TypeOK
<1>4. CurrentInHand' /\ SentIsDelivered' /\ RecentIsDelivered' /\ PublishedWasDelivered'
  BY <1>1 DEF CurrentInHand, SentIsDelivered, RecentIsDelivered,
              PublishedWasDelivered, Places
<1> QED BY <1>3, <1>4

LEMMA NextInv == Inv /\ [Next]_vars => Inv'
<1> SUFFICES ASSUME Inv, [Next]_vars PROVE Inv'
  OBVIOUS
<1>1. CASE UNCHANGED vars
  BY <1>1 DEF vars, Inv, TypeOK, CurrentInHand, SentIsDelivered, RecentIsDelivered,
              PublishedWasDelivered, Places
<1>2. CASE \E e \in Events :
             Insert(e) \/ LeaseLapses(e) \/ BackoffEnds(e) \/ DedupWindowCloses(e)
  BY <1>2, RowStep
<1>3. CASE \E p \in Publishers : PublisherStep(p)
  BY <1>3, ClaimStep, SendStep, MarkStep DEF PublisherStep
<1>4. CASE \E p \in Publishers : FaultStep(p)
  BY <1>4, CrashStep, SendStep, MarkStep DEF FaultStep
<1> QED BY <1>1, <1>2, <1>3, <1>4 DEF Next, Quiescent

LEMMA SpecInv == Spec => []Inv
<1>1. Init => Inv
  BY InitInv
<1> QED BY <1>1, NextInv, PTL DEF Spec

(* Every variable of the outbox keeps its type.                            *)
THEOREM TypeCorrect == Spec => []TypeOK
<1>1. Inv => TypeOK
  BY DEF Inv
<1> QED BY <1>1, SpecInv, PTL

(* No row is marked published before the queue has its message, whatever   *)
(* crashes, fails or lapses (publishOne before MarkPublished in tick).     *)
THEOREM PublishedAlwaysDelivered == Spec => []PublishedWasDelivered
<1>1. Inv => PublishedWasDelivered
  BY DEF Inv
<1> QED BY <1>1, SpecInv, PTL

-----------------------------------------------------------------------------
(* One publisher per row, unless its lease ended in somebody's hands.      *)

Exclusive == HandsLeased /\ OneHolder

LEMMA NextExclusive ==
  ASSUME Inv, Exclusive, [Next]_vars
  PROVE  Exclusive'
<1> USE DEF Exclusive, HandsLeased, OneHolder
<1>1. CASE UNCHANGED vars
  BY <1>1 DEF vars
<1>2. ASSUME NEW e \in Events,
             Insert(e) \/ BackoffEnds(e) \/ DedupWindowCloses(e)
      PROVE  Exclusive'
  BY <1>2 DEF Insert, BackoffEnds, DedupWindowCloses, rows, publishers
<1>3. ASSUME NEW e \in Events, LeaseLapses(e) PROVE Exclusive'
  BY <1>3 DEF LeaseLapses, publishers
<1>4. ASSUME NEW p \in Publishers, ClaimBatch(p) PROVE Exclusive'
  <2>1. PICK claimed \in SUBSET Claimable :
          leased' = leased \cup claimed /\ hand' = [hand EXCEPT ![p] = claimed]
          /\ overrun' = overrun
    BY <1>4 DEF ClaimBatch
  <2>2. \A q \in Publishers : claimed \cap hand[q] \subseteq overrun
    BY <2>1 DEF Claimable
  <2> QED BY <2>1, <2>2 DEF Inv, TypeOK
<1>5. ASSUME NEW p \in Publishers, NEW e \in Events, PublishOne(p, e) \/ SendFails(p, e)
      PROVE  Exclusive'
  BY <1>5 DEF PublishOne, SendFails, SendEnds, rows
<1>6. ASSUME NEW p \in Publishers,
             MarkPublished(p) \/ MarkPublishFailed(p) \/ MarkLost(p)
      PROVE  Exclusive'
  <2>1. /\ hand' = [hand EXCEPT ![p] = @ \ {current[p]}]
        /\ current[p] \in hand[p]
        /\ leased \ {current[p]} \subseteq leased' /\ overrun' = overrun
    BY <1>6 DEF MarkPublished, MarkPublishFailed, MarkLost, NextRow, rows, Inv, CurrentInHand
  <2>2. \A q \in Publishers : q # p => current[p] \notin hand[q] \ overrun
    BY <2>1
  <2> QED BY <2>1, <2>2 DEF Inv, TypeOK
<1>7. ASSUME NEW p \in Publishers, Crash(p) PROVE Exclusive'
  BY <1>7 DEF Crash, rows, Inv, TypeOK
<1> QED
  BY <1>1, <1>2, <1>3, <1>4, <1>5, <1>6, <1>7
     DEF Next, PublisherStep, FaultStep, Quiescent

(* Competing publishers never have one row in their hands, unless its      *)
(* lease ended before the work it covers (ClaimBatch, locked_until).       *)
THEOREM OneHolderAlways == Spec => []OneHolder
<1>1. Init => Exclusive
  BY InitInv DEF Exclusive
<1>2. Inv /\ Exclusive /\ [Next]_vars => Exclusive'
  BY NextExclusive
<1>3. Exclusive => OneHolder
  BY DEF Exclusive
<1> QED BY <1>1, <1>2, <1>3, SpecInv, PTL DEF Spec

-----------------------------------------------------------------------------
(* How often the event of a row that was not overrun is in the queue.      *)

Messages(e) == Cardinality(Places(e))

\* A publisher that has sent e and has not marked it yet.
BeingMarked(e) == \E p \in Publishers : pc[p] = "sent" /\ current[p] = e

\* A publisher that has claimed e and has not sent it yet.
ToBeSent(e) == \E p \in Publishers : e \in hand[p] /\ (pc[p] = "idle" \/ current[p] # e)

\* Every message but one was paid for by a fault; that one is marked, or about to be.
Charged ==
  /\ \A p \in Publishers : hand[p] \cap published \subseteq overrun
  /\ \A e \in Events \ overrun :
       /\ Messages(e) <= 1 + faults
       /\ e \notin published /\ ~BeingMarked(e) => Messages(e) <= faults

\* Every message has its attempt, and a row still to be sent has one to spare.
Covered ==
  /\ \A p \in Publishers : \A e \in hand[p] \ overrun : counted[p][e] = attempts[e]
  /\ \A e \in Events \ overrun :
       /\ Messages(e) <= attempts[e]
       /\ ToBeSent(e) => Messages(e) + 1 <= attempts[e]

Counts == Charged /\ Covered

\* The places of an event are finitely many.
LEMMA MessagesTyped ==
  ASSUME queue \in Seq(Events), NEW e
  PROVE  IsFiniteSet(Places(e)) /\ Messages(e) \in Nat
<1>1. PICK n \in Int : n = Len(queue)
  OBVIOUS
<1>2. PICK S : S = Places(e)
  OBVIOUS
<1>3. S \in SUBSET (1 .. n)
  BY <1>1, <1>2 DEF Places
<1>4. IsFiniteSet(S)
  <2>1. IsFiniteSet(1 .. n)
    BY FS_Interval
  <2> QED BY <1>3, <2>1, FS_Subset
<1>5. Cardinality(S) \in Nat
  BY <1>4, FS_CardinalityType
<1> QED BY <1>2, <1>4, <1>5 DEF Messages

\* Deliver adds at most one message, of its own event.
LEMMA DeliverAdds ==
  ASSUME queue \in Seq(Events), NEW e \in Events, Deliver(e), NEW d \in Events
  PROVE  /\ Messages(d)' \in Nat /\ Messages(d)' <= Messages(d) + 1
         /\ d # e => Messages(d)' = Messages(d)
<1>1. PICK S : S = Places(d)
  OBVIOUS
<1>2. PICK T : T = Places(d)'
  OBVIOUS
<1>3. PICK n \in Nat : n = Len(queue)
  OBVIOUS
<1>4. T = S \/ (d = e /\ T = S \cup {n + 1})
  <2>1. CASE e \in recent
    BY <2>1, <1>1, <1>2 DEF Deliver, Places
  <2>2. CASE e \notin recent
    <3>1. queue' = Append(queue, e)
      BY <2>2 DEF Deliver
    <3>2. Len(queue') = n + 1
      BY <3>1, <1>3
    <3>3. \A i \in 1 .. n : queue'[i] = queue[i]
      BY <3>1, <1>3
    <3>4. queue'[n + 1] = e
      BY <3>1, <1>3
    <3>5. S = {i \in 1 .. n : queue[i] = d}
      BY <1>1, <1>3 DEF Places
    <3>6. T = {i \in 1 .. n + 1 : queue'[i] = d}
      BY <1>2, <3>2 DEF Places
    <3>7. 1 .. n + 1 = (1 .. n) \cup {n + 1}
      OBVIOUS
    <3>8. CASE d = e
      BY <3>3, <3>4, <3>5, <3>6, <3>7, <3>8
    <3>9. CASE d # e
      BY <3>3, <3>4, <3>5, <3>6, <3>7, <3>9
    <3> QED BY <3>8, <3>9
  <2> QED BY <2>1, <2>2
<1>5. IsFiniteSet(S) /\ Cardinality(S) \in Nat
  BY <1>1, MessagesTyped DEF Messages
<1>6. CASE T = S
  <2>1. Cardinality(T) = Cardinality(S)
    BY <1>6, Zenon
  <2> QED BY <1>1, <1>2, <1>5, <2>1 DEF Messages
<1>7. CASE d = e /\ T = S \cup {n + 1}
  <2>1. Cardinality(T) = IF n + 1 \in S THEN Cardinality(S) ELSE Cardinality(S) + 1
    BY <1>5, <1>7, FS_AddElement, Zenon
  <2> QED BY <1>1, <1>2, <1>5, <1>7, <2>1 DEF Messages
<1> QED BY <1>4, <1>6, <1>7

\* Whatever leaves the queue alone leaves its counts.
LEMMA SameMessages ==
  ASSUME queue' = queue PROVE \A d \in Events : Messages(d)' = Messages(d)
BY DEF Messages, Places

LEMMA InitCounts == Init => Counts
<1> SUFFICES ASSUME Init PROVE Counts
  OBVIOUS
<1>1. \A e \in Events : Messages(e) = 0
  <2> SUFFICES ASSUME NEW e \in Events PROVE Messages(e) = 0
    OBVIOUS
  <2>1. Places(e) = {}
    BY DEF Init, Places
  <2> QED BY <2>1, FS_EmptySet, Zenon DEF Messages
<1>2. /\ hand = [p \in Publishers |-> {}] /\ pc = [p \in Publishers |-> "idle"]
      /\ attempts = [e \in Events |-> 0] /\ faults = 0
  BY DEF Init
<1>3. \A e \in Events : ~ToBeSent(e)
  BY <1>2 DEF ToBeSent
<1> QED BY <1>1, <1>2, <1>3 DEF Counts, Charged, Covered

\* A send is charged to a mark that is due, or to the fault it is.
LEMMA SendCounts ==
  ASSUME Inv, Exclusive, Counts, NEW p \in Publishers, NEW e \in Events,
         PublishOne(p, e) \/ SendFails(p, e)
  PROVE  Counts'
<1>1. /\ pc[p] = "idle" /\ e \in hand[p]
      /\ UNCHANGED <<published, attempts, hand, counted, overrun>>
      /\ current' = [current EXCEPT ![p] = e]
  BY DEF PublishOne, SendFails, SendEnds, rows
<1>2. \/ faults' = faults /\ pc' = [pc EXCEPT ![p] = "sent"]
      \/ faults' = faults + 1 /\ pc' = [pc EXCEPT ![p] = "failed"]
  BY DEF PublishOne, SendFails, SendEnds
<1>3. /\ faults \in Nat /\ attempts \in [Events -> Nat]
      /\ current \in [Publishers -> Events \cup {None}]
      /\ pc \in [Publishers -> {"idle", "sent", "failed"}]
  BY OutboxAssumption DEF Inv, TypeOK
<1>4. queue \in Seq(Events)
  BY DEF Inv, TypeOK
<1>5. \A d \in Events : /\ Messages(d) \in Nat /\ Messages(d)' \in Nat
                        /\ Messages(d)' <= Messages(d) + 1
                        /\ d # e => Messages(d)' = Messages(d)
  <2>1. \A d \in Events : Messages(d) \in Nat
    BY <1>4, MessagesTyped
  <2>2. CASE Deliver(e)
    BY <2>1, <2>2, <1>4, DeliverAdds
  <2>3. CASE UNCHANGED <<queue, recent>>
    BY <2>1, <2>3, SameMessages
  <2> QED BY <2>2, <2>3 DEF PublishOne, SendFails
<1>6. ASSUME e \notin overrun, NEW q \in Publishers, q # p
      PROVE  e \notin hand[q] /\ (pc[q] # "idle" => current[q] # e)
  BY <1>1, <1>6 DEF Exclusive, OneHolder, Inv, CurrentInHand
<1>7. e \notin overrun => e \notin published /\ ~BeingMarked(e) /\ ToBeSent(e)
  BY <1>1, <1>6 DEF Counts, Charged, BeingMarked, ToBeSent
<1>8. e \notin overrun => Messages(e)' <= 1 + faults /\ Messages(e)' <= attempts[e]
  <2>1. e \notin overrun => Messages(e) <= faults /\ Messages(e) + 1 <= attempts[e]
    BY <1>7 DEF Counts, Charged, Covered
  <2> QED BY <2>1, <1>3, <1>5
<1>9. \A d \in Events \ overrun : ToBeSent(d)' => d # e /\ ToBeSent(d)
  BY <1>1, <1>2, <1>3, <1>6 DEF ToBeSent
<1>10. \A d \in Events : BeingMarked(d) => BeingMarked(d)'
  BY <1>1, <1>2, <1>3 DEF BeingMarked
<1>11. faults' = faults => BeingMarked(e)'
  BY <1>1, <1>2, <1>3 DEF BeingMarked
<1>12. Charged'
  <2>1. \A q \in Publishers : hand'[q] \cap published' \subseteq overrun'
    BY <1>1 DEF Counts, Charged
  <2>2. ASSUME NEW d \in Events \ overrun
        PROVE  /\ Messages(d)' <= 1 + faults'
               /\ d \notin published' /\ ~BeingMarked(d)' => Messages(d)' <= faults'
    <3>1. CASE d = e
      BY <3>1, <1>2, <1>3, <1>5, <1>8, <1>11
    <3>2. CASE d # e
      <4>1. /\ Messages(d) <= 1 + faults
            /\ d \notin published /\ ~BeingMarked(d) => Messages(d) <= faults
        BY DEF Counts, Charged
      <4> QED BY <3>2, <4>1, <1>1, <1>2, <1>3, <1>5, <1>10
    <3> QED BY <3>1, <3>2
  <2> QED BY <2>1, <2>2, <1>1 DEF Charged
<1>13. Covered'
  <2>1. \A q \in Publishers : \A d \in hand'[q] \ overrun' : counted'[q][d] = attempts'[d]
    BY <1>1 DEF Counts, Covered
  <2>2. ASSUME NEW d \in Events \ overrun
        PROVE  /\ Messages(d)' <= attempts'[d]
               /\ ToBeSent(d)' => Messages(d)' + 1 <= attempts'[d]
    <3>1. CASE d = e
      BY <3>1, <1>1, <1>8, <1>9
    <3>2. CASE d # e
      <4>1. /\ Messages(d) <= attempts[d]
            /\ ToBeSent(d) => Messages(d) + 1 <= attempts[d]
        BY DEF Counts, Covered
      <4> QED BY <3>2, <4>1, <1>1, <1>5, <1>9
    <3> QED BY <3>1, <3>2
  <2> QED BY <2>1, <2>2, <1>1 DEF Covered
<1> QED BY <1>12, <1>13 DEF Counts

\* A mark that is done keeps the charge, a lost one becomes the fault.
LEMMA MarkCounts ==
  ASSUME Inv, Exclusive, Counts, NEW p \in Publishers,
         MarkPublished(p) \/ MarkPublishFailed(p) \/ MarkLost(p)
  PROVE  Counts'
<1>1. /\ hand' = [hand EXCEPT ![p] = @ \ {current[p]}]
      /\ current' = [current EXCEPT ![p] = None]
      /\ pc' = [pc EXCEPT ![p] = "idle"]
      /\ UNCHANGED <<counted, queue, overrun>>
      /\ pc[p] # "idle"
  BY DEF MarkPublished, MarkPublishFailed, MarkLost, NextRow
<1>2. /\ faults \in Nat /\ attempts \in [Events -> Nat]
      /\ hand \in [Publishers -> SUBSET stored] /\ stored \in SUBSET Events
      /\ current \in [Publishers -> Events \cup {None}]
      /\ pc \in [Publishers -> {"idle", "sent", "failed"}]
  BY OutboxAssumption DEF Inv, TypeOK
<1>3. current[p] \in hand[p] /\ current[p] \in Events
  BY <1>1, <1>2 DEF Inv, CurrentInHand
<1>4. \A d \in Events : Messages(d) \in Nat /\ Messages(d)' = Messages(d)
  <2>1. queue \in Seq(Events)
    BY DEF Inv, TypeOK
  <2> QED BY <2>1, <1>1, MessagesTyped, SameMessages
<1>5. \A d \in Events \ overrun : attempts'[d] = attempts[d]
  <2>1. CASE MarkPublishFailed(p)
    <3>1. current[p] \notin overrun => counted[p][current[p]] = attempts[current[p]]
      BY <1>3 DEF Counts, Covered
    <3> QED BY <2>1, <3>1, <1>2, <1>3 DEF MarkPublishFailed
  <2>2. CASE MarkPublished(p) \/ MarkLost(p)
    BY <2>2 DEF MarkPublished, MarkLost, rows
  <2> QED BY <2>1, <2>2
<1>6. \A d \in Events : ToBeSent(d)' => ToBeSent(d)
  BY <1>1, <1>2, <1>3 DEF ToBeSent
<1>7. \/ /\ published' = published \cup {current[p]} /\ faults' = faults
         /\ \A d \in Events : d # current[p] /\ BeingMarked(d) => BeingMarked(d)'
      \/ /\ published' = published /\ faults' = faults
         /\ \A d \in Events : BeingMarked(d) => BeingMarked(d)'
      \/ published' = published /\ faults' = faults + 1
  <2>1. CASE MarkPublished(p)
    BY <2>1, <1>1, <1>2 DEF MarkPublished, BeingMarked
  <2>2. CASE MarkPublishFailed(p)
    BY <2>2, <1>1, <1>2 DEF MarkPublishFailed, BeingMarked
  <2>3. CASE MarkLost(p)
    BY <2>3 DEF MarkLost, rows
  <2> QED BY <2>1, <2>2, <2>3
<1>8. Charged'
  <2>1. \A q \in Publishers : hand'[q] \cap published' \subseteq overrun'
    <3>1. \A q \in Publishers : hand[q] \cap published \subseteq overrun
      BY DEF Counts, Charged
    <3>2. \A q \in Publishers : q # p => current[p] \notin hand[q] \ overrun
      BY <1>3 DEF Exclusive, OneHolder
    <3> QED BY <3>1, <3>2, <1>1, <1>2, <1>7
  <2>2. ASSUME NEW d \in Events \ overrun
        PROVE  /\ Messages(d)' <= 1 + faults'
               /\ d \notin published' /\ ~BeingMarked(d)' => Messages(d)' <= faults'
    <3>1. /\ Messages(d) <= 1 + faults
          /\ d \notin published /\ ~BeingMarked(d) => Messages(d) <= faults
      BY DEF Counts, Charged
    <3> QED BY <3>1, <1>2, <1>4, <1>7
  <2> QED BY <2>1, <2>2, <1>1 DEF Charged
<1>9. Covered'
  <2>1. \A q \in Publishers : \A d \in hand'[q] \ overrun' : counted'[q][d] = attempts'[d]
    BY <1>1, <1>2, <1>5 DEF Counts, Covered
  <2> QED BY <2>1, <1>1, <1>4, <1>5, <1>6 DEF Counts, Covered
<1> QED BY <1>8, <1>9 DEF Counts

\* A claim adds the attempt that the send to come will use.
LEMMA ClaimCounts ==
  ASSUME Inv, Exclusive, Counts, NEW p \in Publishers, ClaimBatch(p)
  PROVE  Counts'
<1>1. PICK claimed \in SUBSET Claimable :
        /\ hand' = [hand EXCEPT ![p] = claimed]
        /\ attempts' = [e \in Events |->
             IF e \in claimed THEN attempts[e] + 1 ELSE attempts[e]]
        /\ counted' = [counted EXCEPT ![p] = attempts']
  BY DEF ClaimBatch
<1>2. UNCHANGED <<published, current, pc, queue, faults, overrun>> /\ pc[p] = "idle"
  BY DEF ClaimBatch
<1>3. /\ faults \in Nat /\ attempts \in [Events -> Nat]
      /\ hand \in [Publishers -> SUBSET stored] /\ stored \in SUBSET Events
      /\ counted \in [Publishers -> [Events -> Nat]]
  BY OutboxAssumption DEF Inv, TypeOK
<1>4. \A d \in Events : Messages(d) \in Nat /\ Messages(d)' = Messages(d)
  <2>1. queue \in Seq(Events)
    BY DEF Inv, TypeOK
  <2> QED BY <2>1, <1>2, MessagesTyped, SameMessages
<1>5. /\ \A q \in Publishers : claimed \cap hand[q] \subseteq overrun
      /\ claimed \cap published = {} /\ claimed \subseteq Events
  BY <1>3 DEF Claimable, Exclusive, HandsLeased
<1>6. Charged'
  <2>1. \A d \in Events : BeingMarked(d) => BeingMarked(d)'
    BY <1>2 DEF BeingMarked
  <2>2. \A q \in Publishers : hand'[q] \cap published' \subseteq overrun'
    BY <1>1, <1>2, <1>3, <1>5 DEF Counts, Charged
  <2> QED BY <2>1, <2>2, <1>2, <1>4 DEF Counts, Charged
<1>7. \A d \in Events : attempts'[d] \in Nat /\ attempts[d] <= attempts'[d]
  BY <1>1, <1>3
<1>8. \A d \in claimed : attempts'[d] = attempts[d] + 1
  BY <1>1, <1>5
<1>9. \A d \in Events : ToBeSent(d)' => ToBeSent(d) \/ d \in claimed
  BY <1>1, <1>2, <1>3 DEF ToBeSent
<1>10. Covered'
  <2>1. ASSUME NEW q \in Publishers, NEW d \in hand'[q] \ overrun
        PROVE  counted'[q][d] = attempts'[d]
    <3>1. CASE q = p
      BY <3>1, <1>1, <1>3
    <3>2. CASE q # p
      <4>1. d \in hand[q] /\ counted'[q] = counted[q]
        BY <3>2, <1>1, <1>3
      <4>2. d \in Events /\ d \notin claimed /\ counted[q][d] = attempts[d]
        BY <4>1, <1>3, <1>5 DEF Counts, Covered
      <4> QED BY <4>1, <4>2, <1>1
    <3> QED BY <3>1, <3>2
  <2>2. ASSUME NEW d \in Events \ overrun
        PROVE  /\ Messages(d)' <= attempts'[d]
               /\ ToBeSent(d)' => Messages(d)' + 1 <= attempts'[d]
    <3>1. /\ Messages(d) <= attempts[d]
          /\ ToBeSent(d) => Messages(d) + 1 <= attempts[d]
      BY DEF Counts, Covered
    <3>2. Messages(d) \in Nat /\ attempts[d] \in Nat
      BY <1>3, <1>4
    <3> QED BY <3>1, <3>2, <1>4, <1>7, <1>8, <1>9
  <2> QED BY <2>1, <2>2, <1>2 DEF Covered
<1> QED BY <1>6, <1>10 DEF Counts

LEMMA CrashCounts ==
  ASSUME Inv, Counts, NEW p \in Publishers, Crash(p) PROVE Counts'
<1>1. /\ UNCHANGED <<published, attempts, counted, queue, overrun>>
      /\ hand' = [hand EXCEPT ![p] = {}]
      /\ current' = [current EXCEPT ![p] = None]
      /\ pc' = [pc EXCEPT ![p] = "idle"]
      /\ faults' = faults + 1
  BY DEF Crash, rows
<1>2. /\ faults \in Nat /\ attempts \in [Events -> Nat]
      /\ hand \in [Publishers -> SUBSET stored]
      /\ current \in [Publishers -> Events \cup {None}]
      /\ pc \in [Publishers -> {"idle", "sent", "failed"}]
  BY OutboxAssumption DEF Inv, TypeOK
<1>3. \A d \in Events : Messages(d) \in Nat /\ Messages(d)' = Messages(d)
  <2>1. queue \in Seq(Events)
    BY DEF Inv, TypeOK
  <2> QED BY <2>1, <1>1, MessagesTyped, SameMessages
<1>4. \A q \in Publishers : hand'[q] \subseteq hand[q]
  BY <1>1, <1>2
<1>5. \A d \in Events : ToBeSent(d)' => ToBeSent(d)
  BY <1>1, <1>2 DEF ToBeSent
<1>6. Charged'
  <2>1. \A q \in Publishers : hand'[q] \cap published' \subseteq overrun'
    BY <1>1, <1>4 DEF Counts, Charged
  <2>2. \A d \in Events \ overrun : Messages(d)' <= faults'
    BY <1>1, <1>2, <1>3 DEF Counts, Charged
  <2> QED BY <2>1, <2>2, <1>1, <1>2, <1>3 DEF Charged
<1>7. Covered'
  BY <1>1, <1>3, <1>4, <1>5 DEF Counts, Covered
<1> QED BY <1>6, <1>7 DEF Counts

\* Every other step leaves all of it alone.
LEMMA StillCounts ==
  ASSUME Counts, overrun \subseteq overrun',
         UNCHANGED <<published, attempts, publishers, queue, faults>>
  PROVE  Counts'
<1>1. /\ published' = published /\ attempts' = attempts /\ hand' = hand /\ counted' = counted
      /\ current' = current /\ pc' = pc /\ faults' = faults
  BY DEF publishers
<1>2. \A d \in Events : /\ Messages(d)' = Messages(d)
                        /\ ToBeSent(d)' <=> ToBeSent(d)
                        /\ BeingMarked(d)' <=> BeingMarked(d)
  BY <1>1, SameMessages DEF ToBeSent, BeingMarked
<1> QED BY <1>1, <1>2 DEF Counts, Charged, Covered

LEMMA NextCounts ==
  ASSUME Inv, Exclusive, Counts, [Next]_vars PROVE Counts'
<1>1. CASE UNCHANGED vars
  BY <1>1, StillCounts DEF vars, publishers
<1>2. CASE \E e \in Events :
             Insert(e) \/ LeaseLapses(e) \/ BackoffEnds(e) \/ DedupWindowCloses(e)
  BY <1>2, StillCounts DEF Insert, LeaseLapses, BackoffEnds, DedupWindowCloses, rows
<1>3. CASE \E p \in Publishers : PublisherStep(p)
  BY <1>3, ClaimCounts, SendCounts, MarkCounts DEF PublisherStep
<1>4. CASE \E p \in Publishers : FaultStep(p)
  BY <1>4, CrashCounts, SendCounts, MarkCounts DEF FaultStep
<1> QED BY <1>1, <1>2, <1>3, <1>4 DEF Next, Quiescent

LEMMA SpecCounts == Spec => []Counts
<1>1. Init => Exclusive /\ Counts
  BY InitInv, InitCounts DEF Exclusive
<1>2. Inv /\ Exclusive /\ [Next]_vars => Exclusive'
  BY NextExclusive
<1>3. Inv /\ Exclusive /\ Counts /\ [Next]_vars => Counts'
  BY NextCounts
<1> QED BY <1>1, <1>2, <1>3, SpecInv, PTL DEF Spec

(* Competing publishers alone never repeat an event: a message beyond the  *)
(* first was paid for by a failed send, a lost mark or a crash (tick).     *)
THEOREM RepeatsAlwaysNeedFaults == Spec => []RepeatsNeedFaults
<1>1. Counts => RepeatsNeedFaults
  BY DEF Counts, Charged, RepeatsNeedFaults, Messages
<1> QED BY <1>1, SpecCounts, PTL

(* The attempts of a row never fall behind the messages sent for it, so no *)
(* failure winds its backoff back (ClaimBatch, MarkPublishFailed).         *)
THEOREM AttemptsAlwaysCover == Spec => []AttemptsCoverDeliveries
<1>1. Counts => AttemptsCoverDeliveries
  BY DEF Counts, Covered, AttemptsCoverDeliveries, Messages
<1> QED BY <1>1, SpecCounts, PTL
=============================================================================
