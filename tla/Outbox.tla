-------------------------------- MODULE Outbox --------------------------------
(***************************************************************************)
(* The transactional outbox: OutboxPublisher.tick on several instances of  *)
(* the service, over outbox_events and the wallet-events FIFO queue.       *)
(*                                                                         *)
(* A publisher claims rows in one SQL transaction, sends them outside any, *)
(* and records each result in a transaction of its own; each of these is a *)
(* step.  Timestamps are kept as what the code compares them for: a row    *)
(* backs off while next_attempt_at lies ahead and is leased while          *)
(* locked_until does.                                                      *)
(***************************************************************************)
EXTENDS Integers, Sequences, FiniteSets

CONSTANTS
  Events,      \* rows that the write path may commit
  Publishers,  \* one per instance of the service
  BatchSize,   \* rows one tick claims
  MaxFaults,   \* bound on failed sends, failed marks and crashes
  MaxOverrun,  \* bound on rows whose lease ends too early
  None         \* no event

ASSUME OutboxAssumption ==
  /\ None \notin Events
  /\ BatchSize \in Nat \ {0} /\ MaxFaults \in Nat /\ MaxOverrun \in Nat

VARIABLES
  (* outbox_events *)
  stored,      \* rows committed by the write path
  published,   \* published_at is set
  backingOff,  \* next_attempt_at lies ahead
  leased,      \* locked_until lies ahead
  attempts,    \* attempts
  (* publishers *)
  hand,        \* rows claimed by the running tick and not finished
  counted,     \* the attempts each publisher read with its claim
  current,     \* the row being published
  pc,          \* "idle", or how the send of the current row ended
  (* the queue *)
  queue,       \* messages accepted, in order
  recent,      \* deduplication ids the queue still remembers
  (* what happened *)
  faults,      \* failures so far
  overrun      \* rows whose lease ended in the hands of a publisher

rows == <<stored, published, backingOff, leased, attempts>>
publishers == <<hand, counted, current, pc>>
vars == <<stored, published, backingOff, leased, attempts, hand, counted, current,
          pc, queue, recent, faults, overrun>>

Init ==
  /\ stored = {} /\ published = {} /\ backingOff = {} /\ leased = {}
  /\ attempts = [e \in Events |-> 0]
  /\ hand = [p \in Publishers |-> {}]
  /\ counted = [p \in Publishers |-> [e \in Events |-> 0]]
  /\ current = [p \in Publishers |-> None]
  /\ pc = [p \in Publishers |-> "idle"]
  /\ queue = <<>> /\ recent = {} /\ faults = 0 /\ overrun = {}

-----------------------------------------------------------------------------
\* Outbox().Insert, visible once the transaction it belongs to commits.
Insert(e) ==
  /\ e \notin stored
  /\ stored' = stored \cup {e}
  /\ UNCHANGED <<published, backingOff, leased, attempts, publishers, queue,
                 recent, faults, overrun>>

\* Mutant: rows whose transaction has not committed are seen.
ClaimableUncommitted == Events \ (published \cup backingOff \cup leased)

Claimable == stored \ (published \cup backingOff \cup leased)

\* Mutant: the claim does not write locked_until.
ClaimWithoutLease(p) ==
  /\ pc[p] = "idle" /\ hand[p] = {}
  /\ \E claimed \in SUBSET Claimable \ {{}} :
       /\ Cardinality(claimed) <= BatchSize
       /\ hand' = [hand EXCEPT ![p] = claimed]
       /\ attempts' = [e \in Events |->
            IF e \in claimed THEN attempts[e] + 1 ELSE attempts[e]]
       /\ counted' = [counted EXCEPT ![p] = attempts']
  /\ UNCHANGED <<stored, published, backingOff, leased, current, pc, queue, recent,
                 faults, overrun>>

(* ClaimBatch.  SKIP LOCKED may leave claimable rows out, and RETURNING    *)
(* promises no order, so the claimed rows are a set.                       *)
ClaimBatch(p) ==
  /\ pc[p] = "idle" /\ hand[p] = {}
  /\ \E claimed \in SUBSET Claimable \ {{}} :
       /\ Cardinality(claimed) <= BatchSize
       /\ leased' = leased \cup claimed
       /\ hand' = [hand EXCEPT ![p] = claimed]
       /\ attempts' = [e \in Events |->
            IF e \in claimed THEN attempts[e] + 1 ELSE attempts[e]]
       /\ counted' = [counted EXCEPT ![p] = attempts']
  /\ UNCHANGED <<stored, published, backingOff, current, pc, queue, recent,
                 faults, overrun>>

(* SendMessage with the event id as deduplication id: the FIFO queue       *)
(* accepts a repeated id and adds nothing while it remembers it.           *)
Deliver(e) ==
  /\ queue' = IF e \in recent THEN queue ELSE Append(queue, e)
  /\ recent' = recent \cup {e}

SendEnds(p, e, result) ==
  /\ current' = [current EXCEPT ![p] = e]
  /\ pc' = [pc EXCEPT ![p] = result]
  /\ UNCHANGED <<rows, hand, counted, overrun>>

\* Mutant: the error of SendMessage is not looked at.
SendFailsUnheard(p, e) ==
  /\ pc[p] = "idle" /\ e \in hand[p] /\ faults < MaxFaults
  /\ faults' = faults + 1
  /\ Deliver(e) \/ UNCHANGED <<queue, recent>>
  /\ SendEnds(p, e, "sent")

PublishOne(p, e) ==
  /\ pc[p] = "idle" /\ e \in hand[p]
  /\ Deliver(e)
  /\ SendEnds(p, e, "sent")
  /\ UNCHANGED faults

\* An error, whether or not the queue took the message before it.
SendFails(p, e) ==
  /\ pc[p] = "idle" /\ e \in hand[p] /\ faults < MaxFaults
  /\ faults' = faults + 1
  /\ Deliver(e) \/ UNCHANGED <<queue, recent>>
  /\ SendEnds(p, e, "failed")

\* tick goes on with the next row.
NextRow(p) ==
  /\ hand' = [hand EXCEPT ![p] = @ \ {current[p]}]
  /\ current' = [current EXCEPT ![p] = None]
  /\ pc' = [pc EXCEPT ![p] = "idle"]
  /\ UNCHANGED <<counted, queue, recent, overrun>>

\* Mutant: the lease is released and published_at is not written.
MarkPublishedNot(p) ==
  /\ pc[p] = "sent"
  /\ leased' = leased \ {current[p]}
  /\ NextRow(p)
  /\ UNCHANGED <<stored, published, backingOff, attempts, faults>>

MarkPublished(p) ==
  /\ pc[p] = "sent"
  /\ published' = published \cup {current[p]}
  /\ leased' = leased \ {current[p]}
  /\ NextRow(p)
  /\ UNCHANGED <<stored, backingOff, attempts, faults>>

\* Mutant: the attempts start again from zero.
MarkPublishFailedReset(p) ==
  /\ pc[p] = "failed"
  /\ attempts' = [attempts EXCEPT ![current[p]] = 0]
  /\ backingOff' = backingOff \cup {current[p]}
  /\ leased' = leased \ {current[p]}
  /\ NextRow(p)
  /\ UNCHANGED <<stored, published, faults>>

(* MarkPublishFailed writes the attempts read with the claim and releases  *)
(* the lease, whoever holds it by now.                                     *)
MarkPublishFailed(p) ==
  /\ pc[p] = "failed"
  /\ attempts' = [attempts EXCEPT ![current[p]] = counted[p][current[p]]]
  /\ backingOff' = backingOff \cup {current[p]}
  /\ leased' = leased \ {current[p]}
  /\ NextRow(p)
  /\ UNCHANGED <<stored, published, faults>>

\* The error of either mark is ignored: the row stays leased until it lapses.
MarkLost(p) ==
  /\ pc[p] # "idle" /\ faults < MaxFaults
  /\ faults' = faults + 1
  /\ NextRow(p)
  /\ UNCHANGED rows

\* The process dies, or Stop cancels its context, in the middle of a tick.
Crash(p) ==
  /\ hand[p] # {} /\ faults < MaxFaults
  /\ faults' = faults + 1
  /\ hand' = [hand EXCEPT ![p] = {}]
  /\ current' = [current EXCEPT ![p] = None]
  /\ pc' = [pc EXCEPT ![p] = "idle"]
  /\ UNCHANGED <<rows, counted, queue, recent, overrun>>

\* Mutant: a lease never ends, so the rows of a dead publisher stay its own.
LeaseNeverLapses(e) == FALSE

(* Clocks do not wait for a publisher: a lease may end in its hands, and   *)
(* the row is overrun from then on.                                        *)
LeaseLapses(e) ==
  /\ e \in leased
  /\ leased' = leased \ {e}
  /\ overrun' = IF \E p \in Publishers : e \in hand[p] THEN overrun \cup {e} ELSE overrun
  /\ Cardinality(overrun') <= MaxOverrun
  /\ UNCHANGED <<stored, published, backingOff, attempts, publishers, queue,
                 recent, faults>>

BackoffEnds(e) ==
  /\ e \in backingOff
  /\ backingOff' = backingOff \ {e}
  /\ UNCHANGED <<stored, published, leased, attempts, publishers, queue, recent,
                 faults, overrun>>

\* The queue forgets a deduplication id five minutes after it took it.
DedupWindowCloses(e) ==
  /\ e \in recent
  /\ recent' = recent \ {e}
  /\ UNCHANGED <<rows, publishers, queue, faults, overrun>>

PublisherStep(p) ==
  \/ ClaimBatch(p)
  \/ \E e \in Events : PublishOne(p, e)
  \/ MarkPublished(p) \/ MarkPublishFailed(p)

FaultStep(p) == Crash(p) \/ MarkLost(p) \/ \E e \in Events : SendFails(p, e)

\* Every event published: the publishers keep ticking and find nothing.
Quiescent == stored = Events /\ published = Events /\ UNCHANGED vars

Next ==
  \/ \E e \in Events : Insert(e) \/ LeaseLapses(e) \/ BackoffEnds(e) \/ DedupWindowCloses(e)
  \/ \E p \in Publishers : PublisherStep(p) \/ FaultStep(p)
  \/ Quiescent

Spec == Init /\ [][Next]_vars

(* The ticker of a running publisher fires and clocks advance; nothing has *)
(* to be committed, nothing has to fail.                                   *)
Fairness ==
  /\ \A p \in Publishers : WF_vars(PublisherStep(p))
  /\ \A e \in Events : WF_vars(LeaseLapses(e)) /\ WF_vars(BackoffEnds(e))

FairSpec == Spec /\ Fairness
=============================================================================
