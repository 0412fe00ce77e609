------------------------------- MODULE Consumer -------------------------------
(***************************************************************************)
(* The SQS consumer: Consumer.loop, its group goroutines and handle, on    *)
(* several instances of the service, over the wager-transactions FIFO      *)
(* queue, the inbox and the table of transactions.                         *)
(*                                                                         *)
(* Each statement of a handler is a step, and so is each call to the       *)
(* queue.  A step that the SQL transaction has staged shows in pc until    *)
(* COMMIT; rows inserted by an open transaction make others wait.          *)
(* ExecuteWithRepos is kept to the identity of the request: what it does   *)
(* to the wallet is the subject of WalletCore, whose other callers appear  *)
(* here as the requests that come in elsewhere (HTTP).                     *)
(***************************************************************************)
EXTENDS Integers, FiniteSets

CONSTANTS
  Messages,     \* SQS messages
  Groups,       \* MessageGroupIds: wallets
  Place,        \* its place in the queue
  Workloads,    \* what the bodies may be: [Messages -> [group, id, key, ext, payload, form]]
  Elsewhere,    \* requests that arrive over HTTP: [key, ext, payload]
  Instances,    \* processes of the service
  Goroutines,   \* group goroutines that may run at a time
  InstanceOf,   \* the process of a goroutine
  BatchSize,    \* MaxNumberOfMessages
  MaxReceives,  \* maxReceiveCount of the redrive policy
  MaxErrors,    \* bound on failed calls
  MaxLapses,    \* bound on visibility timeouts under a busy goroutine
  MaxStops,     \* bound on stops and crashes
  MaxFaults,    \* bound on all of these together
  None

Ids == UNION {{b[m].id : m \in Messages} : b \in Workloads}
Bodies == UNION {{b[m] : m \in Messages} : b \in Workloads}

\* What identifies a transaction: its key, its external id and its payload.
RequestOf(content) ==
  [key |-> content.key, ext |-> content.ext, payload |-> content.payload]
Requests == {RequestOf(content) : content \in Bodies} \cup Elsewhere

(* A body is "malformed" when the envelope cannot be read, "unusable" when *)
(* a UUID or the money cannot, "refused" when ExecuteWithRepos always      *)
(* returns an error that is not a conflict, and "good" otherwise.          *)
ASSUME ConsumerAssumption ==
  /\ None \notin Messages \cup Bodies \cup Goroutines
  /\ Place \in [Messages -> Nat]
  /\ \A m, n \in Messages : Place[m] = Place[n] => m = n
  /\ \A b \in Workloads : DOMAIN b = Messages
  /\ \A content \in Bodies :
       content.group \in Groups /\ content.form \in {"malformed", "unusable", "refused", "good"}
  /\ InstanceOf \in [Goroutines -> Instances]
  /\ BatchSize \in Nat \ {0} /\ MaxReceives \in Nat \ {0}
  /\ MaxErrors \in Nat /\ MaxLapses \in Nat /\ MaxStops \in Nat /\ MaxFaults \in Nat

VARIABLES
  (* the queue *)
  body,      \* of each message, and with it what the SHA-256 tells apart
  mailbox,   \* "queued", "deleted" or "dead" (in the dead-letter queue)
  receives,  \* ApproximateReceiveCount
  receipt,   \* the goroutine whose receive hides the message, or None
  (* the database *)
  inbox,     \* payload_hash of each message id, or None
  rows,      \* how many rows of wager_transactions each request has
  applied,   \* messages whose transaction inserted its row
  (* the service *)
  run,       \* "running", "stopping", "released", "stopped" or "crashed"
  todo,      \* the rest of the batch of each goroutine
  current,   \* the message it handles: Consumer.inFlight
  pc,        \* where it is
  (* bounds *)
  errors, lapses, stops

queue == <<body, mailbox, receives, receipt>>
db == <<inbox, rows, applied>>
bounds == <<errors, lapses, stops>>
vars == <<body, mailbox, receives, receipt, inbox, rows, applied, run, todo, current, pc,
          errors, lapses, stops>>

Init ==
  /\ body \in Workloads
  /\ mailbox = [m \in Messages |-> "queued"]
  /\ receives = [m \in Messages |-> 0]
  /\ receipt = [m \in Messages |-> None]
  /\ inbox = [i \in Ids |-> None]
  /\ rows = [r \in Requests |-> 0]
  /\ applied = {}
  /\ run = [i \in Instances |-> "running"]
  /\ todo = [w \in Goroutines |-> {}]
  /\ current = [w \in Goroutines |-> None]
  /\ pc = [w \in Goroutines |-> "idle"]
  /\ errors = 0 /\ lapses = 0 /\ stops = 0

-----------------------------------------------------------------------------
(* The queue *)

MayFail == errors + lapses + stops < MaxFaults

Hidden(m) == mailbox[m] = "queued" /\ receipt[m] # None
Visible(m) == mailbox[m] = "queued" /\ receipt[m] = None

GroupOf(m) == body[m].group

\* A FIFO queue hands out nothing of a group that has a message in flight.
Available(g) ==
  IF \E m \in Messages : GroupOf(m) = g /\ Hidden(m) THEN {}
  ELSE {m \in Messages : GroupOf(m) = g /\ Visible(m)}

\* Some of the messages of a group, always from its head.
Batches(g) ==
  {batch \in SUBSET Available(g) :
     /\ batch # {} /\ Cardinality(batch) <= BatchSize
     /\ \A m \in batch : receives[m] < MaxReceives
     /\ \A m \in batch, n \in Available(g) \ batch : Place[m] < Place[n]}

\* ChangeMessageVisibility to 0; a receipt that lapsed changes nothing.
MakeVisible(w, m) ==
  receipt' = [receipt EXCEPT ![m] = IF @ = w THEN None ELSE @]

\* Held: the goroutine that received the message has it still before it.
Held(m) == receipt[m] # None /\ (m \in todo[receipt[m]] \/ current[receipt[m]] = m)

(* What is hidden of a group was received together and becomes visible     *)
(* together.  Under a goroutine that still holds some of it that is a      *)
(* lapse, of which there are few.                                          *)
HiddenOf(g) == {m \in Messages : GroupOf(m) = g /\ Hidden(m)}

VisibilityTimeout(g) ==
  /\ HiddenOf(g) # {}
  /\ IF \E m \in HiddenOf(g) : Held(m)
     THEN /\ lapses < MaxLapses /\ MayFail
          /\ lapses' = lapses + 1
     ELSE UNCHANGED lapses
  /\ receipt' = [m \in Messages |-> IF m \in HiddenOf(g) THEN None ELSE receipt[m]]
  /\ UNCHANGED <<body, mailbox, receives, db, run, todo, current, pc, errors, stops>>

\* The redrive policy moves a message that was received too often.
Redrive(m) ==
  /\ m \in Available(GroupOf(m)) /\ receives[m] >= MaxReceives
  /\ mailbox' = [mailbox EXCEPT ![m] = "dead"]
  /\ UNCHANGED <<body, receives, receipt, db, run, todo, current, pc, bounds>>

-----------------------------------------------------------------------------
(* Rows that an open transaction has inserted *)

Staged == {"execute", "insert", "record", "effect"}

\* Mutant: rows of open transactions are not waited for.
InboxRowSeen(i) == TRUE

\* The inbox row of an id waits for the transaction that has inserted it.
InboxRowFree(i) ==
  \A w \in Goroutines : pc[w] \in Staged => body[current[w]].id # i

Request(m) == RequestOf(body[m])

SameIdentity(r, s) == r.key = s.key \/ r.ext = s.ext

\* Mutant: the same for the indexes of transactions.
IdentitySeen(r) == TRUE

\* The unique indexes on transactions wait the same way.
IdentityFree(r) ==
  \A w \in Goroutines : pc[w] = "effect" => ~SameIdentity(Request(current[w]), r)

Stored(r) == rows[r] > 0

-----------------------------------------------------------------------------
(* A goroutine: one group of a batch, in order *)

Running(w) == run[InstanceOf[w]] = "running"

Goto(w, label) ==
  /\ pc' = [pc EXCEPT ![w] = label]
  /\ UNCHANGED <<run, todo, current, bounds>>

\* handle returns and the loop untracks the message: the next one follows.
Return(w) ==
  /\ pc' = [pc EXCEPT ![w] = IF todo[w] = {} THEN "idle" ELSE "next"]
  /\ current' = [current EXCEPT ![w] = None]
  /\ UNCHANGED <<run, todo>>

\* ReceiveMessage hides a batch of a group and counts the receive.
Take(w, batch) ==
  /\ receives' = [m \in Messages |-> IF m \in batch THEN receives[m] + 1 ELSE receives[m]]
  /\ receipt' = [m \in Messages |-> IF m \in batch THEN w ELSE receipt[m]]

(* A batch arrives, and a goroutine handles a group of it.  A receive that *)
(* returns several groups is as many of these steps in a row.              *)
Receive(w, g) ==
  /\ Running(w) /\ pc[w] = "idle"
  /\ \E batch \in Batches(g) :
       Take(w, batch) /\ todo' = [todo EXCEPT ![w] = batch]
  /\ pc' = [pc EXCEPT ![w] = "next"]
  /\ UNCHANGED <<body, mailbox, db, run, current, bounds>>

(* The client gives up after 5 seconds on a poll that waits for 10: a      *)
(* batch that the queue hands out then is hidden and reaches nobody.       *)
ReceiveLost(w, g) ==
  /\ Running(w) /\ pc[w] = "idle" /\ errors < MaxErrors /\ MayFail
  /\ \E batch \in Batches(g) : Take(w, batch)
  /\ errors' = errors + 1
  /\ UNCHANGED <<body, mailbox, db, run, todo, current, pc, lapses, stops>>

\* Mutant: the messages of a group in any order.
StartAnyMessage(w, m) ==
  /\ Running(w) /\ pc[w] = "next" /\ m \in todo[w]
  /\ todo' = [todo EXCEPT ![w] = @ \ {m}]
  /\ current' = [current EXCEPT ![w] = m]
  /\ pc' = [pc EXCEPT ![w] =
       IF body[m].form \in {"malformed", "unusable"} THEN "poison" ELSE "inbox"]
  /\ UNCHANGED <<queue, db, run, bounds>>

\* track, and the head of handle: what it cannot read is poison at once.
StartMessage(w, m) ==
  /\ Running(w) /\ pc[w] = "next"
  /\ m \in todo[w] /\ \A n \in todo[w] : Place[m] <= Place[n]
  /\ todo' = [todo EXCEPT ![w] = @ \ {m}]
  /\ current' = [current EXCEPT ![w] = m]
  /\ pc' = [pc EXCEPT ![w] =
       IF body[m].form \in {"malformed", "unusable"} THEN "poison" ELSE "inbox"]
  /\ UNCHANGED <<queue, db, run, bounds>>

\* Mutant: what cannot be handled is tried again at once.
PoisonTriedAgain(w) ==
  /\ Running(w) /\ pc[w] = "poison"
  /\ MakeVisible(w, current[w])
  /\ Goto(w, "inbox")
  /\ UNCHANGED <<body, mailbox, receives, db>>

\* poison: the message is visible again and counts on to the redrive.
Poison(w) ==
  /\ Running(w) /\ pc[w] = "poison"
  /\ MakeVisible(w, current[w])
  /\ Return(w)
  /\ UNCHANGED <<body, mailbox, receives, db, bounds>>

\* Mutant: the hash of a known id is not compared.
InsertInboxUncompared(w) ==
  LET content == body[current[w]]
  IN /\ Running(w) /\ pc[w] = "inbox"
     /\ InboxRowFree(content.id)
     /\ Goto(w, IF inbox[content.id] = None THEN "execute" ELSE "replay")
     /\ UNCHANGED <<queue, db>>

\* Mutant: a known id is refused, whatever its hash.
InsertInboxOnce(w) ==
  LET content == body[current[w]]
  IN /\ Running(w) /\ pc[w] = "inbox"
     /\ InboxRowFree(content.id)
     /\ Goto(w, IF inbox[content.id] = None THEN "execute" ELSE "poison")
     /\ UNCHANGED <<queue, db>>

(* Inbox().Insert with ON CONFLICT DO NOTHING: a row of the same id is     *)
(* compared by its hash.  Another body under the id rolls back.            *)
InsertInbox(w) ==
  LET content == body[current[w]]
      known   == inbox[content.id]
  IN /\ Running(w) /\ pc[w] = "inbox"
     /\ InboxRowFree(content.id)
     /\ \/ known = None /\ Goto(w, "execute")
        \/ known = content /\ Goto(w, "replay")
        \/ known \notin {None, content} /\ Goto(w, "poison")
     /\ UNCHANGED <<queue, db>>

\* Mutant: a conflict is an error like any other.
ExecuteOrFail(w) ==
  LET r == Request(current[w])
      taken == \E s \in Requests : Stored(s) /\ SameIdentity(s, r)
  IN /\ Running(w) /\ pc[w] = "execute"
     /\ \/ /\ taken \/ body[current[w]].form = "refused"
           /\ Return(w) /\ UNCHANGED bounds
        \/ /\ ~taken /\ body[current[w]].form = "good"
           /\ Goto(w, "insert")
     /\ UNCHANGED <<queue, db>>

(* ExecuteWithRepos reads by external id and by key: a replay and a        *)
(* conflict both leave only the inbox row to be completed.                 *)
Execute(w) ==
  LET r == Request(current[w])
  IN /\ Running(w) /\ pc[w] = "execute"
     /\ \/ /\ body[current[w]].form = "refused"
           /\ Return(w) /\ UNCHANGED bounds
        \/ /\ body[current[w]].form = "good"
           /\ Goto(w, IF \E s \in Requests : Stored(s) /\ SameIdentity(s, r)
                      THEN "record" ELSE "insert")
     /\ UNCHANGED <<queue, db>>

(* TryInsertIdempotency.  A row with the key has come meanwhile: replay or *)
(* conflict, the transaction goes on.  One with the external id only:      *)
(* 23505 aborts the transaction, MarkCompleted fails, and it rolls back.   *)
InsertTransaction(w) ==
  LET r == Request(current[w])
  IN /\ Running(w) /\ pc[w] = "insert"
     /\ IdentityFree(r)
     /\ \/ /\ \E s \in Requests : Stored(s) /\ s.key = r.key
           /\ Goto(w, "record")
        \/ /\ \A s \in Requests : Stored(s) => s.key # r.key
           /\ \E s \in Requests : Stored(s) /\ s.ext = r.ext
           /\ Return(w) /\ UNCHANGED bounds
        \/ /\ \A s \in Requests : Stored(s) => ~SameIdentity(s, r)
           /\ Goto(w, "effect")
     /\ UNCHANGED <<queue, db>>

CommitLabels == {"replay", "record", "effect"}

\* Mutant: the row keeps the message's number and not the hash of its body.
WriteNumber(w) ==
  LET m == current[w]
  IN /\ inbox' = [inbox EXCEPT ![body[m].id] = m]
     /\ IF pc[w] = "effect"
        THEN /\ rows' = [rows EXCEPT ![Request(m)] = @ + 1]
             /\ applied' = applied \cup {m}
        ELSE UNCHANGED <<rows, applied>>

(* What COMMIT makes durable: the inbox row and the transaction's row      *)
(* together.                                                               *)
Write(w) ==
  LET m == current[w]
  IN /\ inbox' = IF pc[w] = "replay" THEN inbox
                 ELSE [inbox EXCEPT ![body[m].id] = body[m]]
     /\ IF pc[w] = "effect"
        THEN /\ rows' = [rows EXCEPT ![Request(m)] = @ + 1]
             /\ applied' = applied \cup {m}
        ELSE UNCHANGED <<rows, applied>>

\* MarkCompleted and COMMIT.
Commit(w) ==
  /\ Running(w) /\ pc[w] \in CommitLabels
  /\ Write(w)
  /\ Goto(w, "delete")
  /\ UNCHANGED queue

\* DeleteMessage; a receipt that lapsed may be refused.
Delete(w) ==
  LET m == current[w]
  IN /\ Running(w) /\ pc[w] = "delete"
     /\ \/ mailbox' = [mailbox EXCEPT ![m] = IF @ = "queued" THEN "deleted" ELSE @]
        \/ receipt[m] # w /\ UNCHANGED mailbox
     /\ Return(w)
     /\ UNCHANGED <<body, receives, receipt, db, bounds>>

GoroutineStep(w) ==
  \/ \E g \in Groups : Receive(w, g)
  \/ \E m \in Messages : StartMessage(w, m)
  \/ Poison(w) \/ InsertInbox(w) \/ Execute(w) \/ InsertTransaction(w)
  \/ Commit(w) \/ Delete(w)

-----------------------------------------------------------------------------
(* Failures *)

Calling == {"poison", "inbox", "execute", "insert", "replay", "record", "effect", "delete"}

\* How a call that returns an error may have ended: without its effect, or
\* with it when it was COMMIT, DeleteMessage or ChangeMessageVisibility.
CallLost(w) ==
  /\ pc[w] \in Calling
  /\ \/ UNCHANGED <<queue, db>>
     \/ pc[w] \in CommitLabels /\ Write(w) /\ UNCHANGED queue
     \/ /\ pc[w] = "delete"
        /\ mailbox' = [mailbox EXCEPT ![current[w]] = IF @ = "queued" THEN "deleted" ELSE @]
        /\ UNCHANGED <<body, receives, receipt, db>>
     \/ /\ pc[w] = "poison"
        /\ MakeVisible(w, current[w])
        /\ UNCHANGED <<body, mailbox, receives, db>>
  /\ Return(w)

\* A call fails: the message waits for its visibility timeout.
CallFails(w) ==
  /\ Running(w) /\ errors < MaxErrors /\ MayFail
  /\ CallLost(w)
  /\ errors' = errors + 1
  /\ UNCHANGED <<lapses, stops>>

(* Stop has cancelled the context: the call under way is lost, and no      *)
(* other is made.                                                          *)
CallCancelled(w) ==
  /\ run[InstanceOf[w]] \in {"stopping", "released"}
  /\ CallLost(w)
  /\ UNCHANGED bounds

\* ChangeMessageVisibility with the cancelled context has no effect.
SkipRest(w) ==
  /\ run[InstanceOf[w]] \in {"stopping", "released"} /\ pc[w] = "next"
  /\ todo' = [todo EXCEPT ![w] = {}]
  /\ pc' = [pc EXCEPT ![w] = "idle"]
  /\ UNCHANGED <<queue, db, run, current, bounds>>

-----------------------------------------------------------------------------
(* Stop, crash and restart *)

Crew(i) == {w \in Goroutines : InstanceOf[w] = i}

BeginStop(i) ==
  /\ run[i] = "running" /\ stops < MaxStops /\ MayFail
  /\ stops' = stops + 1
  /\ run' = [run EXCEPT ![i] = "stopping"]
  /\ UNCHANGED <<queue, db, todo, current, pc, errors, lapses>>

\* wg.Wait returned before the deadline.
Drained(i) ==
  /\ run[i] = "stopping" /\ \A w \in Crew(i) : pc[w] = "idle"
  /\ run' = [run EXCEPT ![i] = "stopped"]
  /\ UNCHANGED <<queue, db, todo, current, pc, bounds>>

(* The deadline of Stop: releaseInFlight makes the tracked messages        *)
(* visible while their goroutines still run.                               *)
ReleaseInFlight(i) ==
  /\ run[i] = "stopping" /\ \E w \in Crew(i) : pc[w] # "idle"
  /\ run' = [run EXCEPT ![i] = "released"]
  /\ receipt' = [m \in Messages |->
       IF receipt[m] \in Crew(i) /\ current[receipt[m]] = m THEN None ELSE receipt[m]]
  /\ UNCHANGED <<body, mailbox, receives, db, todo, current, pc, bounds>>

\* The process is gone, with the transactions it had open.
Gone(i, how) ==
  /\ run' = [run EXCEPT ![i] = how]
  /\ todo' = [w \in Goroutines |-> IF w \in Crew(i) THEN {} ELSE todo[w]]
  /\ current' = [w \in Goroutines |-> IF w \in Crew(i) THEN None ELSE current[w]]
  /\ pc' = [w \in Goroutines |-> IF w \in Crew(i) THEN "idle" ELSE pc[w]]
  /\ UNCHANGED <<queue, db, errors, lapses>>

Exit(i) == run[i] = "released" /\ Gone(i, "stopped") /\ UNCHANGED stops

Crash(i) ==
  /\ run[i] = "running" /\ stops < MaxStops /\ MayFail
  /\ stops' = stops + 1
  /\ Gone(i, "crashed")

Restart(i) ==
  /\ run[i] \in {"stopped", "crashed"}
  /\ run' = [run EXCEPT ![i] = "running"]
  /\ UNCHANGED <<queue, db, todo, current, pc, bounds>>

-----------------------------------------------------------------------------
\* The same table is written by the HTTP path, one identity at a time.
ProcessElsewhere(r) ==
  /\ IdentityFree(r) /\ \A s \in Requests : Stored(s) => ~SameIdentity(s, r)
  /\ rows' = [rows EXCEPT ![r] = @ + 1]
  /\ UNCHANGED <<queue, inbox, applied, run, todo, current, pc, bounds>>

\* Every message has left the queue: the loops poll and find nothing.
Quiescent == (\A m \in Messages : mailbox[m] # "queued") /\ UNCHANGED vars

ProcessStep(i) == Drained(i) \/ ReleaseInFlight(i) \/ Exit(i) \/ Restart(i)

Next ==
  \/ \E w \in Goroutines :
       \/ GoroutineStep(w) \/ CallFails(w) \/ CallCancelled(w) \/ SkipRest(w)
       \/ \E g \in Groups : ReceiveLost(w, g)
  \/ \E i \in Instances : ProcessStep(i) \/ BeginStop(i) \/ Crash(i)
  \/ \E g \in Groups : VisibilityTimeout(g)
  \/ \E m \in Messages : Redrive(m)
  \/ \E r \in Elsewhere : ProcessElsewhere(r)
  \/ Quiescent

Spec == Init /\ [][Next]_vars

(* A goroutine that can go on does, the queue's clock runs, Stop has a     *)
(* deadline, and a process that ended is started again.  Nothing has to    *)
(* fail, and nothing has to arrive over HTTP.                              *)
Fairness ==
  /\ \A w \in Goroutines : WF_vars(GoroutineStep(w) \/ CallCancelled(w) \/ SkipRest(w))
  /\ \A i \in Instances : WF_vars(ProcessStep(i))
  /\ \A g \in Groups : WF_vars(VisibilityTimeout(g))
  /\ \A m \in Messages : WF_vars(Redrive(m))

FairSpec == Spec /\ Fairness
=============================================================================
