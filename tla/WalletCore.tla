----------------------------- MODULE WalletCore -----------------------------
(***************************************************************************)
(* The write path of the wallet service: OpenWallet,                       *)
(* ProcessWagerTransaction and ResolvePendingReference running             *)
(* concurrently over one PostgreSQL database in READ COMMITTED.            *)
(*                                                                         *)
(* Every call is one SQL transaction.  A step of the model is one          *)
(* statement that reads shared rows or waits for another transaction; the  *)
(* writes a transaction makes while it holds its wallet row become visible *)
(* together at COMMIT, so the last read, the decision, the writes and the  *)
(* commit are the step that ends the transaction.  A transaction that      *)
(* fails, times out or whose process dies before that leaves nothing.      *)
(*                                                                         *)
(* The row a call inserts into wager_transactions has the call's own UUID, *)
(* so it is named by the call, and its immutable columns are the call's    *)
(* request.  The OPENING row of a wallet is named by the wallet: the index *)
(* wager_one_opening_per_wallet_uidx allows one.                           *)
(***************************************************************************)
EXTENDS WagerDomain, Sequences, FiniteSets

CONSTANTS
  Calls,          \* calls of ProcessWagerTransaction; a client's retry is another call
  Resolvers,      \* reference workers, one per instance of the service
  Wallets,        \* wallet ids
  Ops,            \* the requests that clients may send
  Workloads,      \* which request each call carries: some of [Calls -> Ops]
  Openings,       \* the wallets that may be opened: [wallet, player, currency, initial]
  MaxAttempts,    \* DefaultReferenceMaxTries
  BatchSize,      \* rows one tick of a reference worker claims
  MaxFaults,      \* bound on failed transactions and crashed workers
  LeaseMayLapse,  \* may a claim expire while its worker is still busy with it?
  None            \* no row, no process

TxIds == Calls \cup Wallets
Procs == Calls \cup Resolvers

ASSUME ProcessAssumption ==
  /\ Calls \cap Wallets = {} /\ Calls \cap Resolvers = {}
  /\ None \notin Calls \cup Resolvers \cup Wallets

ASSUME BoundsAssumption ==
  /\ MaxAttempts \in Nat \ {0} /\ BatchSize \in Nat \ {0} /\ MaxFaults \in Nat
  /\ LeaseMayLapse \in BOOLEAN

(* prepare() and NewExternal refuse any other request before a transaction *)
(* is opened.                                                              *)
ASSUME WorkloadsAssumption == Workloads \subseteq [Calls -> Ops]
ASSUME OpsAssumption ==
  \A r \in Ops :
    /\ r.wallet \in Wallets
    /\ r.kind \in ExternalKinds
    /\ r.amount \in 0 .. MaxMinor
    /\ ValidateExternalKindAmount(r.kind, r.amount)
    /\ NeedsReference(r.kind) => r.ref # None

ASSUME OpeningsAssumption ==
  \A o \in Openings : o.wallet \in Wallets /\ o.initial \in 0 .. MaxMinor

VARIABLES
  req,            \* [Calls -> Ops]: what each call asks
  (* committed state of the database *)
  wallets,        \* wallets; version 0 stands for no row
  txs,            \* wager_transactions: mutable columns
  ledger,         \* wallet_ledger_entries per wallet, in commit order
  retries,        \* reference_retry_state
  wagerEvents,    \* outbox_events whose aggregate is a transaction
  balanceEvents,  \* outbox_events whose aggregate is a wallet
  (* open transactions and the processes that run them *)
  locks,          \* wallet row locks (SELECT ... FOR UPDATE)
  pc,             \* next statement of each process
  held,           \* the wallet read under its lock
  seen,           \* the reference (or the replayed row) as it was read
  reply,          \* what each call answered
  batch,          \* rows a worker has claimed and not finished
  target,         \* the row a worker is resolving
  retrySeen,      \* the retry row as the worker read it
  faults          \* failures so far

db == <<wallets, txs, ledger, retries, wagerEvents, balanceEvents>>
work == <<batch, target, retrySeen>>
vars == <<req, wallets, txs, ledger, retries, wagerEvents, balanceEvents, locks,
          pc, held, seen, reply, batch, target, retrySeen, faults>>

-----------------------------------------------------------------------------
(* Rows *)

NoBalance == -1    \* result_balance_minor IS NULL
NoWallet == [player |-> None, currency |-> None, balance |-> 0, version |-> 0]
NoTx == [status |-> "NONE", code |-> "", ref |-> None, snap |-> NoBalance]
NoRetry == [present |-> FALSE, attempts |-> 0, due |-> FALSE, expired |-> FALSE]
Unseen == [tx |-> None, status |-> "NONE", reversed |-> FALSE]
NoReply == [outcome |-> "none", tx |-> None, status |-> "NONE",
            balance |-> NoBalance, currency |-> None]

Reply(outcome, t, status, balance, currency) ==
  [outcome |-> outcome, tx |-> t, status |-> status,
   balance |-> balance, currency |-> currency]
Conflict == [NoReply EXCEPT !.outcome = "conflict"]
Error == [NoReply EXCEPT !.outcome = "error"]

WagerEvent(type, code, balance) == [type |-> type, code |-> code, balance |-> balance]

Opened(w) == wallets[w].version > 0
Committed(t) == txs[t].status # "NONE"

\* Mutant: a call inserts its row first and locks the wallet after it.
InFlightBeforeLock(c) == pc[c] \in {"lock", "readRef", "readReversal", "decide"}

\* The inserted row of a call that has not committed yet.
InFlight(c) == pc[c] \in {"readRef", "readReversal", "decide"}

TxOf(p) == IF p \in Calls THEN p ELSE target[p]
WalletOf(p) == req[TxOf(p)].wallet

Init ==
  /\ req \in Workloads
  /\ wallets = [w \in Wallets |-> NoWallet]
  /\ txs = [t \in TxIds |-> NoTx]
  /\ ledger = [w \in Wallets |-> <<>>]
  /\ retries = [c \in Calls |-> NoRetry]
  /\ wagerEvents = [t \in TxIds |-> <<>>]
  /\ balanceEvents = [w \in Wallets |-> <<>>]
  /\ locks = [w \in Wallets |-> None]
  /\ pc = [p \in Procs |-> IF p \in Calls THEN "begin" ELSE "idle"]
  /\ held = [p \in Procs |-> NoWallet]
  /\ seen = [p \in Procs |-> Unseen]
  /\ reply = [c \in Calls |-> NoReply]
  /\ batch = [r \in Resolvers |-> {}]
  /\ target = [r \in Resolvers |-> None]
  /\ retrySeen = [r \in Resolvers |-> NoRetry]
  /\ faults = 0

-----------------------------------------------------------------------------
(* The end of a transaction *)

\* Mutant: a transaction that ends without giving its row locks back.
ReleaseNothing(p) ==
  /\ held' = [held EXCEPT ![p] = NoWallet]
  /\ seen' = [seen EXCEPT ![p] = Unseen]
  /\ UNCHANGED locks

\* COMMIT or ROLLBACK: row locks are released, what was read is forgotten.
Release(p) ==
  /\ locks' = [w \in Wallets |-> IF locks[w] = p THEN None ELSE locks[w]]
  /\ held' = [held EXCEPT ![p] = NoWallet]
  /\ seen' = [seen EXCEPT ![p] = Unseen]

EndCall(c, answer) ==
  /\ Release(c)
  /\ pc' = [pc EXCEPT ![c] = "done"]
  /\ reply' = [reply EXCEPT ![c] = answer]
  /\ UNCHANGED work

\* tick goes on with the next row of its batch, whatever the result.
EndResolve(r) ==
  /\ Release(r)
  /\ pc' = [pc EXCEPT ![r] = "idle"]
  /\ batch' = [batch EXCEPT ![r] = @ \ {target[r]}]
  /\ target' = [target EXCEPT ![r] = None]
  /\ retrySeen' = [retrySeen EXCEPT ![r] = NoRetry]
  /\ UNCHANGED reply

Finish(p, answer) == IF p \in Calls THEN EndCall(p, answer) ELSE EndResolve(p)

\* A step inside a transaction: only the program counter and what was read.
Goto(p, label) ==
  /\ pc' = [pc EXCEPT ![p] = label]
  /\ UNCHANGED <<req, db, reply, faults>>

-----------------------------------------------------------------------------
(* Writes *)

Entry(t, dir, amount, before, after) ==
  [tx |-> t, dir |-> dir, amount |-> amount, before |-> before, after |-> after]
Row(status, code, ref, snap) ==
  [status |-> status, code |-> code, ref |-> ref, snap |-> snap]

\* A retry row whose next attempt lies ahead.
Waiting(attempts, expired) ==
  [present |-> TRUE, attempts |-> attempts, due |-> FALSE, expired |-> expired]

\* Mutant: the event carries the version the wallet had before the movement.
PostMovementOldVersion(w, entry, version) ==
  /\ ledger' = [ledger EXCEPT ![w] = Append(@, entry)]
  /\ balanceEvents' = [balanceEvents EXCEPT
       ![w] = Append(@, [entry |-> entry, version |-> version - 1])]

\* The ledger entry of a movement and its WalletBalanceChanged event.
PostMovement(w, entry, version) ==
  /\ ledger' = [ledger EXCEPT ![w] = Append(@, entry)]
  /\ balanceEvents' = [balanceEvents EXCEPT
       ![w] = Append(@, [entry |-> entry, version |-> version])]

\* Mutant: the row is written and the event is not.
RecordOutcomeNoEvent(t, row, event) ==
  /\ txs' = [txs EXCEPT ![t] = row]
  /\ UNCHANGED wagerEvents

\* Mutant: the save of a row that is there already does nothing, as an
\* INSERT ... ON CONFLICT DO NOTHING would.
RecordOutcomeInserts(t, row, event) ==
  /\ txs' = IF Committed(t) THEN txs ELSE [txs EXCEPT ![t] = row]
  /\ wagerEvents' = [wagerEvents EXCEPT ![t] = Append(@, event)]

\* The row of a transaction and the event that announces it.
RecordOutcome(t, row, event) ==
  /\ txs' = [txs EXCEPT ![t] = row]
  /\ wagerEvents' = [wagerEvents EXCEPT ![t] = Append(@, event)]

DeleteRetry(t) == retries' = [retries EXCEPT ![t] = NoRetry]

\* commitMovement, from the wallet w that was read under the lock.
CommitMovement(t, w, v, ref) ==
  LET id    == req[t].wallet
      after == BalanceAfter(v, w.balance, req[t].amount)
  IN /\ wallets' = [wallets EXCEPT ![id].balance = after, ![id].version = w.version + 1]
     /\ PostMovement(id, Entry(t, v.act, req[t].amount, w.balance, after), w.version + 1)
     /\ RecordOutcome(t, Row("PROCESSED", "", ref, after), WagerEvent("Processed", "", after))
     /\ DeleteRetry(t)

\* applyLoss: the outcome is recorded, no money moves.
RecordLoss(t, balance) ==
  /\ RecordOutcome(t, Row("PROCESSED", "", None, balance),
                   WagerEvent("Processed", "", balance))
  /\ UNCHANGED <<wallets, ledger, retries, balanceEvents>>

\* rejectAndPersist and rejectWithCode.
PersistRejection(t, code, balance) ==
  /\ RecordOutcome(t, Row("REJECTED", code, None, balance),
                   WagerEvent("Rejected", code, NoBalance))
  /\ DeleteRetry(t)
  /\ UNCHANGED <<wallets, ledger, balanceEvents>>

\* parkPendingReference: the first attempt is one second away.
ParkPendingReference(t) ==
  /\ RecordOutcome(t, Row("PENDING_REFERENCE", "", None, NoBalance),
                   WagerEvent("PendingReference", "", NoBalance))
  /\ retries' = [retries EXCEPT ![t] = Waiting(0, FALSE)]
  /\ UNCHANGED <<wallets, ledger, balanceEvents>>

\* Mutant: an attempt that is not counted.
ScheduleRetryUncounted(t, retry) ==
  /\ retries' = [retries EXCEPT ![t] = Waiting(retry.attempts, retries[t].expired)]
  /\ UNCHANGED <<wallets, txs, ledger, wagerEvents, balanceEvents>>

\* scheduleRetry: one attempt more than the row had when it was read.  The
\* deadline is written back too, but expires_at never changes.
ScheduleRetry(t, retry) ==
  /\ retries' = [retries EXCEPT ![t] = Waiting(retry.attempts + 1, retries[t].expired)]
  /\ UNCHANGED <<wallets, txs, ledger, wagerEvents, balanceEvents>>

-----------------------------------------------------------------------------
(* OpenWallet: the wallet, and for a positive initial balance its OPENING  *)
(* transaction, ledger entry and events, in one transaction that reads     *)
(* nothing.  The unique constraint on (player, currency) refuses a second. *)

OpenWallet(o) ==
  LET w == o.wallet
  IN /\ ~Opened(w)
     /\ \A x \in Wallets : Opened(x) =>
          wallets[x].player # o.player \/ wallets[x].currency # o.currency
     /\ wallets' = [wallets EXCEPT ![w] =
          [player |-> o.player, currency |-> o.currency,
           balance |-> o.initial, version |-> 1]]
     /\ IF o.initial > 0
        THEN /\ RecordOutcome(w, Row("PROCESSED", "", None, o.initial),
                              WagerEvent("Processed", "", o.initial))
             /\ PostMovement(w, Entry(w, "credit", o.initial, 0, o.initial), 1)
        ELSE UNCHANGED <<txs, ledger, wagerEvents, balanceEvents>>
     /\ UNCHANGED <<req, retries, locks, pc, held, seen, reply, work, faults>>

-----------------------------------------------------------------------------
(* ProcessWagerTransaction.ExecuteInTx *)

\* SELECT by (provider, external id): a row with another key is a conflict.
SelectByExternalID(c) ==
  /\ pc[c] = "begin"
  /\ IF \E d \in Calls : /\ Committed(d) /\ SameExternalID(req[d], req[c])
                         /\ req[d].key # req[c].key
     THEN EndCall(c, Conflict) /\ UNCHANGED <<req, db, faults>>
     ELSE Goto(c, "byKey") /\ UNCHANGED <<locks, held, seen, work>>

\* Mutant: any request with a known key is a replay.
ReplayAlways(c, d) ==
  /\ EndCall(c, Reply("replay", d, txs[d].status, txs[d].snap, req[d].currency))
  /\ UNCHANGED <<req, db, faults>>

(* replayOrConflict: the stored row d answers for c when the payloads are  *)
(* the same; without a balance snapshot the wallet is read next.           *)
ReplayOrConflict(c, d) ==
  \/ /\ ~SamePayload(req[d], req[c])
     /\ EndCall(c, Conflict)
     /\ UNCHANGED <<req, db, faults>>
  \/ /\ SamePayload(req[d], req[c])
     /\ txs[d].snap # NoBalance
     /\ EndCall(c, Reply("replay", d, txs[d].status, txs[d].snap, req[d].currency))
     /\ UNCHANGED <<req, db, faults>>
  \/ /\ SamePayload(req[d], req[c])
     /\ txs[d].snap = NoBalance
     /\ seen' = [seen EXCEPT ![c] =
          [tx |-> d, status |-> txs[d].status, reversed |-> FALSE]]
     /\ Goto(c, "replay")
     /\ UNCHANGED <<locks, held, work>>

SelectByKey(c) ==
  /\ pc[c] = "byKey"
  /\ \/ \E d \in Calls : /\ Committed(d) /\ SameKey(req[d], req[c])
                         /\ ReplayOrConflict(c, d)
     \/ /\ \A d \in Calls : Committed(d) => ~SameKey(req[d], req[c])
        /\ Goto(c, "lock")
        /\ UNCHANGED <<locks, held, seen, work>>

\* Wallets().Get for the replay of a row that has no snapshot.
ReplayCurrentBalance(c) ==
  LET w == wallets[req[seen[c].tx].wallet]
  IN /\ pc[c] = "replay"
     /\ EndCall(c, Reply("replay", seen[c].tx, seen[c].status, w.balance, w.currency))
     /\ UNCHANGED <<req, db, faults>>

\* Mutant: a plain SELECT of the wallet.
LockWalletPlain(c) ==
  LET w == req[c].wallet
  IN /\ pc[c] = "lock" /\ Opened(w)
     /\ held' = [held EXCEPT ![c] = wallets[w]]
     /\ Goto(c, "insert")
     /\ UNCHANGED <<locks, seen, work>>

\* SELECT ... FOR UPDATE waits while another transaction has the row.
LockWallet(c) ==
  LET w == req[c].wallet
  IN /\ pc[c] = "lock"
     /\ \/ /\ ~Opened(w)
           /\ EndCall(c, Error)
           /\ UNCHANGED <<req, db, faults>>
        \/ /\ Opened(w) /\ locks[w] = None
           /\ locks' = [locks EXCEPT ![w] = c]
           /\ held' = [held EXCEPT ![c] = wallets[w]]
           /\ Goto(c, "insert")
           /\ UNCHANGED <<seen, work>>

\* Mutant: rows of open transactions are not waited for.
TryInsertWithoutWaiting(c) ==
  /\ pc[c] = "insert"
  /\ \A d \in Calls : Committed(d) => ~SameKey(req[d], req[c])
                                     /\ ~SameExternalID(req[d], req[c])
  /\ Goto(c, IF NeedsReference(req[c].kind) THEN "readRef" ELSE "decide")
  /\ UNCHANGED <<locks, held, seen, work>>

(* INSERT ... ON CONFLICT (provider, key) DO NOTHING.  The arbiter index   *)
(* is probed first: a committed row with the key makes the statement a     *)
(* no-op and the code reads that row; an uncommitted one makes it wait.    *)
(* The other unique index then waits the same way, or raises 23505.  The   *)
(* row is inserted only when neither index has an entry, and a reversal    *)
(* of the wallet's own player and currency goes on to its reference.       *)
TryInsertIdempotency(c) ==
  /\ pc[c] = "insert"
  /\ \/ \E d \in Calls : /\ Committed(d) /\ SameKey(req[d], req[c])
                         /\ ReplayOrConflict(c, d)
     \/ /\ \A d \in Calls : SameKey(req[d], req[c]) => ~Committed(d) /\ ~InFlight(d)
        /\ \E d \in Calls : Committed(d) /\ SameExternalID(req[d], req[c])
        /\ EndCall(c, Conflict)
        /\ UNCHANGED <<req, db, faults>>
     \/ /\ \A d \in Calls : SameKey(req[d], req[c]) \/ SameExternalID(req[d], req[c])
                              => ~Committed(d) /\ ~InFlight(d)
        /\ Goto(c, IF /\ NeedsReference(req[c].kind)
                      /\ held[c].player = req[c].player
                      /\ held[c].currency = req[c].currency
                   THEN "readRef" ELSE "decide")
        /\ UNCHANGED <<locks, held, seen, work>>

-----------------------------------------------------------------------------
(* The reference of a reversal, read by a call or by a worker *)

\* GetByExternalID(provider, ref) sees committed rows and the reader's own.
ReferenceRows(p) ==
  LET r == req[TxOf(p)]
  IN {d \in Calls : /\ Committed(d) \/ d = p
                    /\ req[d].provider = r.provider /\ req[d].ext = r.ref}

ReadReference(p) ==
  /\ pc[p] = "readRef"
  /\ \/ /\ ReferenceRows(p) = {}
        /\ Goto(p, "decide")
        /\ UNCHANGED seen
     \/ \E d \in ReferenceRows(p) :
          /\ seen' = [seen EXCEPT ![p] = [tx |-> d, reversed |-> FALSE,
               status |-> IF Committed(d) THEN txs[d].status ELSE "PENDING"]]
          /\ Goto(p, IF /\ txs[d].status = "PROCESSED"
                        /\ ReferenceMismatch(req[TxOf(p)], req[d]) = ""
                     THEN "readReversal" ELSE "decide")
  /\ UNCHANGED <<locks, held, work>>

\* Mutant: query and index that only know refunds.
ProcessedRefund(d) ==
  \E t \in Calls : /\ txs[t].status = "PROCESSED" /\ txs[t].ref = d
                   /\ req[t].kind = "REFUND"

\* wager_one_reversal_per_reference_uidx and GetProcessedReversalByReference.
ProcessedReversal(d) ==
  \E t \in Calls : /\ txs[t].status = "PROCESSED" /\ txs[t].ref = d
                   /\ NeedsReference(req[t].kind)

ReadReversal(p) ==
  /\ pc[p] = "readReversal"
  /\ seen' = [seen EXCEPT ![p].reversed = ProcessedReversal(seen[p].tx)]
  /\ Goto(p, "decide")
  /\ UNCHANGED <<locks, held, work>>

-----------------------------------------------------------------------------
(* The decision *)

ReferenceVerdict(p) ==
  IF seen[p].tx = None THEN Verdict("wait", "")
  ELSE ReversalVerdict(req[TxOf(p)], req[seen[p].tx], seen[p].status, seen[p].reversed)

CallVerdict(c) ==
  IF held[c].player # req[c].player THEN Reject("PLAYER_WALLET_MISMATCH")
  ELSE IF held[c].currency # req[c].currency THEN Reject("CURRENCY_MISMATCH")
  ELSE IF NeedsReference(req[c].kind) THEN ReferenceVerdict(c)
  ELSE SimpleVerdict(req[c])

\* Mutant: the deadline is looked at before the reference.
WorkerVerdictDeadlineFirst(r) ==
  IF retrySeen[r].expired \/ retrySeen[r].attempts + 1 >= MaxAttempts
  THEN Reject("REFERENCE_NOT_FOUND") ELSE ReferenceVerdict(r)

\* A worker stops waiting when the deadline or the attempts are used up.
WorkerVerdict(r) ==
  LET v == ReferenceVerdict(r)
  IN IF /\ v.act = "wait"
        /\ retrySeen[r].expired \/ retrySeen[r].attempts + 1 >= MaxAttempts
     THEN Reject("REFERENCE_NOT_FOUND") ELSE v

(* The last guards of a movement are the database's: UPDATE wallets ...    *)
(* WHERE version = expected, and the unique index on processed reversals.  *)
Backstopped(p) ==
  \/ wallets[WalletOf(p)].version # held[p].version
  \/ seen[p].tx # None /\ ProcessedReversal(seen[p].tx)

Decision(p) ==
  LET raw == IF p \in Calls THEN CallVerdict(p) ELSE WorkerVerdict(p)
      v   == Funded(raw, held[p].balance, req[TxOf(p)].amount)
  IN IF v.act \in {"credit", "debit"} /\ Backstopped(p) THEN Verdict("fail", "") ELSE v

Answer(p, status, balance) ==
  Reply("new", TxOf(p), status, balance, held[p].currency)

Settle(p) ==
  LET v == Decision(p)
  IN /\ pc[p] = "decide" /\ v.act \in {"credit", "debit"}
     /\ CommitMovement(TxOf(p), held[p], v, seen[p].tx)
     /\ Finish(p, Answer(p, "PROCESSED",
                         BalanceAfter(v, held[p].balance, req[TxOf(p)].amount)))
     /\ UNCHANGED <<req, faults>>

SettleLoss(c) ==
  /\ pc[c] = "decide" /\ Decision(c).act = "loss"
  /\ RecordLoss(c, held[c].balance)
  /\ Finish(c, Answer(c, "PROCESSED", held[c].balance))
  /\ UNCHANGED <<req, faults>>

RejectAndPersist(p) ==
  /\ pc[p] = "decide" /\ Decision(p).act = "reject"
  /\ PersistRejection(TxOf(p), Decision(p).code, held[p].balance)
  /\ Finish(p, Answer(p, "REJECTED", held[p].balance))
  /\ UNCHANGED <<req, faults>>

Park(c) ==
  /\ pc[c] = "decide" /\ Decision(c).act = "wait"
  /\ ParkPendingReference(c)
  /\ Finish(c, Answer(c, "PENDING_REFERENCE", held[c].balance))
  /\ UNCHANGED <<req, faults>>

RetryLater(r) ==
  /\ pc[r] = "decide" /\ Decision(r).act = "wait"
  /\ ScheduleRetry(target[r], retrySeen[r])
  /\ EndResolve(r)
  /\ UNCHANGED <<req, faults>>

\* Overflow or a failed backstop: an error that rolls the transaction back.
FailDecision(p) ==
  /\ pc[p] = "decide" /\ Decision(p).act = "fail"
  /\ Finish(p, Error)
  /\ UNCHANGED <<req, db, faults>>

-----------------------------------------------------------------------------
(* ReferenceWorker.tick and ResolvePendingReference.Execute *)

DueReferences ==
  {t \in Calls : retries[t].due /\ txs[t].status = "PENDING_REFERENCE"}

\* Mutant: a claim that leaves the rows due, so that they can be claimed again.
ClaimWithoutLease(r) ==
  /\ pc[r] = "idle" /\ batch[r] = {}
  /\ \E claimed \in SUBSET DueReferences \ {{}} :
       batch' = [batch EXCEPT ![r] = claimed]
  /\ UNCHANGED <<req, db, locks, pc, held, seen, reply, target, retrySeen, faults>>

(* The claim moves next_attempt_at of up to BatchSize due rows to the end  *)
(* of the lease, in a transaction of its own; SKIP LOCKED may leave due    *)
(* rows out.                                                               *)
ClaimPendingReferencesDue(r) ==
  /\ pc[r] = "idle" /\ batch[r] = {}
  /\ \E claimed \in SUBSET DueReferences \ {{}} :
       /\ Cardinality(claimed) <= BatchSize
       /\ batch' = [batch EXCEPT ![r] = claimed]
       /\ retries' = [t \in Calls |->
            IF t \in claimed THEN [retries[t] EXCEPT !.due = FALSE] ELSE retries[t]]
  /\ UNCHANGED <<req, wallets, txs, ledger, wagerEvents, balanceEvents, locks, pc,
                 held, seen, reply, target, retrySeen, faults>>

\* GetByID; a row that is no longer pending is left alone.
LoadPending(r) ==
  /\ pc[r] = "idle"
  /\ \E t \in batch[r] :
       IF txs[t].status = "PENDING_REFERENCE"
       THEN /\ pc' = [pc EXCEPT ![r] = "retry"]
            /\ target' = [target EXCEPT ![r] = t]
            /\ UNCHANGED batch
       ELSE /\ batch' = [batch EXCEPT ![r] = @ \ {t}]
            /\ UNCHANGED <<pc, target>>
  /\ UNCHANGED <<req, db, locks, held, seen, reply, retrySeen, faults>>

ReadRetry(r) ==
  LET retry == retries[target[r]]
  IN /\ pc[r] = "retry"
     /\ retrySeen' = [retrySeen EXCEPT ![r] = retry]
     /\ Goto(r, IF retry.present THEN "lock" ELSE "orphan")
     /\ UNCHANGED <<locks, held, seen, batch, target>>

(* No retry row: rejectNotFound reads the wallet without locking it, and   *)
(* rejects without looking at the transaction again.                       *)
ReadOrphanWallet(r) ==
  /\ pc[r] = "orphan"
  /\ held' = [held EXCEPT ![r] = wallets[WalletOf(r)]]
  /\ Goto(r, "rejectOrphan")
  /\ UNCHANGED <<locks, seen, work>>

RejectOrphan(r) ==
  /\ pc[r] = "rejectOrphan"
  /\ PersistRejection(target[r], "REFERENCE_NOT_FOUND", held[r].balance)
  /\ EndResolve(r)
  /\ UNCHANGED <<req, faults>>

\* Mutant: a worker that reads the wallet without locking it.
LockForResolvePlain(r) ==
  /\ pc[r] = "lock"
  /\ held' = [held EXCEPT ![r] = wallets[WalletOf(r)]]
  /\ Goto(r, "recheck")
  /\ UNCHANGED <<locks, seen, work>>

LockForResolve(r) ==
  LET w == WalletOf(r)
  IN /\ pc[r] = "lock" /\ locks[w] = None
     /\ locks' = [locks EXCEPT ![w] = r]
     /\ held' = [held EXCEPT ![r] = wallets[w]]
     /\ Goto(r, "recheck")
     /\ UNCHANGED <<seen, work>>

\* Mutant: the status is not read again under the lock.
RecheckSkipped(r) ==
  /\ pc[r] = "recheck"
  /\ Goto(r, "readRef")
  /\ UNCHANGED <<locks, held, seen, work>>

\* "Another worker may have finished while we waited on the wallet lock."
Recheck(r) ==
  /\ pc[r] = "recheck"
  /\ IF txs[target[r]].status = "PENDING_REFERENCE"
     THEN Goto(r, "readRef") /\ UNCHANGED <<locks, held, seen, work>>
     ELSE EndResolve(r) /\ UNCHANGED <<req, db, faults>>

-----------------------------------------------------------------------------
(* Time and failures *)

\* next_attempt_at passes: a backoff, or the lease of a claim, is over.
NextAttemptDue(t) ==
  /\ retries[t].present /\ ~retries[t].due
  /\ LeaseMayLapse \/ \A r \in Resolvers : t \notin batch[r]
  /\ retries' = [retries EXCEPT ![t].due = TRUE]
  /\ UNCHANGED <<req, wallets, txs, ledger, wagerEvents, balanceEvents, locks, pc,
                 held, seen, reply, work, faults>>

\* expires_at passes.
DeadlinePasses(t) ==
  /\ retries[t].present /\ ~retries[t].expired
  /\ retries' = [retries EXCEPT ![t].expired = TRUE]
  /\ UNCHANGED <<req, wallets, txs, ledger, wagerEvents, balanceEvents, locks, pc,
                 held, seen, reply, work, faults>>

\* Mutant: a movement that fails between two of its writes keeps the first
\* ones, as it would outside a transaction.
AbortHalfWritten(p) ==
  LET t     == TxOf(p)
      id    == WalletOf(p)
      w     == held[p]
      after == BalanceAfter(Decision(p), w.balance, req[t].amount)
  IN /\ pc[p] = "decide" /\ Decision(p).act \in {"credit", "debit"}
     /\ faults < MaxFaults
     /\ faults' = faults + 1
     /\ wallets' = [wallets EXCEPT ![id].balance = after, ![id].version = w.version + 1]
     /\ PostMovement(id, Entry(t, Decision(p).act, req[t].amount, w.balance, after),
                     w.version + 1)
     /\ Finish(p, Error)
     /\ UNCHANGED <<req, txs, retries, wagerEvents>>

\* An open transaction fails: an error of the database, a timeout, a crash.
Abort(p) ==
  /\ pc[p] \notin {"begin", "done", "idle"} /\ faults < MaxFaults
  /\ faults' = faults + 1
  /\ Finish(p, Error)
  /\ UNCHANGED <<req, db>>

\* A worker dies between or inside its transactions and restarts with nothing.
CrashWorker(r) ==
  /\ batch[r] # {} /\ faults < MaxFaults
  /\ faults' = faults + 1
  /\ Release(r)
  /\ pc' = [pc EXCEPT ![r] = "idle"]
  /\ batch' = [batch EXCEPT ![r] = {}]
  /\ target' = [target EXCEPT ![r] = None]
  /\ retrySeen' = [retrySeen EXCEPT ![r] = NoRetry]
  /\ UNCHANGED <<req, db, reply>>

\* Nothing left to do; the service stays up.
Quiescent ==
  /\ \A c \in Calls : pc[c] = "done"
  /\ \A r \in Resolvers : pc[r] = "idle" /\ batch[r] = {}
  /\ UNCHANGED vars

CallStep(c) ==
  \/ SelectByExternalID(c) \/ SelectByKey(c) \/ ReplayCurrentBalance(c)
  \/ LockWallet(c) \/ TryInsertIdempotency(c)
  \/ SettleLoss(c) \/ Park(c)

ResolverStep(r) ==
  \/ ClaimPendingReferencesDue(r) \/ LoadPending(r) \/ ReadRetry(r)
  \/ ReadOrphanWallet(r) \/ RejectOrphan(r)
  \/ LockForResolve(r) \/ Recheck(r) \/ RetryLater(r)

SharedStep(p) ==
  \/ ReadReference(p) \/ ReadReversal(p)
  \/ Settle(p) \/ RejectAndPersist(p) \/ FailDecision(p)

Next ==
  \/ \E o \in Openings : OpenWallet(o)
  \/ \E c \in Calls : CallStep(c)
  \/ \E r \in Resolvers : ResolverStep(r) \/ CrashWorker(r)
  \/ \E p \in Procs : SharedStep(p) \/ Abort(p)
  \/ \E t \in Calls : NextAttemptDue(t) \/ DeadlinePasses(t)
  \/ Quiescent

Spec == Init /\ [][Next]_vars

(* Fairness.  A goroutine that runs a transaction keeps running, and       *)
(* PostgreSQL queues the waiters of a row lock, so a process that can take *)
(* a step does; the ticker of a worker fires and clocks advance.  Clients  *)
(* need not call, wallets need not be opened, deadlines need not pass and  *)
(* nothing has to fail.                                                    *)
Fairness ==
  /\ \A c \in Calls : WF_vars(pc[c] # "begin" /\ (CallStep(c) \/ SharedStep(c)))
  /\ \A r \in Resolvers : WF_vars(ResolverStep(r) \/ SharedStep(r))
  /\ \A t \in Calls : WF_vars(NextAttemptDue(t))

FairSpec == Spec /\ Fairness
=============================================================================
