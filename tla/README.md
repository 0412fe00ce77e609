# A TLA+ model of jungle-wallet-go

These modules model the wallet service of this repository: players' wallets in
PostgreSQL, moved by gaming providers through HTTP and SQS, on several instances
at once. TLC checks the modules on small instances; TLAPS proves the properties
named under [What is proved](#what-is-proved) for every value of the constants.
`PROJECT.json` maps every definition to the lines it models.

    tlc -workers 2 -config wallet_race.cfg MCWallet      # and the other .cfg files
    tlapm WalletRowsProofs.tla                           # and the other *Proofs

## The system

| Part | State it keeps | Operations | How it meets the others |
| --- | --- | --- | --- |
| Money (`domain/money`) | none | checked `int64` arithmetic, parsing, formatting | used everywhere |
| Domain rules (`domain/wagering`, `wallet`, `event`, `apperr`) | values only | transitions, movements, payload hash, event construction | called by the use cases |
| `OpenWallet` | `wallets`, and an `OPENING` row, ledger entry and events | one SQL transaction | HTTP |
| `ProcessWagerTransaction` | `wager_transactions`, `wallets`, ledger, outbox, retry rows | idempotency, lock, insert, decision, movement | called by HTTP (own transaction) and the consumer (its transaction) |
| `ResolvePendingReference` and the reference worker | the same, and leases in `reference_retry_state` | claim, resolve, back off, give up | competes with calls for wallets and with other workers for rows |
| Outbox publisher | `outbox_events` | claim, send, mark | reads what the write path commits; `wallet-events.fifo` |
| SQS consumer and inbox | `inbox_messages`, in-flight map | receive, handle, delete, release, poison | wraps a call and the inbox row in one transaction |
| Read side (`queries.go`) | none; a listing lives in the cursor the client holds | balance, transaction, ledger pages, reconciliation | reads what the write path commits |
| HTTP, auth, config, Fx, metrics | none that matters here | routing, tokens, wiring | |

What is hard here is concurrency in the database. Several calls, several workers
and openings of wallets run over one store in READ COMMITTED, where each statement
sees a newer state than the one before it. Correctness hangs on the order in which
a transaction takes its wallet lock, its index entries and its reads; on leases
that are only clocks; on retries of what was already done; and on processes that
die between two transactions. Per component, being correct means:

- *write path*: one row per idempotency key and per external id; money moves once
  per processed transaction; the ledger of a wallet adds up to its balance; a
  transaction is reversed at most once; a final status stays; a replay says what
  the first answer said; whoever waits for a reference is decided; every COMMIT is
  what a serial service would have done;
- *outbox*: delivery at least once, repeated only after a failure; no event marked
  published that was not sent; every event published in the end;
- *consumer*: a message is deleted only after its effect is committed; a redelivered
  one has no second effect; an id keeps the body it came with first; order within a
  group; every message is handled or dead-lettered; a stop hands its work over;
- *read side*: a reader who follows cursors sees every entry once; reconciliation never
  reports a difference that is not there.

## Modules

| Module | What it models |
| --- | --- |
| `Money` | `addChecked`, `subChecked` and the sign tests, over a range given by two constants |
| `WagerDomain` | kinds, statuses, `ensureTransition`, the fields `CanonicalHash` covers, `validateReferenceMatch`, the verdicts of `processSimple` and `processReversal`, `Wallet.Credit`/`Debit` |
| `WalletCore` | the write path: `OpenWallet`, `ProcessWagerTransaction`, `ResolvePendingReference` and the reference worker over the database |
| `WalletPromise` | the abstract specification: each request judged in one indivisible step |
| `WalletSafety` | properties of `WalletCore`, and the refinement mapping to `WalletPromise` |
| `MCWallet` | requests, workloads and wallets for TLC |
| `WalletProofs`, `WalletRowsProofs`, `WalletHistoryProofs`, `WalletOutcomeProofs`, `WalletRefinementProofs` | proofs about `WalletCore`, each on top of the one before: types and fresh reads; ledgers, rows and retry rows; leases and events; outcomes and answers; the refinement of `WalletPromise` |
| `Outbox`, `OutboxSafety`, `OutboxProofs` | the outbox publisher and the events queue, its properties, proofs |
| `Consumer` | the SQS consumer on several instances, the FIFO queue, the inbox and the table of transactions |
| `InboxPromise` | the abstract specification: an id is recorded once, with at most one transaction, before it is acknowledged |
| `ConsumerSafety`, `ConsumerProofs`, `MCConsumer` | properties of `Consumer` and the refinement mapping, proofs, messages for TLC |
| `LedgerReads`, `LedgerReadsProofs`, `MCLedgerReads` | `ListLedger` and `ReconcileWallet` against concurrent commits with their properties, proofs, amounts and limits for TLC |

### State and steps of WalletCore

`wallets`, `txs`, `ledger`, `retries`, `wagerEvents` and `balanceEvents` are the
committed tables (the last two are `outbox_events` by kind of aggregate). `locks`
are the wallet rows held by `FOR UPDATE`. Each call and each worker has a program
counter, the wallet it read under its lock (`held`), and the reference it read
(`seen`); a worker also has its claimed rows (`batch`) and the retry row it read.

A step is one statement that reads shared rows or waits for another transaction:

| Step | Code |
| --- | --- |
| `SelectByExternalID`, `SelectByKey`, `ReplayCurrentBalance` | the two plain SELECTs of `ExecuteInTx` and the wallet read of a replay |
| `LockWallet`, `LockForResolve` | `GetForUpdate`; waits while another process has the row |
| `TryInsertIdempotency` | `INSERT ... ON CONFLICT DO NOTHING`; waits for uncommitted index entries, then replay, conflict or insert |
| `ReadReference`, `ReadReversal` | `GetByExternalID`, `GetProcessedReversalByReference` |
| `Settle`, `SettleLoss`, `RejectAndPersist`, `Park`, `RetryLater`, `FailDecision` | the decision, all its writes and COMMIT (or ROLLBACK) |
| `ClaimPendingReferencesDue`, `LoadPending`, `ReadRetry`, `Recheck` | `tick` and the beginning of `ResolvePendingReference.Execute` |
| `ReadOrphanWallet`, `RejectOrphan` | `rejectNotFound`, reached when the retry row is gone |
| `NextAttemptDue`, `DeadlinePasses` | clocks passing `next_attempt_at` and `expires_at` |
| `Abort`, `CrashWorker` | a transaction fails; a worker dies |

The writes are one step with COMMIT because nobody sees them before it: the wallet
row is locked, the transaction row is either the caller's own insert or guarded by
the same wallet lock. The one exception is `RejectOrphan`, which holds no lock; its
own `UPDATE` waits for an uncommitted one of the same row and then writes over it,
which is what the single step does after the other COMMIT.

What is abstracted: identifiers are model values; a call's row has the call's
request as its immutable columns; `CanonicalHash` is taken to be injective; time is
what the code compares it for (due, expired, leased). A retry by a client, by SQS or
by `WithinTransaction` after a serialization failure runs the same code from the
start with the same request, so it is another call with an equal request; so is the
second attempt of a client that heard an error although COMMIT had succeeded.
`FAILED` is in the type and in the transitions, but no code produces it.

### State and steps of Outbox

Rows are stored, published, backing off or leased (sets), and have `attempts`. A
publisher has rows in `hand`, the `current` one, and how its send ended. `ClaimBatch`,
`PublishOne`, `SendFails` (before or after the queue took the message),
`MarkPublished`, `MarkPublishFailed`, `MarkLost` (`tick` ignores the error of both
marks) and `Crash` are the steps of `tick`; `Deliver` and `DedupWindowCloses` stand
for the FIFO queue, whose code is not in this repository. Claimed rows are a set
since `UPDATE ... RETURNING` promises no order.

### State and steps of Consumer

`body` is what each message says: its group (wallet), message id, identity of the
request (key, external id, payload), and whether it can be read. `mailbox`, `receives`
and `receipt` are the queue; `inbox` and `rows` the database; `todo`, `current` and `pc`
the goroutines of `loop`; `run` the life of each process.

| Step | Code |
| --- | --- |
| `Receive`, `ReceiveLost` | `ReceiveMessage` and the start of a group goroutine; a poll whose answer the client no longer waits for |
| `StartMessage`, `Poison` | `track`, the head of `handle`; visibility 0 for what cannot be handled |
| `InsertInbox` | `INSERT ... ON CONFLICT DO NOTHING`; waits for an uncommitted row of the id, then compares the hash |
| `Execute`, `InsertTransaction` | `ExecuteWithRepos` as far as identity goes: the two SELECTs, and the INSERT that waits for index entries; 23505 aborts and rolls back |
| `Commit`, `Delete` | `MarkCompleted` with COMMIT; `DeleteMessage`, also with a receipt that is no longer valid |
| `CallFails`, `CallCancelled` | a call returns an error, its effect lost or done; the same under the cancelled context of `Stop` |
| `SkipRest`, `BeginStop`, `Drained`, `ReleaseInFlight`, `Exit` | `Stop` from the cancelled context to its deadline and `releaseInFlight` |
| `Crash`, `Restart`, `VisibilityTimeout`, `Redrive` | process and queue |
| `ProcessElsewhere` | the HTTP path inserts into the same table |

What an open transaction has inserted is not a variable of its own: a goroutine whose `pc`
is past the INSERT is what others wait for, and dropping it from there is the rollback.
The messages of a group that one poll has hidden become visible together (one visibility
timeout runs for the batch): at any time when no goroutine holds them any more, and by a
bounded lapse while one of them is still held. The three attempts of
`WithinTransaction` are not repeated inside a handler: they need 40P01 or 40001, and a
retry starts again at the inbox, as the next delivery does.

### State and steps of LedgerReads

An entry is its place in the order (`created_at`, `id`). `created_at` is drawn before the
call waits for its wallet, so `AddEntry` adds entries in any order of their keys.
`FirstPage` and `NextPage` are one call of `ListLedger` each: limit, query of one row more
than the page, cursor. The client's part is to send the cursor back. `ReadWallet` and
`SumByWallet` are the two statements of `ReconcileWallet`, which see one snapshot.
`seen`, `twice`, `late` and `whole` record what the reader was shown and what was committed
when; no action reads them.

## What the runs check

| Run | Instance | Shows |
| --- | --- | --- |
| `wallet_race` | 3 calls, 2 wallets, 9 colliding requests (165 workloads), 1 fault; fairness | identity, replays, ledger chain, backstops unused, no circular waiting, every call answered, refinement of `WalletPromise` |
| `wallet_references` | 3 of 8 requests that form reversal chains, 1 worker, 2 attempts, 1 fault | money moved once, one reversal, events, refinement |
| `wallet_workers` | bet and refund with the refund's rollback, with a refund that names itself, or with a win that fills the wallet; 2 workers, 3 attempts, 1 fault; fairness | finality, every attempt counted, versions of balance events, an end to waiting |
| `wallet_lapse` | bet and refund with a rollback of either; 2 workers whose leases may lapse | the lock alone is enough: nothing goes stale under it, nothing moves twice, waiters keep their retry rows, and only the orphan branch (finding 1) writes over an outcome |
| `outbox_publish` | 2 rows, 2 publishers, 2 faults, one row whose lease may end too early (any number of times); fairness | delivery before the mark, one holder, repetitions and attempts, every event published |
| `consumer` | 2 instances, 5 pairs of messages (same wallet, same body, same id with another body, same transaction under two ids, one that cannot be read before one that is always refused), one HTTP request that collides; 4 receives; a lapse, a stop or crash, a failed call, two of them together; fairness | the inbox promise, identity, order, the cause of each receive, what the dead-letter queue may hold, settling |
| `ledger_reads` | 2 wallets, 4 keys, limits below, within and above the range (-1, 1, 9), a reader, an auditor; fairness | pages, reconciliation, end of listings |
| `finding_orphan`, `finding_replay_currency`, `finding_full_wallet`, `finding_group_order`, `finding_shutdown` | see [Findings](#findings) | what the code does otherwise than its documents say |

Reading the properties:

- `LedgerChained`, `MovedOnce`, `BalanceEventsRebuildWallet` tie a wallet, its ledger,
  its transactions and its events to each other. Reconciliation checks the sum only;
  here every entry has to start where the one before it ended.
- `OneTransactionPerIdentity`, `AnswersStand` are the idempotency promise: whoever is
  told a final outcome finds it in the database from then on, and so does every replay.
- `LockedReadsStayFresh` is the reason the rest holds: from the lock to COMMIT the copy
  of the wallet that decides is the wallet. `BackstopsNeverNeeded` follows: the version
  guard and the reversal index never have anything to refuse. Both are what the code
  adds for safety; a run in which one fires would mean that the lock protocol leaks.
- `WaitsEnd` is freedom from deadlock as an invariant: whoever waits, for a wallet row or for
  an index entry, waits for a transaction that is under way, and the one that this transaction
  may itself wait for waits for nobody.
- `MovedAtMostOnce` and `FinalUnlessOrphan` are what is left of `MovedOnce` and `TerminalIsFinal`
  when leases lapse: no transaction has two ledger entries, and the branch of finding 1 is
  the only step that writes over an outcome. The unique index `ledger_wallet_tx_unique`
  (`migrations/000001_init.up.sql:97`) is not in the model; `MovedAtMostOnce` says that it
  never has anything to refuse.
- `MovedOnce` counts the entries of a processed movement; its mutant is a failure between
  the write of the entry and the write of the row that a rollback does not undo.
- `ReversedAtMostOnce`, `TerminalIsFinal`, `WaitersHaveRetryRow` are about references that come
  late. `AttemptsNeverLost` says of each step what it does to the count of a transaction that
  goes on waiting: a `scheduleRetry` leaves exactly one more than the row has at that
  moment, although it writes back a copy read before the lock, and any other step leaves the
  count alone. It needs leases that outlive the work: with two workers on one row the copy
  may be old.
- `WaitersAreDecidedIfRoom` is the end of waiting as the code has it: also for a reversal whose
  reference never comes, is rejected, waits itself, or is the reversal itself. One case is
  excluded and stated (`NoRoomFor`): the reference is a processed bet and from some time on the
  wallet has no room for the credit. That case is finding 3.
- `CallsAreAnswered` is checked with calls on two wallets whose keys and external ids collide, so
  that a call that holds its wallet row waits for the index entry of a call on the other
  wallet; no worker runs there. A worker inserts no identity and waits for one wallet row
  only, before it holds anything; `WaitsEnd` is proved with workers.
- `ImplementsPromise` says the database history is one a serial service could have
  produced. `WalletPromise` grants one exemption, which TLC found and the code takes: a
  reversal may wait although its reference is decided, if that reference belongs to
  another wallet (it is read under the wrong wallet's lock, so its status can change
  between the read and COMMIT). Such a reversal can only ever be rejected.
- `RepeatsNeedFaults`, `AttemptsCoverDeliveries`, `OneHolder` speak of the rows whose lease has
  not ended in the hands of a publisher. `MarkPublishFailed` clears a lease without asking
  whose it is and writes back attempts it read earlier, so of an `overrun` row they are not
  true; of the rows beside it, in the same batch, they are. `PublishedWasDelivered` and
  `EventsArePublished` hold for every row.
- `AcknowledgedWasDecided`, `OneTransactionPerIdentity` and `ImplementsPromise` (of
  `Consumer`) are at-least-once delivery turned into one effect. `ImplementsPromise` also
  says that a second body under a known id never takes effect, and that an effect never
  comes without its inbox row (`EffectHasInboxRow`).
- `OrderUntilFailure` and `GroupOrder` are two answers to one question: order within a
  wallet survives stops, crashes, lapses and competing instances, but not a failed call.
- `ReceivesHaveCause` bounds the receives of a good message by the faults that happened:
  competition costs at most the one receive that a 23505 takes. Together with
  `GoodMessagesAreDecided` it says what `maxReceiveCount` has to leave room for.
- `GoodMessagesSurvive`: with that room the dead-letter queue never takes a message that can
  be processed, whether or not it has taken effect yet.
- `PagesCoverLedger` says which entries a listing may miss, and no others:
  those committed behind a cursor that was already handed out.

### Bounds

`MaxMinor` is 3 (and `MinMinor` -4), so that balances of 1 and 2 meet the upper end
after one win: overflow, insufficient funds and exact zero all happen. Three calls are
the least in which a race has a witness (a third call reads what the two left) and in
which a chain bet, refund, rollback of the refund exists. `MaxAttempts` is 2, so a
worker both schedules a retry and gives up, and 3 in `wallet_workers`, so that a retry is
scheduled for a row that has been counted before (1 in `wallet_race`, which has no worker).
A win of 3 fills the wallet that a bet has emptied, so that the refund of the bet has no room.
One fault suffices to lose any step. `BatchSize` 2 lets a worker hold two rows and
resolve the first late. Workloads are listed in one order because calls are
interchangeable. Two outbox rows let one be late, or overrun, while the other goes on; two
publishers compete. Two messages are the least in which order, a shared id and a shared
transaction have a witness, and one goroutine for each of two instances lets a
delivery meet its redelivery. `MaxReceives` is 4 rather than 5 because two faults and
the 23505 fit below it, and the path to the dead-letter queue is the shorter.
Four keys and pages of one to three give a listing of several pages with commits before,
at and behind its cursor; `DefaultLimit` and `MaxLimit` are 2 and 3 instead of 50 and 200 so
that both are reached.

### Fairness

`FairSpec` of `WalletCore`: a call that has begun goes on (a goroutine in a transaction
runs; PostgreSQL queues the waiters of a row, and holders finish), a worker goes on (its
ticker fires every second), and `next_attempt_at` passes. Weak fairness is enough: three
calls cannot starve a waiter for ever. Nothing is assumed of clients, openings, deadlines
or faults. `Outbox`: publishers tick, leases lapse and backoffs end. `Consumer`: a goroutine
that can make its next call makes it, or loses it once the context is cancelled; the
queue's visibility timeout and redrive run by its clock; `Stop` has a deadline (Fx's stop
timeout); a process that ended is started again by its platform. Nothing is assumed of
faults, and what may fail is bounded, since nothing settles if every call fails for ever.
`LedgerReads`: a reader who has begun asks for the next page; entries run out with the
keys, without which a listing could be kept from its end by new commits for ever.

## What is proved

All proofs are for any sets of calls, workers, wallets, requests and openings, any
width of amounts and any bounds, under the assumptions named in the modules
(`ProcessAssumption`, `BoundsAssumption`, `WorkloadsAssumption`, `OpsAssumption`,
`OpeningsAssumption`, `MinorRangeAssumption`, `OutboxAssumption`, `ConsumerAssumption`,
`ReadsAssumption`): ids of different sorts differ, bounds are positive, requests have passed
`prepare` and `NewExternal`, messages have different places in the queue.

| Theorem | States | Argument |
| --- | --- | --- |
| `WalletProofs!TypeCorrect` | `[]TypeOK` | `Inv` below |
| `WalletProofs!LockedReadsFresh` | `[]LockedReadsStayFresh` | `Inv` below |
| `WalletProofs!WaitsAlwaysEnd` | `[]WaitsEnd` | `HoldersAtWork` below |
| `WalletRowsProofs!LedgerAlwaysChained` | `[]LedgerChained` | `MoneyInv` below |
| `WalletRowsProofs!BalanceEventsAlwaysRebuild` | `[]BalanceEventsRebuildWallet` | `MoneyInv` below |
| `WalletRowsProofs!OneTransactionAlways`, `WaitersAlwaysHaveRetryRow`, `BackstopsAreNeverNeeded` | `[]OneTransactionPerIdentity`, `[]WaitersHaveRetryRow`, `[]BackstopsNeverNeeded` | `RowInv` below |
| `WalletHistoryProofs!AttemptsAreNeverLost`, `EventsAlwaysTellOutcome`, `TerminalStaysFinal` | `AttemptsNeverLost`, `[]EventsTellOutcome`, `TerminalIsFinal`, if leases do not lapse | `LeaseInv` below |
| `WalletHistoryProofs!OnlyOrphansOverwrite`, `NothingMovesTwice` | `FinalUnlessOrphan`, `[]MovedAtMostOnce`, whatever leases do | `OutcomeOrOrphan` below |
| `WalletOutcomeProofs!MoneyMovesOnce`, `ReversalsAreUnique`, `AnswersAlwaysStand` | `[]MovedOnce`, `[]ReversedAtMostOnce`, `[]AnswersStand`, if leases do not lapse | `OutcomeInv` below |
| `WalletRefinementProofs!WritePathKeepsPromise` | `Spec => ImplementsPromise`, if leases do not lapse | `PromiseInv` below |
| `OutboxProofs!TypeCorrect`, `PublishedAlwaysDelivered` | `[]TypeOK`, `[]PublishedWasDelivered` | a publisher about to mark has delivered, and the queue remembers only ids it has |
| `OutboxProofs!OneHolderAlways` | `[]OneHolder` | what is in a hand and not overrun is leased |
| `OutboxProofs!RepeatsAlwaysNeedFaults`, `AttemptsAlwaysCover` | `[]RepeatsNeedFaults`, `[]AttemptsCoverDeliveries` | `Counts` below |
| `ConsumerProofs!TypeCorrect` | `[]TypeOK` | inductive as it stands |
| `ConsumerProofs!OneTransactionAlways`, `AcknowledgedAlwaysDecided`, `EffectAlwaysRecorded` | the invariants of the same names | `Claims` and `Tables` below |
| `ConsumerProofs!PromiseAlwaysKept` | `Spec => ImplementsPromise` | step by step under the same invariant |
| `ConsumerProofs!ReceivesAlwaysHaveCause`, `GoodMessagesAlwaysSurvive` | `[]ReceivesHaveCause`, `[]GoodMessagesSurvive` | `Accounts` and `Deaths` below |
| `ConsumerProofs!OrderKeptUntilFailure` | `OrderUntilFailure`, if `MaxFaults < MaxReceives` | `Ordered` below |
| `LedgerReadsProofs!TypeCorrect`, `ReconciliationIsExact` | `[]TypeOK`, `[]ReconcileFindsNoDifference` | `Books` below |
| `LedgerReadsProofs!PagesAlwaysCover` | `[]PagesCoverLedger` | `UnderWay` below |

*Types and fresh reads.* `TypeOK` is not inductive: that a balance stays in
`0 .. MaxMinor` depends on `Funded` having been asked about the balance that is then
written, which is the copy in `held`, so the copy must be the wallet's at COMMIT. `Inv`
is therefore `TypeOK`, `ProcsAtWork` (where a worker is, it has a target) and
`LockedReadsStayFresh` together: an action either belongs to the lock's holder or does
not touch the wallet. `FundedMovement` and `DecisionSound` carry the arithmetic.

*Waiting.* `HoldersAtWork` says that a wallet row that is held is held by a transaction on
that wallet which is past its lock. So whoever waits for a row waits for somebody who is
at the INSERT or later, and never for a row again; whoever waits for an index
entry waits for a call that has inserted and needs nothing more. A chain of waits has two
links at most, for any number of processes. It rests on the order in `ExecuteInTx`, lock before
INSERT: the mutant that keeps locks after COMMIT breaks it.

*Money.* Only `Settle` and `OpenWallet` move money (`OnlyTwoMove`). Under `Inv` the entry
that `Settle` appends starts at the wallet's balance, not at an old one, so it extends the
chain (`ChainExtended`) and the event sequence (`RebuildExtended`).

*Rows.* `RowInv` says what a process knows while it decides (`KnowsRows`): its own row is not
in the table yet, or is still waiting; a reference it found in order has no processed reversal;
it is bound for the orphan branch only because the row is decided. None of these can change
under it, because whoever could change them needs the same wallet lock or the same
index entry. A step touches no row of a call, stays inside a transaction and only reads, ends
one without an outcome, or records the outcome of the row it works on; the proof has one
lemma for each. These three theorems need nothing of leases: a lapse leads to an orphan
(finding 1), and `RejectOrphan` writes neither a new row nor a retry row.

*Leases.* `LeaseInv`: batches of workers are disjoint, a claimed row is not due again, and the
row a worker is busy with still waits with the attempts it read. The orphan branch is then
unreachable, a `scheduleRetry` counts one on the row as it is (`AttemptCounted`), and every
step records at most one outcome, of one row that has none, together
with its event (`OneOutcome`). Finality and `EventsTellOutcome` follow from that alone.
The assumption is `~LeaseMayLapse`, and it is needed: `finding_orphan` is what happens without.

*Lapses.* Without the assumption, `OutcomeOrOrphan` remains: a step records one outcome of one
row that has none, or it is a `RejectOrphan`. `FinalUnlessOrphan` follows, and that a row with an
outcome always keeps one, be it another (`DecidedStays`). `EntriesSettled` then says that whatever
has a ledger entry has an outcome; `Settle` and `OpenWallet`, which alone append, do so for
rows that have none, hence for rows that have no entry (`FirstEntry`).

*Outcomes.* `RowsStep` sharpens `OneOutcome` by what the code has checked before it COMMITs:
money moves with the row that records it, and only against a reference that is processed,
matches and has no processed reversal (`Reversible`). `RowsInv`, with `MovedOnce` and
`ReversedAtMostOnce` in it, is preserved by every `RowsStep`, whatever the action.
`ReadsInv` adds that a reference read as processed still is, and `RepliesTrue` that a final answer is what its row
says; the row stays, so the answer does.

*Promise.* `Rule` of `WalletPromise` looks at the state of the COMMIT; the code decides with what it
read before. `KnowsReference` says what of that still holds: a reference found, its status and
whether it has been reversed are still so, because only the holder of its wallet's lock
could change them and the wallets are the same; the one reading that may be stale is that of a
transaction of another wallet, undecided or absent when it was read. Such a reversal can
only end in a rejection, and `MayWait` lets it wait. `Ruled` concludes that `Decision` is `Rule`, or a
permitted wait, or the end of one; `MovesItsReference` that the row names the reference the
promise names. `PromiseInv` also holds `WaitersAreHolders`: a worker does not check player and
currency again, and need not. Each outcome is then one `Judge`, each opening one `Open`.

*Outbox.* A row that is not marked, nor about to be, has at most as many messages as there were
faults, and a row still to be sent has an attempt to spare (`Charged` and `Covered`, together `Counts`). Both
count with exclusive hands, hence only for rows that are not overrun.

*Consumer.* What a goroutine is about to COMMIT it decided some statements ago. `Claims`
says for each label what still holds of the tables: whoever has staged an inbox row is alone
with that id and no row of it is committed (`StagedAlone`); whoever has staged a
transaction is alone with its identity and none is committed (`EffectAlone`); whoever
records a replay or a conflict finds the identity decided (`RecordDecided`); whoever
answers a redelivery or deletes has its own body in the inbox (`ReplayKnown`).
These hold because others wait for uncommitted rows, and without `InboxRowFree` or
`IdentityFree` the proof breaks where the program would. `Tables` is what every COMMIT then
keeps: one row per identity, an inbox row for every effect, a decided identity for every inbox
row. With both, each step is a `Record`, an `Apply`, an `Acknowledge` or an
`ApplyElsewhere` of `InboxPromise`, or leaves its variables alone.

*Receives and order.* `Accounts` keeps an account for every message in the queue: its receives
are at most the faults that have happened, or one more while a goroutine has it
(`Paid`); once it is settled, which is what its COMMIT or the 23505 of a
competitor means, one more again, since nobody takes it to an INSERT after that. `AtRest` and
`Judged` say which goroutines have what in hand. `Deaths` follows: what has been moved to
the dead-letter queue was settled if `MaxFaults < MaxReceives`, and was not good if there
is room for two more. `Ordered` says that, as long as no call has failed, whatever is earlier in
the wallet than a message that a goroutine has, or that took effect, is settled or
comes first in the same batch; `HeadOfGroup` is what the FIFO queue adds when a batch is handed
out. `OrderKeptUntilFailure` needs `MaxFaults < MaxReceives`: with fewer receives the redrive
moves a message away under the goroutine that handles it, and the next of its wallet is handed
to another one. The queue of this repository allows five (`deploy/localstack/init-sqs.sh:37`).

*Reconciliation.* `Books` is the invariant of the committed tables: entries belong to one wallet
each, and their sum is its balance. `Snapshots` says the same of what an auditor has read and what its
snapshot shows, whatever is committed afterwards. The facts about sums over finite sets
(`TotalAdded`, `TotalAgree`) are proved without induction: a subset for which one fails would have a smallest such
subset, because strict inclusion is well-founded, and that one is refuted (`Smallest`).

*Listings.* `PagesCoverLedger` speaks of listings that have ended, so it is not inductive.
`UnderWay` adds what is true in between: of the entries up to the cursor the reader has had
all but the late ones, and it has had nothing beyond. `QueryRows` is the fact about the
query: what it leaves out lies behind everything it returns, and a short answer is all there is.

Only model-checked: liveness, which the prover cannot reach for want of ENABLED
(`CallsAreAnswered`, `WaitersAreDecidedIfRoom`, `EventsArePublished`, `EveryMessageSettles`,
`GoodMessagesAreDecided`, `ListingsEnd`). Every invariant and every action property of the
passing runs has its theorem. The runs with lapsing leases check what says
most there; `LedgerChained`, `BackstopsNeverNeeded` and `PublishedWasDelivered` are proved for them too.

## Findings

1. `resolve_pending.go:48`: without a retry row, `Execute` rejects the transaction it read
   first, with no wallet lock and no second look. Two workers have the same row when a 30
   second lease lapses; one processes the reversal and deletes the retry row between the
   other's two reads; the other writes `REJECTED` over `PROCESSED` and clears the
   reference (`finding_orphan`). CHALLENGE.md:143 and ARCHITECTURE.md:53 and 96 say
   otherwise. A waiting transaction always has its retry row (`WaitersHaveRetryRow`, which
   is checked in `wallet_lapse`), so this race is the only way into that branch. The same
   behaviour breaks `MovedOnce` and `EventsTellOutcome`, which is why those two are checked
   where leases outlive their work. `OnlyOrphansOverwrite` proves that no other step
   overwrites an outcome.
2. `process_wager.go:590`: the replay of a `CURRENCY_MISMATCH` rejection repeats the number
   of minor units but in the currency of the request (`finding_replay_currency`), against
   CHALLENGE.md:287.
3. `resolve_pending.go:71` and 112: deadline and attempts are looked at only while the reference
   is missing or undecided. When it is a processed bet and the credit has no room in the
   wallet, `Wallet.Credit` in `process_wager.go:411` returns an error, everything rolls back, and
   the row is claimed again after each lease, uncounted, for as long as the wallet is that full
   (`finding_full_wallet`), against CHALLENGE.md:192. With `int64` minor units the balance it takes
   is remote; `WaitersAreDecidedIfRoom` shows that it is the only way.
4. `consumer.go:213`: the goroutine of a group goes on after a failed message, so the next
   message of the wallet takes effect first (`finding_group_order`), against
   ARCHITECTURE.md:123. `OrderUntilFailure` shows that nothing else breaks the order, as long as
   `maxReceiveCount` exceeds the faults.
5. `consumer.go:205` (and 185): messages not yet begun when `Stop` cancels the context are made
   visible with that cancelled context, so they stay hidden until their timeout
   (`finding_shutdown`), against CHALLENGE.md:355 and the comment in line 184.

## Not modelled, and why

- *Deadlocks inside PostgreSQL and the three attempts of `WithinTransaction`.* Every
  transaction takes its inbox row, its wallet row and its index entries in this order, so no
  cycle arises: between wallet locks and index entries this is `WaitsEnd`, proved for any number
  of calls and workers (`WaitsAlwaysEnd`). The `FOR KEY SHARE` that the INSERT takes on the wallet
  row is not a lock of its own in the model: the same transaction has that row `FOR UPDATE`
  already, so it never waits; the mutant that inserts before it locks breaks
  `CallsAreAnswered`. An attempt after 40P01 or 40001 is the same code
  from the start.
- *Events through the queue.* `tick` promises no order between events, so there is nothing to
  refine; the sequence of versions is checked where events are written.
- *Parsing and formatting of money, `mulChecked`.* Pure functions of one string; no state, no
  interleaving, and the package's tests cover them. `Money` has the arithmetic that the
  write path depends on.
- *HTTP handlers other than the listing.* One use case each, and a table from answers to
  statuses that keeps nothing between requests. `GetWallet` and `GetTransaction` are one SELECT.
- *Authentication* (stateless, a library), *configuration and wiring*, *metrics, health probes
  and logs* (no state that a property tells apart), *deployment scripts*.
