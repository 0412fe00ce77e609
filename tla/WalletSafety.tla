---------------------------- MODULE WalletSafety ----------------------------
(***************************************************************************)
(* What must hold of the write path.                                       *)
(***************************************************************************)
EXTENDS WalletCore

(* Every variable has its type.                                            *)
Amount == 0 .. MaxMinor
Snapshot == Amount \cup {NoBalance}
Players == {o.player : o \in Openings} \cup {None}
Currencies == {o.currency : o \in Openings} \cup {r.currency : r \in Ops} \cup {None}
Codes == {"", "INSUFFICIENT_FUNDS", "REVERSAL_INSUFFICIENT_FUNDS", "REFERENCE_NOT_FOUND",
          "REFERENCE_ALREADY_REVERSED", "REFERENCE_NOT_PROCESSED", "REFERENCE_MISMATCH",
          "REFERENCE_AMOUNT_MISMATCH", "REFERENCE_NOT_REVERSIBLE", "CURRENCY_MISMATCH",
          "PLAYER_WALLET_MISMATCH"}
AnyStatus == Statuses \cup {"NONE"}
WalletRow == [player : Players, currency : Currencies, balance : Amount, version : Nat]
TxRow == [status : AnyStatus, code : Codes, ref : Calls \cup {None}, snap : Snapshot]
RetryRow == [present : BOOLEAN, attempts : Nat, due : BOOLEAN, expired : BOOLEAN]
LedgerEntry == [tx : TxIds, dir : {"credit", "debit"}, amount : 1 .. MaxMinor,
                before : Amount, after : Amount]
WagerEventRow == [type : {"Processed", "Rejected", "PendingReference"}, code : Codes,
                  balance : Snapshot]
BalanceEventRow == [entry : LedgerEntry, version : Nat]
SeenRow == [tx : Calls \cup {None}, status : AnyStatus, reversed : BOOLEAN]
ReplyRow == [outcome : {"none", "new", "replay", "conflict", "error"},
             tx : Calls \cup {None}, status : AnyStatus, balance : Snapshot,
             currency : Currencies]

CallLabels == {"begin", "byKey", "replay", "lock", "insert", "readRef", "readReversal",
               "decide", "done"}
ResolverLabels == {"idle", "retry", "orphan", "rejectOrphan", "lock", "recheck", "readRef",
                   "readReversal", "decide"}

TypeOK ==
  /\ req \in [Calls -> Ops]
  /\ wallets \in [Wallets -> WalletRow]
  /\ txs \in [TxIds -> TxRow]
  /\ ledger \in [Wallets -> Seq(LedgerEntry)]
  /\ retries \in [Calls -> RetryRow]
  /\ wagerEvents \in [TxIds -> Seq(WagerEventRow)]
  /\ balanceEvents \in [Wallets -> Seq(BalanceEventRow)]
  /\ locks \in [Wallets -> Procs \cup {None}]
  /\ pc \in [Procs -> CallLabels \cup ResolverLabels]
  /\ \A c \in Calls : pc[c] \in CallLabels
  /\ \A r \in Resolvers : pc[r] \in ResolverLabels
  /\ held \in [Procs -> WalletRow]
  /\ seen \in [Procs -> SeenRow]
  /\ reply \in [Calls -> ReplyRow]
  /\ batch \in [Resolvers -> SUBSET Calls]
  /\ target \in [Resolvers -> Calls \cup {None}]
  /\ retrySeen \in [Resolvers -> RetryRow]
  /\ faults \in 0 .. MaxFaults

-----------------------------------------------------------------------------
(* Money *)

(* The ledger of a wallet is an unbroken chain from zero to its balance:   *)
(* each entry starts where the one before it ended, does its own           *)
(* arithmetic, and never goes below zero (wallets.balance_minor against    *)
(* wallet_ledger_entries, what GET /wallets/{id}/reconciliation checks).   *)
Before(s, i) == IF i = 1 THEN 0 ELSE s[i - 1].after
Arithmetic(e) ==
  /\ e.after = IF e.dir = "credit" THEN e.before + e.amount ELSE e.before - e.amount
  /\ e.after >= 0
Chained(s, balance) ==
  /\ \A i \in 1 .. Len(s) : s[i].before = Before(s, i) /\ Arithmetic(s[i])
  /\ balance = Before(s, Len(s) + 1)
LedgerChained == \A w \in Wallets : Chained(ledger[w], wallets[w].balance)

(* Money moves exactly once for a processed transaction that moves money,  *)
(* on its own wallet and for its own amount, and never for any other.      *)
IsEntryOf(t, w, i) == ledger[w][i].tx = t
MovedAsRecorded(c) ==
  IF txs[c].status = "PROCESSED" /\ req[c].kind # "LOSS"
  THEN LET own == req[c].wallet
       IN \E i \in 1 .. Len(ledger[own]) :
            /\ IsEntryOf(c, own, i)
            /\ ledger[own][i].amount = req[c].amount
            /\ ledger[own][i].after = txs[c].snap
            /\ \A w \in Wallets : \A j \in 1 .. Len(ledger[w]) :
                 IsEntryOf(c, w, j) => w = own /\ j = i
  ELSE \A w \in Wallets : \A j \in 1 .. Len(ledger[w]) : ~IsEntryOf(c, w, j)
MovedOnce == \A c \in Calls : MovedAsRecorded(c)

(* No transaction has two ledger entries, on one wallet or on two, not     *)
(* even when a lease lapses and two workers resolve one row: the unique    *)
(* index on (wallet_id, transaction_id), which is not in the model, never  *)
(* has anything to refuse.                                                 *)
MovedAtMostOnce ==
  \A v, w \in Wallets : \A i \in 1 .. Len(ledger[v]), j \in 1 .. Len(ledger[w]) :
    ledger[v][i].tx = ledger[w][j].tx => v = w /\ i = j

(* Readers of the outbox can rebuild a wallet: its WalletBalanceChanged    *)
(* events are its ledger entries in order, and their walletVersion counts  *)
(* up by one to the version of the wallet.                                 *)
Rebuild(events, s, version) ==
  /\ Len(events) = Len(s)
  /\ \A i \in 1 .. Len(s) :
       events[i].entry = s[i] /\ events[i].version = version - (Len(s) - i)
BalanceEventsRebuildWallet ==
  \A w \in Wallets : Rebuild(balanceEvents[w], ledger[w], wallets[w].version)

-----------------------------------------------------------------------------
(* Identity, replays and reversals *)

(* A provider's external id and its idempotency key each name at most one  *)
(* transaction, however many calls race to insert it.                      *)
OneTransactionPerIdentity ==
  \A c, d \in Calls :
    Committed(c) /\ Committed(d) /\ c # d =>
      ~SameKey(req[c], req[d]) /\ ~SameExternalID(req[c], req[d])

(* An answer that names a final status is what the database says from then *)
(* on, for the first answer and for every replay of it: a client never     *)
(* hears two outcomes or two balances for one transaction.                 *)
AnswersStand ==
  \A c \in Calls :
    reply[c].outcome \in {"new", "replay"} /\ IsTerminal(reply[c].status) =>
      /\ txs[reply[c].tx].status = reply[c].status
      /\ txs[reply[c].tx].snap = reply[c].balance
      /\ SamePayload(req[reply[c].tx], req[c])

(* A transaction is reversed at most once, and only a processed one of the *)
(* same wallet, player and round, in full.                                 *)
ReversedAtMostOnce ==
  \A c, d \in Calls :
    /\ txs[c].status = "PROCESSED" /\ txs[c].ref = d =>
         /\ txs[d].status = "PROCESSED"
         /\ ReferenceMismatch(req[c], req[d]) = ""
         /\ ~ \E e \in Calls \ {c} : txs[e].status = "PROCESSED" /\ txs[e].ref = d

(* What a transaction read of its wallet is still what the wallet says,    *)
(* from the lock to the COMMIT: it alone holds the row, no other commit    *)
(* goes past it, and the row exists.  Every decision about money is made   *)
(* from that copy (SELECT ... FOR UPDATE before the checks of              *)
(* ExecuteInTx and of ResolvePendingReference.Execute).                    *)
Locked(p) == pc[p] \in {"insert", "recheck", "readRef", "readReversal", "decide"}
LockedReadsStayFresh ==
  \A p \in Procs :
    Locked(p) => /\ locks[WalletOf(p)] = p
                 /\ held[p] = wallets[WalletOf(p)]
                 /\ Opened(WalletOf(p))

(* Nobody waits in a circle.  A process waits for the holder of its wallet *)
(* row, or, with the row in hand, for a call that has inserted the same    *)
(* key or external id; that call has all it needs and waits for nobody     *)
(* (wallet lock, then INSERT, in ExecuteInTx: the reverse order would let  *)
(* two calls wait for each other).  Whoever is waited for is inside a      *)
(* transaction, so that its end wakes the one who waits.                   *)
WaitsForRow(p, q) == pc[p] = "lock" /\ locks[WalletOf(p)] = q
WaitsForIndex(p, q) ==
  /\ pc[p] = "insert" /\ q \in Calls /\ InFlight(q)
  /\ SameKey(req[q], req[p]) \/ SameExternalID(req[q], req[p])
WaitsFor(p, q) == WaitsForRow(p, q) \/ WaitsForIndex(p, q)
InTransaction(p) == pc[p] \notin {"begin", "done", "idle"}
WaitsEnd ==
  \A p, q \in Procs : WaitsFor(p, q) =>
    /\ InTransaction(q)
    /\ \A r \in Procs : WaitsFor(q, r) => \A s \in Procs : ~WaitsFor(r, s)

(* The wallet lock alone keeps movements consistent: no transaction ever   *)
(* reaches the version guard of UPDATE wallets or the unique index on      *)
(* reversals with something for them to refuse.                            *)
BackstopsNeverNeeded ==
  \A p \in Procs :
    pc[p] = "decide" /\ Decision(p).act = "fail" => ~Backstopped(p)

(* A stored transaction only takes the transitions of ensureTransition: in *)
(* particular PROCESSED and REJECTED are final.  The code checks a copy it *)
(* has read; this is about the row.                                        *)
TerminalIsFinal ==
  [][\A t \in TxIds : txs'[t] # txs[t] =>
       EnsureTransition(IF Committed(t) THEN txs[t].status ELSE "PENDING",
                        txs'[t].status)]_txs

(* With leases that lapse one step may write over an outcome: the worker   *)
(* that found no retry row, and rejects what it read before without a lock *)
(* (rejectNotFound in resolve_pending.go).  Nothing else in the service    *)
(* does, however late a worker comes back.                                 *)
FinalUnlessOrphan ==
  [][\A t \in TxIds : txs'[t] # txs[t] =>
       \/ EnsureTransition(IF Committed(t) THEN txs[t].status ELSE "PENDING",
                           txs'[t].status)
       \/ \E r \in Resolvers : pc[r] = "rejectOrphan" /\ target[r] = t]_txs

-----------------------------------------------------------------------------
(* Waiting for a reference *)

(* A transaction waits exactly as long as a retry row will bring a worker  *)
(* back to it: no waiter is forgotten, no decided one is resolved again.   *)
WaitersHaveRetryRow ==
  \A c \in Calls : retries[c].present <=> txs[c].status = "PENDING_REFERENCE"

(* Every attempt is counted.  scheduleRetry writes back a copy that the    *)
(* worker has read before it had the wallet; still the row that it leaves  *)
(* counts one attempt more than the row it finds there, and no other step  *)
(* touches the count of a transaction that goes on waiting.                *)
TriesAgain(c) == \E r \in Resolvers : target[r] = c /\ RetryLater(r)
AttemptsNeverLost ==
  [][\A c \in Calls :
       retries[c].present /\ retries'[c].present =>
         retries'[c].attempts = IF TriesAgain(c) THEN retries[c].attempts + 1
                                ELSE retries[c].attempts]_vars

(* The events of a transaction tell its story once: at most one            *)
(* PendingReference, then exactly one event for its final status, carrying *)
(* the balance or the failure code of the row.                             *)
EventsTellOutcome ==
  \A t \in TxIds :
    LET parked == WagerEvent("PendingReference", "", NoBalance)
        final == IF txs[t].status = "PROCESSED"
                 THEN WagerEvent("Processed", "", txs[t].snap)
                 ELSE WagerEvent("Rejected", txs[t].code, NoBalance)
    IN wagerEvents[t] \in
         IF ~Committed(t) THEN {<<>>}
         ELSE IF txs[t].status = "PENDING_REFERENCE" THEN {<<parked>>}
         ELSE {<<final>>, <<parked, final>>}

(* A replay repeats the balance its original observed, currency included   *)
(* (CHALLENGE.md section 9).                                               *)
ReplayRepeatsOriginal ==
  \A c \in Calls :
    LET d == reply[c].tx
    IN reply[c].outcome = "replay" /\ reply[d].outcome = "new"
         /\ IsTerminal(reply[d].status) =>
       /\ reply[c].balance = reply[d].balance
       /\ reply[c].currency = reply[d].currency

(* Every call that has opened its transaction is answered: neither wallet  *)
(* rows nor index entries of other calls, on the same wallet or on another *)
(* one, leave it waiting for good, however those calls end (ExecuteInTx).  *)
CallsAreAnswered == \A c \in Calls : pc[c] # "begin" ~> pc[c] = "done"

(* "Quando esgotado, finalize como REJECTED" (CHALLENGE.md section 7): a   *)
(* transaction that waits for its reference is decided in the end.         *)
WaitersAreDecided ==
  \A c \in Calls : txs[c].status = "PENDING_REFERENCE" ~> IsTerminal(txs[c].status)

(* What ResolvePendingReference keeps of it.  A waiter is decided in the   *)
(* end, also one that names itself or whose reference is rejected or waits *)
(* itself, unless its reference is a processed bet and from some time on   *)
(* the wallet has no room for the credit: an attempt that finds it so is   *)
(* an error, and is not counted.                                           *)
NoRoomFor(c) ==
  /\ \E d \in Calls : /\ req[d].ext = req[c].ref /\ req[d].kind = "BET"
                      /\ txs[d].status = "PROCESSED" /\ ~ProcessedReversal(d)
                      /\ ReferenceMismatch(req[c], req[d]) = ""
  /\ wallets[req[c].wallet].balance + req[c].amount > MaxMinor
WaitersAreDecidedIfRoom ==
  \A c \in Calls :
    txs[c].status = "PENDING_REFERENCE" ~> (IsTerminal(txs[c].status) \/ []NoRoomFor(c))

-----------------------------------------------------------------------------
(* The write path implements WalletPromise: each COMMIT judges one request *)
(* as if nothing else were running.                                        *)
Promise == INSTANCE WalletPromise WITH account <- wallets, fate <- txs
ImplementsPromise == Promise!Spec
=============================================================================
