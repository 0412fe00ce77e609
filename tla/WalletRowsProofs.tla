-------------------------- MODULE WalletRowsProofs --------------------------
(***************************************************************************)
(* Proofs about the rows of the write path: the ledger of every wallet is  *)
(* an unbroken chain that ends at its balance and its events say the same, *)
(* identities are unique, waiters keep their retry row, and the wallet     *)
(* lock leaves the database's last guards nothing to refuse.               *)
(*                                                                         *)
(* MoneyInv is about wallets and ledgers, which two actions write only.    *)
(* RowInv states what each process knows of the rows it works on           *)
(* (KnowsRows) and two facts about all rows.  A step is one of four: it    *)
(* touches no row of a call, it stays inside a transaction and only reads  *)
(* (StepReads), it ends one without an outcome (StepLeaves), or it records *)
(* the outcome of the row it works on (StepWrites).                        *)
(***************************************************************************)
EXTENDS WalletProofs

-----------------------------------------------------------------------------
(* Wallets and their ledgers *)

LEMMA ChainExtended ==
  ASSUME NEW s \in Seq(LedgerEntry), NEW e \in LedgerEntry, NEW balance,
         Chained(s, balance), e.before = balance, Arithmetic(e)
  PROVE  Chained(Append(s, e), e.after)
<1>. DEFINE n == Len(s)
            z == Append(s, e)
<1>1. /\ n \in Nat /\ Len(z) = n + 1 /\ z[n + 1] = e
      /\ \A i \in 1 .. n : z[i] = s[i]
  BY AppendProperties, LenProperties
<1>2. ASSUME NEW i \in 1 .. n PROVE Before(z, i) = Before(s, i)
  BY <1>1 DEF Before
<1>3. Before(z, n + 1) = Before(s, n + 1)
  BY <1>1 DEF Before
<1>4. Before(z, n + 2) = e.after
  BY <1>1 DEF Before
<1>. HIDE DEF n, z
<1>5. \A i \in 1 .. n : z[i].before = Before(z, i) /\ Arithmetic(z[i])
  BY <1>1, <1>2 DEF Chained, n
<1>6. z[n + 1].before = Before(z, n + 1)
  BY <1>1, <1>3 DEF Chained, n
<1>7. \A i \in 1 .. n + 1 : z[i].before = Before(z, i) /\ Arithmetic(z[i])
  BY <1>1, <1>5, <1>6
<1>8. e.after = Before(z, Len(z) + 1)
  BY <1>1, <1>4
<1>9. Chained(z, e.after)
  BY <1>1, <1>7, <1>8 DEF Chained
<1>. QED
  BY <1>9 DEF z

LEMMA RebuildExtended ==
  ASSUME NEW s \in Seq(LedgerEntry), NEW events \in Seq(BalanceEventRow),
         NEW e \in LedgerEntry, NEW version \in Nat, Rebuild(events, s, version)
  PROVE  Rebuild(Append(events, [entry |-> e, version |-> version + 1]), Append(s, e),
                 version + 1)
<1>. DEFINE n == Len(s)
            row == [entry |-> e, version |-> version + 1]
            y == Append(events, row)
            z == Append(s, e)
<1>1. n \in Nat /\ Len(z) = n + 1 /\ z[n + 1] = e /\ \A i \in 1 .. n : z[i] = s[i]
  BY AppendProperties, LenProperties
<1>2. row \in BalanceEventRow /\ row.entry = e /\ row.version = version + 1
  BY DEF BalanceEventRow
<1>. HIDE DEF row
<1>3. Len(y) = n + 1 /\ y[n + 1] = row /\ \A i \in 1 .. n : y[i] = events[i]
  BY <1>2, AppendProperties, LenProperties DEF Rebuild
<1>. HIDE DEF n, y, z
<1>4. \A i \in 1 .. n : events[i].entry = s[i] /\ events[i].version = version - (n - i)
  BY DEF Rebuild, n
<1>v. version \in Nat /\ \A i \in 1 .. n : version + 1 - (n + 1 - i) = version - (n - i)
  BY <1>1
<1>5. \A i \in 1 .. n : y[i].entry = z[i] /\ y[i].version = version + 1 - (n + 1 - i)
  BY <1>1, <1>3, <1>4, <1>v
<1>6. \A i \in 1 .. n + 1 : y[i].entry = z[i] /\ y[i].version = version + 1 - (n + 1 - i)
  BY <1>1, <1>2, <1>3, <1>5
<1>7. Rebuild(y, z, version + 1)
  BY <1>1, <1>3, <1>6 DEF Rebuild
<1>. QED
  BY <1>7 DEF y, z, row

MoneyInv ==
  /\ LedgerChained
  /\ BalanceEventsRebuildWallet
  /\ \A w \in Wallets : ~Opened(w) => ledger[w] = <<>>

\* Money moves in two places only.
LEMMA OnlyTwoMove ==
  ASSUME Inv, [Next]_vars
  PROVE  NoMovement \/ (\E p \in Procs : Settle(p)) \/ (\E o \in Openings : OpenWallet(o))
<1>1. ASSUME NEW c \in Calls, CallStep(c) PROVE NoMovement
  BY <1>1 DEF CallStep, SelectByExternalID, SelectByKey, ReplayOrConflict,
     ReplayCurrentBalance, LockWallet, TryInsertIdempotency, SettleLoss, RecordLoss, Park,
     ParkPendingReference, Goto, db, NoMovement
<1>2. ASSUME NEW r \in Resolvers, ResolverStep(r) PROVE NoMovement
  BY <1>2 DEF ResolverStep, ClaimPendingReferencesDue, LoadPending, ReadRetry,
     ReadOrphanWallet, RejectOrphan,
     PersistRejection, LockForResolve, Recheck, RetryLater, ScheduleRetry, Goto, db, NoMovement
<1>3. ASSUME NEW r \in Resolvers, CrashWorker(r) PROVE NoMovement
  BY <1>3 DEF CrashWorker, db, NoMovement
<1>4. ASSUME NEW p \in Procs, SharedStep(p) PROVE NoMovement \/ Settle(p)
  BY <1>4 DEF SharedStep, ReadReference, ReadReversal, RejectAndPersist, PersistRejection,
     FailDecision, Goto, db, NoMovement
<1>5. ASSUME NEW p \in Procs, Abort(p) PROVE NoMovement
  BY <1>5 DEF Abort, db, NoMovement
<1>6. ASSUME NEW t \in Calls, NextAttemptDue(t) \/ DeadlinePasses(t) PROVE NoMovement
  BY <1>6 DEF NextAttemptDue, DeadlinePasses, NoMovement
<1>7. CASE UNCHANGED vars
  BY <1>7 DEF vars, NoMovement
<1>. QED
  BY <1>1, <1>2, <1>3, <1>4, <1>5, <1>6, <1>7 DEF Next, Quiescent

\* One wallet's books before and after a movement.
LEMMA BooksKept ==
  ASSUME Inv, MoneyInv, NEW w \in Wallets, NEW e \in LedgerEntry, Arithmetic(e),
         e.before = Before(ledger[w], Len(ledger[w]) + 1),
         PostMovement(w, e, wallets[w].version + 1),
         wallets'[w].balance = e.after, wallets'[w].version = wallets[w].version + 1,
         \A x \in Wallets \ {w} : wallets'[x] = wallets[x]
  PROVE  MoneyInv'
<1>1. ledger \in [Wallets -> Seq(LedgerEntry)] /\ balanceEvents \in [Wallets -> Seq(BalanceEventRow)]
  BY DEF Inv, TypeOK
<1>2. wallets[w].version \in Nat
  BY DEF Inv, TypeOK, WalletRow
<1>3. /\ ledger'[w] = Append(ledger[w], e)
      /\ balanceEvents'[w] = Append(balanceEvents[w],
                                    [entry |-> e, version |-> wallets[w].version + 1])
      /\ \A x \in Wallets \ {w} : ledger'[x] = ledger[x] /\ balanceEvents'[x] = balanceEvents[x]
  BY <1>1 DEF PostMovement
<1>4. Chained(ledger[w], Before(ledger[w], Len(ledger[w]) + 1))
  BY DEF MoneyInv, LedgerChained, Chained
<1>5. Chained(ledger'[w], wallets'[w].balance)
  BY <1>1, <1>3, <1>4, ChainExtended
<1>6. Rebuild(balanceEvents[w], ledger[w], wallets[w].version)
  BY DEF MoneyInv, BalanceEventsRebuildWallet
<1>7. Rebuild(balanceEvents'[w], ledger'[w], wallets'[w].version)
  BY <1>1, <1>2, <1>3, <1>6, RebuildExtended
<1>8. \A x \in Wallets \ {w} :
        /\ Chained(ledger'[x], wallets'[x].balance)
        /\ Rebuild(balanceEvents'[x], ledger'[x], wallets'[x].version)
        /\ wallets'[x].version > 0 \/ ledger'[x] = <<>>
  BY <1>3 DEF MoneyInv, LedgerChained, BalanceEventsRebuildWallet, Opened
<1>9. wallets'[w].version > 0
  BY <1>2
<1>. QED
  BY <1>5, <1>7, <1>8, <1>9 DEF MoneyInv, LedgerChained, BalanceEventsRebuildWallet, Opened

LEMMA SettleKeepsBooks ==
  ASSUME Inv, MoneyInv, NEW p \in Procs, Settle(p)
  PROVE  MoneyInv'
<1>. DEFINE id == WalletOf(p)
            after == BalanceAfter(Decision(p), held[p].balance, req[TxOf(p)].amount)
            e == Entry(TxOf(p), Decision(p).act, req[TxOf(p)].amount, held[p].balance, after)
<1>1. /\ pc[p] = "decide" /\ Decision(p).act \in {"credit", "debit"}
      /\ CommitMovement(TxOf(p), held[p], Decision(p), seen[p].tx) /\ UNCHANGED req
  BY DEF Settle
<1>2. Moves(TxOf(p), p)
  BY <1>1, CommitMovementSound
<1>3. id \in Wallets /\ held[p] = wallets[id] /\ held[p] \in WalletRow
  <2>1. Locked(p)
    BY <1>1 DEF Locked
  <2>. QED
    BY <1>1, <2>1, AtWork DEF Inv, LockedReadsStayFresh, TypeOK
<1>4. e \in LedgerEntry /\ Arithmetic(e) /\ e.before = held[p].balance /\ e.after = after
  <2>1. e \in LedgerEntry
    BY <1>2 DEF Moves
  <2>2. /\ e.dir = Decision(p).act /\ e.amount = req[TxOf(p)].amount
        /\ e.before = held[p].balance /\ e.after = after
    BY DEF Entry
  <2>3. /\ after = IF e.dir = "credit" THEN e.before + e.amount ELSE e.before - e.amount
        /\ after \in Amount
    <3>. HIDE DEF e
    <3>. QED
      BY <1>1, <2>2, DecisionSound
  <2>. HIDE DEF e, after
  <2>. QED
    BY <2>1, <2>2, <2>3 DEF Arithmetic, Amount
<1>5. PostMovement(id, e, wallets[id].version + 1)
  BY <1>2, <1>3 DEF Moves, WalletOf
<1>6. wallets' = [wallets EXCEPT ![id].balance = e.after, ![id].version = wallets[id].version + 1]
  BY <1>2, <1>3 DEF Moves, WalletOf
<1>. HIDE DEF id, e, after
<1>7. /\ wallets'[id].balance = e.after /\ wallets'[id].version = wallets[id].version + 1
      /\ \A x \in Wallets \ {id} : wallets'[x] = wallets[x]
  BY <1>3, <1>6 DEF Inv, TypeOK, WalletRow
<1>8. e.before = Before(ledger[id], Len(ledger[id]) + 1)
  BY <1>3, <1>4 DEF MoneyInv, LedgerChained, Chained
<1>. QED
  BY <1>3, <1>4, <1>5, <1>7, <1>8, BooksKept

LEMMA OpenWalletKeepsBooks ==
  ASSUME Inv, MoneyInv, NEW o \in Openings, OpenWallet(o)
  PROVE  MoneyInv'
<1>. DEFINE w == o.wallet
            e == Entry(w, "credit", o.initial, 0, o.initial)
<1>1. w \in Wallets /\ w \in TxIds /\ o.initial \in Amount
  BY OpeningsAssumption DEF TxIds, Amount
<1>2. /\ wallets[w].version = 0 /\ ledger[w] = <<>>
      /\ wallets'[w].balance = o.initial /\ wallets'[w].version = 1
      /\ \A x \in Wallets \ {w} : wallets'[x] = wallets[x]
  <2>1. ~Opened(w) /\ wallets' = [wallets EXCEPT ![w] =
          [player |-> o.player, currency |-> o.currency,
           balance |-> o.initial, version |-> 1]]
    BY DEF OpenWallet
  <2>2. wallets[w].version \in Nat /\ wallets \in [Wallets -> WalletRow]
    BY <1>1 DEF Inv, TypeOK, WalletRow
  <2>. HIDE DEF w
  <2>3. wallets[w].version = 0
    BY <2>1, <2>2 DEF Opened
  <2>4. ledger[w] = <<>>
    BY <1>1, <2>1 DEF MoneyInv
  <2>. QED
    BY <1>1, <2>1, <2>2, <2>3, <2>4
<1>3. CASE o.initial > 0
  <2>1. e \in LedgerEntry
    BY <1>1, <1>3, MinorRangeAssumption DEF Entry, LedgerEntry, Amount
  <2>2. e.before = 0 /\ e.after = o.initial /\ e.dir = "credit" /\ e.amount = o.initial
    BY DEF Entry
  <2>3. PostMovement(w, e, 1)
    BY <1>3 DEF OpenWallet
  <2>. HIDE DEF e, w
  <2>4. Arithmetic(e)
    BY <1>3, <2>2, <1>1 DEF Arithmetic, Amount
  <2>5. e.before = Before(ledger[w], Len(ledger[w]) + 1)
    BY <1>2, <2>2 DEF Before
  <2>. QED
    BY <1>1, <1>2, <2>1, <2>2, <2>3, <2>4, <2>5, BooksKept
<1>4. CASE ~(o.initial > 0)
  <2>1. UNCHANGED <<ledger, balanceEvents>> /\ o.initial = 0
    <3>1. UNCHANGED <<ledger, balanceEvents>>
      BY <1>4 DEF OpenWallet
    <3>2. o.initial = 0
      BY <1>1, <1>4 DEF Amount
    <3>. QED
      BY <3>1, <3>2
  <2>2. Len(balanceEvents[w]) = 0 /\ Len(ledger[w]) = 0
    BY <1>1, <1>2 DEF MoneyInv, BalanceEventsRebuildWallet, Rebuild
  <2>3. Chained(ledger[w], 0) /\ Rebuild(balanceEvents[w], ledger[w], 1)
    BY <2>2 DEF Chained, Rebuild, Before
  <2>. HIDE DEF w
  <2>4. \A x \in Wallets : /\ Chained(ledger[x], wallets'[x].balance)
                           /\ Rebuild(balanceEvents[x], ledger[x], wallets'[x].version)
                           /\ wallets'[x].version > 0 \/ ledger[x] = <<>>
    BY <1>2, <2>1, <2>3 DEF MoneyInv, LedgerChained, BalanceEventsRebuildWallet, Opened
  <2>. QED
    BY <2>1, <2>4 DEF MoneyInv, LedgerChained, BalanceEventsRebuildWallet, Opened
<1>. QED
  BY <1>3, <1>4

LEMMA InitMoney == Init => MoneyInv
<1>. SUFFICES ASSUME Init PROVE MoneyInv
  OBVIOUS
<1>1. \A w \in Wallets : /\ ledger[w] = <<>> /\ balanceEvents[w] = <<>>
                         /\ wallets[w].balance = 0
  BY DEF Init, NoWallet
<1>. QED
  BY <1>1 DEF MoneyInv, LedgerChained, Chained, Before, BalanceEventsRebuildWallet, Rebuild

LEMMA NextMoney == Inv /\ MoneyInv /\ [Next]_vars => MoneyInv'
<1>. SUFFICES ASSUME Inv, MoneyInv, [Next]_vars PROVE MoneyInv'
  OBVIOUS
<1>1. CASE NoMovement
  BY <1>1 DEF NoMovement, MoneyInv, LedgerChained, BalanceEventsRebuildWallet, Opened
<1>2. CASE \E p \in Procs : Settle(p)
  BY <1>2, SettleKeepsBooks
<1>3. CASE \E o \in Openings : OpenWallet(o)
  BY <1>3, OpenWalletKeepsBooks
<1>. QED
  BY <1>1, <1>2, <1>3, OnlyTwoMove

LEMMA SpecMoney == Spec => [](Inv /\ MoneyInv)
BY InitInv, NextInv, InitMoney, NextMoney, PTL DEF Spec

(* Every ledger is an unbroken chain from zero to the balance of its       *)
(* wallet, whatever calls, workers, crashes and lapsed leases do.          *)
THEOREM LedgerAlwaysChained == Spec => []LedgerChained
<1>1. MoneyInv => LedgerChained
  BY DEF MoneyInv
<1>. QED
  BY <1>1, SpecMoney, PTL

(* The WalletBalanceChanged events of a wallet always are its ledger, in   *)
(* order, with versions that count up to the wallet's.                     *)
THEOREM BalanceEventsAlwaysRebuild == Spec => []BalanceEventsRebuildWallet
<1>1. MoneyInv => BalanceEventsRebuildWallet
  BY DEF MoneyInv
<1>. QED
  BY <1>1, SpecMoney, PTL

-----------------------------------------------------------------------------
(* What a process knows of the rows of calls *)

\* A row that is in the table, or in a transaction that has not ended.
Holds(c) == Committed(c) \/ InFlight(c)

\* No other row has the identity of call c.
Free(c) == \A d \in Calls : Holds(d) => ~SameKey(req[d], req[c]) /\ ~SameExternalID(req[d], req[c])

IdentityHeldOnce ==
  \A c, d \in Calls : Holds(c) /\ Holds(d) /\ c # d =>
    ~SameKey(req[c], req[d]) /\ ~SameExternalID(req[c], req[d])

Deciding == {"readRef", "readReversal", "decide"}

\* A reversal that p has found to be in order.
InOrder(p) ==
  /\ seen[p].tx # None /\ seen[p].status = "PROCESSED" /\ ~seen[p].reversed
  /\ ReferenceMismatch(req[TxOf(p)], req[seen[p].tx]) = ""

KnowsRows(p) ==
  /\ p \in Calls /\ Committed(p) => pc[p] = "done"
  /\ p \in Resolvers /\ pc[p] \in Deciding => txs[target[p]].status = "PENDING_REFERENCE"
  /\ p \in Resolvers /\ pc[p] \in {"orphan", "rejectOrphan"} =>
       txs[target[p]].status # "PENDING_REFERENCE"
  /\ seen[p].tx # None => pc[p] \in {"replay", "readReversal", "decide"}
  /\ p \in Calls /\ pc[p] = "readRef" => NeedsReference(req[p].kind)
  /\ p \in Calls /\ pc[p] \in Deciding /\ seen[p].tx # None => NeedsReference(req[p].kind)
  /\ pc[p] = "decide" /\ InOrder(p) => ~ProcessedReversal(seen[p].tx)

RowInv ==
  /\ \A p \in Procs : KnowsRows(p)
  /\ IdentityHeldOnce
  /\ WaitersHaveRetryRow

LEMMA KindsOfProcess ==
  ASSUME NEW p \in Procs
  PROVE  \/ p \in Calls /\ p \notin Resolvers /\ TxOf(p) = p
         \/ p \in Resolvers /\ p \notin Calls /\ TxOf(p) = target[p]
BY ProcessAssumption DEF Procs, TxOf

-----------------------------------------------------------------------------
(* The four kinds of step *)

\* No row of a call changes, nor what anybody knows of them.
LEMMA StepElsewhere ==
  ASSUME Inv, RowInv, UNCHANGED <<req, pc, seen, target>>,
         \A c \in Calls : txs'[c] = txs[c] /\ retries'[c].present = retries[c].present
  PROVE  RowInv'
<1>1. \A c \in Calls : (Holds(c)' <=> Holds(c)) /\ (Committed(c)' <=> Committed(c))
  BY DEF Holds, Committed, InFlight
<1>2. IdentityHeldOnce' /\ WaitersHaveRetryRow'
  BY <1>1 DEF RowInv, IdentityHeldOnce, WaitersHaveRetryRow
<1>3. ASSUME NEW p \in Procs PROVE KnowsRows(p)'
  <2>1. KnowsRows(p)
    BY DEF RowInv
  <2>2. TxOf(p)' = TxOf(p)
    BY DEF TxOf
  <2>3. p \in Resolvers /\ pc[p] # "idle" => target[p] \in Calls
    BY DEF Inv, ProcsAtWork
  <2>4. InOrder(p)' <=> InOrder(p)
    BY <2>2 DEF InOrder
  <2>5. ProcessedReversal(seen[p].tx)' <=> ProcessedReversal(seen[p].tx)
    BY DEF ProcessedReversal
  <2>. QED
    BY <1>1, <2>1, <2>3, <2>4, <2>5 DEF KnowsRows, Deciding
<1>. QED
  BY <1>2, <1>3 DEF RowInv

\* p goes on inside its transaction: the database is only read.
LEMMA StepReads ==
  ASSUME Inv, RowInv, NEW p \in Procs, NEW label, Goto(p, label), pc[p] # "done",
         \A q \in Procs \ {p} : seen'[q] = seen[q],
         \A q \in Resolvers \ {p} : target'[q] = target[q],
         p \in Calls /\ label \in Deciding => InFlight(p) \/ Free(p),
         p \in Resolvers /\ label \in Deciding => txs[target'[p]].status = "PENDING_REFERENCE",
         p \in Resolvers /\ label \in {"orphan", "rejectOrphan"} =>
           txs[target'[p]].status # "PENDING_REFERENCE",
         seen'[p].tx # None => label \in {"replay", "readReversal", "decide"},
         p \in Calls /\ label = "readRef" => NeedsReference(req[p].kind),
         p \in Calls /\ label \in Deciding /\ seen'[p].tx # None => NeedsReference(req[p].kind),
         label = "decide" /\ InOrder(p)' => ~ProcessedReversal(seen'[p].tx)
  PROVE  RowInv'
<1>1. /\ UNCHANGED <<req, txs, retries>> /\ pc'[p] = label
      /\ \A q \in Procs \ {p} : pc'[q] = pc[q]
  BY DEF Goto, db, Inv, TypeOK
<1>2. \A c \in Calls : Committed(c)' <=> Committed(c)
  BY <1>1 DEF Committed
<1>3. WaitersHaveRetryRow'
  BY <1>1 DEF RowInv, WaitersHaveRetryRow
<1>4. \A c \in Calls : Holds(c)' => Holds(c) \/ (c = p /\ Free(p))
  <2>1. \A c \in Calls : c \in Procs
    BY DEF Procs
  <2>. QED
    BY <1>1, <1>2, <2>1 DEF Holds, InFlight, Deciding
<1>5. IdentityHeldOnce'
  BY <1>1, <1>4 DEF RowInv, IdentityHeldOnce, Free, SameKey, SameExternalID
<1>6. ASSUME NEW q \in Procs PROVE KnowsRows(q)'
  <2>1. KnowsRows(q)
    BY DEF RowInv
  <2>2. ProcessedReversal(seen[q].tx)' <=> \E t \in Calls :
          /\ txs[t].status = "PROCESSED" /\ txs[t].ref = seen'[q].tx
          /\ NeedsReference(req[t].kind)
    BY <1>1 DEF ProcessedReversal
  <2>3. CASE q = p
    <3>1. p \in Calls => ~Committed(p)
      BY <2>1, <2>3 DEF KnowsRows
    <3>. QED
      BY <1>1, <1>2, <2>2, <2>3, <3>1 DEF KnowsRows, ProcessedReversal
  <2>4. CASE q # p
    <3>1. pc'[q] = pc[q] /\ seen'[q] = seen[q] /\ (q \in Resolvers => target'[q] = target[q])
      BY <1>1, <2>4
    <3>2. TxOf(q)' = TxOf(q)
      BY <3>1 DEF TxOf, Procs
    <3>3. InOrder(q)' <=> InOrder(q)
      BY <1>1, <3>1, <3>2 DEF InOrder
    <3>. QED
      BY <1>1, <1>2, <2>1, <2>2, <3>1, <3>3 DEF KnowsRows, ProcessedReversal
  <2>. QED
    BY <2>3, <2>4
<1>. QED
  BY <1>3, <1>5, <1>6 DEF RowInv

\* The end of a transaction, as the rows see it.
LeavesRows(p) ==
  /\ pc'[p] = IF p \in Calls THEN "done" ELSE "idle"
  /\ seen'[p].tx = None
  /\ \A q \in Procs \ {p} : pc'[q] = pc[q] /\ seen'[q] = seen[q]
  /\ \A q \in Resolvers \ {p} : target'[q] = target[q]

\* p has ended: it knows nothing that could be wrong.
LEMMA GoneKnows ==
  ASSUME NEW p \in Procs, LeavesRows(p) PROVE KnowsRows(p)'
BY KindsOfProcess DEF LeavesRows, KnowsRows, InOrder, Deciding

\* A transaction ends, and no row of a call has got another outcome.
LEMMA StepLeaves ==
  ASSUME Inv, RowInv, NEW p \in Procs, LeavesRows(p), UNCHANGED <<req, txs>>,
         \A c \in Calls : retries'[c].present => retries[c].present \/ txs[c].status = "PENDING_REFERENCE",
         \A c \in Calls : retries[c].present => retries'[c].present
  PROVE  RowInv'
<1>1. \A c \in Calls : Committed(c)' <=> Committed(c)
  BY DEF Committed
<1>2. WaitersHaveRetryRow'
  BY DEF RowInv, WaitersHaveRetryRow
<1>3. \A c \in Calls : Holds(c)' => Holds(c)
  BY <1>1 DEF LeavesRows, Holds, InFlight, Procs
<1>4. IdentityHeldOnce'
  BY <1>3 DEF RowInv, IdentityHeldOnce
<1>5. ASSUME NEW q \in Procs, q # p PROVE KnowsRows(q)'
  <2>1. KnowsRows(q)
    BY DEF RowInv
  <2>2. pc'[q] = pc[q] /\ seen'[q] = seen[q] /\ (q \in Resolvers => target'[q] = target[q])
    BY <1>5 DEF LeavesRows
  <2>3. TxOf(q)' = TxOf(q)
    BY <2>2 DEF TxOf, Procs
  <2>4. InOrder(q)' <=> InOrder(q)
    BY <2>2, <2>3 DEF InOrder
  <2>5. ProcessedReversal(seen[q].tx)' <=> ProcessedReversal(seen[q].tx)
    BY <2>2 DEF ProcessedReversal
  <2>. QED
    BY <1>1, <2>1, <2>2, <2>4, <2>5 DEF KnowsRows
<1>. QED
  BY <1>2, <1>4, <1>5, GoneKnows DEF RowInv

\* Two open transactions that hold a wallet row are on different wallets.
LEMMA LocksAreExclusive ==
  ASSUME Inv, NEW p \in Procs, NEW q \in Procs, p # q, Locked(p), Locked(q)
  PROVE  WalletOf(p) # WalletOf(q)
BY DEF Inv, LockedReadsStayFresh

(* The outcome of the row that p works on: nobody else who has read that   *)
(* row, or who is about to reverse the same reference, is in the middle of *)
(* a transaction on that wallet.                                           *)
LEMMA StepWrites ==
  ASSUME Inv, RowInv, NEW p \in Procs, LeavesRows(p), UNCHANGED req,
         p \in Calls => pc[p] = "decide",
         p \in Resolvers => pc[p] \in {"decide", "rejectOrphan"},
         \A c \in Calls \ {TxOf(p)} :
           txs'[c] = txs[c] /\ retries'[c].present = retries[c].present,
         txs'[TxOf(p)].status \in {"PROCESSED", "REJECTED", "PENDING_REFERENCE"},
         txs'[TxOf(p)].status = "PENDING_REFERENCE" => p \in Calls,
         txs'[TxOf(p)].status = "PROCESSED" =>
           /\ pc[p] = "decide"
           /\ txs'[TxOf(p)].ref # None => InOrder(p) /\ txs'[TxOf(p)].ref = seen[p].tx,
         retries'[TxOf(p)].present <=> txs'[TxOf(p)].status = "PENDING_REFERENCE"
  PROVE  RowInv'
<1>. DEFINE t == TxOf(p)
<1>1. t \in Calls /\ Holds(t)
  <2>1. CASE p \in Calls
    BY <2>1 DEF TxOf, Holds, InFlight
  <2>2. CASE p \notin Calls
    BY <2>2 DEF TxOf, Procs, Holds, Inv, ProcsAtWork
  <2>. QED
    BY <2>1, <2>2
<1>. HIDE DEF t
<1>2. \A c \in Calls : Committed(c)' => Committed(c) \/ c = t
  BY DEF Committed, t
<1>3. \A c \in Calls : Holds(c)' => Holds(c)
  BY <1>1, <1>2 DEF LeavesRows, Holds, InFlight, Procs
<1>4. IdentityHeldOnce'
  BY <1>3 DEF RowInv, IdentityHeldOnce
<1>5. WaitersHaveRetryRow'
  BY DEF RowInv, WaitersHaveRetryRow, t
<1>6. ASSUME NEW q \in Procs, q # p PROVE KnowsRows(q)'
  <2>1. KnowsRows(q) /\ KnowsRows(p)
    BY DEF RowInv
  <2>2. pc'[q] = pc[q] /\ seen'[q] = seen[q] /\ (q \in Resolvers => target'[q] = target[q])
    BY <1>6 DEF LeavesRows
  <2>3. TxOf(q)' = TxOf(q)
    BY <2>2 DEF TxOf, Procs
  <2>4. InOrder(q)' <=> InOrder(q)
    BY <2>2, <2>3 DEF InOrder
  <2>5. q \in Calls /\ Committed(q)' => pc[q] = "done"
    <3>1. ASSUME q \in Calls, t = q PROVE Committed(q)
      <4>1. p \in Resolvers /\ target[p] = t
        BY <1>6, <3>1, KindsOfProcess DEF t
      <4>2. pc[p] # "idle"
        BY <4>1
      <4>. QED
        BY <3>1, <4>1, <4>2 DEF Inv, ProcsAtWork
    <3>. QED
      BY <3>1, <2>1, <1>2 DEF KnowsRows
  <2>6. ASSUME q \in Resolvers, pc[q] \in Deciding
        PROVE  target[q] # t
    <3>. SUFFICES ASSUME target[q] = t PROVE FALSE
      OBVIOUS
    <3>1. txs[t].status = "PENDING_REFERENCE" /\ Committed(t)
      BY <2>1, <2>6 DEF KnowsRows, Committed
    <3>2. CASE p \in Calls
      BY <3>1, <3>2, <2>1 DEF KnowsRows, t, TxOf
    <3>3. CASE p \in Resolvers /\ pc[p] = "rejectOrphan"
      BY <3>1, <3>3, <2>1, KindsOfProcess DEF KnowsRows, t
    <3>4. CASE p \in Resolvers /\ pc[p] = "decide"
      <4>1. WalletOf(p) = WalletOf(q)
        BY <2>6, KindsOfProcess DEF WalletOf, t
      <4>2. Locked(p) /\ Locked(q)
        BY <2>6, <3>4 DEF Locked, Deciding
      <4>. QED
        BY <4>1, <4>2, <1>6, LocksAreExclusive
    <3>. QED
      BY <3>2, <3>3, <3>4 DEF Procs
  <2>7. ASSUME q \in Resolvers, pc[q] \in {"orphan", "rejectOrphan"}, target[q] = t
        PROVE  txs'[t].status # "PENDING_REFERENCE"
    <3>1. Committed(t)
      BY <2>7 DEF Inv, ProcsAtWork
    <3>2. p \notin Calls
      BY <3>1, <2>1 DEF KnowsRows, t, TxOf
    <3>. QED
      BY <3>2 DEF t
  <2>8. ASSUME pc[q] = "decide", InOrder(q)
        PROVE  ~ProcessedReversal(seen[q].tx)'
    <3>1. ~ProcessedReversal(seen[q].tx)
      BY <2>1, <2>8 DEF KnowsRows
    <3>2. ASSUME txs'[t].status = "PROCESSED", txs'[t].ref = seen[q].tx PROVE FALSE
      <4>1. pc[p] = "decide" /\ InOrder(p) /\ seen[p].tx = seen[q].tx
        BY <2>8, <3>2 DEF InOrder, t
      <4>2. /\ req[seen[q].tx].wallet = req[TxOf(p)].wallet
            /\ req[seen[q].tx].wallet = req[TxOf(q)].wallet
        BY <2>8, <4>1 DEF InOrder, ReferenceMismatch
      <4>3. Locked(p) /\ Locked(q) /\ WalletOf(p) = WalletOf(q)
        BY <2>8, <4>1, <4>2 DEF Locked, WalletOf
      <4>. QED
        BY <4>3, <1>6, LocksAreExclusive
    <3>. QED
      BY <3>1, <3>2, <2>2 DEF ProcessedReversal, t
  <2>9. q \in Resolvers /\ pc[q] # "idle" => target[q] \in Calls
    BY DEF Inv, ProcsAtWork
  <2>10. q \in Resolvers /\ pc[q] \in Deciding => txs'[target[q]].status = "PENDING_REFERENCE"
    BY <2>1, <2>6, <2>9 DEF KnowsRows, Deciding, t
  <2>11. q \in Resolvers /\ pc[q] \in {"orphan", "rejectOrphan"} =>
           txs'[target[q]].status # "PENDING_REFERENCE"
    BY <2>1, <2>7, <2>9 DEF KnowsRows, t
  <2>. QED
    BY <2>1, <2>2, <2>4, <2>5, <2>8, <2>10, <2>11 DEF KnowsRows
<1>. QED
  BY <1>4, <1>5, <1>6, GoneKnows DEF RowInv

-----------------------------------------------------------------------------
(* The actions *)

LEMMA GoesIdleLeaves ==
  ASSUME Inv, NEW r \in Resolvers, GoesIdle(r) PROVE LeavesRows(r)
<1>1. r \in Procs /\ r \notin Calls
  BY ProcessAssumption DEF Procs
<1>2. seen'[r].tx = None /\ \A q \in Procs \ {r} : seen'[q] = seen[q]
  BY <1>1 DEF GoesIdle, Release, Unseen, Inv, TypeOK
<1>. QED
  BY <1>1, <1>2 DEF LeavesRows, GoesIdle, Inv, TypeOK

LEMMA EndCallLeaves ==
  ASSUME Inv, NEW c \in Calls, NEW answer, EndCall(c, answer) PROVE LeavesRows(c)
<1>1. c \in Procs /\ c \notin Resolvers
  BY ProcessAssumption DEF Procs
<1>2. seen'[c].tx = None /\ \A q \in Procs \ {c} : seen'[q] = seen[q]
  BY <1>1 DEF EndCall, Release, Unseen, Inv, TypeOK
<1>. QED
  BY <1>1, <1>2 DEF LeavesRows, EndCall, work, Inv, TypeOK

LEMMA FinishLeaves ==
  ASSUME Inv, NEW p \in Procs, NEW answer, Finish(p, answer) PROVE LeavesRows(p)
<1>1. CASE p \in Calls
  BY <1>1, EndCallLeaves DEF Finish
<1>2. CASE p \notin Calls
  BY <1>2, GoesIdleLeaves DEF Finish, EndResolve, GoesIdle, Procs
<1>. QED
  BY <1>1, <1>2

LEMMA LeavesUnwritten ==
  ASSUME Inv, RowInv, NEW p \in Procs, LeavesRows(p), UNCHANGED <<req, db>>
  PROVE  RowInv'
BY StepLeaves DEF db

LEMMA EndCallRows ==
  ASSUME Inv, RowInv, NEW c \in Calls, NEW answer, EndCall(c, answer), UNCHANGED <<req, db>>
  PROVE  RowInv'
BY EndCallLeaves, LeavesUnwritten DEF Procs

\* A call that has nothing in wager_transactions moves on.
LEMMA CallGoesRows ==
  ASSUME Inv, RowInv, NEW c \in Calls, NEW label \in {"byKey", "lock", "insert"},
         Goto(c, label), pc[c] \in {"begin", "byKey", "lock"}, UNCHANGED <<seen, work>>
  PROVE  RowInv'
<1>1. c \in Procs /\ c \notin Resolvers
  BY ProcessAssumption DEF Procs
<1>2. seen'[c].tx = None
  BY <1>1 DEF RowInv, KnowsRows
<1>3. target' = target /\ seen' = seen
  BY DEF work
<1>. QED
  BY <1>1, <1>2, <1>3, StepReads DEF Deciding

LEMMA ReplayOrConflictRows ==
  ASSUME Inv, RowInv, NEW c \in Calls, NEW d \in Calls, ReplayOrConflict(c, d), pc[c] # "done"
  PROVE  RowInv'
<1>1. CASE \E answer : EndCall(c, answer) /\ UNCHANGED <<req, db, faults>>
  BY <1>1, EndCallRows
<1>2. CASE \E row : /\ seen' = [seen EXCEPT ![c] = row]
                    /\ Goto(c, "replay")
                    /\ UNCHANGED <<locks, held, work>>
  <2>1. c \in Procs /\ c \notin Resolvers
    BY ProcessAssumption DEF Procs
  <2>2. target' = target /\ \A q \in Procs \ {c} : seen'[q] = seen[q]
    BY <1>2 DEF work, Inv, TypeOK
  <2>. QED
    BY <1>2, <2>1, <2>2, StepReads DEF Deciding
<1>. QED
  <2>1. CASE EndCall(c, Conflict) /\ UNCHANGED <<req, db, faults>>
    BY <1>1, <2>1
  <2>2. CASE /\ EndCall(c, Reply("replay", d, txs[d].status, txs[d].snap, req[d].currency))
             /\ UNCHANGED <<req, db, faults>>
    BY <1>1, <2>2
  <2>3. CASE /\ seen' = [seen EXCEPT ![c] =
                  [tx |-> d, status |-> txs[d].status, reversed |-> FALSE]]
             /\ Goto(c, "replay")
             /\ UNCHANGED <<locks, held, work>>
    BY <1>2, <2>3
  <2>. QED
    BY <2>1, <2>2, <2>3 DEF ReplayOrConflict

LEMMA SelectRows ==
  ASSUME Inv, RowInv, NEW c \in Calls, SelectByExternalID(c) \/ SelectByKey(c)
  PROVE  RowInv'
<1>1. CASE SelectByExternalID(c)
  BY <1>1, EndCallRows, CallGoesRows DEF SelectByExternalID
<1>2. CASE SelectByKey(c)
  BY <1>2, ReplayOrConflictRows, CallGoesRows DEF SelectByKey
<1>. QED
  BY <1>1, <1>2

LEMMA ReplayCurrentBalanceRows ==
  ASSUME Inv, RowInv, NEW c \in Calls, ReplayCurrentBalance(c) PROVE RowInv'
BY EndCallRows DEF ReplayCurrentBalance

LEMMA LockWalletRows ==
  ASSUME Inv, RowInv, NEW c \in Calls, LockWallet(c) PROVE RowInv'
BY EndCallRows, CallGoesRows DEF LockWallet

\* INSERT: the row is in flight from here on, and its identity was free.
LEMMA TryInsertRows ==
  ASSUME Inv, RowInv, NEW c \in Calls, TryInsertIdempotency(c) PROVE RowInv'
<1>1. pc[c] = "insert"
  BY DEF TryInsertIdempotency
<1>2. CASE \E d \in Calls : ReplayOrConflict(c, d)
  BY <1>1, <1>2, ReplayOrConflictRows
<1>3. CASE EndCall(c, Conflict) /\ UNCHANGED <<req, db, faults>>
  BY <1>3, EndCallRows
<1>4. CASE /\ \A d \in Calls : SameKey(req[d], req[c]) \/ SameExternalID(req[d], req[c])
                                 => ~Committed(d) /\ ~InFlight(d)
           /\ Goto(c, IF /\ NeedsReference(req[c].kind)
                         /\ held[c].player = req[c].player
                         /\ held[c].currency = req[c].currency
                      THEN "readRef" ELSE "decide")
           /\ UNCHANGED <<locks, held, seen, work>>
  <2>1. c \in Procs /\ c \notin Resolvers
    BY ProcessAssumption DEF Procs
  <2>2. Free(c)
    BY <1>4 DEF Free, Holds
  <2>3. seen[c].tx = None /\ UNCHANGED <<seen, target>>
    BY <1>1, <1>4, <2>1 DEF RowInv, KnowsRows, work
  <2>4. PICK label : /\ Goto(c, label) /\ label \in {"readRef", "decide"}
                     /\ label = "readRef" => NeedsReference(req[c].kind)
    BY <1>4
  <2>5. seen'[c].tx = None /\ ~InOrder(c)'
    BY <2>3 DEF InOrder
  <2>. QED
    BY <1>1, <2>1, <2>2, <2>3, <2>4, <2>5, StepReads
<1>. QED
  BY <1>2, <1>3, <1>4 DEF TryInsertIdempotency

\* The reference is read: one that may be reversed goes on to the reversal's query.
LEMMA ReadReferenceRows ==
  ASSUME Inv, RowInv, NEW p \in Procs, ReadReference(p) PROVE RowInv'
<1>1. pc[p] = "readRef" /\ KnowsRows(p) /\ UNCHANGED <<batch, target>>
  BY DEF ReadReference, RowInv, work
<1>2. p \in Calls => InFlight(p) /\ NeedsReference(req[p].kind)
  BY <1>1 DEF InFlight, KnowsRows
<1>3. p \in Resolvers => txs[target'[p]].status = "PENDING_REFERENCE"
  BY <1>1 DEF KnowsRows, Deciding
<1>4. CASE Goto(p, "decide") /\ UNCHANGED seen
  <2>1. seen'[p].tx = None /\ ~InOrder(p)'
    BY <1>1, <1>4 DEF KnowsRows, InOrder
  <2>. QED
    BY <1>1, <1>2, <1>3, <1>4, <2>1, StepReads
<1>5. ASSUME NEW d \in ReferenceRows(p),
             seen' = [seen EXCEPT ![p] = [tx |-> d, reversed |-> FALSE,
               status |-> IF Committed(d) THEN txs[d].status ELSE "PENDING"]],
             Goto(p, IF /\ txs[d].status = "PROCESSED"
                        /\ ReferenceMismatch(req[TxOf(p)], req[d]) = ""
                     THEN "readReversal" ELSE "decide")
      PROVE  RowInv'
  <2>1. /\ seen'[p].tx = d
        /\ seen'[p].status = IF Committed(d) THEN txs[d].status ELSE "PENDING"
        /\ \A q \in Procs \ {p} : seen'[q] = seen[q]
    BY <1>5 DEF Inv, TypeOK
  <2>2. CASE txs[d].status = "PROCESSED" /\ ReferenceMismatch(req[TxOf(p)], req[d]) = ""
    <3>1. Goto(p, "readReversal")
      BY <1>5, <2>2
    <3>. QED
      BY <1>1, <1>2, <1>3, <2>1, <3>1, StepReads
  <2>3. CASE ~(txs[d].status = "PROCESSED" /\ ReferenceMismatch(req[TxOf(p)], req[d]) = "")
    <3>1. Goto(p, "decide")
      BY <1>5, <2>3
    <3>2. UNCHANGED req /\ TxOf(p)' = TxOf(p)
      BY <1>1, <3>1 DEF Goto, TxOf
    <3>3. ~InOrder(p)'
      BY <2>1, <2>3, <3>2 DEF InOrder
    <3>. QED
      BY <1>1, <1>2, <1>3, <2>1, <3>1, <3>3, StepReads
  <2>. QED
    BY <2>2, <2>3
<1>. QED
  BY <1>4, <1>5 DEF ReadReference

LEMMA ReadReversalRows ==
  ASSUME Inv, RowInv, NEW p \in Procs, ReadReversal(p) PROVE RowInv'
<1>1. /\ pc[p] = "readReversal" /\ KnowsRows(p) /\ UNCHANGED <<batch, target>>
      /\ seen[p] \in SeenRow
  BY DEF ReadReversal, RowInv, work, Inv, TypeOK
<1>2. p \in Calls => InFlight(p)
  BY <1>1 DEF InFlight
<1>3. p \in Resolvers => txs[target'[p]].status = "PENDING_REFERENCE"
  BY <1>1 DEF KnowsRows, Deciding
<1>4. /\ seen'[p].tx = seen[p].tx
      /\ seen'[p].reversed = ProcessedReversal(seen[p].tx)
      /\ \A q \in Procs \ {p} : seen'[q] = seen[q]
  BY <1>1 DEF ReadReversal, SeenRow, Inv, TypeOK
<1>5. InOrder(p)' => ~ProcessedReversal(seen'[p].tx)
  BY <1>4 DEF InOrder
<1>6. p \in Calls /\ seen'[p].tx # None => NeedsReference(req[p].kind)
  BY <1>1, <1>4 DEF KnowsRows, Deciding
<1>7. Goto(p, "decide")
  BY DEF ReadReversal
<1>. QED
  BY <1>1, <1>2, <1>3, <1>4, <1>5, <1>6, <1>7, StepReads

\* A verdict that moves money for a reversal has found it in order.
LEMMA ReversalInOrder ==
  ASSUME Inv, RowInv, NEW p \in Procs, pc[p] = "decide", seen[p].tx # None,
         NEW raw, raw = IF p \in Calls THEN CallVerdict(p) ELSE WorkerVerdict(p),
         raw.act \in {"credit", "debit"}
  PROVE  InOrder(p)
<1>1. ReferenceVerdict(p).act \in {"credit", "debit"} => InOrder(p)
  BY DEF ReferenceVerdict, ReversalVerdict, Verdict, Reject, InOrder, IsTerminal
<1>2. CASE p \in Calls
  <2>1. NeedsReference(req[p].kind)
    BY <1>2 DEF RowInv, KnowsRows, Deciding
  <2>2. raw \in {Reject("PLAYER_WALLET_MISMATCH"), Reject("CURRENCY_MISMATCH"), ReferenceVerdict(p)}
    BY <1>2, <2>1 DEF CallVerdict
  <2>. QED
    BY <1>1, <2>2 DEF Reject, Verdict
<1>3. CASE p \notin Calls
  <2>1. raw \in {Reject("REFERENCE_NOT_FOUND"), ReferenceVerdict(p)}
    BY <1>3 DEF WorkerVerdict
  <2>. QED
    BY <1>1, <2>1 DEF Reject, Verdict
<1>. QED
  BY <1>2, <1>3

\* Funds only turn a movement into a refusal.
LEMMA DecisionMoves ==
  ASSUME Inv, RowInv, NEW p \in Procs, pc[p] = "decide", seen[p].tx # None,
         Decision(p).act \in {"credit", "debit"}
  PROVE  InOrder(p)
<1>1. PICK raw : raw = IF p \in Calls THEN CallVerdict(p) ELSE WorkerVerdict(p)
  OBVIOUS
<1>2. PICK v : v = Funded(raw, held[p].balance, req[TxOf(p)].amount)
  OBVIOUS
<1>3. v.act \in {"credit", "debit"}
  <2>1. Decision(p) = v \/ Decision(p) = Verdict("fail", "")
    BY <1>1, <1>2 DEF Decision
  <2>2. Verdict("fail", "").act = "fail"
    BY DEF Verdict
  <2>3. CASE Decision(p) = v
    BY <2>3
  <2>4. CASE Decision(p) = Verdict("fail", "")
    <3>1. Decision(p).act = "fail"
      BY <2>2, <2>4
    <3>. QED
      BY <3>1
  <2>. QED
    BY <2>1, <2>3, <2>4
<1>4. raw.act \in {"credit", "debit"}
  BY <1>2, <1>3 DEF Funded, Reject, Verdict
<1>. QED
  BY <1>1, <1>4, ReversalInOrder

LEMMA SettleRows ==
  ASSUME Inv, RowInv, NEW p \in Procs, Settle(p) PROVE RowInv'
<1>1. PICK after, answer :
        /\ pc[p] = "decide" /\ Decision(p).act \in {"credit", "debit"}
        /\ RecordOutcome(TxOf(p), Row("PROCESSED", "", seen[p].tx, after),
                         WagerEvent("Processed", "", after))
        /\ DeleteRetry(TxOf(p))
        /\ Finish(p, answer) /\ UNCHANGED <<req, faults>>
  BY DEF Settle, CommitMovement
<1>2. TxOf(p) \in Calls /\ TxOf(p) \in TxIds
  BY <1>1, AtWork DEF TxIds
<1>3. /\ txs'[TxOf(p)].status = "PROCESSED" /\ txs'[TxOf(p)].ref = seen[p].tx
      /\ \A c \in Calls \ {TxOf(p)} : txs'[c] = txs[c]
  BY <1>1, <1>2 DEF RecordOutcome, Row, Inv, TypeOK, TxIds
<1>4. /\ ~retries'[TxOf(p)].present
      /\ \A c \in Calls \ {TxOf(p)} : retries'[c] = retries[c]
  BY <1>1, <1>2 DEF DeleteRetry, NoRetry, Inv, TypeOK
<1>5. seen[p].tx # None => InOrder(p)
  BY <1>1, DecisionMoves
<1>6. LeavesRows(p)
  BY <1>1, FinishLeaves
<1>. QED
  BY <1>1, <1>3, <1>4, <1>5, <1>6, StepWrites

\* A rejection, by a transaction or by the worker that found no retry row.
LEMMA RejectionRows ==
  ASSUME Inv, RowInv, NEW p \in Procs, NEW code, NEW balance,
         PersistRejection(TxOf(p), code, balance), LeavesRows(p), UNCHANGED req,
         p \in Calls => pc[p] = "decide",
         p \in Resolvers => pc[p] \in {"decide", "rejectOrphan"}
  PROVE  RowInv'
<1>1. TxOf(p) \in Calls /\ TxOf(p) \in TxIds
  <2>1. p \in Calls \/ pc[p] # "idle"
    BY DEF Procs
  <2>. QED
    BY <2>1, AtWork DEF TxIds
<1>2. /\ txs'[TxOf(p)].status = "REJECTED"
      /\ \A c \in Calls \ {TxOf(p)} : txs'[c] = txs[c]
  BY <1>1 DEF PersistRejection, RecordOutcome, Row, Inv, TypeOK, TxIds
<1>3. /\ ~retries'[TxOf(p)].present
      /\ \A c \in Calls \ {TxOf(p)} : retries'[c] = retries[c]
  BY <1>1 DEF PersistRejection, DeleteRetry, NoRetry, Inv, TypeOK
<1>. QED
  BY <1>2, <1>3, StepWrites

LEMMA RejectRows ==
  ASSUME Inv, RowInv, NEW p \in Procs, RejectAndPersist(p) PROVE RowInv'
<1>1. PICK answer : pc[p] = "decide" /\ Finish(p, answer) /\ UNCHANGED req
  BY DEF RejectAndPersist
<1>. QED
  BY <1>1, FinishLeaves, RejectionRows DEF RejectAndPersist

LEMMA EndResolveLeaves ==
  ASSUME Inv, NEW r \in Resolvers, EndResolve(r) PROVE LeavesRows(r)
BY GoesIdleLeaves DEF EndResolve, GoesIdle

LEMMA RejectOrphanRows ==
  ASSUME Inv, RowInv, NEW r \in Resolvers, RejectOrphan(r) PROVE RowInv'
<1>1. r \in Procs /\ r \notin Calls /\ TxOf(r) = target[r]
  BY ProcessAssumption DEF Procs, TxOf
<1>. QED
  BY <1>1, EndResolveLeaves, RejectionRows DEF RejectOrphan

LEMMA SettleLossRows ==
  ASSUME Inv, RowInv, NEW c \in Calls, SettleLoss(c) PROVE RowInv'
<1>1. /\ c \in Procs /\ c \notin Resolvers /\ TxOf(c) = c /\ c \in TxIds
      /\ pc[c] = "decide" /\ UNCHANGED <<req, retries>>
  BY ProcessAssumption DEF SettleLoss, RecordLoss, Procs, TxOf, TxIds
<1>2. LeavesRows(c)
  BY <1>1, FinishLeaves DEF SettleLoss
<1>3. /\ txs'[c].status = "PROCESSED" /\ txs'[c].ref = None
      /\ \A d \in Calls \ {c} : txs'[d] = txs[d]
  BY <1>1 DEF SettleLoss, RecordLoss, RecordOutcome, Row, Inv, TypeOK, TxIds
<1>4. ~retries[c].present
  <2>1. ~Committed(c)
    BY <1>1 DEF RowInv, KnowsRows
  <2>. QED
    BY <2>1 DEF RowInv, WaitersHaveRetryRow, Committed
<1>. QED
  BY <1>1, <1>2, <1>3, <1>4, StepWrites

LEMMA ParkRows ==
  ASSUME Inv, RowInv, NEW c \in Calls, Park(c) PROVE RowInv'
<1>1. /\ c \in Procs /\ c \notin Resolvers /\ TxOf(c) = c /\ c \in TxIds
      /\ pc[c] = "decide" /\ UNCHANGED req
  BY ProcessAssumption DEF Park, Procs, TxOf, TxIds
<1>2. LeavesRows(c)
  BY <1>1, FinishLeaves DEF Park
<1>3. /\ txs'[c].status = "PENDING_REFERENCE"
      /\ \A d \in Calls \ {c} : txs'[d] = txs[d]
  BY <1>1 DEF Park, ParkPendingReference, RecordOutcome, Row, Inv, TypeOK, TxIds
<1>4. /\ retries'[c].present
      /\ \A d \in Calls \ {c} : retries'[d] = retries[d]
  BY <1>1 DEF Park, ParkPendingReference, Waiting, Inv, TypeOK
<1>. QED
  BY <1>1, <1>2, <1>3, <1>4, StepWrites

LEMMA RetryLaterRows ==
  ASSUME Inv, RowInv, NEW r \in Resolvers, RetryLater(r) PROVE RowInv'
<1>1. r \in Procs /\ pc[r] = "decide" /\ UNCHANGED <<req, txs>> /\ target[r] \in Calls
  BY DEF RetryLater, ScheduleRetry, Procs, Inv, ProcsAtWork
<1>2. txs[target[r]].status = "PENDING_REFERENCE"
  BY <1>1 DEF RowInv, KnowsRows, Deciding
<1>3. retries'[target[r]].present /\ \A d \in Calls \ {target[r]} : retries'[d] = retries[d]
  BY <1>1 DEF RetryLater, ScheduleRetry, Waiting, Inv, TypeOK
<1>4. LeavesRows(r)
  BY EndResolveLeaves DEF RetryLater
<1>. QED
  BY <1>1, <1>2, <1>3, <1>4, StepLeaves

\* A worker moves on to the next statement of its protocol.
LEMMA ResolverGoesRows ==
  ASSUME Inv, RowInv, NEW r \in Resolvers, NEW label, Goto(r, label), UNCHANGED seen,
         pc[r] \in {"idle", "retry", "orphan", "lock", "recheck"},
         \A q \in Resolvers \ {r} : target'[q] = target[q],
         label \in {"retry", "orphan", "rejectOrphan", "lock", "recheck", "readRef"},
         label = "readRef" => txs[target'[r]].status = "PENDING_REFERENCE",
         label \in {"orphan", "rejectOrphan"} => txs[target'[r]].status # "PENDING_REFERENCE"
  PROVE  RowInv'
<1>1. r \in Procs /\ r \notin Calls
  BY ProcessAssumption DEF Procs
<1>2. seen'[r].tx = None
  BY <1>1 DEF RowInv, KnowsRows
<1>. QED
  BY <1>1, <1>2, StepReads DEF Deciding

LEMMA LoadPendingRows ==
  ASSUME Inv, RowInv, NEW r \in Resolvers, LoadPending(r) PROVE RowInv'
<1>1. PICK t \in batch[r] :
        IF txs[t].status = "PENDING_REFERENCE"
        THEN /\ pc' = [pc EXCEPT ![r] = "retry"]
             /\ target' = [target EXCEPT ![r] = t]
             /\ UNCHANGED batch
        ELSE /\ batch' = [batch EXCEPT ![r] = @ \ {t}]
             /\ UNCHANGED <<pc, target>>
  BY DEF LoadPending
<1>2. /\ pc[r] = "idle"
      /\ UNCHANGED <<req, wallets, txs, ledger, retries, wagerEvents, balanceEvents,
                     seen, reply, faults>>
  BY DEF LoadPending, db
<1>3. CASE txs[t].status = "PENDING_REFERENCE"
  <2>1. Goto(r, "retry") /\ target' = [target EXCEPT ![r] = t]
    BY <1>1, <1>2, <1>3 DEF Goto, db
  <2>2. \A q \in Resolvers \ {r} : target'[q] = target[q]
    BY <2>1 DEF Inv, TypeOK
  <2>. QED
    BY <1>2, <2>1, <2>2, ResolverGoesRows
<1>4. CASE txs[t].status # "PENDING_REFERENCE"
  <2>1. UNCHANGED <<pc, target>>
    BY <1>1, <1>4
  <2>. QED
    BY <1>2, <2>1, StepElsewhere
<1>. QED
  BY <1>3, <1>4

\* No retry row: the transaction that was waiting has been decided meanwhile.
LEMMA ReadRetryRows ==
  ASSUME Inv, RowInv, NEW r \in Resolvers, ReadRetry(r) PROVE RowInv'
<1>1. /\ pc[r] = "retry" /\ target[r] \in Calls /\ UNCHANGED <<seen, target>>
  BY DEF ReadRetry, Inv, ProcsAtWork
<1>2. CASE retries[target[r]].present
  <2>1. Goto(r, "lock")
    BY <1>2 DEF ReadRetry
  <2>. QED
    BY <1>1, <2>1, ResolverGoesRows
<1>3. CASE ~retries[target[r]].present
  <2>1. Goto(r, "orphan")
    BY <1>3 DEF ReadRetry
  <2>2. txs[target[r]].status # "PENDING_REFERENCE"
    BY <1>1, <1>3 DEF RowInv, WaitersHaveRetryRow
  <2>. QED
    BY <1>1, <2>1, <2>2, ResolverGoesRows
<1>. QED
  BY <1>2, <1>3

LEMMA ReadOrphanWalletRows ==
  ASSUME Inv, RowInv, NEW r \in Resolvers, ReadOrphanWallet(r) PROVE RowInv'
<1>1. /\ pc[r] = "orphan" /\ UNCHANGED <<seen, target>> /\ Goto(r, "rejectOrphan")
  BY DEF ReadOrphanWallet, work
<1>2. txs[target[r]].status # "PENDING_REFERENCE"
  BY <1>1, KindsOfProcess DEF RowInv, KnowsRows, Procs
<1>. QED
  BY <1>1, <1>2, ResolverGoesRows

LEMMA LockForResolveRows ==
  ASSUME Inv, RowInv, NEW r \in Resolvers, LockForResolve(r) PROVE RowInv'
<1>1. pc[r] = "lock" /\ UNCHANGED <<seen, target>> /\ Goto(r, "recheck")
  BY DEF LockForResolve, work
<1>. QED
  BY <1>1, ResolverGoesRows

LEMMA RecheckRows ==
  ASSUME Inv, RowInv, NEW r \in Resolvers, Recheck(r) PROVE RowInv'
<1>1. pc[r] = "recheck" /\ r \in Procs
  BY DEF Recheck, Procs
<1>2. CASE txs[target[r]].status = "PENDING_REFERENCE"
  <2>1. Goto(r, "readRef") /\ UNCHANGED <<seen, target>>
    BY <1>2 DEF Recheck, work
  <2>. QED
    BY <1>1, <1>2, <2>1, ResolverGoesRows
<1>3. CASE txs[target[r]].status # "PENDING_REFERENCE"
  <2>1. EndResolve(r) /\ UNCHANGED <<req, db>>
    BY <1>3 DEF Recheck
  <2>. QED
    BY <1>1, <2>1, EndResolveLeaves, LeavesUnwritten
<1>. QED
  BY <1>2, <1>3

\* Claims and the clock write retry rows that stay where they are.
LEMMA RetryRowsRows ==
  ASSUME Inv, RowInv,
         \/ \E r \in Resolvers : ClaimPendingReferencesDue(r)
         \/ \E t \in Calls : NextAttemptDue(t) \/ DeadlinePasses(t)
  PROVE  RowInv'
<1>0. \A t \in Calls : retries[t] \in RetryRow
  BY DEF Inv, TypeOK
<1>1. UNCHANGED <<req, pc, seen, target, txs>>
  BY DEF ClaimPendingReferencesDue, NextAttemptDue, DeadlinePasses, work
<1>2. \A t \in Calls : retries'[t].present = retries[t].present
  <2>1. ASSUME NEW r \in Resolvers, ClaimPendingReferencesDue(r),
               NEW t \in Calls
        PROVE  retries'[t].present = retries[t].present
    <3>1. retries'[t] \in {[retries[t] EXCEPT !.due = FALSE], retries[t]}
      BY <2>1 DEF ClaimPendingReferencesDue
    <3>. QED
      BY <1>0, <3>1 DEF RetryRow
  <2>2. ASSUME NEW u \in Calls, NextAttemptDue(u), NEW t \in Calls
        PROVE  retries'[t].present = retries[t].present
    BY <1>0, <2>2 DEF NextAttemptDue, Inv, TypeOK, RetryRow
  <2>3. ASSUME NEW u \in Calls, DeadlinePasses(u), NEW t \in Calls
        PROVE  retries'[t].present = retries[t].present
    BY <1>0, <2>3 DEF DeadlinePasses, Inv, TypeOK, RetryRow
  <2>. QED
    BY <2>1, <2>2, <2>3
<1>. QED
  BY <1>1, <1>2, StepElsewhere

LEMMA OpenWalletRows ==
  ASSUME Inv, RowInv, NEW o \in Openings, OpenWallet(o) PROVE RowInv'
<1>1. UNCHANGED <<req, pc, seen, target, retries>>
  BY DEF OpenWallet, work
<1>2. \A c \in Calls : txs'[c] = txs[c]
  <2>1. \A c \in Calls : c # o.wallet
    BY OpeningsAssumption, ProcessAssumption
  <2>. QED
    BY <2>1 DEF OpenWallet, RecordOutcome, Inv, TypeOK, TxIds
<1>. QED
  BY <1>1, <1>2, StepElsewhere

LEMMA EndRows ==
  ASSUME Inv, RowInv,
         \/ \E p \in Procs : FailDecision(p) \/ Abort(p)
         \/ \E r \in Resolvers : CrashWorker(r)
  PROVE  RowInv'
<1>1. CASE \E p \in Procs : FailDecision(p) \/ Abort(p)
  BY <1>1, FinishLeaves, LeavesUnwritten DEF FailDecision, Abort
<1>2. CASE \E r \in Resolvers : CrashWorker(r)
  BY <1>2, GoesIdleLeaves, LeavesUnwritten DEF CrashWorker, GoesIdle, Procs
<1>. QED
  BY <1>1, <1>2

LEMMA InitRows == Init => RowInv
<1>. SUFFICES ASSUME Init PROVE RowInv
  OBVIOUS
<1>1. \A c \in Calls : /\ ~Committed(c) /\ ~InFlight(c) /\ ~retries[c].present
                       /\ txs[c].status = "NONE"
  BY DEF Init, Committed, InFlight, NoTx, NoRetry, TxIds, Procs
<1>2. \A p \in Procs : seen[p].tx = None /\ pc[p] \in {"begin", "idle"}
  BY DEF Init, Unseen
<1>. QED
  BY <1>1, <1>2 DEF RowInv, KnowsRows, Deciding, InOrder, IdentityHeldOnce, Holds, WaitersHaveRetryRow

LEMMA NextRows == Inv /\ RowInv /\ [Next]_vars => RowInv'
<1>. SUFFICES ASSUME Inv, RowInv, [Next]_vars PROVE RowInv'
  OBVIOUS
<1>1. ASSUME NEW o \in Openings, OpenWallet(o) PROVE RowInv'
  BY <1>1, OpenWalletRows
<1>2. ASSUME NEW c \in Calls, CallStep(c) PROVE RowInv'
  BY <1>2, SelectRows, ReplayCurrentBalanceRows, LockWalletRows, TryInsertRows,
     SettleLossRows, ParkRows DEF CallStep
<1>3. ASSUME NEW r \in Resolvers, ResolverStep(r) PROVE RowInv'
  BY <1>3, RetryRowsRows, LoadPendingRows, ReadRetryRows, ReadOrphanWalletRows,
     RejectOrphanRows, LockForResolveRows, RecheckRows, RetryLaterRows DEF ResolverStep
<1>4. ASSUME NEW p \in Procs, SharedStep(p) PROVE RowInv'
  BY <1>4, ReadReferenceRows, ReadReversalRows, SettleRows, RejectRows, EndRows DEF SharedStep
<1>5. CASE \/ \E r \in Resolvers : CrashWorker(r)
           \/ \E p \in Procs : Abort(p)
           \/ \E t \in Calls : NextAttemptDue(t) \/ DeadlinePasses(t)
  BY <1>5, EndRows, RetryRowsRows
<1>6. CASE UNCHANGED vars
  BY <1>6, StepElsewhere DEF vars
<1>. QED
  BY <1>1, <1>2, <1>3, <1>4, <1>5, <1>6 DEF Next, Quiescent

LEMMA SpecRows == Spec => [](Inv /\ RowInv)
BY InitInv, NextInv, InitRows, NextRows, PTL DEF Spec

-----------------------------------------------------------------------------
(* However many calls race to insert it, a transaction is stored once: no  *)
(* two rows share a provider's key or external id (TryInsertIdempotency).  *)
THEOREM OneTransactionAlways == Spec => []OneTransactionPerIdentity
<1>1. RowInv => OneTransactionPerIdentity
  BY DEF RowInv, IdentityHeldOnce, Holds, OneTransactionPerIdentity
<1>. QED
  BY <1>1, SpecRows, PTL

(* A transaction waits for its reference as long as it has a retry row, in *)
(* every interleaving of calls and workers, lapsed leases included.        *)
THEOREM WaitersAlwaysHaveRetryRow == Spec => []WaitersHaveRetryRow
<1>1. RowInv => WaitersHaveRetryRow
  BY DEF RowInv
<1>. QED
  BY <1>1, SpecRows, PTL

\* A verdict never is a failure before the funds and the guards are looked at.
LEMMA OnlyMovementsFail ==
  ASSUME NEW p \in Procs, NEW raw, raw = IF p \in Calls THEN CallVerdict(p) ELSE WorkerVerdict(p)
  PROVE  raw.act # "fail"
<1>1. ReferenceVerdict(p).act # "fail"
  BY DEF ReferenceVerdict, ReversalVerdict, Verdict, Reject
<1>2. CallVerdict(p).act # "fail"
  BY <1>1 DEF CallVerdict, SimpleVerdict, Reject, Verdict
<1>3. WorkerVerdict(p).act # "fail"
  BY <1>1 DEF WorkerVerdict, Reject, Verdict
<1>. QED
  BY <1>2, <1>3

(* The version guard of UPDATE wallets and the unique index on reversals   *)
(* never have anything to refuse: the wallet lock does all the work.       *)
THEOREM BackstopsAreNeverNeeded == Spec => []BackstopsNeverNeeded
<1>1. ASSUME Inv, RowInv, NEW p \in Procs, pc[p] = "decide", Decision(p).act = "fail"
      PROVE  ~Backstopped(p)
  <2>1. wallets[WalletOf(p)].version = held[p].version
    BY <1>1 DEF Inv, LockedReadsStayFresh, Locked
  <2>2. ASSUME seen[p].tx # None, ProcessedReversal(seen[p].tx) PROVE FALSE
    <3>1. PICK raw : raw = IF p \in Calls THEN CallVerdict(p) ELSE WorkerVerdict(p)
      OBVIOUS
    <3>2. PICK v : v = Funded(raw, held[p].balance, req[TxOf(p)].amount)
      OBVIOUS
    <3>3. v.act \in {"credit", "debit", "fail"}
      <4>1. v.act \in {"credit", "debit"} \/ Decision(p) = v
        BY <3>1, <3>2 DEF Decision
      <4>2. CASE Decision(p) = v
        BY <4>2, <1>1
      <4>. QED
        BY <4>1, <4>2
    <3>4. raw.act \in {"credit", "debit"}
      <4>1. raw.act # "fail"
        BY <3>1, OnlyMovementsFail
      <4>2. CASE v = Reject(raw.code)
        BY <4>2, <3>3 DEF Reject, Verdict
      <4>3. CASE v = raw
        BY <4>1, <4>3, <3>3
      <4>4. CASE raw.act = "credit"
        BY <4>4
      <4>. QED
        BY <3>2, <4>2, <4>3, <4>4 DEF Funded
    <3>5. InOrder(p)
      BY <1>1, <2>2, <3>1, <3>4, ReversalInOrder
    <3>. QED
      BY <1>1, <2>2, <3>5 DEF RowInv, KnowsRows
  <2>. QED
    BY <2>1, <2>2 DEF Backstopped
<1>2. Inv /\ RowInv => BackstopsNeverNeeded
  BY <1>1 DEF BackstopsNeverNeeded
<1>. QED
  BY <1>2, SpecRows, PTL
=============================================================================
