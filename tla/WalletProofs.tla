---------------------------- MODULE WalletProofs ----------------------------
(***************************************************************************)
(* The inductive invariant of the write path, for every number of calls,   *)
(* workers and wallets and every width of the integers: the types of the   *)
(* variables, and the copy of its wallet that a transaction decides from.  *)
(* Then who holds a wallet row, and so who may wait for whom.              *)
(***************************************************************************)
EXTENDS WalletSafety, SequenceTheorems, TLAPS

-----------------------------------------------------------------------------
(* The checked arithmetic *)

(* A movement that Funded lets through is the verdict itself, and leaves   *)
(* the exact sum or difference in the wallet, inside the range of money.   *)
LEMMA FundedMovement ==
  ASSUME NEW v, NEW balance \in Amount, NEW amount \in Amount,
         Funded(v, balance, amount).act \in {"credit", "debit"}
  PROVE  /\ Funded(v, balance, amount) = v
         /\ BalanceAfter(v, balance, amount) =
              IF v.act = "credit" THEN balance + amount ELSE balance - amount
         /\ BalanceAfter(v, balance, amount) \in Amount
<1>1. Funded(v, balance, amount) = v
  BY DEF Funded, Reject, Verdict
<1>2. MaxMinor \in Nat /\ MinMinor = -MaxMinor - 1
  BY MinorRangeAssumption
<1>3. CASE v.act = "credit"
  <2>1. AddChecked(balance, amount).ok
    BY <1>1, <1>3 DEF Funded, Verdict
  <2>2. AddChecked(balance, amount) = Exactly(balance + amount) /\ balance + amount \in Amount
    BY <2>1, <1>2 DEF AddChecked, Overflow, Exactly, Amount
  <2>. QED
    BY <1>1, <1>3, <2>2 DEF BalanceAfter, Exactly
<1>4. CASE v.act = "debit"
  <2>1. ~(balance < amount)
    BY <1>1, <1>4 DEF Funded, Reject, Verdict
  <2>2. SubChecked(balance, amount) = Exactly(balance - amount) /\ balance - amount \in Amount
    BY <2>1, <1>2 DEF SubChecked, Overflow, Exactly, Amount
  <2>. QED
    BY <1>1, <1>4, <2>2 DEF BalanceAfter, Exactly
<1>. QED
  BY <1>1, <1>3, <1>4

(* Every verdict has one of six forms and a known failure code.            *)
Verdicts == [act : {"credit", "debit", "loss", "reject", "wait", "fail"}, code : Codes]

LEMMA RejectSound ==
  \A code \in {"PLAYER_WALLET_MISMATCH", "CURRENCY_MISMATCH", "REFERENCE_NOT_FOUND"} :
    Reject(code) \in Verdicts /\ Reject(code).act = "reject"
BY DEF Reject, Verdict, Verdicts, Codes

LEMMA ReversalVerdictSound ==
  ASSUME NEW r \in Ops, NEW ref \in Ops, NEW status, NEW reversed
  PROVE  /\ ReversalVerdict(r, ref, status, reversed) \in Verdicts
         /\ ReversalVerdict(r, ref, status, reversed).act # "loss"
         /\ ReversalVerdict(r, ref, status, reversed).act \in {"credit", "debit"} =>
              r.amount > 0
<1>1. ReferenceMismatch(r, ref) \in Codes
  BY DEF ReferenceMismatch, Codes
<1>2. ReferenceMismatch(r, ref) = "" => ref.amount = r.amount
  BY DEF ReferenceMismatch
<1>3. ref.kind \in {"BET", "WIN", "REFUND"} => ref.amount > 0
  BY OpsAssumption DEF ValidateExternalKindAmount, IsPositive
<1>. QED
  BY <1>1, <1>2, <1>3 DEF ReversalVerdict, Verdict, Reject, Verdicts, Codes

LEMMA SimpleVerdictSound ==
  ASSUME NEW r \in Ops, ~NeedsReference(r.kind)
  PROVE  /\ SimpleVerdict(r) \in Verdicts
         /\ SimpleVerdict(r).act \in {"credit", "debit"} => r.amount > 0
<1>1. r.kind \in {"BET", "WIN", "LOSS"}
  BY OpsAssumption DEF ExternalKinds, NeedsReference
<1>2. r.kind \in {"BET", "WIN"} => r.amount > 0
  BY OpsAssumption DEF ValidateExternalKindAmount, IsPositive
<1>. QED
  BY <1>1, <1>2 DEF SimpleVerdict, Verdict, Verdicts, Codes

-----------------------------------------------------------------------------
(* The inductive invariant.  TypeOK is not inductive alone: a worker that  *)
(* is busy has a target, a replay has a row to read from, and an open      *)
(* transaction decides from a copy of its wallet that is still current.    *)

ProcsAtWork ==
  /\ \A r \in Resolvers : pc[r] # "idle" => target[r] \in Calls /\ Committed(target[r])
  /\ \A c \in Calls : pc[c] = "replay" => seen[c].tx \in Calls
  /\ \A c \in Calls : Committed(c) => Opened(req[c].wallet)

Inv == TypeOK /\ ProcsAtWork /\ LockedReadsStayFresh

DbTypeOK ==
  /\ req \in [Calls -> Ops]
  /\ wallets \in [Wallets -> WalletRow]
  /\ txs \in [TxIds -> TxRow]
  /\ ledger \in [Wallets -> Seq(LedgerEntry)]
  /\ retries \in [Calls -> RetryRow]
  /\ wagerEvents \in [TxIds -> Seq(WagerEventRow)]
  /\ balanceEvents \in [Wallets -> Seq(BalanceEventRow)]

ProcsTypeOK ==
  /\ locks \in [Wallets -> Procs \cup {None}]
  /\ pc \in [Procs -> CallLabels \cup ResolverLabels]
  /\ \A c \in Calls : pc[c] \in CallLabels
  /\ \A r \in Resolvers : pc[r] \in ResolverLabels
  /\ held \in [Procs -> WalletRow]
  /\ seen \in [Procs -> SeenRow]
  /\ reply \in [Calls -> ReplyRow]
  /\ batch \in [Resolvers -> SUBSET Calls]
  /\ target \in [Resolvers -> Calls \cup {None}]
  /\ retrySeen \in [Resolvers -> RetryRow]

LEMMA TypeOKParts == TypeOK <=> DbTypeOK /\ ProcsTypeOK /\ faults \in 0 .. MaxFaults
  BY DEF TypeOK, DbTypeOK, ProcsTypeOK

\* A process that has a transaction open works on a known request and wallet.
LEMMA AtWork ==
  ASSUME Inv, NEW p \in Procs, p \in Calls \/ pc[p] # "idle"
  PROVE  /\ TxOf(p) \in Calls
         /\ req[TxOf(p)] \in Ops
         /\ req[TxOf(p)].amount \in Amount
         /\ WalletOf(p) \in Wallets
<1>1. TxOf(p) \in Calls
  BY DEF Inv, ProcsAtWork, Procs, TxOf
<1>2. req[TxOf(p)] \in Ops
  BY <1>1 DEF Inv, TypeOK
<1>. QED
  BY <1>1, <1>2, OpsAssumption DEF WalletOf, Amount

\* No row is a wallet of nobody: the constants of the empty records have their types.
LEMMA EmptyRows ==
  /\ NoWallet \in WalletRow /\ NoTx \in TxRow /\ NoRetry \in RetryRow
  /\ Unseen \in SeenRow /\ NoReply \in ReplyRow
  /\ Conflict \in ReplyRow /\ Error \in ReplyRow
<1>1. MaxMinor \in Nat /\ 0 \in Amount
  BY MinorRangeAssumption DEF Amount
<1>2. NoWallet \in WalletRow
  BY <1>1 DEF NoWallet, WalletRow, Players, Currencies
<1>3. NoTx \in TxRow
  BY DEF NoTx, TxRow, AnyStatus, Codes, Snapshot
<1>4. NoReply \in ReplyRow /\ Conflict \in ReplyRow /\ Error \in ReplyRow
  BY DEF NoReply, Conflict, Error, ReplyRow, AnyStatus, Snapshot, Currencies
<1>. QED
  BY <1>2, <1>3, <1>4 DEF NoRetry, RetryRow, Unseen, SeenRow, AnyStatus

-----------------------------------------------------------------------------
(* What the helpers do to the types *)

LEMMA DecisionSound ==
  ASSUME Inv, NEW p \in Procs, pc[p] = "decide"
  PROVE  /\ Decision(p) \in Verdicts
         /\ Decision(p).act \in {"credit", "debit"} =>
              /\ req[TxOf(p)].amount \in 1 .. MaxMinor
              /\ BalanceAfter(Decision(p), held[p].balance, req[TxOf(p)].amount) =
                   IF Decision(p).act = "credit"
                   THEN held[p].balance + req[TxOf(p)].amount
                   ELSE held[p].balance - req[TxOf(p)].amount
              /\ BalanceAfter(Decision(p), held[p].balance, req[TxOf(p)].amount) \in Amount
              /\ ~Backstopped(p)
<1>. DEFINE raw == IF p \in Calls THEN CallVerdict(p) ELSE WorkerVerdict(p)
            v == Funded(raw, held[p].balance, req[TxOf(p)].amount)
<1>1. TxOf(p) \in Calls /\ req[TxOf(p)] \in Ops /\ req[TxOf(p)].amount \in Amount
  BY AtWork
<1>2. held[p].balance \in Amount /\ seen[p] \in SeenRow
  BY DEF Inv, TypeOK, WalletRow
<1>3. seen[p].tx # None => req[seen[p].tx] \in Ops
  BY <1>2 DEF Inv, TypeOK, SeenRow
<1>4. /\ ReferenceVerdict(p) \in Verdicts
      /\ ReferenceVerdict(p).act \in {"credit", "debit"} => req[TxOf(p)].amount > 0
  <2>1. CASE seen[p].tx = None
    BY <2>1 DEF ReferenceVerdict, Verdict, Verdicts, Codes
  <2>2. CASE seen[p].tx # None
    BY <2>2, <1>1, <1>3, ReversalVerdictSound DEF ReferenceVerdict
  <2>. QED
    BY <2>1, <2>2
<1>5. /\ raw \in Verdicts
      /\ raw.act \in {"credit", "debit"} => req[TxOf(p)].amount > 0
  <2>1. CASE p \in Calls
    <3>1. TxOf(p) = p
      BY <2>1 DEF TxOf
    <3>2. ~NeedsReference(req[p].kind) =>
            /\ SimpleVerdict(req[p]) \in Verdicts
            /\ SimpleVerdict(req[p]).act \in {"credit", "debit"} => req[p].amount > 0
      BY <1>1, <3>1, SimpleVerdictSound
    <3>3. raw = CallVerdict(p)
      BY <2>1
    <3>4. \/ raw = Reject("PLAYER_WALLET_MISMATCH")
          \/ raw = Reject("CURRENCY_MISMATCH")
          \/ raw = ReferenceVerdict(p)
          \/ ~NeedsReference(req[p].kind) /\ raw = SimpleVerdict(req[p])
      BY <3>3 DEF CallVerdict
    <3>. HIDE DEF raw
    <3>. QED
      BY <3>1, <3>2, <3>4, <1>4, RejectSound
  <2>2. CASE p \notin Calls
    <3>1. raw = Reject("REFERENCE_NOT_FOUND") \/ raw = ReferenceVerdict(p)
      BY <2>2 DEF WorkerVerdict
    <3>. HIDE DEF raw
    <3>. QED
      BY <3>1, <1>4, RejectSound
  <2>. QED
    BY <2>1, <2>2
<1>6. v \in Verdicts
  BY <1>5 DEF Funded, Reject, Verdict, Verdicts, Codes
<1>7. Decision(p) = IF v.act \in {"credit", "debit"} /\ Backstopped(p)
                    THEN Verdict("fail", "") ELSE v
  BY DEF Decision
<1>. HIDE DEF raw, v
<1>8. Decision(p) \in Verdicts
  <2>1. Verdict("fail", "") \in Verdicts
    BY DEF Verdict, Verdicts, Codes
  <2>. QED
    BY <2>1, <1>6, <1>7
<1>9. ASSUME Decision(p).act \in {"credit", "debit"}
      PROVE  Decision(p) = v /\ v = raw /\ ~Backstopped(p)
  <2>1. Decision(p) = v /\ ~Backstopped(p)
    <3>1. Verdict("fail", "").act \notin {"credit", "debit"}
      BY DEF Verdict
    <3>. QED
      BY <3>1, <1>7, <1>9
  <2>. QED
    BY <2>1, <1>9, <1>1, <1>2, FundedMovement DEF v
<1>10. ASSUME Decision(p).act \in {"credit", "debit"}
       PROVE  /\ BalanceAfter(Decision(p), held[p].balance, req[TxOf(p)].amount) =
                   IF Decision(p).act = "credit"
                   THEN held[p].balance + req[TxOf(p)].amount
                   ELSE held[p].balance - req[TxOf(p)].amount
              /\ BalanceAfter(Decision(p), held[p].balance, req[TxOf(p)].amount) \in Amount
  <2>1. Funded(raw, held[p].balance, req[TxOf(p)].amount) = raw
    BY <1>9, <1>10 DEF v
  <2>. QED
    BY <2>1, <1>9, <1>10, <1>1, <1>2, FundedMovement
<1>. QED
  BY <1>1, <1>5, <1>8, <1>9, <1>10, MinorRangeAssumption DEF Amount

\* COMMIT or ROLLBACK: p lets go of its row and its state, nobody else's changes.
Departs(p) ==
  /\ pc'[p] \in {"done", "idle"}
  /\ \A q \in Procs \ {p} : pc'[q] = pc[q] /\ held'[q] = held[q] /\ seen'[q] = seen[q]
  /\ \A q \in Resolvers \ {p} : target'[q] = target[q]
  /\ \A w \in Wallets : locks[w] # p => locks'[w] = locks[w]

LEMMA ReleaseTypes ==
  ASSUME ProcsTypeOK, NEW p \in Procs, Release(p)
  PROVE  /\ locks' \in [Wallets -> Procs \cup {None}]
         /\ held' \in [Procs -> WalletRow]
         /\ seen' \in [Procs -> SeenRow]
BY EmptyRows DEF ProcsTypeOK, Release

LEMMA EndCallSound ==
  ASSUME ProcsTypeOK, NEW c \in Calls, NEW answer \in ReplyRow, EndCall(c, answer)
  PROVE  ProcsTypeOK' /\ Departs(c)
<1>1. c \in Procs /\ Resolvers \subseteq Procs /\ c \notin Resolvers
  BY ProcessAssumption DEF Procs
<1>2. /\ locks' \in [Wallets -> Procs \cup {None}]
      /\ held' \in [Procs -> WalletRow]
      /\ seen' \in [Procs -> SeenRow]
  BY <1>1, ReleaseTypes DEF EndCall
<1>3. pc' = [pc EXCEPT ![c] = "done"] /\ reply' = [reply EXCEPT ![c] = answer]
  BY DEF EndCall
<1>4. /\ pc' \in [Procs -> CallLabels \cup ResolverLabels]
      /\ \A d \in Calls : pc'[d] \in CallLabels
      /\ \A r \in Resolvers : pc'[r] \in ResolverLabels
  BY <1>1, <1>3 DEF ProcsTypeOK, CallLabels, Procs
<1>5. batch' = batch /\ target' = target /\ retrySeen' = retrySeen
  BY DEF EndCall, work
<1>6. ProcsTypeOK'
  BY <1>2, <1>3, <1>4, <1>5 DEF ProcsTypeOK
<1>7. Departs(c)
  BY <1>1, <1>3, <1>5 DEF Departs, EndCall, Release, ProcsTypeOK
<1>. QED
  BY <1>6, <1>7

\* A worker goes idle: at the end of a transaction or when it is restarted.
GoesIdle(r) ==
  /\ Release(r)
  /\ pc' = [pc EXCEPT ![r] = "idle"]
  /\ target' = [target EXCEPT ![r] = None]
  /\ retrySeen' = [retrySeen EXCEPT ![r] = NoRetry]
  /\ UNCHANGED reply

LEMMA GoesIdleSound ==
  ASSUME ProcsTypeOK, NEW r \in Resolvers, GoesIdle(r),
         batch' \in [Resolvers -> SUBSET Calls]
  PROVE  ProcsTypeOK' /\ Departs(r)
<1>1. r \in Procs /\ Calls \subseteq Procs /\ r \notin Calls
  BY ProcessAssumption DEF Procs
<1>2. /\ locks' \in [Wallets -> Procs \cup {None}]
      /\ held' \in [Procs -> WalletRow]
      /\ seen' \in [Procs -> SeenRow]
  BY <1>1, ReleaseTypes DEF GoesIdle
<1>3. /\ pc' \in [Procs -> CallLabels \cup ResolverLabels]
      /\ \A c \in Calls : pc'[c] \in CallLabels
      /\ \A q \in Resolvers : pc'[q] \in ResolverLabels
  BY <1>1 DEF GoesIdle, ProcsTypeOK, ResolverLabels, Procs
<1>4. target' \in [Resolvers -> Calls \cup {None}] /\ retrySeen' \in [Resolvers -> RetryRow]
  BY EmptyRows DEF GoesIdle, ProcsTypeOK
<1>5. ProcsTypeOK'
  BY <1>2, <1>3, <1>4 DEF GoesIdle, ProcsTypeOK
<1>6. Departs(r)
  BY <1>1 DEF Departs, GoesIdle, Release, ProcsTypeOK, Procs
<1>. QED
  BY <1>5, <1>6

LEMMA EndResolveSound ==
  ASSUME ProcsTypeOK, NEW r \in Resolvers, EndResolve(r)
  PROVE  ProcsTypeOK' /\ Departs(r)
<1>1. GoesIdle(r) /\ batch' = [batch EXCEPT ![r] = @ \ {target[r]}]
  BY DEF EndResolve, GoesIdle
<1>2. batch' \in [Resolvers -> SUBSET Calls]
  BY <1>1 DEF ProcsTypeOK
<1>. QED
  BY <1>1, <1>2, GoesIdleSound

LEMMA FinishSound ==
  ASSUME ProcsTypeOK, NEW p \in Procs, NEW answer \in ReplyRow, Finish(p, answer)
  PROVE  ProcsTypeOK' /\ Departs(p)
<1>1. CASE p \in Calls
  BY <1>1, EndCallSound DEF Finish
<1>2. CASE p \notin Calls
  BY <1>2, EndResolveSound DEF Finish, Procs
<1>. QED
  BY <1>1, <1>2

-----------------------------------------------------------------------------
(* Writes *)

LEMMA RecordOutcomeTypes ==
  ASSUME DbTypeOK, NEW t \in TxIds, NEW row \in TxRow, NEW event \in WagerEventRow,
         RecordOutcome(t, row, event)
  PROVE  txs' \in [TxIds -> TxRow] /\ wagerEvents' \in [TxIds -> Seq(WagerEventRow)]
<1>1. Append(wagerEvents[t], event) \in Seq(WagerEventRow)
  BY AppendProperties DEF DbTypeOK
<1>. QED
  BY <1>1 DEF RecordOutcome, DbTypeOK

LEMMA PostMovementTypes ==
  ASSUME DbTypeOK, NEW w \in Wallets, NEW entry \in LedgerEntry, NEW version \in Nat,
         PostMovement(w, entry, version)
  PROVE  /\ ledger' \in [Wallets -> Seq(LedgerEntry)]
         /\ balanceEvents' \in [Wallets -> Seq(BalanceEventRow)]
<1>1. Append(ledger[w], entry) \in Seq(LedgerEntry)
  BY AppendProperties DEF DbTypeOK
<1>2. [entry |-> entry, version |-> version] \in BalanceEventRow
  BY DEF BalanceEventRow
<1>3. Append(balanceEvents[w], [entry |-> entry, version |-> version]) \in Seq(BalanceEventRow)
  BY <1>2, AppendProperties DEF DbTypeOK
<1>. QED
  BY <1>1, <1>3 DEF PostMovement, DbTypeOK

\* A row, its event and its retry row, for any outcome of a call's request.
LEMMA RowTypes ==
  ASSUME NEW code \in Codes, NEW status \in AnyStatus, NEW ref \in Calls \cup {None},
         NEW snap \in Snapshot, NEW type \in {"Processed", "Rejected", "PendingReference"}
  PROVE  /\ Row(status, code, ref, snap) \in TxRow
         /\ WagerEvent(type, code, snap) \in WagerEventRow
BY DEF Row, WagerEvent, TxRow, WagerEventRow

\* The writes of a settled transaction, seen from its own wallet and from any other.
Moves(t, w) ==
  LET id    == req[t].wallet
      entry == Entry(t, Decision(w).act, req[t].amount, held[w].balance,
                     BalanceAfter(Decision(w), held[w].balance, req[t].amount))
  IN /\ entry \in LedgerEntry
     /\ wallets' = [wallets EXCEPT ![id].balance = entry.after,
                                   ![id].version = held[w].version + 1]
     /\ PostMovement(id, entry, held[w].version + 1)

LEMMA CommitMovementSound ==
  ASSUME Inv, NEW p \in Procs, pc[p] = "decide", Decision(p).act \in {"credit", "debit"},
         CommitMovement(TxOf(p), held[p], Decision(p), seen[p].tx), UNCHANGED req
  PROVE  /\ DbTypeOK'
         /\ Moves(TxOf(p), p)
         /\ \A d \in Calls \ {TxOf(p)} : txs'[d] = txs[d]
<1>. DEFINE t == TxOf(p)
            id == req[t].wallet
            amount == req[t].amount
            after == BalanceAfter(Decision(p), held[p].balance, amount)
            entry == Entry(t, Decision(p).act, amount, held[p].balance, after)
<1>0. DbTypeOK /\ ProcsTypeOK
  BY TypeOKParts DEF Inv
<1>1. t \in Calls /\ id \in Wallets /\ t \in TxIds
  BY AtWork DEF WalletOf, TxIds
<1>2. amount \in 1 .. MaxMinor /\ after \in Amount
  BY DecisionSound
<1>3. held[p] \in WalletRow /\ seen[p].tx \in Calls \cup {None}
  BY <1>0 DEF ProcsTypeOK, SeenRow
<1>4. held[p].version + 1 \in Nat /\ held[p].balance \in Amount
  BY <1>3 DEF WalletRow
<1>5. entry \in LedgerEntry
  BY <1>1, <1>2, <1>4 DEF Entry, LedgerEntry
<1>6. /\ wallets' = [wallets EXCEPT ![id].balance = after, ![id].version = held[p].version + 1]
      /\ PostMovement(id, entry, held[p].version + 1)
      /\ RecordOutcome(t, Row("PROCESSED", "", seen[p].tx, after),
                       WagerEvent("Processed", "", after))
      /\ DeleteRetry(t)
  BY DEF CommitMovement
<1>7. entry.after = after
  BY DEF Entry
<1>. HIDE DEF t, id, amount, after, entry
<1>8. wallets' \in [Wallets -> WalletRow]
  <2>1. [wallets[id] EXCEPT !.balance = after, !.version = held[p].version + 1] \in WalletRow
    BY <1>0, <1>1, <1>2, <1>4 DEF DbTypeOK, WalletRow
  <2>. QED
    BY <2>1, <1>0, <1>1, <1>6 DEF DbTypeOK
<1>9. ledger' \in [Wallets -> Seq(LedgerEntry)] /\ balanceEvents' \in [Wallets -> Seq(BalanceEventRow)]
  BY <1>0, <1>1, <1>4, <1>5, <1>6, PostMovementTypes
<1>10. txs' \in [TxIds -> TxRow] /\ wagerEvents' \in [TxIds -> Seq(WagerEventRow)]
  <2>1. "" \in Codes /\ "PROCESSED" \in AnyStatus /\ after \in Snapshot
    BY <1>2 DEF Codes, AnyStatus, Statuses, Terminal, Snapshot
  <2>2. /\ Row("PROCESSED", "", seen[p].tx, after) \in TxRow
        /\ WagerEvent("Processed", "", after) \in WagerEventRow
    BY <2>1, <1>3, RowTypes
  <2>. QED
    BY <2>2, <1>0, <1>1, <1>6, RecordOutcomeTypes
<1>11. retries' \in [Calls -> RetryRow]
  BY <1>0, <1>1, <1>6, EmptyRows DEF DeleteRetry, DbTypeOK
<1>12. DbTypeOK'
  BY <1>0, <1>8, <1>9, <1>10, <1>11 DEF DbTypeOK
<1>13. \A d \in Calls \ {t} : txs'[d] = txs[d]
  BY <1>0, <1>6 DEF RecordOutcome, DbTypeOK, TxIds
<1>14. Moves(t, p)
  BY <1>5, <1>6, <1>7 DEF Moves, t, id, amount, after, entry
<1>. QED
  BY <1>12, <1>13, <1>14 DEF t

\* The other outcomes leave every wallet and ledger alone.
NoMovement == UNCHANGED <<wallets, ledger, balanceEvents>>

LEMMA PersistRejectionSound ==
  ASSUME DbTypeOK, NEW t \in Calls, NEW code \in Codes, NEW balance \in Amount,
         PersistRejection(t, code, balance), UNCHANGED req
  PROVE  DbTypeOK' /\ NoMovement /\ \A d \in Calls \ {t} : txs'[d] = txs[d]
<1>1. t \in TxIds /\ balance \in Snapshot /\ NoBalance \in Snapshot
  BY DEF TxIds, Snapshot
<1>2. /\ Row("REJECTED", code, None, balance) \in TxRow
      /\ WagerEvent("Rejected", code, NoBalance) \in WagerEventRow
  <2>1. "REJECTED" \in AnyStatus
    BY DEF AnyStatus, Statuses, Terminal
  <2>. QED
    BY <2>1, <1>1, RowTypes
<1>3. /\ RecordOutcome(t, Row("REJECTED", code, None, balance),
                       WagerEvent("Rejected", code, NoBalance))
      /\ DeleteRetry(t) /\ NoMovement
  BY DEF PersistRejection, NoMovement
<1>4. txs' \in [TxIds -> TxRow] /\ wagerEvents' \in [TxIds -> Seq(WagerEventRow)]
  BY <1>1, <1>2, <1>3, RecordOutcomeTypes
<1>5. retries' \in [Calls -> RetryRow]
  BY <1>3, EmptyRows DEF DeleteRetry, DbTypeOK
<1>. QED
  BY <1>1, <1>3, <1>4, <1>5 DEF DbTypeOK, NoMovement, RecordOutcome, TxIds

LEMMA RecordLossSound ==
  ASSUME DbTypeOK, NEW t \in Calls, NEW balance \in Amount, RecordLoss(t, balance),
         UNCHANGED req
  PROVE  DbTypeOK' /\ NoMovement /\ \A d \in Calls \ {t} : txs'[d] = txs[d]
<1>1. /\ t \in TxIds /\ balance \in Snapshot
      /\ "" \in Codes /\ "PROCESSED" \in AnyStatus
  BY DEF TxIds, Snapshot, Codes, AnyStatus, Statuses, Terminal
<1>2. /\ Row("PROCESSED", "", None, balance) \in TxRow
      /\ WagerEvent("Processed", "", balance) \in WagerEventRow
  BY <1>1, RowTypes
<1>3. txs' \in [TxIds -> TxRow] /\ wagerEvents' \in [TxIds -> Seq(WagerEventRow)]
  BY <1>1, <1>2, RecordOutcomeTypes DEF RecordLoss
<1>. QED
  BY <1>1, <1>3 DEF RecordLoss, DbTypeOK, NoMovement, RecordOutcome, TxIds

LEMMA ParkSound ==
  ASSUME DbTypeOK, NEW t \in Calls, ParkPendingReference(t), UNCHANGED req
  PROVE  DbTypeOK' /\ NoMovement /\ \A d \in Calls \ {t} : txs'[d] = txs[d]
<1>1. /\ t \in TxIds /\ NoBalance \in Snapshot
      /\ "" \in Codes /\ "PENDING_REFERENCE" \in AnyStatus
  BY DEF TxIds, Snapshot, Codes, AnyStatus, Statuses, Terminal
<1>2. /\ Row("PENDING_REFERENCE", "", None, NoBalance) \in TxRow
      /\ WagerEvent("PendingReference", "", NoBalance) \in WagerEventRow
  BY <1>1, RowTypes
<1>3. txs' \in [TxIds -> TxRow] /\ wagerEvents' \in [TxIds -> Seq(WagerEventRow)]
  BY <1>1, <1>2, RecordOutcomeTypes DEF ParkPendingReference
<1>4. retries' \in [Calls -> RetryRow]
  BY EmptyRows DEF ParkPendingReference, DbTypeOK, RetryRow, Waiting
<1>. QED
  BY <1>1, <1>3, <1>4 DEF ParkPendingReference, DbTypeOK, NoMovement, RecordOutcome, TxIds

LEMMA ScheduleRetrySound ==
  ASSUME DbTypeOK, NEW t \in Calls, NEW retry \in RetryRow, ScheduleRetry(t, retry),
         UNCHANGED req
  PROVE  DbTypeOK' /\ NoMovement /\ UNCHANGED txs
<1>1. Waiting(retry.attempts + 1, retries[t].expired) \in RetryRow
  <2>1. retry.attempts + 1 \in Nat
    BY DEF RetryRow
  <2>2. retries[t] \in RetryRow
    BY DEF DbTypeOK
  <2>3. retries[t].expired \in BOOLEAN /\ TRUE \in BOOLEAN /\ FALSE \in BOOLEAN
    BY <2>2, Zenon DEF RetryRow
  <2>. QED
    BY <2>1, <2>3, Zenon DEF Waiting, RetryRow
<1>. QED
  BY <1>1 DEF ScheduleRetry, DbTypeOK, NoMovement

-----------------------------------------------------------------------------
(* A step of one process and everybody else.  The invariant is a statement *)
(* about each process: a step of p that leaves the others' state and their *)
(* locked rows alone preserves it when it re-establishes p's own part.     *)

Own(p) ==
  /\ p \in Resolvers /\ pc[p] # "idle" => target[p] \in Calls /\ Committed(target[p])
  /\ p \in Calls /\ pc[p] = "replay" => seen[p].tx \in Calls
  /\ Locked(p) => /\ locks[WalletOf(p)] = p
                  /\ held[p] = wallets[WalletOf(p)]
                  /\ Opened(WalletOf(p))

OthersKept(p) ==
  /\ \A q \in Procs \ {p} : pc'[q] = pc[q] /\ held'[q] = held[q] /\ seen'[q] = seen[q]
  /\ \A q \in Resolvers \ {p} : target'[q] = target[q]
  /\ \A w \in Wallets : locks[w] \notin {None, p} => locks'[w] = locks[w]
  /\ \A w \in Wallets : locks[w] \notin {None, p} => wallets'[w] = wallets[w]

\* Rows and wallets appear and stay; a row appears only for an open wallet.
RowsStay ==
  /\ UNCHANGED req
  /\ \A w \in Wallets : Opened(w) => Opened(w)'
  /\ \A c \in Calls : Committed(c) => Committed(c)'
  /\ \A c \in Calls : Committed(c)' => Committed(c) \/ Opened(req[c].wallet)

LEMMA InvIsOwn ==
  Inv <=> /\ TypeOK
          /\ \A p \in Procs : Own(p)
          /\ \A c \in Calls : Committed(c) => Opened(req[c].wallet)
BY DEF Inv, ProcsAtWork, LockedReadsStayFresh, Own, Procs

LEMMA StepOfOne ==
  ASSUME Inv, NEW p \in Procs, OthersKept(p), RowsStay, TypeOK', Own(p)'
  PROVE  Inv'
<1>1. ASSUME NEW q \in Procs \ {p} PROVE Own(q)'
  <2>1. Own(q) /\ pc'[q] = pc[q] /\ held'[q] = held[q] /\ seen'[q] = seen[q]
    BY InvIsOwn DEF OthersKept
  <2>2. q \in Resolvers => target'[q] = target[q]
    BY DEF OthersKept
  <2>3. WalletOf(q)' = WalletOf(q)
    BY <2>2 DEF RowsStay, WalletOf, TxOf, Procs
  <2>4. ASSUME Locked(q)
        PROVE  /\ locks'[WalletOf(q)] = q
               /\ held'[q] = wallets'[WalletOf(q)]
               /\ wallets'[WalletOf(q)].version > 0
    <3>1. WalletOf(q) \in Wallets
      <4>1. q \in Calls \/ pc[q] # "idle"
        BY <2>4 DEF Locked
      <4>. QED
        BY <4>1, AtWork
    <3>2. locks[WalletOf(q)] = q /\ q \notin {None, p}
      BY <2>1, <2>4, ProcessAssumption DEF Own, Procs
    <3>3. /\ locks'[WalletOf(q)] = locks[WalletOf(q)]
          /\ wallets'[WalletOf(q)] = wallets[WalletOf(q)]
      BY <3>1, <3>2 DEF OthersKept
    <3>. QED
      BY <3>2, <3>3, <2>1, <2>4 DEF Own, Opened
  <2>. QED
    BY <2>1, <2>2, <2>3, <2>4 DEF Own, Locked, RowsStay, Opened
<1>2. \A c \in Calls : Committed(c)' => Opened(req[c].wallet)'
  <2>1. \A c \in Calls : Committed(c) => Opened(req[c].wallet)
    BY InvIsOwn
  <2>2. \A c \in Calls : req[c].wallet \in Wallets
    BY OpsAssumption DEF Inv, TypeOK
  <2>. QED
    BY <2>1, <2>2 DEF RowsStay, Opened
<1>. QED
  BY <1>1, <1>2 DEF Inv, ProcsAtWork, LockedReadsStayFresh, Own, Procs

\* The end of a transaction that wrote what W allows to its own wallet only.
LEMMA EndOfTransaction ==
  ASSUME Inv, NEW p \in Procs, Departs(p), RowsStay, TypeOK',
         \A w \in Wallets : locks[w] # p => wallets'[w] = wallets[w]
  PROVE  Inv'
<1>1. OthersKept(p)
  BY DEF Departs, OthersKept
<1>2. Own(p)'
  <2>1. pc'[p] \in {"done", "idle"} /\ p \in Calls \cup Resolvers
    BY DEF Departs, Procs
  <2>2. p \in Resolvers => pc'[p] = "idle"
    BY <2>1 DEF TypeOK, ResolverLabels
  <2>. QED
    BY <2>1, <2>2 DEF Own, Locked
<1>. QED
  BY <1>1, <1>2, StepOfOne

\* A step inside a transaction: the database is only read.
LEMMA StepInside ==
  ASSUME Inv, NEW p \in Procs, NEW label, Goto(p, label),
         p \in Calls => label \in CallLabels,
         p \in Resolvers => label \in ResolverLabels,
         \A q \in Procs \ {p} : held'[q] = held[q] /\ seen'[q] = seen[q],
         \A q \in Resolvers \ {p} : target'[q] = target[q],
         \A w \in Wallets : locks[w] # None => locks'[w] = locks[w],
         locks' \in [Wallets -> Procs \cup {None}],
         held' \in [Procs -> WalletRow], seen' \in [Procs -> SeenRow],
         batch' \in [Resolvers -> SUBSET Calls],
         target' \in [Resolvers -> Calls \cup {None}],
         retrySeen' \in [Resolvers -> RetryRow],
         Own(p)'
  PROVE  Inv'
<1>1. /\ pc' = [pc EXCEPT ![p] = label]
      /\ UNCHANGED <<req, wallets, txs, ledger, retries, wagerEvents, balanceEvents>>
      /\ UNCHANGED <<reply, faults>>
  BY DEF Goto, db
<1>2. DbTypeOK'
  BY <1>1, TypeOKParts DEF Inv, DbTypeOK
<1>3. ProcsTypeOK'
  <2>1. /\ pc' \in [Procs -> CallLabels \cup ResolverLabels]
        /\ \A c \in Calls : pc'[c] \in CallLabels
        /\ \A r \in Resolvers : pc'[r] \in ResolverLabels
    BY <1>1 DEF Inv, TypeOK, Procs
  <2>. QED
    BY <1>1, <2>1 DEF Inv, TypeOK, ProcsTypeOK
<1>4. TypeOK'
  BY <1>1, <1>2, <1>3, TypeOKParts DEF Inv, TypeOK, DbTypeOK, ProcsTypeOK
<1>5. RowsStay
  BY <1>1 DEF RowsStay, Opened, Committed
<1>6. OthersKept(p)
  BY <1>1 DEF OthersKept, Inv, TypeOK
<1>. QED
  BY <1>4, <1>5, <1>6, StepOfOne

LEMMA ReplyTypes ==
  ASSUME NEW outcome \in {"new", "replay"}, NEW t \in Calls, NEW status \in AnyStatus,
         NEW balance \in Snapshot, NEW currency \in Currencies
  PROVE  Reply(outcome, t, status, balance, currency) \in ReplyRow
BY DEF Reply, ReplyRow

LEMMA SameRowsStay ==
  ASSUME UNCHANGED <<req, wallets, txs>>
  PROVE  RowsStay
BY DEF RowsStay, Opened, Committed

\* A transaction that ends without a write.
LEMMA EndWithoutWrite ==
  ASSUME Inv, NEW p \in Procs, Departs(p), ProcsTypeOK', faults' \in 0 .. MaxFaults,
         UNCHANGED <<req, db>>
  PROVE  Inv'
<1>1. UNCHANGED <<req, wallets, txs, ledger, retries, wagerEvents, balanceEvents>>
  BY DEF db
<1>2. DbTypeOK'
  BY <1>1, TypeOKParts DEF Inv, DbTypeOK
<1>3. TypeOK'
  BY <1>2 DEF TypeOK, DbTypeOK, ProcsTypeOK
<1>. QED
  BY <1>1, <1>3, SameRowsStay, EndOfTransaction

LEMMA FinishWithoutWrite ==
  ASSUME Inv, NEW p \in Procs, NEW answer \in ReplyRow, Finish(p, answer),
         UNCHANGED <<req, db>>, faults' \in 0 .. MaxFaults
  PROVE  Inv'
<1>1. ProcsTypeOK' /\ Departs(p)
  BY TypeOKParts, FinishSound DEF Inv
<1>. QED
  BY <1>1, EndWithoutWrite

\* A call that is answered without a write.
LEMMA AnswerWithoutWrite ==
  ASSUME Inv, NEW c \in Calls, NEW answer \in ReplyRow, EndCall(c, answer),
         UNCHANGED <<req, db, faults>>
  PROVE  Inv'
<1>1. c \in Procs /\ Finish(c, answer)
  BY DEF Procs, Finish
<1>2. faults' \in 0 .. MaxFaults
  BY DEF Inv, TypeOK
<1>. QED
  BY <1>1, <1>2, FinishWithoutWrite

\* Only the program counter moves, and the wallet lock is kept if there is one.
LEMMA StepQuiet ==
  ASSUME Inv, NEW p \in Procs, NEW label, Goto(p, label),
         UNCHANGED <<locks, held, seen, work>>,
         p \in Calls => label \in CallLabels,
         p \in Resolvers => label \in ResolverLabels /\ pc[p] # "idle",
         label # "replay",
         label \in {"insert", "recheck", "readRef", "readReversal", "decide"} => Locked(p)
  PROVE  Inv'
<1>1. UNCHANGED <<locks, held, seen, batch, target, retrySeen>>
  BY DEF work
<1>2. UNCHANGED <<req, wallets, txs>> /\ pc'[p] = label
  BY DEF Goto, db, Inv, TypeOK
<1>3. Own(p)
  BY InvIsOwn
<1>4. Own(p)'
  BY <1>1, <1>2, <1>3 DEF Own, Locked, WalletOf, TxOf, Opened, Committed
<1>. QED
  BY <1>1, <1>4, StepInside DEF Inv, TypeOK

-----------------------------------------------------------------------------
(* The actions *)

LEMMA SelectByExternalIDStep ==
  ASSUME Inv, NEW c \in Calls, SelectByExternalID(c)
  PROVE  Inv'
<1>1. CASE EndCall(c, Conflict) /\ UNCHANGED <<req, db, faults>>
  BY <1>1, EmptyRows, AnswerWithoutWrite
<1>2. CASE Goto(c, "byKey") /\ UNCHANGED <<locks, held, seen, work>>
  <2>1. c \in Procs /\ c \notin Resolvers
    BY ProcessAssumption DEF Procs
  <2>2. "byKey" \in CallLabels
    BY DEF CallLabels
  <2>. QED
    BY <1>2, <2>1, <2>2, StepQuiet
<1>. QED
  BY <1>1, <1>2 DEF SelectByExternalID

LEMMA ReplayOrConflictStep ==
  ASSUME Inv, NEW c \in Calls, NEW d \in Calls, ReplayOrConflict(c, d)
  PROVE  Inv'
<1>1. txs[d] \in TxRow /\ req[d] \in Ops
  BY DEF Inv, TypeOK, TxIds
<1>2. txs[d].status \in AnyStatus /\ txs[d].snap \in Snapshot /\ req[d].currency \in Currencies
  BY <1>1 DEF TxRow, Currencies
<1>3. CASE EndCall(c, Conflict) /\ UNCHANGED <<req, db, faults>>
  BY <1>3, EmptyRows, AnswerWithoutWrite
<1>4. CASE /\ EndCall(c, Reply("replay", d, txs[d].status, txs[d].snap, req[d].currency))
           /\ UNCHANGED <<req, db, faults>>
  BY <1>2, <1>4, ReplyTypes, AnswerWithoutWrite
<1>5. CASE /\ seen' = [seen EXCEPT ![c] =
                [tx |-> d, status |-> txs[d].status, reversed |-> FALSE]]
           /\ Goto(c, "replay")
           /\ UNCHANGED <<locks, held, work>>
  <2>1. c \in Procs /\ c \notin Resolvers /\ "replay" \in CallLabels
    BY ProcessAssumption DEF Procs, CallLabels
  <2>3. [tx |-> d, status |-> txs[d].status, reversed |-> FALSE] \in SeenRow
    BY <1>2 DEF SeenRow
  <2>4. seen' \in [Procs -> SeenRow] /\ \A q \in Procs \ {c} : seen'[q] = seen[q]
    BY <1>5, <2>1, <2>3 DEF Inv, TypeOK
  <2>5. seen'[c].tx = d
    BY <1>5, <2>1 DEF Inv, TypeOK
  <2>6. UNCHANGED <<locks, held, batch, target, retrySeen>> /\ pc'[c] = "replay"
    BY <1>5, <2>1 DEF work, Goto, Inv, TypeOK
  <2>7. Own(c)'
    BY <2>1, <2>5, <2>6 DEF Own, Locked
  <2>. QED
    BY <1>5, <2>1, <2>4, <2>6, <2>7, StepInside DEF Inv, TypeOK
<1>. QED
  BY <1>3, <1>4, <1>5 DEF ReplayOrConflict

LEMMA SelectByKeyStep ==
  ASSUME Inv, NEW c \in Calls, SelectByKey(c)
  PROVE  Inv'
<1>1. CASE \E d \in Calls : ReplayOrConflict(c, d)
  BY <1>1, ReplayOrConflictStep
<1>2. CASE Goto(c, "lock") /\ UNCHANGED <<locks, held, seen, work>>
  <2>1. c \in Procs /\ c \notin Resolvers /\ "lock" \in CallLabels
    BY ProcessAssumption DEF Procs, CallLabels
  <2>. QED
    BY <1>2, <2>1, StepQuiet
<1>. QED
  BY <1>1, <1>2 DEF SelectByKey

LEMMA ReplayCurrentBalanceStep ==
  ASSUME Inv, NEW c \in Calls, ReplayCurrentBalance(c)
  PROVE  Inv'
<1>. DEFINE w == wallets[req[seen[c].tx].wallet]
<1>1. c \in Procs /\ seen[c].tx \in Calls
  BY DEF Inv, ProcsAtWork, ReplayCurrentBalance, Procs
<1>2. w \in WalletRow /\ seen[c] \in SeenRow
  BY <1>1, OpsAssumption DEF Inv, TypeOK
<1>3. seen[c].status \in AnyStatus /\ w.balance \in Snapshot /\ w.currency \in Currencies
  BY <1>2 DEF WalletRow, SeenRow, Snapshot
<1>4. Reply("replay", seen[c].tx, seen[c].status, w.balance, w.currency) \in ReplyRow
  BY <1>1, <1>3, ReplyTypes
<1>. QED
  BY <1>4, AnswerWithoutWrite DEF ReplayCurrentBalance

\* SELECT ... FOR UPDATE by either kind of process.
LEMMA LockStep ==
  ASSUME Inv, NEW p \in Procs, NEW label \in {"insert", "recheck"},
         p \in Calls \/ pc[p] # "idle",
         p \in Calls => label = "insert", p \in Resolvers => label = "recheck",
         locks[WalletOf(p)] = None, Opened(WalletOf(p)),
         locks' = [locks EXCEPT ![WalletOf(p)] = p],
         held' = [held EXCEPT ![p] = wallets[WalletOf(p)]],
         Goto(p, label), UNCHANGED <<seen, work>>
  PROVE  Inv'
<1>. DEFINE w == WalletOf(p)
<1>1. w \in Wallets /\ TxOf(p) \in Calls
  BY AtWork
<1>2. /\ locks' \in [Wallets -> Procs \cup {None}] /\ locks'[w] = p
      /\ \A x \in Wallets : locks[x] # None => locks'[x] = locks[x]
  BY <1>1 DEF Inv, TypeOK
<1>3. /\ held' \in [Procs -> WalletRow] /\ held'[p] = wallets[w]
      /\ \A q \in Procs \ {p} : held'[q] = held[q]
  BY <1>1 DEF Inv, TypeOK
<1>4. /\ UNCHANGED <<seen, batch, target, retrySeen, req, wallets, txs>>
      /\ pc'[p] = label
  BY DEF work, Goto, db, Inv, TypeOK
<1>5. w' = w
  BY <1>4 DEF WalletOf, TxOf
<1>6. wallets'[w].version > 0
  BY <1>4 DEF Opened
<1>7. Own(p)'
  <2>1. Own(p)
    BY InvIsOwn
  <2>2. p \in Resolvers => target[p] \in Calls /\ Committed(target[p])
    BY <2>1, ProcessAssumption DEF Own
  <2>. HIDE DEF w
  <2>. QED
    BY <1>2, <1>3, <1>4, <1>5, <1>6, <2>2 DEF Own, Committed, Opened, w
<1>8. label \in CallLabels \cup ResolverLabels
      /\ (label = "insert" => label \in CallLabels)
      /\ (label = "recheck" => label \in ResolverLabels)
  BY DEF CallLabels, ResolverLabels
<1>9. /\ seen' \in [Procs -> SeenRow]
      /\ batch' \in [Resolvers -> SUBSET Calls]
      /\ target' \in [Resolvers -> Calls \cup {None}]
      /\ retrySeen' \in [Resolvers -> RetryRow]
      /\ \A q \in Resolvers \ {p} : target'[q] = target[q]
  BY <1>4 DEF Inv, TypeOK
<1>10. \A q \in Procs \ {p} : held'[q] = held[q] /\ seen'[q] = seen[q]
  BY <1>3, <1>4
<1>. HIDE DEF w
<1>. QED
  BY <1>2, <1>3, <1>4, <1>7, <1>8, <1>9, <1>10, StepInside

LEMMA LockWalletStep ==
  ASSUME Inv, NEW c \in Calls, LockWallet(c)
  PROVE  Inv'
<1>1. CASE EndCall(c, Error) /\ UNCHANGED <<req, db, faults>>
  BY <1>1, EmptyRows, AnswerWithoutWrite
<1>2. CASE /\ Opened(req[c].wallet) /\ locks[req[c].wallet] = None
           /\ locks' = [locks EXCEPT ![req[c].wallet] = c]
           /\ held' = [held EXCEPT ![c] = wallets[req[c].wallet]]
           /\ Goto(c, "insert")
           /\ UNCHANGED <<seen, work>>
  <2>1. c \in Procs /\ c \notin Resolvers /\ WalletOf(c) = req[c].wallet
    BY ProcessAssumption DEF Procs, WalletOf, TxOf
  <2>. QED
    BY <1>2, <2>1, LockStep
<1>. QED
  BY <1>1, <1>2 DEF LockWallet

LEMMA TryInsertIdempotencyStep ==
  ASSUME Inv, NEW c \in Calls, TryInsertIdempotency(c)
  PROVE  Inv'
<1>1. CASE \E d \in Calls : ReplayOrConflict(c, d)
  BY <1>1, ReplayOrConflictStep
<1>2. CASE EndCall(c, Conflict) /\ UNCHANGED <<req, db, faults>>
  BY <1>2, EmptyRows, AnswerWithoutWrite
<1>3. CASE /\ \E label \in {"readRef", "decide"} : Goto(c, label)
           /\ UNCHANGED <<locks, held, seen, work>> /\ pc[c] = "insert"
  <2>1. c \in Procs /\ c \notin Resolvers
    BY ProcessAssumption DEF Procs
  <2>2. PICK label \in {"readRef", "decide"} : Goto(c, label)
    BY <1>3
  <2>3. label \in CallLabels /\ label # "replay" /\ Locked(c)
    BY <1>3 DEF CallLabels, Locked
  <2>. QED
    BY <1>3, <2>1, <2>2, <2>3, StepQuiet
<1>. QED
  BY <1>1, <1>2, <1>3 DEF TryInsertIdempotency

\* Inside a locked transaction: something is read into seen[p].
LEMMA ReadStep ==
  ASSUME Inv, NEW p \in Procs, pc[p] \in {"readRef", "readReversal"},
         NEW label \in {"readReversal", "decide"}, NEW row \in SeenRow,
         seen' = [seen EXCEPT ![p] = row], Goto(p, label), UNCHANGED <<locks, held, work>>
  PROVE  Inv'
<1>1. seen' \in [Procs -> SeenRow] /\ \A q \in Procs \ {p} : seen'[q] = seen[q]
  BY DEF Inv, TypeOK
<1>2. /\ UNCHANGED <<locks, held, batch, target, retrySeen, req, wallets, txs>>
      /\ pc'[p] = label
  BY DEF work, Goto, db, Inv, TypeOK
<1>3. Own(p)
  BY InvIsOwn
<1>4. Own(p)'
  BY <1>2, <1>3 DEF Own, Locked, WalletOf, TxOf, Opened, Committed
<1>5. label \in CallLabels /\ label \in ResolverLabels
  BY DEF CallLabels, ResolverLabels
<1>. QED
  BY <1>1, <1>2, <1>4, <1>5, StepInside DEF Inv, TypeOK

LEMMA ReadReferenceStep ==
  ASSUME Inv, NEW p \in Procs, ReadReference(p)
  PROVE  Inv'
<1>1. CASE Goto(p, "decide") /\ UNCHANGED <<locks, held, seen, work>>
  <2>1. "decide" \in CallLabels /\ "decide" \in ResolverLabels /\ Locked(p)
    BY DEF CallLabels, ResolverLabels, Locked, ReadReference
  <2>. QED
    BY <1>1, <2>1, StepQuiet DEF ReadReference
<1>2. CASE \E d \in ReferenceRows(p), status \in AnyStatus, label \in {"readReversal", "decide"} :
             /\ seen' = [seen EXCEPT ![p] = [tx |-> d, reversed |-> FALSE, status |-> status]]
             /\ Goto(p, label)
             /\ UNCHANGED <<locks, held, work>>
  <2>1. PICK d \in ReferenceRows(p), status \in AnyStatus, label \in {"readReversal", "decide"} :
             /\ seen' = [seen EXCEPT ![p] = [tx |-> d, reversed |-> FALSE, status |-> status]]
             /\ Goto(p, label)
             /\ UNCHANGED <<locks, held, work>>
    BY <1>2
  <2>2. [tx |-> d, reversed |-> FALSE, status |-> status] \in SeenRow
    BY DEF SeenRow, ReferenceRows
  <2>. QED
    BY <2>1, <2>2, ReadStep DEF ReadReference
<1>. QED
  <2>1. \A d \in Calls : /\ txs[d].status \in AnyStatus
                         /\ "PENDING" \in AnyStatus
    BY DEF Inv, TypeOK, TxRow, TxIds, AnyStatus, Statuses
  <2>. QED
    BY <1>1, <1>2, <2>1 DEF ReadReference, ReferenceRows

LEMMA ReadReversalStep ==
  ASSUME Inv, NEW p \in Procs, ReadReversal(p)
  PROVE  Inv'
<1>1. ProcessedReversal(seen[p].tx) \in BOOLEAN
  BY DEF ProcessedReversal
<1>2. seen[p] \in SeenRow
  BY DEF Inv, TypeOK
<1>3. [seen[p] EXCEPT !.reversed = ProcessedReversal(seen[p].tx)] \in SeenRow
  BY <1>1, <1>2 DEF SeenRow
<1>4. seen' = [seen EXCEPT ![p] = [seen[p] EXCEPT !.reversed = ProcessedReversal(seen[p].tx)]]
  BY DEF ReadReversal
<1>. QED
  BY <1>3, <1>4, ReadStep DEF ReadReversal

LEMMA HeldTypes ==
  ASSUME Inv, NEW p \in Procs, pc[p] = "decide"
  PROVE  /\ held[p].balance \in Amount /\ held[p].balance \in Snapshot
         /\ held[p].currency \in Currencies
BY DEF Inv, TypeOK, WalletRow, Snapshot

LEMMA AnswerTypes ==
  ASSUME Inv, NEW p \in Procs, pc[p] = "decide", NEW balance \in Amount,
         NEW status \in {"PROCESSED", "REJECTED", "PENDING_REFERENCE"}
  PROVE  Answer(p, status, balance) \in ReplyRow
<1>1. TxOf(p) \in Calls /\ status \in AnyStatus /\ balance \in Snapshot
  BY AtWork DEF AnyStatus, Statuses, Terminal, Snapshot
<1>. QED
  BY <1>1, HeldTypes, ReplyTypes DEF Answer

\* The row that a transaction writes belongs to a wallet that is open.
LEMMA OwnRowStays ==
  ASSUME Inv, NEW p \in Procs, p \in Calls \/ pc[p] # "idle", Opened(WalletOf(p)),
         UNCHANGED req, txs'[TxOf(p)].status # "NONE",
         \A w \in Wallets : Opened(w) => Opened(w)',
         \A d \in Calls \ {TxOf(p)} : txs'[d] = txs[d]
  PROVE  RowsStay
BY AtWork DEF RowsStay, Committed, WalletOf

\* An outcome that moves no money.
LEMMA OutcomeStep ==
  ASSUME Inv, NEW p \in Procs, p \in Calls \/ pc[p] # "idle", Opened(WalletOf(p)),
         DbTypeOK', NoMovement, \A d \in Calls \ {TxOf(p)} : txs'[d] = txs[d],
         txs'[TxOf(p)].status # "NONE",
         ProcsTypeOK', Departs(p), UNCHANGED <<req, faults>>
  PROVE  Inv'
<1>1. TypeOK'
  BY DEF Inv, TypeOK, DbTypeOK, ProcsTypeOK
<1>2. UNCHANGED wallets
  BY DEF NoMovement
<1>3. RowsStay
  BY <1>2, OwnRowStays DEF Opened
<1>. QED
  BY <1>1, <1>2, <1>3, EndOfTransaction

LEMMA SettleStep ==
  ASSUME Inv, NEW p \in Procs, Settle(p)
  PROVE  Inv'
<1>. DEFINE after == BalanceAfter(Decision(p), held[p].balance, req[TxOf(p)].amount)
            id == WalletOf(p)
<1>1. /\ pc[p] = "decide" /\ Decision(p).act \in {"credit", "debit"}
      /\ CommitMovement(TxOf(p), held[p], Decision(p), seen[p].tx)
      /\ Finish(p, Answer(p, "PROCESSED", after))
      /\ UNCHANGED <<req, faults>>
  BY DEF Settle
<1>2. DbTypeOK' /\ Moves(TxOf(p), p) /\ \A d \in Calls \ {TxOf(p)} : txs'[d] = txs[d]
  BY <1>1, CommitMovementSound
<1>3. after \in Amount
  BY <1>1, DecisionSound
<1>4. Answer(p, "PROCESSED", after) \in ReplyRow
  BY <1>1, <1>3, AnswerTypes
<1>5. ProcsTypeOK' /\ Departs(p)
  <2>. HIDE DEF after
  <2>. QED
    BY <1>1, <1>4, TypeOKParts, FinishSound DEF Inv
<1>6. TypeOK'
  BY <1>1, <1>2, <1>5 DEF Inv, TypeOK, DbTypeOK, ProcsTypeOK
<1>7. id \in Wallets /\ TxOf(p) \in Calls /\ locks[id] = p /\ Opened(id) /\ held[p].version \in Nat
  <2>1. Own(p) /\ Locked(p)
    BY <1>1, InvIsOwn DEF Locked
  <2>. QED
    BY <1>1, <2>1, AtWork DEF Own, Inv, TypeOK, WalletRow
<1>8. /\ \A w \in Wallets \ {id} : wallets'[w] = wallets[w]
      /\ wallets'[id].version = held[p].version + 1
  BY <1>2, <1>7 DEF Moves, WalletOf, Inv, TypeOK, WalletRow
<1>9. txs'[TxOf(p)].status # "NONE"
  BY <1>1, <1>7 DEF CommitMovement, RecordOutcome, Row, Inv, TypeOK, TxIds
<1>10. RowsStay
  <2>1. \A w \in Wallets : Opened(w) => Opened(w)'
    BY <1>7, <1>8 DEF Opened
  <2>. QED
    BY <2>1, <1>1, <1>2, <1>7, <1>9, OwnRowStays
<1>. QED
  BY <1>5, <1>6, <1>7, <1>8, <1>10, EndOfTransaction

LEMMA SettleLossStep ==
  ASSUME Inv, NEW c \in Calls, SettleLoss(c)
  PROVE  Inv'
<1>1. /\ c \in Procs /\ TxOf(c) = c /\ c \in TxIds /\ pc[c] = "decide"
      /\ RecordLoss(c, held[c].balance)
      /\ Finish(c, Answer(c, "PROCESSED", held[c].balance))
      /\ UNCHANGED <<req, faults>>
  BY DEF SettleLoss, Procs, TxOf, TxIds
<1>2. held[c].balance \in Amount /\ Answer(c, "PROCESSED", held[c].balance) \in ReplyRow
  BY <1>1, HeldTypes, AnswerTypes
<1>3. DbTypeOK' /\ NoMovement /\ \A d \in Calls \ {c} : txs'[d] = txs[d]
  BY <1>1, <1>2, TypeOKParts, RecordLossSound DEF Inv
<1>4. ProcsTypeOK' /\ Departs(c)
  BY <1>1, <1>2, TypeOKParts, FinishSound DEF Inv
<1>5. txs'[c].status # "NONE"
  BY <1>1 DEF RecordLoss, RecordOutcome, Row, Inv, TypeOK
<1>6. Opened(WalletOf(c))
  BY <1>1 DEF Inv, LockedReadsStayFresh, Locked
<1>. QED
  BY <1>1, <1>3, <1>4, <1>5, <1>6, OutcomeStep

LEMMA RejectAndPersistStep ==
  ASSUME Inv, NEW p \in Procs, RejectAndPersist(p)
  PROVE  Inv'
<1>1. /\ pc[p] = "decide"
      /\ PersistRejection(TxOf(p), Decision(p).code, held[p].balance)
      /\ Finish(p, Answer(p, "REJECTED", held[p].balance))
      /\ UNCHANGED <<req, faults>>
  BY DEF RejectAndPersist
<1>2. held[p].balance \in Amount /\ Answer(p, "REJECTED", held[p].balance) \in ReplyRow
  BY <1>1, HeldTypes, AnswerTypes
<1>3. TxOf(p) \in Calls /\ TxOf(p) \in TxIds /\ Decision(p).code \in Codes
  BY <1>1, AtWork, DecisionSound DEF TxIds, Verdicts
<1>4. DbTypeOK' /\ NoMovement /\ \A d \in Calls \ {TxOf(p)} : txs'[d] = txs[d]
  BY <1>1, <1>2, <1>3, TypeOKParts, PersistRejectionSound DEF Inv
<1>5. ProcsTypeOK' /\ Departs(p)
  BY <1>1, <1>2, TypeOKParts, FinishSound DEF Inv
<1>6. txs'[TxOf(p)].status # "NONE"
  BY <1>1, <1>3 DEF PersistRejection, RecordOutcome, Row, Inv, TypeOK
<1>7. Opened(WalletOf(p))
  BY <1>1 DEF Inv, LockedReadsStayFresh, Locked
<1>. QED
  BY <1>1, <1>4, <1>5, <1>6, <1>7, OutcomeStep

LEMMA ParkStep ==
  ASSUME Inv, NEW c \in Calls, Park(c)
  PROVE  Inv'
<1>1. /\ c \in Procs /\ TxOf(c) = c /\ c \in TxIds /\ pc[c] = "decide"
      /\ ParkPendingReference(c)
      /\ Finish(c, Answer(c, "PENDING_REFERENCE", held[c].balance))
      /\ UNCHANGED <<req, faults>>
  BY DEF Park, Procs, TxOf, TxIds
<1>2. Answer(c, "PENDING_REFERENCE", held[c].balance) \in ReplyRow
  BY <1>1, HeldTypes, AnswerTypes
<1>3. DbTypeOK' /\ NoMovement /\ \A d \in Calls \ {c} : txs'[d] = txs[d]
  BY <1>1, TypeOKParts, ParkSound DEF Inv
<1>4. ProcsTypeOK' /\ Departs(c)
  BY <1>1, <1>2, TypeOKParts, FinishSound DEF Inv
<1>5. txs'[c].status # "NONE"
  BY <1>1 DEF ParkPendingReference, RecordOutcome, Row, Inv, TypeOK
<1>6. Opened(WalletOf(c))
  BY <1>1 DEF Inv, LockedReadsStayFresh, Locked
<1>. QED
  BY <1>1, <1>3, <1>4, <1>5, <1>6, OutcomeStep

LEMMA RetryLaterStep ==
  ASSUME Inv, NEW r \in Resolvers, RetryLater(r)
  PROVE  Inv'
<1>1. /\ r \in Procs /\ pc[r] = "decide"
      /\ ScheduleRetry(target[r], retrySeen[r]) /\ EndResolve(r)
      /\ UNCHANGED <<req, faults>>
  BY DEF RetryLater, Procs
<1>2. target[r] \in Calls /\ retrySeen[r] \in RetryRow
  BY <1>1 DEF Inv, ProcsAtWork, TypeOK
<1>3. DbTypeOK' /\ NoMovement /\ UNCHANGED txs
  BY <1>1, <1>2, TypeOKParts, ScheduleRetrySound DEF Inv
<1>4. ProcsTypeOK' /\ Departs(r)
  BY <1>1, TypeOKParts, EndResolveSound DEF Inv
<1>5. TypeOK'
  BY <1>1, <1>3, <1>4 DEF Inv, TypeOK, DbTypeOK, ProcsTypeOK
<1>6. RowsStay /\ UNCHANGED wallets
  BY <1>1, <1>3, SameRowsStay DEF NoMovement
<1>. QED
  BY <1>1, <1>4, <1>5, <1>6, EndOfTransaction

LEMMA FailDecisionStep ==
  ASSUME Inv, NEW p \in Procs, FailDecision(p)
  PROVE  Inv'
<1>1. Finish(p, Error) /\ UNCHANGED <<req, db>> /\ faults' \in 0 .. MaxFaults
  BY DEF FailDecision, Inv, TypeOK
<1>. QED
  BY <1>1, EmptyRows, FinishWithoutWrite

LEMMA AbortStep ==
  ASSUME Inv, NEW p \in Procs, Abort(p)
  PROVE  Inv'
<1>1. faults' \in 0 .. MaxFaults
  BY BoundsAssumption DEF Abort, Inv, TypeOK
<1>. QED
  BY <1>1, EmptyRows, FinishWithoutWrite DEF Abort

\* A step that only touches retry rows and the batches of idle workers.
LEMMA RetryStep ==
  ASSUME Inv, retries' \in [Calls -> RetryRow], batch' \in [Resolvers -> SUBSET Calls],
         UNCHANGED <<req, wallets, txs, ledger, wagerEvents, balanceEvents, locks, pc,
                     held, seen, reply, target, retrySeen, faults>>
  PROVE  Inv'
<1>1. TypeOK'
  BY DEF Inv, TypeOK
<1>2. ProcsAtWork'
  BY DEF Inv, ProcsAtWork, Committed, Opened
<1>3. LockedReadsStayFresh'
  BY DEF Inv, LockedReadsStayFresh, Locked, WalletOf, TxOf, Opened
<1>. QED
  BY <1>1, <1>2, <1>3 DEF Inv

LEMMA ClaimStep ==
  ASSUME Inv, NEW r \in Resolvers, ClaimPendingReferencesDue(r)
  PROVE  Inv'
<1>1. PICK claimed \in SUBSET DueReferences :
        /\ batch' = [batch EXCEPT ![r] = claimed]
        /\ retries' = [t \in Calls |->
             IF t \in claimed THEN [retries[t] EXCEPT !.due = FALSE] ELSE retries[t]]
  BY DEF ClaimPendingReferencesDue
<1>2. batch' \in [Resolvers -> SUBSET Calls]
  BY <1>1 DEF DueReferences, Inv, TypeOK
<1>3. \A t \in Calls : retries[t] \in RetryRow /\ [retries[t] EXCEPT !.due = FALSE] \in RetryRow
  <2>1. \A t \in Calls : retries[t] \in RetryRow
    BY DEF Inv, TypeOK
  <2>2. \A row \in RetryRow : [row EXCEPT !.due = FALSE] \in RetryRow
    BY Zenon DEF RetryRow
  <2>. QED
    BY <2>1, <2>2
<1>4. retries' \in [Calls -> RetryRow]
  BY <1>1, <1>3
<1>. QED
  BY <1>2, <1>4, RetryStep DEF ClaimPendingReferencesDue

LEMMA NextAttemptDueStep ==
  ASSUME Inv, NEW t \in Calls, NextAttemptDue(t)
  PROVE  Inv'
<1>1. [retries[t] EXCEPT !.due = TRUE] \in RetryRow
  <2>1. retries[t] \in RetryRow /\ TRUE \in BOOLEAN
    BY DEF Inv, TypeOK
  <2>. QED
    BY <2>1, Zenon DEF RetryRow
<1>2. retries' = [retries EXCEPT ![t] = [retries[t] EXCEPT !.due = TRUE]] /\ UNCHANGED work
  BY DEF NextAttemptDue
<1>3. retries' \in [Calls -> RetryRow] /\ batch' \in [Resolvers -> SUBSET Calls]
  BY <1>1, <1>2 DEF Inv, TypeOK, work
<1>. QED
  BY <1>3, RetryStep DEF NextAttemptDue, work

LEMMA DeadlinePassesStep ==
  ASSUME Inv, NEW t \in Calls, DeadlinePasses(t)
  PROVE  Inv'
<1>1. [retries[t] EXCEPT !.expired = TRUE] \in RetryRow
  <2>1. retries[t] \in RetryRow /\ TRUE \in BOOLEAN
    BY DEF Inv, TypeOK
  <2>. QED
    BY <2>1, Zenon DEF RetryRow
<1>2. retries' = [retries EXCEPT ![t] = [retries[t] EXCEPT !.expired = TRUE]] /\ UNCHANGED work
  BY DEF DeadlinePasses
<1>3. retries' \in [Calls -> RetryRow] /\ batch' \in [Resolvers -> SUBSET Calls]
  BY <1>1, <1>2 DEF Inv, TypeOK, work
<1>. QED
  BY <1>3, RetryStep DEF DeadlinePasses, work

LEMMA LoadPendingStep ==
  ASSUME Inv, NEW r \in Resolvers, LoadPending(r)
  PROVE  Inv'
<1>1. PICK t \in batch[r] :
        IF txs[t].status = "PENDING_REFERENCE"
        THEN /\ pc' = [pc EXCEPT ![r] = "retry"]
             /\ target' = [target EXCEPT ![r] = t]
             /\ UNCHANGED batch
        ELSE /\ batch' = [batch EXCEPT ![r] = @ \ {t}]
             /\ UNCHANGED <<pc, target>>
  BY DEF LoadPending
<1>2. /\ pc[r] = "idle"
      /\ UNCHANGED <<req, wallets, txs, ledger, retries, wagerEvents, balanceEvents,
                     locks, held, seen, reply, retrySeen, faults>>
  BY DEF LoadPending, db
<1>3. r \in Procs /\ r \notin Calls /\ t \in Calls
  BY ProcessAssumption DEF Procs, Inv, TypeOK
<1>4. CASE txs[t].status # "PENDING_REFERENCE"
  <2>1. batch \in [Resolvers -> SUBSET Calls] /\ retries \in [Calls -> RetryRow]
    BY DEF Inv, TypeOK
  <2>2. /\ batch' = [batch EXCEPT ![r] = @ \ {t}]
        /\ UNCHANGED <<pc, target>>
    BY <1>1, <1>4
  <2>3. batch' \in [Resolvers -> SUBSET Calls]
    BY <2>1, <2>2
  <2>. QED
    BY <1>2, <2>1, <2>2, <2>3, RetryStep
<1>5. CASE txs[t].status = "PENDING_REFERENCE"
  <2>1. Goto(r, "retry")
    BY <1>1, <1>2, <1>5 DEF Goto, db
  <2>2. /\ target' \in [Resolvers -> Calls \cup {None}] /\ target'[r] = t
        /\ \A q \in Resolvers \ {r} : target'[q] = target[q]
    <3>1. target' = [target EXCEPT ![r] = t]
      BY <1>1, <1>5
    <3>2. target \in [Resolvers -> Calls \cup {None}]
      BY DEF Inv, TypeOK
    <3>. QED
      BY <1>3, <3>1, <3>2
  <2>3. pc'[r] = "retry" /\ "retry" \in ResolverLabels
    BY <1>1, <1>3, <1>5 DEF Inv, TypeOK, ResolverLabels
  <2>4. Own(r)'
    BY <1>2, <1>3, <1>5, <2>2, <2>3 DEF Own, Locked, Committed
  <2>. QED
    BY <1>1, <1>2, <1>3, <1>5, <2>1, <2>2, <2>3, <2>4, StepInside DEF Inv, TypeOK
<1>. QED
  BY <1>4, <1>5

LEMMA ReadRetryStep ==
  ASSUME Inv, NEW r \in Resolvers, ReadRetry(r)
  PROVE  Inv'
<1>1. /\ pc[r] = "retry" /\ r \in Procs /\ r \notin Calls /\ target[r] \in Calls
      /\ Committed(target[r])
  BY ProcessAssumption DEF ReadRetry, Procs, Inv, ProcsAtWork
<1>2. retrySeen' \in [Resolvers -> RetryRow]
  BY <1>1 DEF ReadRetry, Inv, TypeOK
<1>3. PICK label \in {"lock", "orphan"} : Goto(r, label)
  BY DEF ReadRetry
<1>4. label \in ResolverLabels
  BY DEF ResolverLabels
<1>5. /\ UNCHANGED <<locks, held, seen, batch, target>>
      /\ UNCHANGED <<req, wallets, txs>> /\ pc'[r] = label
  BY <1>1, <1>3 DEF ReadRetry, Goto, db, Inv, TypeOK
<1>6. Own(r)'
  BY <1>1, <1>5 DEF Own, Locked, Committed
<1>. QED
  BY <1>1, <1>2, <1>3, <1>4, <1>5, <1>6, StepInside DEF Inv, TypeOK

LEMMA ReadOrphanWalletStep ==
  ASSUME Inv, NEW r \in Resolvers, ReadOrphanWallet(r)
  PROVE  Inv'
<1>1. /\ pc[r] = "orphan" /\ r \in Procs /\ r \notin Calls /\ target[r] \in Calls
      /\ Committed(target[r]) /\ WalletOf(r) \in Wallets
  BY ProcessAssumption, AtWork DEF ReadOrphanWallet, Procs, Inv, ProcsAtWork
<1>2. /\ held' \in [Procs -> WalletRow]
      /\ \A q \in Procs \ {r} : held'[q] = held[q]
  BY <1>1 DEF ReadOrphanWallet, Inv, TypeOK
<1>3. Goto(r, "rejectOrphan") /\ "rejectOrphan" \in ResolverLabels
  BY DEF ReadOrphanWallet, ResolverLabels
<1>4. /\ UNCHANGED <<locks, seen, batch, target, retrySeen>>
      /\ UNCHANGED <<req, wallets, txs>> /\ pc'[r] = "rejectOrphan"
  BY <1>1 DEF ReadOrphanWallet, Goto, db, work, Inv, TypeOK
<1>5. Own(r)'
  BY <1>1, <1>4 DEF Own, Locked, Committed
<1>. QED
  BY <1>1, <1>2, <1>3, <1>4, <1>5, StepInside DEF Inv, TypeOK

LEMMA RejectOrphanStep ==
  ASSUME Inv, NEW r \in Resolvers, RejectOrphan(r)
  PROVE  Inv'
<1>1. /\ r \in Procs /\ r \notin Calls /\ pc[r] = "rejectOrphan" /\ TxOf(r) = target[r]
      /\ PersistRejection(target[r], "REFERENCE_NOT_FOUND", held[r].balance)
      /\ EndResolve(r) /\ UNCHANGED <<req, faults>>
  BY ProcessAssumption DEF RejectOrphan, Procs, TxOf
<1>2. /\ target[r] \in Calls /\ target[r] \in TxIds /\ WalletOf(r) \in Wallets
      /\ Opened(WalletOf(r))
  BY <1>1, AtWork DEF Inv, ProcsAtWork, TxIds, WalletOf
<1>3. held[r].balance \in Amount /\ "REFERENCE_NOT_FOUND" \in Codes
  BY <1>1 DEF Inv, TypeOK, WalletRow, Codes
<1>4. DbTypeOK' /\ NoMovement /\ \A d \in Calls \ {target[r]} : txs'[d] = txs[d]
  BY <1>1, <1>2, <1>3, TypeOKParts, PersistRejectionSound DEF Inv
<1>5. ProcsTypeOK' /\ Departs(r)
  BY <1>1, TypeOKParts, EndResolveSound DEF Inv
<1>6. txs'[target[r]].status # "NONE"
  BY <1>1, <1>2 DEF PersistRejection, RecordOutcome, Row, Inv, TypeOK
<1>. QED
  BY <1>1, <1>2, <1>4, <1>5, <1>6, OutcomeStep

LEMMA LockForResolveStep ==
  ASSUME Inv, NEW r \in Resolvers, LockForResolve(r)
  PROVE  Inv'
<1>1. r \in Procs /\ r \notin Calls /\ pc[r] = "lock"
  BY ProcessAssumption DEF LockForResolve, Procs
<1>2. Opened(WalletOf(r))
  BY <1>1 DEF Inv, ProcsAtWork, WalletOf, TxOf
<1>. QED
  BY <1>1, <1>2, LockStep DEF LockForResolve

LEMMA RecheckStep ==
  ASSUME Inv, NEW r \in Resolvers, Recheck(r)
  PROVE  Inv'
<1>1. r \in Procs /\ r \notin Calls /\ pc[r] = "recheck"
  BY ProcessAssumption DEF Recheck, Procs
<1>2. CASE Goto(r, "readRef") /\ UNCHANGED <<locks, held, seen, work>>
  <2>1. "readRef" \in ResolverLabels /\ Locked(r)
    BY <1>1 DEF ResolverLabels, Locked
  <2>. QED
    BY <1>1, <1>2, <2>1, StepQuiet
<1>3. CASE EndResolve(r) /\ UNCHANGED <<req, db, faults>>
  <2>1. Finish(r, Error) /\ faults' \in 0 .. MaxFaults
    BY <1>1, <1>3 DEF Finish, Inv, TypeOK
  <2>. QED
    BY <1>1, <1>3, <2>1, EmptyRows, FinishWithoutWrite
<1>. QED
  BY <1>2, <1>3 DEF Recheck

LEMMA CrashWorkerStep ==
  ASSUME Inv, NEW r \in Resolvers, CrashWorker(r)
  PROVE  Inv'
<1>1. r \in Procs /\ GoesIdle(r) /\ UNCHANGED <<req, db>>
  BY DEF CrashWorker, GoesIdle, Procs
<1>2. batch' \in [Resolvers -> SUBSET Calls] /\ faults' \in 0 .. MaxFaults
  BY BoundsAssumption DEF CrashWorker, Inv, TypeOK
<1>3. ProcsTypeOK' /\ Departs(r)
  BY <1>1, <1>2, TypeOKParts, GoesIdleSound DEF Inv
<1>. QED
  BY <1>1, <1>2, <1>3, EndWithoutWrite

LEMMA OpenWalletStep ==
  ASSUME Inv, NEW o \in Openings, OpenWallet(o)
  PROVE  Inv'
<1>. DEFINE w == o.wallet
            row == [player |-> o.player, currency |-> o.currency,
                    balance |-> o.initial, version |-> 1]
            entry == Entry(w, "credit", o.initial, 0, o.initial)
<1>1. /\ w \in Wallets /\ w \in TxIds /\ w \notin Calls /\ o.initial \in Amount
      /\ MaxMinor \in Nat
  BY OpeningsAssumption, ProcessAssumption, MinorRangeAssumption DEF TxIds, Amount
<1>2. /\ ~Opened(w)
      /\ wallets' = [wallets EXCEPT ![w] = row]
      /\ UNCHANGED <<req, retries, locks, pc, held, seen, reply, batch, target,
                     retrySeen, faults>>
  BY DEF OpenWallet, work
<1>3. row \in WalletRow
  BY <1>1 DEF WalletRow, Players, Currencies
<1>4. DbTypeOK /\ ProcsTypeOK
  BY TypeOKParts DEF Inv
<1>5. /\ txs' \in [TxIds -> TxRow] /\ wagerEvents' \in [TxIds -> Seq(WagerEventRow)]
      /\ ledger' \in [Wallets -> Seq(LedgerEntry)]
      /\ balanceEvents' \in [Wallets -> Seq(BalanceEventRow)]
      /\ \A d \in Calls : txs'[d] = txs[d]
  <2>1. CASE o.initial > 0
    <3>1. /\ RecordOutcome(w, Row("PROCESSED", "", None, o.initial),
                           WagerEvent("Processed", "", o.initial))
          /\ PostMovement(w, entry, 1)
      BY <2>1 DEF OpenWallet
    <3>2. /\ "" \in Codes /\ "PROCESSED" \in AnyStatus /\ o.initial \in Snapshot
      BY <1>1 DEF Codes, AnyStatus, Statuses, Terminal, Snapshot
    <3>3. /\ Row("PROCESSED", "", None, o.initial) \in TxRow
          /\ WagerEvent("Processed", "", o.initial) \in WagerEventRow
      BY <3>2, RowTypes
    <3>4. entry \in LedgerEntry
      BY <1>1, <2>1 DEF Entry, LedgerEntry, Amount
    <3>5. txs' \in [TxIds -> TxRow] /\ wagerEvents' \in [TxIds -> Seq(WagerEventRow)]
      BY <1>1, <1>4, <3>1, <3>3, RecordOutcomeTypes
    <3>6. /\ ledger' \in [Wallets -> Seq(LedgerEntry)]
          /\ balanceEvents' \in [Wallets -> Seq(BalanceEventRow)]
      <4>. HIDE DEF entry
      <4>. QED
        BY <1>1, <1>4, <3>1, <3>4, PostMovementTypes
    <3>7. \A d \in Calls : txs'[d] = txs[d]
      BY <1>1, <1>4, <3>1 DEF RecordOutcome, DbTypeOK, TxIds
    <3>. QED
      BY <3>5, <3>6, <3>7
  <2>2. CASE ~(o.initial > 0)
    BY <2>2, <1>4 DEF OpenWallet, DbTypeOK
  <2>. QED
    BY <2>1, <2>2
<1>6. /\ wallets' \in [Wallets -> WalletRow]
      /\ \A x \in Wallets \ {w} : wallets'[x] = wallets[x]
      /\ \A x \in Wallets : Opened(x) => wallets'[x] = wallets[x] /\ Opened(x)'
  <2>. HIDE DEF row, w
  <2>. QED
    BY <1>1, <1>2, <1>3, <1>4 DEF DbTypeOK, Opened
<1>7. TypeOK'
  BY <1>2, <1>5, <1>6 DEF Inv, TypeOK
<1>8. ProcsAtWork'
  <2>1. \A c \in Calls : req[c].wallet \in Wallets
    BY OpsAssumption DEF Inv, TypeOK
  <2>. QED
    BY <1>2, <1>5, <1>6, <2>1 DEF Inv, ProcsAtWork, Committed
<1>9. LockedReadsStayFresh'
  <2>1. \A p \in Procs : Locked(p) => WalletOf(p) \in Wallets
    BY AtWork DEF Locked
  <2>2. \A p \in Procs : WalletOf(p)' = WalletOf(p) /\ (Locked(p)' <=> Locked(p))
    BY <1>2 DEF WalletOf, TxOf, Locked
  <2>. QED
    BY <1>2, <1>6, <2>1, <2>2 DEF Inv, LockedReadsStayFresh, Opened
<1>. QED
  BY <1>7, <1>8, <1>9 DEF Inv

LEMMA InitInv == Init => Inv
<1>. SUFFICES ASSUME Init PROVE Inv
  OBVIOUS
<1>1. req \in [Calls -> Ops]
  BY WorkloadsAssumption DEF Init
<1>2. DbTypeOK
  BY <1>1, EmptyRows, EmptySeq DEF Init, DbTypeOK
<1>3. ProcsTypeOK
  <2>1. "begin" \in CallLabels /\ "idle" \in ResolverLabels
    BY DEF CallLabels, ResolverLabels
  <2>2. Calls \subseteq Procs /\ Resolvers \subseteq Procs /\ Calls \cap Resolvers = {}
    BY ProcessAssumption DEF Procs
  <2>3. /\ pc \in [Procs -> CallLabels \cup ResolverLabels]
        /\ \A c \in Calls : pc[c] \in CallLabels
        /\ \A r \in Resolvers : pc[r] \in ResolverLabels
    BY <2>1, <2>2 DEF Init
  <2>. QED
    BY <2>3, EmptyRows DEF Init, ProcsTypeOK
<1>4. TypeOK
  BY <1>2, <1>3, TypeOKParts, BoundsAssumption DEF Init
<1>5. ProcsAtWork
  BY ProcessAssumption DEF Init, ProcsAtWork, Procs, Committed, NoTx, TxIds
<1>6. LockedReadsStayFresh
  BY DEF Init, LockedReadsStayFresh, Locked
<1>. QED
  BY <1>4, <1>5, <1>6 DEF Inv

LEMMA NextInv == Inv /\ [Next]_vars => Inv'
<1>. SUFFICES ASSUME Inv, [Next]_vars PROVE Inv'
  OBVIOUS
<1>1. ASSUME NEW o \in Openings, OpenWallet(o) PROVE Inv'
  BY <1>1, OpenWalletStep
<1>2. ASSUME NEW c \in Calls, CallStep(c) PROVE Inv'
  BY <1>2, SelectByExternalIDStep, SelectByKeyStep, ReplayCurrentBalanceStep, LockWalletStep,
     TryInsertIdempotencyStep, SettleLossStep, ParkStep DEF CallStep
<1>3. ASSUME NEW r \in Resolvers, ResolverStep(r) PROVE Inv'
  BY <1>3, ClaimStep, LoadPendingStep, ReadRetryStep, ReadOrphanWalletStep,
     RejectOrphanStep, LockForResolveStep, RecheckStep, RetryLaterStep DEF ResolverStep
<1>4. ASSUME NEW r \in Resolvers, CrashWorker(r) PROVE Inv'
  BY <1>4, CrashWorkerStep
<1>5. ASSUME NEW p \in Procs, SharedStep(p) PROVE Inv'
  BY <1>5, ReadReferenceStep, ReadReversalStep, SettleStep, RejectAndPersistStep,
     FailDecisionStep DEF SharedStep
<1>6. ASSUME NEW p \in Procs, Abort(p) PROVE Inv'
  BY <1>6, AbortStep
<1>7. ASSUME NEW t \in Calls, NextAttemptDue(t) \/ DeadlinePasses(t) PROVE Inv'
  BY <1>7, NextAttemptDueStep, DeadlinePassesStep
<1>8. CASE UNCHANGED vars
  BY <1>8, RetryStep DEF vars, Inv, TypeOK
<1>. QED
  BY <1>1, <1>2, <1>3, <1>4, <1>5, <1>6, <1>7, <1>8 DEF Next, Quiescent

(* Every variable keeps its type: amounts stay in the range of money, no   *)
(* balance is negative, and the processes never leave their protocols.     *)
THEOREM TypeCorrect == Spec => []TypeOK
<1>1. Inv => TypeOK
  BY DEF Inv
<1>. QED
  BY <1>1, InitInv, NextInv, PTL DEF Spec

(* From SELECT ... FOR UPDATE to COMMIT a transaction's copy of its wallet *)
(* is the wallet: no interleaving, crash or lapsed lease makes it stale.   *)
THEOREM LockedReadsFresh == Spec => []LockedReadsStayFresh
<1>1. Inv => LockedReadsStayFresh
  BY DEF Inv
<1>. QED
  BY <1>1, InitInv, NextInv, PTL DEF Spec

-----------------------------------------------------------------------------
(* Who waits for whom *)

\* Where a process may be between SELECT ... FOR UPDATE and the end of its transaction.
HolderLabels == {"insert", "replay", "recheck", "readRef", "readReversal", "decide"}

\* A wallet row is held by a transaction on that wallet that is past its lock.
HoldersAtWork ==
  \A w \in Wallets : locks[w] # None =>
    pc[locks[w]] \in HolderLabels /\ WalletOf(locks[w]) = w

\* p takes its step, and is entitled to whatever it holds afterwards.
LEMMA HoldersStep ==
  ASSUME Inv, HoldersAtWork, NEW p \in Procs, UNCHANGED req,
         \A q \in Procs \ {p} : pc'[q] = pc[q],
         \A q \in Resolvers \ {p} : target'[q] = target[q],
         \A w \in Wallets : locks'[w] = locks[w] \/ locks'[w] \in {None, p},
         \A w \in Wallets : locks'[w] = p => pc'[p] \in HolderLabels /\ WalletOf(p)' = w
  PROVE  HoldersAtWork'
<1>1. ASSUME NEW w \in Wallets, NEW q, q = locks'[w], q # None
      PROVE  pc'[q] \in HolderLabels /\ WalletOf(q)' = w
  <2>1. CASE q = p
    BY <1>1, <2>1
  <2>2. CASE q # p
    <3>1. q = locks[w] /\ q \in Procs \ {p}
      BY <1>1, <2>2 DEF Inv, TypeOK
    <3>2. pc[q] \in HolderLabels /\ WalletOf(q) = w
      BY <1>1, <3>1 DEF HoldersAtWork
    <3>3. WalletOf(q)' = WalletOf(q)
      BY <3>1 DEF WalletOf, TxOf, Procs
    <3>. QED
      BY <3>1, <3>2, <3>3
  <2>. QED
    BY <2>1, <2>2
<1>2. ASSUME NEW w \in Wallets, locks'[w] # None
      PROVE  pc'[locks'[w]] \in HolderLabels /\ req'[TxOf(locks[w])'].wallet = w
  <2>1. PICK q : q = locks'[w]
    OBVIOUS
  <2>. QED
    BY <1>1, <1>2, <2>1 DEF WalletOf, TxOf
<1>. QED
  BY <1>2 DEF HoldersAtWork, WalletOf

\* Nobody's lock, place or row to work on changes.
LEMMA HoldersUntouched ==
  ASSUME HoldersAtWork, UNCHANGED <<req, pc, locks, target>>
  PROVE  HoldersAtWork'
BY DEF HoldersAtWork, WalletOf, TxOf

\* p goes on, and does not leave the labels of a holder if it is one.
LEMMA HolderGoes ==
  ASSUME Inv, HoldersAtWork, NEW p \in Procs, NEW label, Goto(p, label),
         UNCHANGED <<locks, target>>, pc[p] \in HolderLabels => label \in HolderLabels
  PROVE  HoldersAtWork'
<1>1. pc'[p] = label /\ UNCHANGED req /\ \A q \in Procs \ {p} : pc'[q] = pc[q]
  BY DEF Goto, Inv, TypeOK
<1>2. WalletOf(p)' = WalletOf(p)
  BY <1>1 DEF WalletOf, TxOf
<1>3. \A w \in Wallets : locks[w] = p => pc[p] \in HolderLabels /\ WalletOf(p) = w
  BY ProcessAssumption DEF HoldersAtWork, Procs
<1>. QED
  BY <1>1, <1>2, <1>3, HoldersStep

\* p takes the row of its wallet.
LEMMA HolderTakes ==
  ASSUME Inv, HoldersAtWork, NEW p \in Procs, NEW label \in HolderLabels, Goto(p, label),
         pc[p] = "lock", locks' = [locks EXCEPT ![WalletOf(p)] = p], UNCHANGED target
  PROVE  HoldersAtWork'
<1>1. pc'[p] = label /\ UNCHANGED req /\ \A q \in Procs \ {p} : pc'[q] = pc[q]
  BY DEF Goto, Inv, TypeOK
<1>2. WalletOf(p)' = WalletOf(p)
  BY <1>1 DEF WalletOf, TxOf
<1>3. \A w \in Wallets : locks[w] # p
  BY ProcessAssumption DEF HoldersAtWork, HolderLabels, Procs
<1>4. \A w \in Wallets : locks'[w] = locks[w] \/ (locks'[w] = p /\ w = WalletOf(p))
  BY DEF Inv, TypeOK
<1>. QED
  BY <1>1, <1>2, <1>3, <1>4, HoldersStep

\* p ends and holds nothing.
LEMMA HolderEnds ==
  ASSUME Inv, HoldersAtWork, NEW p \in Procs, UNCHANGED req, Release(p),
         \A q \in Procs \ {p} : pc'[q] = pc[q],
         \A q \in Resolvers \ {p} : target'[q] = target[q]
  PROVE  HoldersAtWork'
<1>1. \A w \in Wallets : locks'[w] # p /\ (locks'[w] = locks[w] \/ locks'[w] = None)
  BY ProcessAssumption DEF Release, Procs
<1>. QED
  BY <1>1, HoldersStep

LEMMA FinishEnds ==
  ASSUME Inv, HoldersAtWork, NEW p \in Procs, NEW answer, Finish(p, answer), UNCHANGED req
  PROVE  HoldersAtWork'
<1>1. CASE p \in Calls
  BY <1>1, HolderEnds DEF Finish, EndCall, work, Inv, TypeOK
<1>2. CASE p \notin Calls
  BY <1>2, HolderEnds DEF Finish, EndResolve, Inv, TypeOK
<1>. QED
  BY <1>1, <1>2

LEMMA AnswerEnds ==
  ASSUME Inv, HoldersAtWork, NEW c \in Calls, NEW answer, EndCall(c, answer), UNCHANGED req
  PROVE  HoldersAtWork'
BY FinishEnds DEF Finish, Procs

LEMMA ResolveEnds ==
  ASSUME Inv, HoldersAtWork, NEW r \in Resolvers, EndResolve(r), UNCHANGED req
  PROVE  HoldersAtWork'
BY FinishEnds, ProcessAssumption DEF Finish, Procs

LEMMA ReplayOrConflictHolders ==
  ASSUME Inv, HoldersAtWork, NEW c \in Calls, NEW d \in Calls, ReplayOrConflict(c, d)
  PROVE  HoldersAtWork'
<1>1. CASE \E answer : EndCall(c, answer) /\ UNCHANGED req
  BY <1>1, AnswerEnds
<1>2. CASE Goto(c, "replay") /\ UNCHANGED <<locks, held, work>>
  BY <1>2, HolderGoes DEF HolderLabels, work, Procs
<1>. QED
  BY <1>1, <1>2 DEF ReplayOrConflict

LEMMA CallHolders ==
  ASSUME Inv, HoldersAtWork, NEW c \in Calls, CallStep(c)
  PROVE  HoldersAtWork'
<1>0. c \in Procs /\ WalletOf(c) = req[c].wallet
  BY DEF Procs, WalletOf, TxOf
<1>1. CASE SelectByExternalID(c)
  BY <1>0, <1>1, AnswerEnds, HolderGoes DEF SelectByExternalID, HolderLabels, work
<1>2. CASE SelectByKey(c)
  BY <1>0, <1>2, ReplayOrConflictHolders, HolderGoes DEF SelectByKey, HolderLabels, work
<1>3. CASE ReplayCurrentBalance(c)
  BY <1>3, AnswerEnds DEF ReplayCurrentBalance
<1>4. CASE LockWallet(c)
  BY <1>0, <1>4, AnswerEnds, HolderTakes DEF LockWallet, HolderLabels, work
<1>5. CASE TryInsertIdempotency(c)
  <2>1. \/ \E d \in Calls : ReplayOrConflict(c, d)
        \/ EndCall(c, Conflict) /\ UNCHANGED req
        \/ \E label \in {"readRef", "decide"} : Goto(c, label) /\ UNCHANGED <<locks, held, seen, work>>
    BY <1>5 DEF TryInsertIdempotency
  <2>. QED
    BY <1>0, <2>1, ReplayOrConflictHolders, AnswerEnds, HolderGoes DEF HolderLabels, work
<1>6. CASE SettleLoss(c) \/ Park(c)
  BY <1>0, <1>6, FinishEnds DEF SettleLoss, Park
<1>. QED
  BY <1>1, <1>2, <1>3, <1>4, <1>5, <1>6 DEF CallStep

LEMMA ResolverHolders ==
  ASSUME Inv, HoldersAtWork, NEW r \in Resolvers, ResolverStep(r) \/ CrashWorker(r)
  PROVE  HoldersAtWork'
<1>0. r \in Procs
  BY DEF Procs
<1>1. CASE ClaimPendingReferencesDue(r)
  BY <1>1, HoldersUntouched DEF ClaimPendingReferencesDue
<1>2. CASE LoadPending(r)
  <2>1. /\ \A q \in Procs \ {r} : pc'[q] = pc[q]
        /\ \A q \in Resolvers \ {r} : target'[q] = target[q]
        /\ UNCHANGED <<req, locks>>
    BY <1>2 DEF LoadPending, Inv, TypeOK
  <2>2. \A w \in Wallets : locks[w] # r
    BY <1>0, <1>2, ProcessAssumption DEF LoadPending, HoldersAtWork, HolderLabels
  <2>. QED
    BY <1>0, <2>1, <2>2, HoldersStep
<1>3. CASE ReadRetry(r) \/ ReadOrphanWallet(r)
  <2>1. PICK label : Goto(r, label)
    BY <1>3 DEF ReadRetry, ReadOrphanWallet
  <2>2. pc[r] \notin HolderLabels /\ UNCHANGED <<locks, target>>
    BY <1>3 DEF ReadRetry, ReadOrphanWallet, HolderLabels, work
  <2>. QED
    BY <1>0, <2>1, <2>2, HolderGoes
<1>4. CASE RejectOrphan(r) \/ RetryLater(r)
  BY <1>4, ResolveEnds DEF RejectOrphan, RetryLater
<1>5. CASE LockForResolve(r)
  BY <1>0, <1>5, HolderTakes DEF LockForResolve, HolderLabels, work
<1>6. CASE Recheck(r)
  BY <1>0, <1>6, HolderGoes, ResolveEnds DEF Recheck, HolderLabels, work
<1>7. CASE CrashWorker(r)
  BY <1>0, <1>7, HolderEnds DEF CrashWorker, Inv, TypeOK
<1>. QED
  BY <1>1, <1>2, <1>3, <1>4, <1>5, <1>6, <1>7 DEF ResolverStep

LEMMA SharedHolders ==
  ASSUME Inv, HoldersAtWork, NEW p \in Procs, SharedStep(p) \/ Abort(p)
  PROVE  HoldersAtWork'
<1>1. CASE ReadReference(p) \/ ReadReversal(p)
  <2>1. \E label \in {"readReversal", "decide"} : Goto(p, label)
    BY <1>1 DEF ReadReference, ReadReversal
  <2>2. UNCHANGED <<locks, target>>
    BY <1>1 DEF ReadReference, ReadReversal, work
  <2>. QED
    BY <2>1, <2>2, HolderGoes DEF HolderLabels
<1>2. CASE Settle(p) \/ RejectAndPersist(p) \/ FailDecision(p) \/ Abort(p)
  BY <1>2, FinishEnds DEF Settle, RejectAndPersist, FailDecision, Abort
<1>. QED
  BY <1>1, <1>2 DEF SharedStep

LEMMA NextHolders == Inv /\ HoldersAtWork /\ [Next]_vars => HoldersAtWork'
<1>. SUFFICES ASSUME Inv, HoldersAtWork, [Next]_vars PROVE HoldersAtWork'
  OBVIOUS
<1>1. CASE \E o \in Openings : OpenWallet(o)
  BY <1>1, HoldersUntouched DEF OpenWallet, work
<1>2. CASE \E t \in Calls : NextAttemptDue(t) \/ DeadlinePasses(t)
  BY <1>2, HoldersUntouched DEF NextAttemptDue, DeadlinePasses, work
<1>3. CASE UNCHANGED vars
  BY <1>3, HoldersUntouched DEF vars
<1>. QED
  BY <1>1, <1>2, <1>3, CallHolders, ResolverHolders, SharedHolders DEF Next, Quiescent

(* Nobody waits in a circle: a chain of waiting has at most two links, and *)
(* its end is a transaction that waits for nobody (the wallet lock comes   *)
(* before the INSERT, ExecuteInTx in process_wager.go).                    *)
THEOREM WaitsAlwaysEnd == Spec => []WaitsEnd
<1>1. Init => HoldersAtWork
  BY DEF Init, HoldersAtWork
<1>2. ASSUME Inv, HoldersAtWork PROVE WaitsEnd
  <2>1. ASSUME NEW p \in Procs, pc[p] \notin {"lock", "insert"}
        PROVE  \A q \in Procs : ~WaitsFor(p, q)
    BY <2>1 DEF WaitsFor, WaitsForRow, WaitsForIndex
  <2>2. ASSUME NEW p \in Procs, NEW q \in Procs, WaitsForIndex(p, q)
        PROVE  InTransaction(q) /\ \A r \in Procs : ~WaitsFor(q, r)
    BY <2>1, <2>2 DEF WaitsForIndex, InFlight, InTransaction
  <2>3. ASSUME NEW p \in Procs, NEW q \in Procs, WaitsForRow(p, q)
        PROVE  pc[q] \in HolderLabels
    <3>1. pc[p] # "idle" /\ q # None
      BY <2>3, ProcessAssumption DEF WaitsForRow, Procs
    <3>2. WalletOf(p) \in Wallets
      BY <1>2, <3>1, AtWork
    <3>. QED
      BY <1>2, <2>3, <3>1, <3>2 DEF WaitsForRow, HoldersAtWork
  <2>4. ASSUME NEW p \in Procs, NEW q \in Procs, WaitsForRow(p, q)
        PROVE  /\ InTransaction(q)
               /\ \A r \in Procs : WaitsFor(q, r) => \A s \in Procs : ~WaitsFor(r, s)
    <3>1. InTransaction(q) /\ pc[q] # "lock"
      BY <2>3, <2>4 DEF HolderLabels, InTransaction
    <3>2. \A r \in Procs : WaitsFor(q, r) => WaitsForIndex(q, r)
      BY <3>1 DEF WaitsFor, WaitsForRow
    <3>. QED
      BY <2>2, <3>1, <3>2
  <2>. QED
    BY <2>2, <2>4 DEF WaitsEnd, WaitsFor
<1>3. Inv /\ HoldersAtWork => WaitsEnd
  BY <1>2
<1>. QED
  BY <1>1, <1>3, InitInv, NextInv, NextHolders, PTL DEF Spec
=============================================================================
