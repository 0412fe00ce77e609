------------------------ MODULE WalletHistoryProofs ------------------------
(***************************************************************************)
(* Proofs about the history of a transaction: first for claims that        *)
(* outlive the work they cover (~LeaseMayLapse), then for any.             *)
(*                                                                         *)
(* LeaseInv: the batches of the workers are disjoint, a claimed row is not *)
(* due again, and a busy worker's row is still waiting with the attempts   *)
(* the worker has read.  No worker then meets a row somebody else decides, *)
(* and every step records at most one outcome, of one row that has none    *)
(* (OneOutcome).                                                           *)
(*                                                                         *)
(* Whatever leases do, a step that does otherwise is the rejection of an   *)
(* orphan (OutcomeOrOrphan).  So a row with an outcome keeps one, and      *)
(* since movements are for rows without, nothing moves twice.              *)
(***************************************************************************)
EXTENDS WalletRowsProofs

BusyWith(r) ==
  pc[r] # "idle" =>
    /\ target[r] \in batch[r] /\ txs[target[r]].status = "PENDING_REFERENCE"
    /\ pc[r] \notin {"orphan", "rejectOrphan"}
    /\ pc[r] # "retry" => retrySeen[r].attempts = retries[target[r]].attempts

LeaseInv ==
  /\ \A r, s \in Resolvers : r # s => batch[r] \cap batch[s] = {}
  /\ \A r \in Resolvers : \A t \in batch[r] : ~retries[t].due
  /\ \A r \in Resolvers : BusyWith(r)

-----------------------------------------------------------------------------
\* Nothing that a worker holds is touched.
LEMMA LeaseUntouched ==
  ASSUME Inv, LeaseInv, UNCHANGED <<batch, target, retrySeen>>,
         \A r \in Resolvers : pc'[r] = pc[r],
         \A r \in Resolvers : \A t \in batch[r] : retries'[t].due => retries[t].due,
         \A t \in Calls : txs[t].status = "PENDING_REFERENCE" =>
           txs'[t] = txs[t] /\ retries'[t].attempts = retries[t].attempts
  PROVE  LeaseInv'
<1>1. ASSUME NEW r \in Resolvers PROVE BusyWith(r)'
  <2>1. BusyWith(r) /\ (pc[r] # "idle" => target[r] \in Calls)
    BY DEF LeaseInv, Inv, ProcsAtWork
  <2>. QED
    BY <2>1 DEF BusyWith
<1>. QED
  BY <1>1 DEF LeaseInv

\* A worker deals with the rows it has claimed.
LEMMA LeaseUsed ==
  ASSUME Inv, LeaseInv, NEW r \in Resolvers,
         \A s \in Resolvers \ {r} : /\ batch'[s] = batch[s] /\ target'[s] = target[s]
                                    /\ pc'[s] = pc[s] /\ retrySeen'[s] = retrySeen[s],
         batch'[r] \subseteq batch[r],
         \A t \in Calls \ batch[r] : txs'[t] = txs[t] /\ retries'[t] = retries[t],
         \A t \in batch[r] : retries'[t].due => retries[t].due,
         BusyWith(r)'
  PROVE  LeaseInv'
<1>1. \A s \in Resolvers : batch[s] \subseteq Calls
  BY DEF Inv, TypeOK
<1>2. \A s \in Resolvers : s # r => batch[s] \cap batch[r] = {}
  BY DEF LeaseInv
<1>3. \A s, u \in Resolvers : s # u => batch'[s] \cap batch'[u] = {}
  BY DEF LeaseInv
<1>4. \A s \in Resolvers : \A t \in batch'[s] : ~retries'[t].due
  <2>1. ASSUME NEW s \in Resolvers, NEW t \in batch'[s] PROVE ~retries'[t].due
    <3>1. ~retries[t].due
      BY <2>1 DEF LeaseInv
    <3>2. t \notin batch[r] => retries'[t] = retries[t]
      BY <1>1, <2>1
    <3>. QED
      BY <3>1, <3>2
  <2>. QED
    BY <2>1
<1>5. ASSUME NEW s \in Resolvers, s # r PROVE BusyWith(s)'
  <2>1. BusyWith(s)
    BY DEF LeaseInv
  <2>2. target[s] \in batch[s] => txs'[target[s]] = txs[target[s]]
                                  /\ retries'[target[s]] = retries[target[s]]
    BY <1>1, <1>2, <1>5
  <2>. QED
    BY <1>5, <2>1, <2>2 DEF BusyWith
<1>. QED
  BY <1>3, <1>4, <1>5 DEF LeaseInv

\* What a step of a call leaves alone.
CallKeepsLeases(c) ==
  /\ UNCHANGED <<batch, target, retrySeen>>
  /\ \A r \in Resolvers : pc'[r] = pc[r]
  /\ \/ UNCHANGED <<txs, retries>>
     \/ /\ ~Committed(c)
        /\ \A t \in Calls \ {c} : txs'[t] = txs[t] /\ retries'[t] = retries[t]
        /\ retries'[c] = retries[c] \/ ~retries'[c].due

LEMMA CallKeepsLeaseInv ==
  ASSUME Inv, LeaseInv, NEW c \in Calls, CallKeepsLeases(c) PROVE LeaseInv'
<1>1. CASE UNCHANGED <<txs, retries>>
  BY <1>1, LeaseUntouched DEF CallKeepsLeases
<1>2. CASE /\ ~Committed(c)
           /\ \A t \in Calls \ {c} : txs'[t] = txs[t] /\ retries'[t] = retries[t]
           /\ retries'[c] = retries[c] \/ ~retries'[c].due
  <2>1. \A t \in Calls : txs[t].status = "PENDING_REFERENCE" => t # c
    BY <1>2 DEF Committed
  <2>2. \A r \in Resolvers : batch[r] \subseteq Calls
    BY DEF Inv, TypeOK
  <2>3. \A t \in Calls : retries'[t].due => retries[t].due
    BY <1>2
  <2>. QED
    BY <1>2, <2>1, <2>2, <2>3, LeaseUntouched DEF CallKeepsLeases
<1>. QED
  BY <1>1, <1>2 DEF CallKeepsLeases

LEMMA CallsKeepLeases ==
  ASSUME Inv, RowInv, NEW c \in Calls, CallStep(c) \/ SharedStep(c) \/ Abort(c)
  PROVE  CallKeepsLeases(c)
<1>1. c \in Procs /\ c \notin Resolvers /\ Resolvers \subseteq Procs /\ TxOf(c) = c /\ c \in TxIds
  BY ProcessAssumption DEF Procs, TxOf, TxIds
<1>2. \A answer : Finish(c, answer) = EndCall(c, answer)
  BY DEF Finish
<1>3. ASSUME NEW answer, EndCall(c, answer)
      PROVE  UNCHANGED <<batch, target, retrySeen>> /\ \A r \in Resolvers : pc'[r] = pc[r]
  BY <1>1, <1>3 DEF EndCall, work, Inv, TypeOK
<1>4. ASSUME NEW label, Goto(c, label)
      PROVE  UNCHANGED <<txs, retries>> /\ \A r \in Resolvers : pc'[r] = pc[r]
  BY <1>1, <1>4 DEF Goto, db, Inv, TypeOK
<1>5. ASSUME NEW answer, EndCall(c, answer), UNCHANGED db PROVE CallKeepsLeases(c)
  BY <1>3, <1>5 DEF CallKeepsLeases, db
<1>6. ASSUME NEW label, Goto(c, label), UNCHANGED work PROVE CallKeepsLeases(c)
  BY <1>4, <1>6 DEF CallKeepsLeases, work
<1>7. ASSUME NEW d \in Calls, ReplayOrConflict(c, d) PROVE CallKeepsLeases(c)
  BY <1>5, <1>6, <1>7 DEF ReplayOrConflict
<1>8. ASSUME pc[c] = "decide", NEW answer, EndCall(c, answer), NEW row, NEW event,
             RecordOutcome(c, row, event), UNCHANGED retries \/ DeleteRetry(c)
               \/ retries' = [retries EXCEPT ![c] = Waiting(0, FALSE)]
      PROVE  CallKeepsLeases(c)
  <2>1. ~Committed(c)
    BY <1>1, <1>8 DEF RowInv, KnowsRows
  <2>2. \A t \in Calls \ {c} : txs'[t] = txs[t] /\ retries'[t] = retries[t]
    BY <1>1, <1>8 DEF RecordOutcome, DeleteRetry, Inv, TypeOK, TxIds
  <2>3. retries'[c] = retries[c] \/ ~retries'[c].due
    BY <1>8 DEF DeleteRetry, NoRetry, Waiting, Inv, TypeOK
  <2>. QED
    BY <1>3, <1>8, <2>1, <2>2, <2>3 DEF CallKeepsLeases
<1>9. CASE SelectByExternalID(c) \/ SelectByKey(c) \/ ReplayCurrentBalance(c)
           \/ LockWallet(c) \/ TryInsertIdempotency(c)
  BY <1>9, <1>5, <1>6, <1>7 DEF SelectByExternalID, SelectByKey, ReplayCurrentBalance,
     LockWallet, TryInsertIdempotency
<1>10. CASE SettleLoss(c) \/ Park(c)
  <2>1. CASE SettleLoss(c)
    <3>1. PICK answer, row, event :
            /\ pc[c] = "decide" /\ EndCall(c, answer)
            /\ RecordOutcome(c, row, event) /\ UNCHANGED retries
      BY <1>2, <2>1 DEF SettleLoss, RecordLoss
    <3>. QED
      BY <1>8, <3>1
  <2>2. CASE Park(c)
    <3>1. PICK answer, row, event :
            /\ pc[c] = "decide" /\ EndCall(c, answer)
            /\ RecordOutcome(c, row, event)
            /\ retries' = [retries EXCEPT ![c] = Waiting(0, FALSE)]
      BY <1>2, <2>2 DEF Park, ParkPendingReference
    <3>. QED
      BY <1>8, <3>1
  <2>. QED
    BY <1>10, <2>1, <2>2
<1>11. CASE ReadReference(c) \/ ReadReversal(c)
  BY <1>6, <1>11 DEF ReadReference, ReadReversal
<1>12. CASE Settle(c) \/ RejectAndPersist(c)
  <2>1. PICK answer, row, event :
          /\ pc[c] = "decide" /\ EndCall(c, answer)
          /\ RecordOutcome(c, row, event) /\ DeleteRetry(c)
    <3>1. CASE Settle(c)
      BY <1>1, <1>2, <3>1 DEF Settle, CommitMovement
    <3>2. CASE RejectAndPersist(c)
      BY <1>1, <1>2, <3>2 DEF RejectAndPersist, PersistRejection
    <3>. QED
      BY <1>12, <3>1, <3>2
  <2>. QED
    BY <1>8, <2>1
<1>13. CASE FailDecision(c) \/ Abort(c)
  BY <1>2, <1>5, <1>13 DEF FailDecision, Abort
<1>. QED
  BY <1>9, <1>10, <1>11, <1>12, <1>13 DEF CallStep, SharedStep

\* A worker goes on with its row, which it still reads as it has read it.
LEMMA WorkerGoesOn ==
  ASSUME Inv, LeaseInv, NEW r \in Resolvers, NEW label, Goto(r, label), pc[r] # "idle",
         UNCHANGED <<batch, target>>,
         \A s \in Resolvers \ {r} : retrySeen'[s] = retrySeen[s],
         label \notin {"idle", "retry", "orphan", "rejectOrphan"},
         retrySeen'[r].attempts = retries[target[r]].attempts
  PROVE  LeaseInv'
<1>1. r \in Procs /\ Resolvers \subseteq Procs
  BY DEF Procs
<1>2. UNCHANGED <<txs, retries>> /\ pc' = [pc EXCEPT ![r] = label]
  BY DEF Goto, db
<1>3. pc'[r] = label /\ \A s \in Resolvers \ {r} : pc'[s] = pc[s]
  BY <1>1, <1>2 DEF Inv, TypeOK
<1>4. BusyWith(r)'
  BY <1>2, <1>3 DEF LeaseInv, BusyWith
<1>. QED
  BY <1>2, <1>3, <1>4, LeaseUsed

\* A worker is done with its row: others may claim it when it is due.
LEMMA WorkerLetsGo ==
  ASSUME Inv, LeaseInv, NEW r \in Resolvers, GoesIdle(r),
         \A s \in Resolvers \ {r} : batch'[s] = batch[s], batch'[r] \subseteq batch[r],
         \A t \in Calls \ batch[r] : txs'[t] = txs[t] /\ retries'[t] = retries[t],
         \A t \in batch[r] : retries'[t].due => retries[t].due
  PROVE  LeaseInv'
<1>1. r \in Procs /\ Resolvers \subseteq Procs
  BY DEF Procs
<1>2. /\ \A s \in Resolvers \ {r} : /\ target'[s] = target[s] /\ pc'[s] = pc[s]
                                    /\ retrySeen'[s] = retrySeen[s]
      /\ pc'[r] = "idle"
  BY <1>1 DEF GoesIdle, Inv, TypeOK
<1>. QED
  BY <1>2, LeaseUsed DEF BusyWith

LEMMA EndResolveLetsGo ==
  ASSUME Inv, LeaseInv, NEW r \in Resolvers, EndResolve(r),
         \A t \in Calls \ {target[r]} : txs'[t] = txs[t] /\ retries'[t] = retries[t],
         target[r] \in batch[r] \/ UNCHANGED <<txs, retries>>,
         target[r] \in Calls => (retries'[target[r]].due => retries[target[r]].due)
  PROVE  LeaseInv'
<1>1. GoesIdle(r) /\ batch' = [batch EXCEPT ![r] = @ \ {target[r]}]
  BY DEF EndResolve, GoesIdle
<1>2. batch'[r] \subseteq batch[r] /\ \A s \in Resolvers \ {r} : batch'[s] = batch[s]
  BY <1>1 DEF Inv, TypeOK
<1>3. batch[r] \subseteq Calls
  BY DEF Inv, TypeOK
<1>. QED
  BY <1>1, <1>2, <1>3, WorkerLetsGo

LEMMA LoadPendingLeases ==
  ASSUME Inv, LeaseInv, NEW r \in Resolvers, LoadPending(r) PROVE LeaseInv'
<1>0. r \in Procs /\ Resolvers \subseteq Procs
  BY DEF Procs
<1>1. PICK t \in batch[r] :
        IF txs[t].status = "PENDING_REFERENCE"
        THEN /\ pc' = [pc EXCEPT ![r] = "retry"]
             /\ target' = [target EXCEPT ![r] = t]
             /\ UNCHANGED batch
        ELSE /\ batch' = [batch EXCEPT ![r] = @ \ {t}]
             /\ UNCHANGED <<pc, target>>
  BY DEF LoadPending
<1>2. pc[r] = "idle" /\ UNCHANGED <<txs, retries, retrySeen>>
  BY DEF LoadPending, db
<1>3. CASE txs[t].status = "PENDING_REFERENCE"
  <2>1. /\ pc' = [pc EXCEPT ![r] = "retry"]
        /\ target' = [target EXCEPT ![r] = t] /\ UNCHANGED batch
    BY <1>1, <1>3
  <2>2. /\ pc'[r] = "retry" /\ target'[r] = t
        /\ \A s \in Resolvers \ {r} : target'[s] = target[s] /\ pc'[s] = pc[s]
    BY <1>0, <2>1 DEF Inv, TypeOK
  <2>3. BusyWith(r)'
    BY <1>1, <1>2, <1>3, <2>1, <2>2 DEF BusyWith
  <2>. QED
    BY <1>2, <2>1, <2>2, <2>3, LeaseUsed
<1>4. CASE txs[t].status # "PENDING_REFERENCE"
  <2>1. batch' = [batch EXCEPT ![r] = @ \ {t}] /\ UNCHANGED <<pc, target>>
    BY <1>1, <1>4
  <2>2. batch'[r] \subseteq batch[r] /\ \A s \in Resolvers \ {r} : batch'[s] = batch[s]
    BY <2>1 DEF Inv, TypeOK
  <2>3. BusyWith(r)'
    BY <1>2, <2>1 DEF BusyWith
  <2>. QED
    BY <1>2, <2>1, <2>2, <2>3, LeaseUsed
<1>. QED
  BY <1>3, <1>4

\* A claimed row that still waits has its retry row: there are no orphans.
LEMMA ReadRetryLeases ==
  ASSUME Inv, RowInv, LeaseInv, NEW r \in Resolvers, ReadRetry(r) PROVE LeaseInv'
<1>1. pc[r] = "retry" /\ target[r] \in Calls /\ txs[target[r]].status = "PENDING_REFERENCE"
  BY DEF ReadRetry, LeaseInv, BusyWith, Inv, ProcsAtWork
<1>2. retries[target[r]].present
  BY <1>1 DEF RowInv, WaitersHaveRetryRow
<1>3. Goto(r, "lock") /\ UNCHANGED <<batch, target>>
  BY <1>2 DEF ReadRetry
<1>4. /\ retrySeen'[r] = retries[target[r]]
      /\ \A s \in Resolvers \ {r} : retrySeen'[s] = retrySeen[s]
  BY DEF ReadRetry, Inv, TypeOK
<1>. QED
  BY <1>1, <1>3, <1>4, WorkerGoesOn

LEMMA WorkerReadsLeases ==
  ASSUME Inv, LeaseInv, NEW r \in Resolvers,
         LockForResolve(r) \/ ReadReference(r) \/ ReadReversal(r)
  PROVE  LeaseInv'
<1>1. UNCHANGED <<batch, target, retrySeen>> /\ pc[r] \notin {"idle", "retry"}
  BY DEF LockForResolve, ReadReference, ReadReversal, work
<1>2. retrySeen'[r].attempts = retries[target[r]].attempts
  BY <1>1 DEF LeaseInv, BusyWith
<1>3. \E label \in {"recheck", "readReversal", "decide"} : Goto(r, label)
  <2>1. CASE LockForResolve(r)
    BY <2>1 DEF LockForResolve
  <2>2. CASE ReadReversal(r)
    BY <2>2 DEF ReadReversal
  <2>3. CASE ReadReference(r)
    <3>1. CASE Goto(r, "decide")
      BY <3>1
    <3>2. ASSUME NEW d \in ReferenceRows(r),
                 Goto(r, IF /\ txs[d].status = "PROCESSED"
                            /\ ReferenceMismatch(req[TxOf(r)], req[d]) = ""
                         THEN "readReversal" ELSE "decide")
          PROVE  \E label \in {"recheck", "readReversal", "decide"} : Goto(r, label)
      BY <3>2
    <3>. QED
      BY <2>3, <3>1, <3>2 DEF ReadReference
  <2>. QED
    BY <2>1, <2>2, <2>3
<1>. QED
  BY <1>1, <1>2, <1>3, WorkerGoesOn

LEMMA RecheckLeases ==
  ASSUME Inv, LeaseInv, NEW r \in Resolvers, Recheck(r) PROVE LeaseInv'
<1>1. /\ pc[r] = "recheck" /\ txs[target[r]].status = "PENDING_REFERENCE"
      /\ retrySeen[r].attempts = retries[target[r]].attempts
  BY DEF Recheck, LeaseInv, BusyWith
<1>2. Goto(r, "readRef") /\ UNCHANGED <<batch, target, retrySeen>>
  BY <1>1 DEF Recheck, work
<1>. QED
  BY <1>1, <1>2, WorkerGoesOn

\* The end of a worker's transaction, whatever it decided.
LEMMA WorkerEndsLeases ==
  ASSUME Inv, LeaseInv, NEW r \in Resolvers,
         Settle(r) \/ RejectAndPersist(r) \/ RetryLater(r) \/ FailDecision(r) \/ Abort(r)
  PROVE  LeaseInv'
<1>1. r \in Procs /\ r \notin Calls /\ TxOf(r) = target[r] /\ pc[r] # "idle"
  BY ProcessAssumption DEF Procs, TxOf, Settle, RejectAndPersist, RetryLater, FailDecision, Abort
<1>2. target[r] \in batch[r] /\ target[r] \in Calls /\ target[r] \in TxIds
  BY <1>1 DEF LeaseInv, BusyWith, Inv, ProcsAtWork, TxIds
<1>3. EndResolve(r)
  BY <1>1 DEF Settle, RejectAndPersist, RetryLater, FailDecision, Abort, Finish
<1>4. /\ \A t \in Calls \ {target[r]} : txs'[t] = txs[t] /\ retries'[t] = retries[t]
      /\ retries'[target[r]].due => retries[target[r]].due
  <2>1. CASE Settle(r) \/ RejectAndPersist(r)
    <3>1. PICK row, event : RecordOutcome(target[r], row, event) /\ DeleteRetry(target[r])
      <4>1. CASE Settle(r)
        BY <1>1, <4>1 DEF Settle, CommitMovement
      <4>2. CASE RejectAndPersist(r)
        BY <1>1, <4>2 DEF RejectAndPersist, PersistRejection
      <4>. QED
        BY <2>1, <4>1, <4>2
    <3>. QED
      BY <1>2, <3>1 DEF RecordOutcome, DeleteRetry, NoRetry, Inv, TypeOK, TxIds
  <2>2. CASE RetryLater(r)
    BY <1>2, <2>2 DEF RetryLater, ScheduleRetry, Waiting, Inv, TypeOK
  <2>3. CASE FailDecision(r) \/ Abort(r)
    BY <2>3 DEF FailDecision, Abort, db
  <2>. QED
    BY <2>1, <2>2, <2>3
<1>. QED
  BY <1>2, <1>3, <1>4, EndResolveLetsGo

LEMMA CrashWorkerLeases ==
  ASSUME Inv, LeaseInv, NEW r \in Resolvers, CrashWorker(r) PROVE LeaseInv'
<1>1. GoesIdle(r) /\ UNCHANGED <<txs, retries>>
  BY DEF CrashWorker, GoesIdle, db
<1>2. batch'[r] = {} /\ \A s \in Resolvers \ {r} : batch'[s] = batch[s]
  BY DEF CrashWorker, Inv, TypeOK
<1>. QED
  BY <1>1, <1>2, WorkerLetsGo

\* A claim takes due rows, which are in no batch, and they are not due any more.
LEMMA ClaimLeases ==
  ASSUME Inv, LeaseInv, NEW r \in Resolvers, ClaimPendingReferencesDue(r) PROVE LeaseInv'
<1>1. PICK claimed \in SUBSET DueReferences :
        /\ batch' = [batch EXCEPT ![r] = claimed]
        /\ retries' = [t \in Calls |->
             IF t \in claimed THEN [retries[t] EXCEPT !.due = FALSE] ELSE retries[t]]
  BY DEF ClaimPendingReferencesDue
<1>2. pc[r] = "idle" /\ UNCHANGED <<txs, pc, target, retrySeen>>
  BY DEF ClaimPendingReferencesDue
<1>3. /\ claimed \subseteq Calls
      /\ \A s \in Resolvers : batch[s] \subseteq Calls /\ claimed \cap batch[s] = {}
  BY DEF DueReferences, LeaseInv, Inv, TypeOK
<1>4. batch'[r] = claimed /\ \A s \in Resolvers \ {r} : batch'[s] = batch[s]
  BY <1>1 DEF Inv, TypeOK
<1>5. \A s, u \in Resolvers : s # u => batch'[s] \cap batch'[u] = {}
  BY <1>3, <1>4 DEF LeaseInv
<1>6. \A t \in Calls : retries[t] \in RetryRow
  BY DEF Inv, TypeOK
<1>7. \A t \in claimed : ~retries'[t].due
  BY <1>1, <1>3, <1>6 DEF RetryRow
<1>8. \A t \in Calls : retries'[t].attempts = retries[t].attempts
  BY <1>1, <1>6 DEF RetryRow
<1>9. \A s \in Resolvers : \A t \in batch[s] : retries'[t] = retries[t]
  BY <1>1, <1>3
<1>10. \A s \in Resolvers : \A t \in batch'[s] : ~retries'[t].due
  BY <1>4, <1>7, <1>9 DEF LeaseInv
<1>11. ASSUME NEW s \in Resolvers PROVE BusyWith(s)'
  <2>1. BusyWith(s) /\ (pc[s] # "idle" => target[s] \in Calls)
    BY DEF LeaseInv, Inv, ProcsAtWork
  <2>. QED
    BY <1>2, <1>4, <1>8, <2>1 DEF BusyWith
<1>. QED
  BY <1>5, <1>10, <1>11 DEF LeaseInv

LEMMA ClockLeases ==
  ASSUME ~LeaseMayLapse, Inv, LeaseInv, NEW t \in Calls, NextAttemptDue(t) \/ DeadlinePasses(t)
  PROVE  LeaseInv'
<1>1. \A u \in Calls : retries[u] \in RetryRow
  BY DEF Inv, TypeOK
<1>2. UNCHANGED <<txs, pc, batch, target, retrySeen>>
  BY DEF NextAttemptDue, DeadlinePasses, work
<1>3. ASSUME NEW u \in Calls PROVE retries'[u].attempts = retries[u].attempts
  <2>1. CASE NextAttemptDue(t)
    BY <1>1, <2>1 DEF NextAttemptDue, Inv, TypeOK, RetryRow
  <2>2. CASE DeadlinePasses(t)
    BY <1>1, <2>2 DEF DeadlinePasses, Inv, TypeOK, RetryRow
  <2>. QED
    BY <2>1, <2>2
<1>4. ASSUME NEW r \in Resolvers, NEW u \in batch[r] PROVE retries'[u].due => retries[u].due
  <2>1. u \in Calls
    BY DEF Inv, TypeOK
  <2>2. CASE NextAttemptDue(t)
    <3>1. u # t
      BY <2>2 DEF NextAttemptDue
    <3>. QED
      BY <2>1, <2>2, <3>1 DEF NextAttemptDue, Inv, TypeOK
  <2>3. CASE DeadlinePasses(t)
    BY <1>1, <2>1, <2>3 DEF DeadlinePasses, RetryRow, Inv, TypeOK
  <2>. QED
    BY <2>2, <2>3
<1>. QED
  BY <1>2, <1>3, <1>4, LeaseUntouched

LEMMA OpenWalletLeases ==
  ASSUME Inv, LeaseInv, NEW o \in Openings, OpenWallet(o) PROVE LeaseInv'
<1>1. UNCHANGED <<batch, target, retrySeen, retries, pc>>
  BY DEF OpenWallet, work
<1>2. \A c \in Calls : txs'[c] = txs[c]
  <2>1. \A c \in Calls : c # o.wallet
    BY OpeningsAssumption, ProcessAssumption
  <2>. QED
    BY <2>1 DEF OpenWallet, RecordOutcome, Inv, TypeOK, TxIds
<1>. QED
  BY <1>1, <1>2, LeaseUntouched DEF Inv, TypeOK

LEMMA InitLeases == Init => LeaseInv
BY ProcessAssumption DEF Init, LeaseInv, BusyWith, Procs

\* Only a row that nobody decides any more would have lost its retry row.
LEMMA NoOrphans ==
  ASSUME LeaseInv, NEW r \in Resolvers
  PROVE  ~ReadOrphanWallet(r) /\ ~RejectOrphan(r)
BY DEF LeaseInv, BusyWith, ReadOrphanWallet, RejectOrphan

LEMMA NextLeases == ~LeaseMayLapse /\ Inv /\ RowInv /\ LeaseInv /\ [Next]_vars => LeaseInv'
<1>. SUFFICES ASSUME ~LeaseMayLapse, Inv, RowInv, LeaseInv, [Next]_vars PROVE LeaseInv'
  OBVIOUS
<1>1. ASSUME NEW o \in Openings, OpenWallet(o) PROVE LeaseInv'
  BY <1>1, OpenWalletLeases
<1>2. ASSUME NEW c \in Calls, CallStep(c) \/ SharedStep(c) \/ Abort(c) PROVE LeaseInv'
  BY <1>2, CallsKeepLeases, CallKeepsLeaseInv
<1>3. ASSUME NEW r \in Resolvers, ResolverStep(r) \/ CrashWorker(r) PROVE LeaseInv'
  BY <1>3, ClaimLeases, LoadPendingLeases, ReadRetryLeases, NoOrphans, WorkerReadsLeases,
     RecheckLeases, WorkerEndsLeases, CrashWorkerLeases DEF ResolverStep
<1>4. ASSUME NEW r \in Resolvers, SharedStep(r) \/ Abort(r) PROVE LeaseInv'
  BY <1>4, WorkerReadsLeases, WorkerEndsLeases DEF SharedStep
<1>5. ASSUME NEW t \in Calls, NextAttemptDue(t) \/ DeadlinePasses(t) PROVE LeaseInv'
  BY <1>5, ClockLeases
<1>6. CASE UNCHANGED vars
  BY <1>6, LeaseUntouched DEF vars
<1>. QED
  BY <1>1, <1>2, <1>3, <1>4, <1>5, <1>6 DEF Next, Quiescent, Procs

LEMMA SpecLeases ==
  ASSUME ~LeaseMayLapse PROVE Spec => [](Inv /\ RowInv /\ LeaseInv)
<1>1. Inv /\ RowInv /\ LeaseInv /\ [Next]_vars => LeaseInv'
  BY NextLeases
<1>. QED
  BY <1>1, InitInv, NextInv, InitRows, NextRows, InitLeases, PTL DEF Spec

-----------------------------------------------------------------------------
(* Attempts *)

\* A step leaves the count of a waiting transaction as it is, or counts one.
AttemptsKept(t) ==
  retries[t].present /\ retries'[t].present => retries'[t].attempts = retries[t].attempts
AttemptCounted(t) == retries'[t].attempts = retries[t].attempts + 1

(* The worker's copy is still what the row says: it holds the lease and    *)
(* the wallet, so its attempt is counted on the row as it is, and on no    *)
(* other row.                                                              *)
LEMMA RetryLaterAttempts ==
  ASSUME Inv, LeaseInv, NEW r \in Resolvers, RetryLater(r)
  PROVE  /\ AttemptCounted(target[r])
         /\ \A t \in Calls \ {target[r]} : AttemptsKept(t)
<1>1. target[r] \in Calls /\ retrySeen[r].attempts = retries[target[r]].attempts
  BY DEF RetryLater, LeaseInv, BusyWith, Inv, ProcsAtWork
<1>2. retries' = [retries EXCEPT
        ![target[r]] = Waiting(retrySeen[r].attempts + 1, retries[target[r]].expired)]
  BY DEF RetryLater, ScheduleRetry
<1>3. AttemptCounted(target[r])
  BY <1>1, <1>2 DEF AttemptCounted, Waiting, Inv, TypeOK
<1>4. ASSUME NEW t \in Calls \ {target[r]} PROVE AttemptsKept(t)
  BY <1>2, <1>4 DEF AttemptsKept, Inv, TypeOK
<1>. QED
  BY <1>3, <1>4

LEMMA NextAttempts ==
  ASSUME Inv, RowInv, LeaseInv, Next, NEW t \in Calls
  PROVE  AttemptsKept(t) \/ TriesAgain(t)
<1>0. \A u \in Calls : retries[u] \in RetryRow
  BY DEF Inv, TypeOK
<1>1. ASSUME UNCHANGED retries PROVE AttemptsKept(t)
  BY <1>1 DEF AttemptsKept
<1>2. ASSUME NEW c \in Calls, CallKeepsLeases(c) PROVE AttemptsKept(t)
  <2>1. ~Committed(c) => ~retries[c].present
    BY DEF RowInv, WaitersHaveRetryRow, Committed
  <2>. QED
    BY <1>2, <2>1 DEF CallKeepsLeases, AttemptsKept
<1>3. ASSUME NEW u, DeleteRetry(u) PROVE AttemptsKept(t)
  BY <1>3 DEF DeleteRetry, NoRetry, AttemptsKept, Inv, TypeOK
<1>4. ASSUME NEW r \in Resolvers, ClaimPendingReferencesDue(r) PROVE AttemptsKept(t)
  <2>1. retries'[t] \in {[retries[t] EXCEPT !.due = FALSE], retries[t]}
    BY <1>4 DEF ClaimPendingReferencesDue
  <2>. QED
    BY <1>0, <2>1 DEF AttemptsKept, RetryRow
<1>5. ASSUME NEW u \in Calls, NextAttemptDue(u) PROVE AttemptsKept(t)
  BY <1>0, <1>5 DEF NextAttemptDue, AttemptsKept, Inv, TypeOK, RetryRow
<1>6. ASSUME NEW u \in Calls, DeadlinePasses(u) PROVE AttemptsKept(t)
  BY <1>0, <1>6 DEF DeadlinePasses, AttemptsKept, Inv, TypeOK, RetryRow
<1>7. ASSUME NEW r \in Resolvers,
             \/ LoadPending(r) \/ ReadRetry(r) \/ LockForResolve(r) \/ Recheck(r)
             \/ ReadReference(r) \/ ReadReversal(r) \/ FailDecision(r) \/ Abort(r)
             \/ CrashWorker(r)
      PROVE  AttemptsKept(t)
  <2>1. UNCHANGED retries
    BY <1>7 DEF LoadPending, ReadRetry, LockForResolve, Recheck, ReadReference, ReadReversal,
       FailDecision, Abort, CrashWorker, Goto, db
  <2>. QED
    BY <1>1, <2>1
<1>8. ASSUME NEW r \in Resolvers, Settle(r) \/ RejectAndPersist(r) PROVE AttemptsKept(t)
  BY <1>3, <1>8 DEF Settle, RejectAndPersist, CommitMovement, PersistRejection
<1>9. ASSUME NEW o \in Openings, OpenWallet(o) PROVE AttemptsKept(t)
  BY <1>1, <1>9 DEF OpenWallet
<1>10. ASSUME NEW c \in Calls, CallStep(c) \/ SharedStep(c) \/ Abort(c) PROVE AttemptsKept(t)
  BY <1>2, <1>10, CallsKeepLeases
<1>11. ASSUME NEW r \in Resolvers, ResolverStep(r) \/ CrashWorker(r)
       PROVE  AttemptsKept(t) \/ TriesAgain(t)
  <2>1. CASE RetryLater(r)
    BY <2>1, RetryLaterAttempts DEF TriesAgain
  <2>. QED
    BY <1>4, <1>7, <1>11, <2>1, NoOrphans DEF ResolverStep
<1>12. ASSUME NEW r \in Resolvers, SharedStep(r) \/ Abort(r) PROVE AttemptsKept(t)
  BY <1>7, <1>8, <1>12 DEF SharedStep
<1>13. CASE UNCHANGED vars
  BY <1>1, <1>13 DEF vars
<1>. QED
  BY <1>5, <1>6, <1>9, <1>10, <1>11, <1>12, <1>13 DEF Next, Quiescent, Procs

(* Every attempt is counted.  scheduleRetry leaves one attempt more than   *)
(* the row has at that moment, although it writes back a copy: while       *)
(* claims outlive the work, nobody else has counted in between.  No other  *)
(* step touches the count of a transaction that goes on waiting.           *)
THEOREM AttemptsAreNeverLost ==
  ASSUME ~LeaseMayLapse PROVE Spec => AttemptsNeverLost
<1>1. ASSUME Inv, RowInv, LeaseInv, Next, NEW c \in Calls
      PROVE  retries[c].present /\ retries'[c].present =>
               retries'[c].attempts = IF TriesAgain(c) THEN retries[c].attempts + 1
                                      ELSE retries[c].attempts
  <2>1. CASE TriesAgain(c)
    BY <1>1, <2>1, RetryLaterAttempts DEF TriesAgain, AttemptCounted
  <2>2. CASE ~TriesAgain(c)
    BY <1>1, <2>2, NextAttempts DEF AttemptsKept
  <2>. QED
    BY <2>1, <2>2
<1>2. Inv /\ RowInv /\ LeaseInv /\ [Next]_vars =>
        [\A c \in Calls :
           retries[c].present /\ retries'[c].present =>
             retries'[c].attempts = IF TriesAgain(c) THEN retries[c].attempts + 1
                                    ELSE retries[c].attempts]_vars
  BY <1>1
<1>. QED
  BY <1>2, SpecLeases, PTL DEF AttemptsNeverLost, Spec

-----------------------------------------------------------------------------
(* Outcomes *)

Undecided(t) == txs[t].status \in {"NONE", "PENDING_REFERENCE"}

\* The event that announces a row.
Tells(t, row, event) ==
  \/ row.status = "PROCESSED" /\ event = WagerEvent("Processed", "", row.snap)
  \/ row.status = "REJECTED" /\ event = WagerEvent("Rejected", row.code, NoBalance)
  \/ /\ row.status = "PENDING_REFERENCE" /\ ~Committed(t)
     /\ event = WagerEvent("PendingReference", "", NoBalance)

\* A step records at most one outcome, of one row that has none.
OneOutcome ==
  \/ UNCHANGED <<txs, wagerEvents>>
  \/ \E t \in TxIds : \E row, event :
       /\ Undecided(t) /\ Tells(t, row, event) /\ RecordOutcome(t, row, event)
       /\ t \in Wallets => Opened(t)'

\* The row of an OPENING comes with its wallet, and wallets are never closed.
OpeningsInv == \A w \in Wallets : Committed(w) => Opened(w)

LEMMA WalletsStayOpen ==
  ASSUME Inv, Next PROVE \A w \in Wallets : Opened(w) => Opened(w)'
<1>1. ASSUME UNCHANGED wallets PROVE \A w \in Wallets : Opened(w) => Opened(w)'
  BY <1>1 DEF Opened
<1>2. ASSUME NEW p \in Procs, Settle(p) PROVE \A w \in Wallets : Opened(w) => Opened(w)'
  <2>1. PICK id, after :
          wallets' = [wallets EXCEPT ![id].balance = after, ![id].version = held[p].version + 1]
    BY <1>2 DEF Settle, CommitMovement
  <2>2. held[p].version \in Nat /\ \A w \in Wallets : wallets[w] \in WalletRow
    BY DEF Inv, TypeOK, WalletRow
  <2>. QED
    BY <2>1, <2>2 DEF Opened, Inv, TypeOK, WalletRow
<1>3. ASSUME NEW o \in Openings, OpenWallet(o) PROVE \A w \in Wallets : Opened(w) => Opened(w)'
  <2>1. ~Opened(o.wallet) /\ \A w \in Wallets \ {o.wallet} : wallets'[w] = wallets[w]
    BY <1>3 DEF OpenWallet, Inv, TypeOK
  <2>. QED
    BY <2>1 DEF Opened
<1>. QED
  BY <1>1, <1>2, <1>3, OnlyTwoMove DEF NoMovement

\* The row of a process that decides has no outcome yet.
LEMMA DecidingUndecided ==
  ASSUME Inv, RowInv, NEW p \in Procs, pc[p] = "decide"
  PROVE  /\ TxOf(p) \in Calls /\ Undecided(TxOf(p)) /\ TxOf(p) \in TxIds \ Wallets
         /\ p \in Calls => TxOf(p) = p /\ ~Committed(p)
<1>1. TxOf(p) \in Calls
  BY AtWork
<1>2. KnowsRows(p)
  BY DEF RowInv
<1>. QED
  BY <1>1, <1>2, KindsOfProcess, ProcessAssumption
     DEF KnowsRows, Undecided, Committed, Deciding, TxIds

(* Whatever leases do, a step records one outcome of one row that has none *)
(* or is the rejection of an orphan.                                       *)
LEMMA OutcomeOrOrphan ==
  ASSUME Inv, RowInv, OpeningsInv, Next
  PROVE  OneOutcome \/ \E r \in Resolvers : RejectOrphan(r)
<1>1. ASSUME UNCHANGED <<txs, wagerEvents>> PROVE OneOutcome
  BY <1>1 DEF OneOutcome
<1>2. ASSUME NEW p \in Procs, pc[p] = "decide", NEW row, NEW event,
             Tells(TxOf(p), row, event), RecordOutcome(TxOf(p), row, event)
      PROVE  OneOutcome
  BY <1>2, DecidingUndecided DEF OneOutcome
<1>3. ASSUME NEW p \in Procs, Settle(p) PROVE OneOutcome
  <2>1. PICK ref, after :
          RecordOutcome(TxOf(p), Row("PROCESSED", "", ref, after), WagerEvent("Processed", "", after))
    BY <1>3 DEF Settle, CommitMovement
  <2>2. Tells(TxOf(p), Row("PROCESSED", "", ref, after), WagerEvent("Processed", "", after))
    BY DEF Tells, Row
  <2>. QED
    BY <1>2, <1>3, <2>1, <2>2 DEF Settle
<1>4. ASSUME NEW c \in Calls, SettleLoss(c) PROVE OneOutcome
  <2>1. PICK balance :
          RecordOutcome(c, Row("PROCESSED", "", None, balance), WagerEvent("Processed", "", balance))
    BY <1>4 DEF SettleLoss, RecordLoss
  <2>2. Tells(c, Row("PROCESSED", "", None, balance), WagerEvent("Processed", "", balance))
    BY DEF Tells, Row
  <2>. QED
    BY <1>2, <1>4, <2>1, <2>2 DEF SettleLoss, TxOf, Procs
<1>5. ASSUME NEW p \in Procs, RejectAndPersist(p) PROVE OneOutcome
  <2>1. PICK code, balance :
          RecordOutcome(TxOf(p), Row("REJECTED", code, None, balance), WagerEvent("Rejected", code, NoBalance))
    BY <1>5 DEF RejectAndPersist, PersistRejection
  <2>2. Tells(TxOf(p), Row("REJECTED", code, None, balance), WagerEvent("Rejected", code, NoBalance))
    BY DEF Tells, Row
  <2>. QED
    BY <1>2, <1>5, <2>1, <2>2 DEF RejectAndPersist
<1>6. ASSUME NEW c \in Calls, Park(c) PROVE OneOutcome
  <2>1. RecordOutcome(c, Row("PENDING_REFERENCE", "", None, NoBalance),
                      WagerEvent("PendingReference", "", NoBalance))
    BY <1>6 DEF Park, ParkPendingReference
  <2>2. c \in Procs /\ TxOf(c) = c /\ pc[c] = "decide"
    BY <1>6 DEF Park, TxOf, Procs
  <2>3. ~Committed(c)
    BY <2>2, DecidingUndecided
  <2>4. Tells(c, Row("PENDING_REFERENCE", "", None, NoBalance), WagerEvent("PendingReference", "", NoBalance))
    BY <2>3 DEF Tells, Row
  <2>. QED
    BY <1>2, <2>1, <2>2, <2>4
<1>7. ASSUME NEW o \in Openings, OpenWallet(o) PROVE OneOutcome
  <2>1. CASE o.initial > 0
    <3>1. /\ o.wallet \in Wallets /\ o.wallet \in TxIds /\ ~Opened(o.wallet)
          /\ RecordOutcome(o.wallet, Row("PROCESSED", "", None, o.initial),
                           WagerEvent("Processed", "", o.initial))
      BY <1>7, <2>1, OpeningsAssumption DEF OpenWallet, TxIds
    <3>2. Opened(o.wallet)'
      <4>1. wallets' = [wallets EXCEPT ![o.wallet] =
              [player |-> o.player, currency |-> o.currency, balance |-> o.initial, version |-> 1]]
        BY <1>7 DEF OpenWallet
      <4>2. wallets'[o.wallet].version = 1
        BY <3>1, <4>1 DEF Inv, TypeOK
      <4>. QED
        BY <4>2 DEF Opened
    <3>3. Undecided(o.wallet)
      BY <3>1 DEF OpeningsInv, Committed, Undecided
    <3>4. Tells(o.wallet, Row("PROCESSED", "", None, o.initial), WagerEvent("Processed", "", o.initial))
      BY DEF Tells, Row
    <3>. QED
      BY <3>1, <3>2, <3>3, <3>4 DEF OneOutcome
  <2>2. CASE ~(o.initial > 0)
    BY <1>1, <1>7, <2>2 DEF OpenWallet
  <2>. QED
    BY <2>1, <2>2
<1>8. ASSUME NEW c \in Calls,
             \/ SelectByExternalID(c) \/ SelectByKey(c) \/ ReplayCurrentBalance(c)
             \/ LockWallet(c) \/ TryInsertIdempotency(c)
      PROVE  UNCHANGED <<txs, wagerEvents>>
  BY <1>8 DEF SelectByExternalID, SelectByKey, ReplayCurrentBalance, LockWallet,
     TryInsertIdempotency, ReplayOrConflict, Goto, db
<1>9. ASSUME NEW r \in Resolvers,
             \/ ClaimPendingReferencesDue(r) \/ LoadPending(r) \/ ReadRetry(r)
             \/ ReadOrphanWallet(r) \/ LockForResolve(r) \/ Recheck(r) \/ RetryLater(r)
             \/ CrashWorker(r)
      PROVE  UNCHANGED <<txs, wagerEvents>>
  BY <1>9 DEF ClaimPendingReferencesDue, LoadPending, ReadRetry, ReadOrphanWallet,
     LockForResolve, Recheck, RetryLater, CrashWorker, ScheduleRetry, Goto, db
<1>10. ASSUME NEW p \in Procs, ReadReference(p) \/ ReadReversal(p) \/ FailDecision(p) \/ Abort(p)
       PROVE  UNCHANGED <<txs, wagerEvents>>
  BY <1>10 DEF ReadReference, ReadReversal, FailDecision, Abort, Goto, db
<1>11. ASSUME NEW t \in Calls, NextAttemptDue(t) \/ DeadlinePasses(t)
       PROVE  UNCHANGED <<txs, wagerEvents>>
  BY <1>11 DEF NextAttemptDue, DeadlinePasses
<1>12. ASSUME NEW c \in Calls, CallStep(c) PROVE OneOutcome
  BY <1>1, <1>4, <1>6, <1>8, <1>12 DEF CallStep
<1>13. ASSUME NEW r \in Resolvers, ResolverStep(r) \/ CrashWorker(r)
       PROVE  OneOutcome \/ RejectOrphan(r)
  BY <1>1, <1>9, <1>13 DEF ResolverStep
<1>14. ASSUME NEW p \in Procs, SharedStep(p) \/ Abort(p) PROVE OneOutcome
  BY <1>1, <1>3, <1>5, <1>10, <1>14 DEF SharedStep
<1>. QED
  BY <1>1, <1>7, <1>11, <1>12, <1>13, <1>14 DEF Next, Quiescent, vars

\* While claims outlive their work there are no orphans.
LEMMA NextOutcome ==
  ASSUME Inv, RowInv, LeaseInv, OpeningsInv, Next PROVE OneOutcome
BY OutcomeOrOrphan, NoOrphans

\* What an outcome does to the row and to its events.
LEMMA OutcomeRows ==
  ASSUME Inv, OneOutcome, NEW t \in TxIds
  PROVE  \/ txs'[t] = txs[t] /\ wagerEvents'[t] = wagerEvents[t]
         \/ /\ Undecided(t)
            /\ t \in Wallets => Opened(t)'
            /\ \E row, event : /\ Tells(t, row, event) /\ txs'[t] = row
                             /\ wagerEvents'[t] = Append(wagerEvents[t], event)
<1>1. CASE UNCHANGED <<txs, wagerEvents>>
  BY <1>1
<1>2. ASSUME NEW u \in TxIds, NEW row, NEW event,
             Undecided(u), Tells(u, row, event), RecordOutcome(u, row, event),
             u \in Wallets => Opened(u)'
      PROVE  \/ txs'[t] = txs[t] /\ wagerEvents'[t] = wagerEvents[t]
             \/ /\ Undecided(t)
                /\ t \in Wallets => Opened(t)'
                /\ \E r, e : /\ Tells(t, r, e) /\ txs'[t] = r
                            /\ wagerEvents'[t] = Append(wagerEvents[t], e)
  <2>1. CASE t = u
    <3>1. txs'[t] = row /\ wagerEvents'[t] = Append(wagerEvents[t], event)
      BY <1>2, <2>1 DEF RecordOutcome, Inv, TypeOK
    <3>. QED
      BY <1>2, <2>1, <3>1
  <2>2. CASE t # u
    BY <1>2, <2>2 DEF RecordOutcome, Inv, TypeOK
  <2>. QED
    BY <2>1, <2>2
<1>. QED
  BY <1>1, <1>2 DEF OneOutcome

HistoryInv == OpeningsInv /\ EventsTellOutcome

\* A rejected orphan is a row of a call.
LEMMA OrphanRow ==
  ASSUME Inv, NEW r \in Resolvers, RejectOrphan(r)
  PROVE  /\ target[r] \in Calls /\ pc[r] = "rejectOrphan"
         /\ txs' = [txs EXCEPT ![target[r]] = Row("REJECTED", "REFERENCE_NOT_FOUND", None, held[r].balance)]
         /\ UNCHANGED <<wallets, ledger>>
BY DEF RejectOrphan, PersistRejection, RecordOutcome, Inv, ProcsAtWork

\* Every step keeps that, with lapsed claims too.
LEMMA NextOpenings ==
  ASSUME Inv, RowInv, OpeningsInv, [Next]_vars PROVE OpeningsInv'
<1>1. CASE Next
  <2>1. ASSUME NEW w \in Wallets, Committed(w)' PROVE Opened(w)'
    <3>1. w \in TxIds /\ w \notin Calls /\ (Opened(w) => Opened(w)')
      BY <1>1, WalletsStayOpen, ProcessAssumption DEF TxIds
    <3>2. CASE OneOutcome
      <4>1. txs'[w] = txs[w] \/ Opened(w)'
        BY <3>1, <3>2, OutcomeRows
      <4>. QED
        BY <2>1, <3>1, <4>1 DEF OpeningsInv, Committed
    <3>3. CASE \E r \in Resolvers : RejectOrphan(r)
      <4>1. txs'[w] = txs[w]
        BY <3>1, <3>3, OrphanRow DEF Inv, TypeOK
      <4>. QED
        BY <2>1, <3>1, <4>1 DEF OpeningsInv, Committed
    <3>. QED
      BY <1>1, <3>2, <3>3, OutcomeOrOrphan
  <2>. QED
    BY <2>1 DEF OpeningsInv
<1>2. CASE UNCHANGED vars
  BY <1>2 DEF vars, OpeningsInv, Committed, Opened
<1>. QED
  BY <1>1, <1>2

\* There is no row to begin with.
LEMMA InitHistory == Init => HistoryInv
<1>. SUFFICES ASSUME Init PROVE HistoryInv
  OBVIOUS
<1>1. \A t \in TxIds : ~Committed(t) /\ wagerEvents[t] = <<>>
  BY DEF Init, Committed, NoTx
<1>. QED
  BY <1>1 DEF HistoryInv, OpeningsInv, EventsTellOutcome, TxIds

\* The two sequences of events that a decided row can have.
LEMMA AppendToEmpty ==
  ASSUME NEW x PROVE Append(<<>>, x) = <<x>>
<1>1. <<>> \in Seq({x}) /\ <<x>> \in Seq({x}) /\ Append(<<>>, x) \in Seq({x})
  OBVIOUS
<1>2. Len(Append(<<>>, x)) = 1 /\ Append(<<>>, x)[1] = x
  BY <1>1, AppendProperties
<1>. QED
  BY <1>1, <1>2, SeqEqual

LEMMA AppendToOne ==
  ASSUME NEW x, NEW y PROVE Append(<<y>>, x) = <<y, x>>
<1>. DEFINE S == {x, y}
            s == <<y>>
            z == Append(s, x)
<1>1. s \in Seq(S) /\ x \in S /\ Len(s) = 1 /\ s[1] = y /\ <<y, x>> \in Seq(S)
  OBVIOUS
<1>. HIDE DEF S, s
<1>2. /\ z \in Seq(S) /\ Len(z) = Len(s) + 1
      /\ \A i \in 1 .. Len(s) : z[i] = s[i]
      /\ z[Len(s) + 1] = x
  <2>1. s \in Seq(S) /\ x \in S
    BY <1>1
  <2>. QED
    BY <2>1, AppendProperties
<1>. HIDE DEF z
<1>3. Len(z) = 2 /\ z[1] = y /\ z[2] = x
  BY <1>1, <1>2
<1>4. z = <<y, x>>
  BY <1>1, <1>2, <1>3, SeqEqual
<1>. QED
  BY <1>4 DEF z, s

\* Every step leaves each row with the events of its status.
LEMMA NextHistory ==
  ASSUME Inv, RowInv, LeaseInv, HistoryInv, [Next]_vars PROVE HistoryInv'
<1>1. CASE Next
  <2>1. OneOutcome
    BY <1>1, NextOutcome DEF HistoryInv
  <2>2. OpeningsInv'
    BY <1>1, NextOpenings DEF HistoryInv
  <2>3. EventsTellOutcome'
    <3>. DEFINE parked == WagerEvent("PendingReference", "", NoBalance)
                final(row) == IF row.status = "PROCESSED"
                              THEN WagerEvent("Processed", "", row.snap)
                              ELSE WagerEvent("Rejected", row.code, NoBalance)
                told(row) == IF ~(row.status # "NONE") THEN {<<>>}
                             ELSE IF row.status = "PENDING_REFERENCE" THEN {<<parked>>}
                             ELSE {<<final(row)>>, <<parked, final(row)>>}
    <3>1. EventsTellOutcome <=> \A t \in TxIds : wagerEvents[t] \in told(txs[t])
      BY DEF EventsTellOutcome, Committed
    <3>2. EventsTellOutcome' <=> \A t \in TxIds : wagerEvents'[t] \in told(txs'[t])
      BY DEF EventsTellOutcome, Committed
    <3>3. ASSUME NEW t \in TxIds PROVE wagerEvents'[t] \in told(txs'[t])
      <4>0. wagerEvents[t] \in told(txs[t])
        BY <3>1 DEF HistoryInv
      <4>1. CASE txs'[t] = txs[t] /\ wagerEvents'[t] = wagerEvents[t]
        BY <4>0, <4>1
      <4>2. ASSUME NEW row, NEW event, Undecided(t), Tells(t, row, event), txs'[t] = row,
                   wagerEvents'[t] = Append(wagerEvents[t], event)
            PROVE  wagerEvents'[t] \in told(row)
        <5>1. /\ wagerEvents[t] = <<>> \/ wagerEvents[t] = <<parked>>
              /\ ~Committed(t) => wagerEvents[t] = <<>>
          BY <4>0, <4>2 DEF Undecided, Committed
        <5>2. CASE row.status = "PENDING_REFERENCE"
          <6>1. wagerEvents[t] = <<>> /\ event = parked
            BY <4>2, <5>1, <5>2 DEF Tells
          <6>2. wagerEvents'[t] = <<parked>>
            BY <4>2, <6>1, AppendToEmpty
          <6>. QED
            BY <5>2, <6>2
        <5>3. CASE row.status \in {"PROCESSED", "REJECTED"}
          <6>1. event = final(row)
            BY <4>2, <5>3 DEF Tells
          <6>. HIDE DEF final, parked
          <6>2. wagerEvents'[t] = <<event>> \/ wagerEvents'[t] = <<parked, event>>
            <7>1. CASE wagerEvents[t] = <<>>
              BY <4>2, <7>1, AppendToEmpty
            <7>2. CASE wagerEvents[t] = <<parked>>
              BY <4>2, <7>2, AppendToOne
            <7>. QED
              BY <5>1, <7>1, <7>2
          <6>. QED
            BY <5>3, <6>1, <6>2
        <5>. QED
          BY <4>2, <5>2, <5>3 DEF Tells
      <4>. HIDE DEF told
      <4>. QED
        BY <2>1, <4>1, <4>2, OutcomeRows
    <3>. QED
      BY <3>2, <3>3
  <2>. QED
    BY <2>2, <2>3 DEF HistoryInv
<1>2. CASE UNCHANGED vars
  BY <1>2 DEF vars, HistoryInv, OpeningsInv, EventsTellOutcome, Committed, Opened
<1>. QED
  BY <1>1, <1>2

\* The rows of openings come with their wallets in every state.
LEMMA SpecOpenings == Spec => []OpeningsInv
<1>1. Init => OpeningsInv
  BY InitHistory DEF HistoryInv
<1>2. Inv /\ RowInv /\ OpeningsInv /\ [Next]_vars => OpeningsInv'
  BY NextOpenings
<1>. QED
  BY <1>1, <1>2, SpecRows, PTL DEF Spec

\* The events fit the rows in every state.
LEMMA SpecHistory ==
  ASSUME ~LeaseMayLapse PROVE Spec => []HistoryInv
<1>1. Inv /\ RowInv /\ LeaseInv /\ HistoryInv /\ [Next]_vars => HistoryInv'
  BY NextHistory
<1>. QED
  BY <1>1, InitHistory, SpecLeases, PTL DEF Spec

(* The events of a transaction tell its story once, whoever decides it and *)
(* however often a decision is tried (saveWithEvents, insertTerminal).     *)
THEOREM EventsAlwaysTellOutcome ==
  ASSUME ~LeaseMayLapse PROVE Spec => []EventsTellOutcome
<1>1. HistoryInv => EventsTellOutcome
  BY DEF HistoryInv
<1>. QED
  BY <1>1, SpecHistory, PTL

(* PROCESSED and REJECTED are final: no call and no worker decides a row   *)
(* that another one has decided (ensureTransition, on the row itself).     *)
THEOREM TerminalStaysFinal ==
  ASSUME ~LeaseMayLapse PROVE Spec => TerminalIsFinal
<1>1. ASSUME Inv, RowInv, LeaseInv, HistoryInv, [Next]_vars
      PROVE  [\A t \in TxIds : txs'[t] # txs[t] =>
                EnsureTransition(IF Committed(t) THEN txs[t].status ELSE "PENDING",
                                 txs'[t].status)]_txs
  <2>1. ASSUME Next, NEW t \in TxIds, txs'[t] # txs[t]
        PROVE  EnsureTransition(IF Committed(t) THEN txs[t].status ELSE "PENDING", txs'[t].status)
    <3>1. OneOutcome
      BY <1>1, <2>1, NextOutcome DEF HistoryInv
    <3>2. PICK row, event : Undecided(t) /\ Tells(t, row, event) /\ txs'[t] = row
      BY <1>1, <2>1, <3>1, OutcomeRows
    <3>. QED
      BY <3>2 DEF Undecided, Committed, Tells, EnsureTransition, Terminal
  <2>. QED
    BY <1>1, <2>1 DEF vars
<1>2. Inv /\ RowInv /\ LeaseInv /\ HistoryInv /\ [Next]_vars =>
        [\A t \in TxIds : txs'[t] # txs[t] =>
           EnsureTransition(IF Committed(t) THEN txs[t].status ELSE "PENDING",
                            txs'[t].status)]_txs
  BY <1>1
<1>. QED
  BY <1>2, SpecLeases, SpecHistory, PTL DEF TerminalIsFinal, Spec

-----------------------------------------------------------------------------
(* What holds although leases lapse *)

\* A row that has an outcome keeps one, be it another.
LEMMA DecidedStays ==
  ASSUME Inv, RowInv, OpeningsInv, Next, NEW t \in TxIds, ~Undecided(t)
  PROVE  txs'[t].status \notin {"NONE", "PENDING_REFERENCE"}
<1>1. CASE OneOutcome
  <2>1. txs'[t] = txs[t]
    BY <1>1, OutcomeRows
  <2>. QED
    BY <2>1 DEF Undecided
<1>2. CASE \E r \in Resolvers : RejectOrphan(r)
  <2>1. PICK u, balance :
          txs' = [txs EXCEPT ![u] = Row("REJECTED", "REFERENCE_NOT_FOUND", None, balance)]
    BY <1>2, OrphanRow
  <2>2. txs'[t] = txs[t] \/ txs'[t].status = "REJECTED"
    BY <2>1 DEF Row, Inv, TypeOK
  <2>. QED
    BY <2>2 DEF Undecided
<1>. QED
  BY <1>1, <1>2, OutcomeOrOrphan

(* Only the rejection of an orphan writes over an outcome (rejectNotFound  *)
(* in resolve_pending.go, reached without a retry row): every other step   *)
(* of every process takes a transition that ensureTransition allows, even  *)
(* when two workers resolve one row.                                       *)
THEOREM OnlyOrphansOverwrite == Spec => FinalUnlessOrphan
<1>1. ASSUME Inv, RowInv, OpeningsInv, [Next]_vars
      PROVE  [\A t \in TxIds : txs'[t] # txs[t] =>
                \/ EnsureTransition(IF Committed(t) THEN txs[t].status ELSE "PENDING",
                                    txs'[t].status)
                \/ \E r \in Resolvers : pc[r] = "rejectOrphan" /\ target[r] = t]_txs
  <2>1. ASSUME Next, NEW t \in TxIds, txs'[t] # txs[t]
        PROVE  \/ EnsureTransition(IF Committed(t) THEN txs[t].status ELSE "PENDING",
                                   txs'[t].status)
               \/ \E r \in Resolvers : pc[r] = "rejectOrphan" /\ target[r] = t
    <3>1. CASE OneOutcome
      <4>1. PICK row, event : Undecided(t) /\ Tells(t, row, event) /\ txs'[t] = row
        BY <1>1, <2>1, <3>1, OutcomeRows
      <4>. QED
        BY <4>1 DEF Undecided, Committed, Tells, EnsureTransition, Terminal
    <3>2. CASE \E r \in Resolvers : RejectOrphan(r)
      BY <1>1, <2>1, <3>2, OrphanRow DEF Inv, TypeOK
    <3>. QED
      BY <1>1, <2>1, <3>1, <3>2, OutcomeOrOrphan
  <2>. QED
    BY <1>1, <2>1 DEF vars
<1>2. Inv /\ RowInv /\ OpeningsInv /\ [Next]_vars =>
        [\A t \in TxIds : txs'[t] # txs[t] =>
           \/ EnsureTransition(IF Committed(t) THEN txs[t].status ELSE "PENDING",
                               txs'[t].status)
           \/ \E r \in Resolvers : pc[r] = "rejectOrphan" /\ target[r] = t]_txs
  BY <1>1
<1>. QED
  BY <1>2, SpecRows, SpecOpenings, PTL DEF FinalUnlessOrphan, Spec

\* Whatever has a ledger entry has an outcome.
EntriesSettled ==
  \A w \in Wallets : \A i \in 1 .. Len(ledger[w]) :
    ledger[w][i].tx \in TxIds /\ ~Undecided(ledger[w][i].tx)

\* The invariant behind NothingMovesTwice.
EntriesInv == EntriesSettled /\ MovedAtMostOnce

\* The entry of a transaction that had no outcome is its first.
LEMMA FirstEntry ==
  ASSUME Inv, RowInv, OpeningsInv, EntriesInv, Next, NEW w \in Wallets, NEW e \in LedgerEntry,
         Undecided(e.tx), txs'[e.tx].status \notin {"NONE", "PENDING_REFERENCE"},
         ledger' = [ledger EXCEPT ![w] = Append(@, e)]
  PROVE  EntriesInv'
<1>. DEFINE n == Len(ledger[w])
<1>1. /\ ledger \in [Wallets -> Seq(LedgerEntry)] /\ e.tx \in TxIds
      /\ \A x \in Wallets : \A i \in 1 .. Len(ledger[x]) : ledger[x][i].tx \in TxIds
  BY DEF Inv, TypeOK, LedgerEntry, EntriesInv, EntriesSettled
<1>2. /\ \A x \in Wallets \ {w} : ledger'[x] = ledger[x]
      /\ n \in Nat /\ Len(ledger'[w]) = n + 1 /\ ledger'[w][n + 1] = e
      /\ \A i \in 1 .. n : ledger'[w][i] = ledger[w][i]
  <2>1. ledger'[w] = Append(ledger[w], e) /\ ledger[w] \in Seq(LedgerEntry)
    BY <1>1
  <2>2. \A x \in Wallets \ {w} : ledger'[x] = ledger[x]
    BY <1>1
  <2>. QED
    BY <2>1, <2>2, AppendProperties, LenProperties
<1>. HIDE DEF n
<1>3. ASSUME NEW x \in Wallets, NEW i \in 1 .. Len(ledger'[x])
      PROVE  \/ i \in 1 .. Len(ledger[x]) /\ ledger'[x][i] = ledger[x][i]
             \/ x = w /\ i = n + 1 /\ ledger'[x][i] = e
  <2>1. CASE x # w
    BY <1>2, <1>3, <2>1
  <2>2. CASE x = w
    <3>1. i \in 1 .. n \/ i = n + 1
      BY <1>2, <1>3, <2>2
    <3>. QED
      BY <1>2, <2>2, <3>1 DEF n
  <2>. QED
    BY <2>1, <2>2
<1>4. \A x \in Wallets : \A i \in 1 .. Len(ledger[x]) : ledger[x][i].tx # e.tx
  BY DEF EntriesInv, EntriesSettled
<1>5. EntriesSettled'
  <2>1. ASSUME NEW x \in Wallets, NEW i \in 1 .. Len(ledger'[x])
        PROVE  /\ ledger'[x][i].tx \in TxIds
               /\ txs'[ledger'[x][i].tx].status \notin {"NONE", "PENDING_REFERENCE"}
    <3>1. CASE ledger'[x][i] = e
      BY <1>1, <3>1
    <3>2. CASE i \in 1 .. Len(ledger[x]) /\ ledger'[x][i] = ledger[x][i]
      <4>1. PICK t \in TxIds : t = ledger[x][i].tx
        BY <1>1, <3>2
      <4>2. txs'[t].status \notin {"NONE", "PENDING_REFERENCE"}
        BY <3>2, <4>1, DecidedStays DEF EntriesInv, EntriesSettled
      <4>. QED
        BY <3>2, <4>1, <4>2
    <3>. QED
      BY <1>3, <3>1, <3>2
  <2>. QED
    BY <2>1 DEF EntriesSettled, Undecided
<1>6. MovedAtMostOnce'
  <2>1. ASSUME NEW v \in Wallets, NEW x \in Wallets,
               NEW i \in 1 .. Len(ledger'[v]), NEW j \in 1 .. Len(ledger'[x]),
               ledger'[v][i].tx = ledger'[x][j].tx
        PROVE  v = x /\ i = j
    <3>1. CASE /\ i \in 1 .. Len(ledger[v]) /\ ledger'[v][i] = ledger[v][i]
               /\ j \in 1 .. Len(ledger[x]) /\ ledger'[x][j] = ledger[x][j]
      BY <2>1, <3>1 DEF EntriesInv, MovedAtMostOnce
    <3>. QED
      BY <1>3, <1>4, <2>1, <3>1
  <2>. QED
    BY <2>1 DEF MovedAtMostOnce
<1>. QED
  BY <1>5, <1>6 DEF EntriesInv

\* Settle appends for the row it decides, which had no outcome.
LEMMA SettleFirstEntry ==
  ASSUME Inv, RowInv, OpeningsInv, EntriesInv, NEW p \in Procs, Settle(p)
  PROVE  EntriesInv'
<1>. DEFINE t == TxOf(p)
            after == BalanceAfter(Decision(p), held[p].balance, req[t].amount)
            e == Entry(t, Decision(p).act, req[t].amount, held[p].balance, after)
<1>1. /\ pc[p] = "decide" /\ Decision(p).act \in {"credit", "debit"}
      /\ CommitMovement(t, held[p], Decision(p), seen[p].tx) /\ UNCHANGED req
  BY DEF Settle
<1>2. Moves(t, p)
  BY <1>1, CommitMovementSound
<1>3. t \in Calls /\ t \in TxIds /\ Undecided(t) /\ req[t].wallet \in Wallets
  <2>1. t \in Calls /\ Undecided(t) /\ t \in TxIds
    BY <1>1, DecidingUndecided
  <2>. QED
    BY <1>1, <2>1, AtWork DEF WalletOf
<1>4. /\ e \in LedgerEntry /\ ledger' = [ledger EXCEPT ![req[t].wallet] = Append(@, e)]
  BY <1>2 DEF Moves, PostMovement
<1>5. e.tx = t
  BY DEF Entry
<1>6. txs'[t].status = "PROCESSED"
  <2>1. txs' = [txs EXCEPT ![t] = Row("PROCESSED", "", seen[p].tx, after)]
    BY <1>1 DEF CommitMovement, RecordOutcome
  <2>. HIDE DEF t
  <2>. QED
    BY <1>3, <2>1 DEF Row, Inv, TypeOK
<1>7. Next
  BY DEF Next, SharedStep
<1>. HIDE DEF e, t
<1>8. Undecided(e.tx) /\ txs'[e.tx].status \notin {"NONE", "PENDING_REFERENCE"}
  BY <1>3, <1>5, <1>6
<1>. QED
  BY <1>3, <1>4, <1>7, <1>8, FirstEntry

\* OpenWallet appends for a row that comes with the wallet.
LEMMA OpenWalletFirstEntry ==
  ASSUME Inv, RowInv, OpeningsInv, EntriesInv, NEW o \in Openings, OpenWallet(o), o.initial > 0
  PROVE  EntriesInv'
<1>. DEFINE w == o.wallet
            e == Entry(w, "credit", o.initial, 0, o.initial)
<1>1. w \in Wallets /\ w \in TxIds /\ o.initial \in 1 .. MaxMinor
  BY OpeningsAssumption, MinorRangeAssumption DEF TxIds
<1>2. Undecided(w)
  BY <1>1 DEF OpenWallet, OpeningsInv, Undecided, Committed
<1>3. e \in LedgerEntry
  BY <1>1, MinorRangeAssumption DEF Entry, LedgerEntry, Amount
<1>4. e.tx = w
  BY DEF Entry
<1>5. /\ ledger' = [ledger EXCEPT ![w] = Append(@, e)]
      /\ txs' = [txs EXCEPT ![w] = Row("PROCESSED", "", None, o.initial)]
  BY DEF OpenWallet, PostMovement, RecordOutcome
<1>6. Next
  BY DEF Next
<1>. HIDE DEF e, w
<1>7. txs'[w].status = "PROCESSED"
  BY <1>1, <1>5 DEF Row, Inv, TypeOK
<1>8. Undecided(e.tx) /\ txs'[e.tx].status \notin {"NONE", "PENDING_REFERENCE"}
  BY <1>2, <1>4, <1>7
<1>. QED
  BY <1>1, <1>3, <1>5, <1>6, <1>8, FirstEntry

\* No other step writes an entry.
LEMMA NextEntries ==
  ASSUME Inv, RowInv, OpeningsInv, EntriesInv, [Next]_vars PROVE EntriesInv'
<1>1. ASSUME UNCHANGED ledger PROVE EntriesInv'
  <2>1. MovedAtMostOnce'
    BY <1>1 DEF EntriesInv, MovedAtMostOnce
  <2>2. ASSUME NEW t \in TxIds, ~Undecided(t)
        PROVE  txs'[t].status \notin {"NONE", "PENDING_REFERENCE"}
    BY <2>2, DecidedStays DEF vars, Undecided
  <2>3. EntriesSettled'
    <3>1. ASSUME NEW x \in Wallets, NEW i \in 1 .. Len(ledger[x])
          PROVE  /\ ledger[x][i].tx \in TxIds
                 /\ txs'[ledger[x][i].tx].status \notin {"NONE", "PENDING_REFERENCE"}
      <4>1. PICK t \in TxIds : t = ledger[x][i].tx /\ ~Undecided(t)
        BY <3>1 DEF EntriesInv, EntriesSettled
      <4>2. txs'[t].status \notin {"NONE", "PENDING_REFERENCE"}
        BY <4>1, <2>2
      <4>. QED
        BY <4>1, <4>2
    <3>. QED
      BY <1>1, <3>1 DEF EntriesSettled, Undecided
  <2>. QED
    BY <2>1, <2>3 DEF EntriesInv
<1>2. ASSUME NEW p \in Procs, Settle(p) PROVE EntriesInv'
  BY <1>2, SettleFirstEntry
<1>3. ASSUME NEW o \in Openings, OpenWallet(o) PROVE EntriesInv'
  <2>1. CASE o.initial > 0
    BY <1>3, <2>1, OpenWalletFirstEntry
  <2>2. CASE ~(o.initial > 0)
    BY <1>1, <1>3, <2>2 DEF OpenWallet
  <2>. QED
    BY <2>1, <2>2
<1>. QED
  BY <1>1, <1>2, <1>3, OnlyTwoMove DEF NoMovement

(* No transaction has two ledger entries, though two workers may resolve   *)
(* it: ledger_wallet_tx_unique (migrations/000001_init.up.sql:97), which   *)
(* commitMovement would run into, never refuses an entry.                  *)
THEOREM NothingMovesTwice == Spec => []MovedAtMostOnce
<1>1. Init => EntriesInv
  <2>1. Init => \A w \in Wallets : Len(ledger[w]) = 0
    BY DEF Init
  <2>. QED
    BY <2>1 DEF EntriesInv, EntriesSettled, MovedAtMostOnce
<1>2. Inv /\ RowInv /\ OpeningsInv /\ EntriesInv /\ [Next]_vars => EntriesInv'
  BY NextEntries
<1>3. EntriesInv => MovedAtMostOnce
  BY DEF EntriesInv
<1>. QED
  BY <1>1, <1>2, <1>3, SpecRows, SpecOpenings, PTL DEF Spec
=============================================================================
