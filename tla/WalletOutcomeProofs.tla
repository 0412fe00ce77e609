------------------------ MODULE WalletOutcomeProofs ------------------------
(***************************************************************************)
(* Proofs about the outcomes of transactions, for claims that outlive the  *)
(* work they cover: a transaction moves money once, is reversed once, and  *)
(* every final answer that a client has heard stays true.                  *)
(*                                                                         *)
(* RowsStep says what a step may do to the rows and ledgers (nothing, an   *)
(* opening, or one outcome whose reference is as the code has checked it), *)
(* and RowsInv follows from it alone; ReadsInv is about what processes     *)
(* have read, and RepliesTrue about what clients have been told.           *)
(***************************************************************************)
EXTENDS WalletHistoryProofs

RowsInv ==
  /\ \A c \in Calls : txs[c].status = "PENDING_REFERENCE" => NeedsReference(req[c].kind)
  /\ \A c \in Calls : txs[c].status = "PROCESSED" /\ txs[c].ref # None =>
                        NeedsReference(req[c].kind)
  /\ \A c \in Calls : IsTerminal(txs[c].status) => txs[c].snap # NoBalance
  /\ ReversedAtMostOnce
  /\ MovedOnce

-----------------------------------------------------------------------------
(* What a step does to the rows *)

\* A reference that t may reverse: processed, matching and not reversed yet.
Reversible(t, d) ==
  /\ d \in Calls /\ txs[d].status = "PROCESSED" /\ ReferenceMismatch(req[t], req[d]) = ""
  /\ NeedsReference(req[t].kind) /\ ~ProcessedReversal(d)

Outcome(t) ==
  LET row == txs'[t]
  IN \/ /\ UNCHANGED ledger
        /\ \/ row.status = "PENDING_REFERENCE" /\ NeedsReference(req[t].kind)
           \/ row.status = "REJECTED" /\ row.snap # NoBalance
           \/ /\ row.status = "PROCESSED" /\ row.snap # NoBalance
              /\ req[t].kind = "LOSS" /\ row.ref = None
     \/ /\ row.status = "PROCESSED" /\ row.snap # NoBalance /\ req[t].kind # "LOSS"
        /\ row.ref # None => Reversible(t, row.ref)
        /\ \E e \in LedgerEntry :
             /\ e.tx = t /\ e.amount = req[t].amount /\ e.after = row.snap
             /\ ledger' = [ledger EXCEPT ![req[t].wallet] = Append(@, e)]

RowsStep ==
  /\ UNCHANGED req
  /\ \/ /\ \A c \in Calls : txs'[c] = txs[c]
        /\ \/ UNCHANGED ledger
           \/ \E w \in Wallets, e \in LedgerEntry :
                e.tx = w /\ ledger' = [ledger EXCEPT ![w] = Append(@, e)]
     \/ \E t \in Calls :
          /\ Undecided(t) /\ Outcome(t)
          /\ \A c \in Calls \ {t} : txs'[c] = txs[c]

\* The entries of a ledger after one more is written.
LEMMA EntriesAfter ==
  ASSUME Inv, NEW w \in Wallets, NEW e \in LedgerEntry,
         ledger' = [ledger EXCEPT ![w] = Append(@, e)]
  PROVE  /\ Len(ledger[w]) \in Nat /\ Len(ledger'[w]) = Len(ledger[w]) + 1
         /\ ledger'[w][Len(ledger[w]) + 1] = e
         /\ \A i \in 1 .. Len(ledger[w]) : ledger'[w][i] = ledger[w][i]
         /\ \A x \in Wallets \ {w} : ledger'[x] = ledger[x]
<1>1. ledger[w] \in Seq(LedgerEntry) /\ ledger'[w] = Append(ledger[w], e)
  BY DEF Inv, TypeOK
<1>. QED
  BY <1>1, AppendProperties, LenProperties DEF Inv, TypeOK

\* The rows of the calls other than the one that a new entry is about.
LEMMA MovedBefore ==
  ASSUME Inv, MovedOnce, UNCHANGED req, NEW w \in Wallets, NEW e \in LedgerEntry,
         ledger' = [ledger EXCEPT ![w] = Append(@, e)],
         NEW c \in Calls, c # e.tx, txs'[c] = txs[c]
  PROVE  MovedAsRecorded(c)'
<1>. DEFINE own == req[c].wallet
<1>1. /\ Len(ledger[w]) \in Nat /\ Len(ledger'[w]) = Len(ledger[w]) + 1
      /\ ledger'[w][Len(ledger[w]) + 1] = e
      /\ \A i \in 1 .. Len(ledger[w]) : ledger'[w][i] = ledger[w][i]
      /\ \A x \in Wallets \ {w} : ledger'[x] = ledger[x]
  BY EntriesAfter
<1>2. own \in Wallets
  BY OpsAssumption DEF Inv, TypeOK
<1>3. ASSUME NEW x \in Wallets, NEW j \in 1 .. Len(ledger'[x]), ledger'[x][j].tx = c
      PROVE  j \in 1 .. Len(ledger[x]) /\ ledger'[x][j] = ledger[x][j]
  <2>1. CASE x = w
    <3>1. j # Len(ledger[w]) + 1
      BY <1>1, <1>3, <2>1
    <3>2. j \in 1 .. Len(ledger[w])
      BY <1>1, <1>3, <2>1, <3>1
    <3>. QED
      BY <1>1, <2>1, <3>2
  <2>2. CASE x # w
    BY <1>1, <1>3, <2>2
  <2>. QED
    BY <2>1, <2>2
<1>4. CASE txs[c].status = "PROCESSED" /\ req[c].kind # "LOSS"
  <2>1. PICK i \in 1 .. Len(ledger[own]) :
          /\ ledger[own][i].tx = c
          /\ ledger[own][i].amount = req[c].amount
          /\ ledger[own][i].after = txs[c].snap
          /\ \A x \in Wallets : \A j \in 1 .. Len(ledger[x]) :
               ledger[x][j].tx = c => x = own /\ j = i
    BY <1>4 DEF MovedOnce, MovedAsRecorded, IsEntryOf
  <2>2. i \in 1 .. Len(ledger'[own]) /\ ledger'[own][i] = ledger[own][i]
    <3>1. CASE own = w
      BY <1>1, <2>1, <3>1
    <3>2. CASE own # w
      BY <1>1, <1>2, <2>1, <3>2
    <3>. QED
      BY <3>1, <3>2
  <2>3. \A x \in Wallets : \A j \in 1 .. Len(ledger'[x]) : ledger'[x][j].tx = c => x = own /\ j = i
    BY <1>3, <2>1
  <2>4. \E k \in 1 .. Len(ledger'[own]) :
          /\ ledger'[own][k].tx = c
          /\ ledger'[own][k].amount = req[c].amount
          /\ ledger'[own][k].after = txs'[c].snap
          /\ \A x \in Wallets : \A j \in 1 .. Len(ledger'[x]) :
               ledger'[x][j].tx = c => x = own /\ j = k
    <3>. HIDE DEF own
    <3>. QED
      BY <2>1, <2>2, <2>3
  <2>. QED
    BY <1>4, <2>4 DEF MovedAsRecorded, IsEntryOf
<1>5. CASE ~(txs[c].status = "PROCESSED" /\ req[c].kind # "LOSS")
  <2>1. \A x \in Wallets : \A j \in 1 .. Len(ledger[x]) : ledger[x][j].tx # c
    BY <1>5 DEF MovedOnce, MovedAsRecorded, IsEntryOf
  <2>. QED
    BY <1>3, <1>5, <2>1 DEF MovedAsRecorded, IsEntryOf
<1>. QED
  BY <1>4, <1>5

\* The row that a new entry is about had none.
LEMMA MovedNow ==
  ASSUME Inv, MovedOnce, UNCHANGED req, NEW t \in Calls, Undecided(t), NEW e \in LedgerEntry,
         e.tx = t, ledger' = [ledger EXCEPT ![req[t].wallet] = Append(@, e)],
         txs'[t].status = "PROCESSED", req[t].kind # "LOSS",
         e.amount = req[t].amount, e.after = txs'[t].snap
  PROVE  MovedAsRecorded(t)'
<1>. DEFINE w == req[t].wallet
            n == Len(ledger[w]) + 1
<1>0. w \in Wallets
  BY OpsAssumption DEF Inv, TypeOK
<1>1. /\ Len(ledger[w]) \in Nat /\ Len(ledger'[w]) = Len(ledger[w]) + 1
      /\ ledger'[w][Len(ledger[w]) + 1] = e
      /\ \A i \in 1 .. Len(ledger[w]) : ledger'[w][i] = ledger[w][i]
      /\ \A x \in Wallets \ {w} : ledger'[x] = ledger[x]
  BY <1>0, EntriesAfter
<1>2. \A x \in Wallets : \A j \in 1 .. Len(ledger[x]) : ledger[x][j].tx # t
  BY DEF MovedOnce, MovedAsRecorded, IsEntryOf, Undecided
<1>3. ASSUME NEW x \in Wallets, NEW j \in 1 .. Len(ledger'[x]), ledger'[x][j].tx = t
      PROVE  x = w /\ j = n
  <2>1. CASE x = w
    BY <1>1, <1>2, <1>3, <2>1
  <2>2. CASE x # w
    BY <1>1, <1>2, <1>3, <2>2
  <2>. QED
    BY <2>1, <2>2
<1>4. n \in 1 .. Len(ledger'[w]) /\ ledger'[w][n] = e
  BY <1>1
<1>5. \E k \in 1 .. Len(ledger'[w]) :
        /\ ledger'[w][k].tx = t
        /\ ledger'[w][k].amount = req[t].amount
        /\ ledger'[w][k].after = txs'[t].snap
        /\ \A x \in Wallets : \A j \in 1 .. Len(ledger'[x]) :
             ledger'[x][j].tx = t => x = w /\ j = k
  <2>. HIDE DEF n, w
  <2>. QED
    BY <1>3, <1>4
<1>6. /\ txs'[t].status = "PROCESSED" /\ req'[t].kind # "LOSS" /\ req' = req
      /\ req'[t].wallet = w /\ req'[t].amount = req[t].amount
  OBVIOUS
<1>. HIDE DEF n, w
<1>. QED
  BY <1>5, <1>6 DEF MovedAsRecorded, IsEntryOf

LEMMA MovedStep == ASSUME Inv, MovedOnce, RowsStep PROVE MovedOnce'
<1>0. UNCHANGED req
  BY DEF RowsStep
<1>1. CASE (\A c \in Calls : txs'[c] = txs[c]) /\ UNCHANGED ledger
  BY <1>0, <1>1 DEF MovedOnce, MovedAsRecorded, IsEntryOf
<1>2. ASSUME \A c \in Calls : txs'[c] = txs[c], NEW w \in Wallets, NEW e \in LedgerEntry,
             e.tx = w, ledger' = [ledger EXCEPT ![w] = Append(@, e)]
      PROVE  MovedOnce'
  <2>1. ASSUME NEW c \in Calls PROVE MovedAsRecorded(c)'
    <3>1. c # e.tx
      BY <1>2, ProcessAssumption
    <3>. QED
      BY <1>0, <1>2, <3>1, MovedBefore
  <2>. QED
    BY <2>1 DEF MovedOnce
<1>3. ASSUME NEW t \in Calls, Undecided(t), Outcome(t), \A c \in Calls \ {t} : txs'[c] = txs[c]
      PROVE  MovedOnce'
  <2>1. CASE UNCHANGED ledger /\ ~(txs'[t].status = "PROCESSED" /\ req[t].kind # "LOSS")
    BY <1>0, <1>3, <2>1 DEF MovedOnce, MovedAsRecorded, IsEntryOf, Undecided
  <2>2. ASSUME txs'[t].status = "PROCESSED", req[t].kind # "LOSS", NEW e \in LedgerEntry,
               e.tx = t, e.amount = req[t].amount, e.after = txs'[t].snap,
               ledger' = [ledger EXCEPT ![req[t].wallet] = Append(@, e)]
        PROVE  MovedOnce'
    <3>1. req[t].wallet \in Wallets
      BY OpsAssumption DEF Inv, TypeOK
    <3>2. Undecided(t) /\ e.tx = t
      BY <1>3, <2>2
    <3>3. MovedAsRecorded(t)'
      BY <1>0, <2>2, <3>2, MovedNow
    <3>4. ASSUME NEW c \in Calls, c # t PROVE MovedAsRecorded(c)'
      BY <1>0, <1>3, <2>2, <3>1, <3>4, MovedBefore
    <3>. QED
      BY <3>3, <3>4 DEF MovedOnce
  <2>. QED
    BY <1>3, <2>1, <2>2 DEF Outcome
<1>. QED
  BY <1>1, <1>2, <1>3 DEF RowsStep

\* Every processed reversal reverses a processed transaction that has no other.
LEMMA ReversedStep == ASSUME Inv, RowsInv, RowsStep PROVE ReversedAtMostOnce'
<1>0. UNCHANGED req
  BY DEF RowsStep
<1>1. CASE \A c \in Calls : txs'[c] = txs[c]
  <2>1. ASSUME NEW c \in Calls, NEW d \in Calls, txs'[c].status = "PROCESSED", txs'[c].ref = d
        PROVE  /\ txs'[d].status = "PROCESSED" /\ ReferenceMismatch(req[c], req[d]) = ""
               /\ ~ \E e \in Calls \ {c} : txs'[e].status = "PROCESSED" /\ txs'[e].ref = d
    <3>1. txs[c].status = "PROCESSED" /\ txs[c].ref = d
      BY <1>1, <2>1
    <3>2. /\ txs[d].status = "PROCESSED" /\ ReferenceMismatch(req[c], req[d]) = ""
          /\ ~ \E e \in Calls \ {c} : txs[e].status = "PROCESSED" /\ txs[e].ref = d
      BY <3>1 DEF RowsInv, ReversedAtMostOnce
    <3>. QED
      BY <1>1, <3>2
  <2>. QED
    BY <1>0, <2>1 DEF ReversedAtMostOnce
<1>2. ASSUME NEW t \in Calls, Undecided(t), Outcome(t), \A c \in Calls \ {t} : txs'[c] = txs[c]
      PROVE  ReversedAtMostOnce'
  <2>1. txs'[t].status = "PROCESSED" /\ txs'[t].ref # None => Reversible(t, txs'[t].ref)
    BY <1>2 DEF Outcome
  <2>2. ASSUME NEW c \in Calls, NEW d \in Calls, txs'[c].status = "PROCESSED", txs'[c].ref = d
        PROVE  /\ txs'[d].status = "PROCESSED" /\ d # t
               /\ ReferenceMismatch(req[c], req[d]) = ""
               /\ c # t => txs[c].status = "PROCESSED" /\ txs[c].ref = d
               /\ c # t => ProcessedReversal(d)
    <3>0. d # None
      BY ProcessAssumption
    <3>1. CASE c = t
      BY <1>2, <2>1, <2>2, <3>0, <3>1 DEF Reversible, Undecided
    <3>2. CASE c # t
      <4>1. txs[c].status = "PROCESSED" /\ txs[c].ref = d
        BY <1>2, <2>2, <3>2
      <4>2. txs[d].status = "PROCESSED" /\ ReferenceMismatch(req[c], req[d]) = ""
        BY <4>1 DEF RowsInv, ReversedAtMostOnce
      <4>3. ProcessedReversal(d)
        BY <3>0, <4>1 DEF RowsInv, ProcessedReversal
      <4>. QED
        BY <1>2, <3>2, <4>1, <4>2, <4>3 DEF Undecided
    <3>. QED
      BY <3>1, <3>2
  <2>3. ASSUME NEW c \in Calls, NEW d \in Calls, txs'[c].status = "PROCESSED", txs'[c].ref = d,
               NEW e \in Calls \ {c}, txs'[e].status = "PROCESSED", txs'[e].ref = d
        PROVE  FALSE
    <3>0. d # None
      BY ProcessAssumption
    <3>1. c = t \/ e = t => ~ProcessedReversal(d)
      BY <2>1, <2>3, <3>0 DEF Reversible
    <3>2. c # t => txs[c].status = "PROCESSED" /\ txs[c].ref = d /\ ProcessedReversal(d)
      BY <2>2, <2>3
    <3>3. e # t => txs[e].status = "PROCESSED" /\ txs[e].ref = d /\ ProcessedReversal(d)
      BY <2>2, <2>3
    <3>4. ~(c # t /\ e # t)
      BY <2>3, <3>2, <3>3 DEF RowsInv, ReversedAtMostOnce
    <3>. QED
      BY <2>3, <3>1, <3>2, <3>3, <3>4
  <2>. QED
    BY <1>0, <2>2, <2>3 DEF ReversedAtMostOnce
<1>. QED
  BY <1>1, <1>2 DEF RowsStep

LEMMA RowsPreserved == ASSUME Inv, RowsInv, RowsStep PROVE RowsInv'
<1>1. MovedOnce' /\ ReversedAtMostOnce' /\ UNCHANGED req
  BY MovedStep, ReversedStep DEF RowsInv, RowsStep
<1>2. ASSUME NEW c \in Calls
      PROVE  /\ txs'[c].status = "PENDING_REFERENCE" => NeedsReference(req[c].kind)
             /\ txs'[c].status = "PROCESSED" /\ txs'[c].ref # None => NeedsReference(req[c].kind)
             /\ IsTerminal(txs'[c].status) => txs'[c].snap # NoBalance
  <2>1. CASE txs'[c] = txs[c]
    BY <2>1 DEF RowsInv
  <2>2. CASE Outcome(c)
    BY <2>2 DEF Outcome, Reversible, IsTerminal, Terminal
  <2>. QED
    BY <2>1, <2>2 DEF RowsStep
<1>. QED
  BY <1>1, <1>2 DEF RowsInv

-----------------------------------------------------------------------------
(* What processes have read and clients have been told *)

ReadsInv ==
  /\ \A p \in Procs : seen[p].tx # None /\ seen[p].status = "PROCESSED" =>
                        txs[seen[p].tx].status = "PROCESSED"
  /\ \A c \in Calls : pc[c] = "replay" => ~IsTerminal(seen[c].status)

ReadsStep ==
  \A p \in Procs :
    \/ /\ seen'[p].tx = seen[p].tx /\ seen'[p].status = seen[p].status
       /\ pc'[p] = "replay" => pc[p] = "replay"
    \/ seen'[p].tx = None /\ pc'[p] # "replay"
    \/ /\ seen'[p].tx \in Calls
       /\ seen'[p].status = "PROCESSED" => txs[seen'[p].tx].status = "PROCESSED"
       /\ pc'[p] = "replay" => ~IsTerminal(seen'[p].status)

LEMMA ReadsPreserved == ASSUME Inv, ReadsInv, RowsStep, ReadsStep PROVE ReadsInv'
<1>1. \A c \in Calls : txs[c].status = "PROCESSED" => txs'[c].status = "PROCESSED"
  BY DEF RowsStep, Undecided
<1>2. \A p \in Procs : seen[p].tx # None => seen[p].tx \in Calls
  BY DEF Inv, TypeOK, SeenRow
<1>3. ASSUME NEW p \in Procs, seen'[p].tx # None, seen'[p].status = "PROCESSED"
      PROVE  txs'[seen'[p].tx].status = "PROCESSED"
  BY <1>1, <1>2, <1>3 DEF ReadsInv, ReadsStep
<1>4. ASSUME NEW c \in Calls, pc'[c] = "replay" PROVE ~IsTerminal(seen'[c].status)
  <2>1. c \in Procs
    BY DEF Procs
  <2>. QED
    BY <1>4, <2>1 DEF ReadsInv, ReadsStep
<1>. QED
  BY <1>3, <1>4 DEF ReadsInv

\* An answer that is true, and that stays true when it is final.
True(c, a) ==
  a.outcome \in {"new", "replay"} =>
    /\ a.tx \in Calls
    /\ IsTerminal(a.status) =>
         /\ txs[a.tx].status = a.status /\ txs[a.tx].snap = a.balance
         /\ SamePayload(req[a.tx], req[c])

ReplyTrue(c) == True(c, reply[c])
RepliesTrue == \A c \in Calls : ReplyTrue(c)
RepliesStep == \A c \in Calls : reply'[c] = reply[c] \/ ReplyTrue(c)'

LEMMA RepliesPreserved == ASSUME Inv, RepliesTrue, RowsStep, RepliesStep PROVE RepliesTrue'
<1>1. \A t \in Calls : IsTerminal(txs[t].status) => txs'[t] = txs[t]
  BY DEF RowsStep, Undecided, IsTerminal, Terminal
<1>2. ASSUME NEW c \in Calls, reply'[c] = reply[c] PROVE ReplyTrue(c)'
  <2>1. True(c, reply[c])
    BY DEF RepliesTrue, ReplyTrue
  <2>2. UNCHANGED req
    BY DEF RowsStep
  <2>. QED
    BY <1>1, <1>2, <2>1, <2>2 DEF True, ReplyTrue
<1>. QED
  BY <1>2 DEF RepliesTrue, RepliesStep

StepOK == RowsStep /\ ReadsStep /\ RepliesStep

-----------------------------------------------------------------------------
(* The actions *)

\* A step inside a transaction that reads nothing.
LEMMA GoesOK ==
  ASSUME Inv, NEW p \in Procs, NEW label, Goto(p, label), label # "replay", UNCHANGED seen
  PROVE  StepOK
<1>1. UNCHANGED <<req, txs, ledger, reply>> /\ pc' = [pc EXCEPT ![p] = label]
  BY DEF Goto, db
<1>2. \A q \in Procs : pc'[q] = pc[q] \/ pc'[q] # "replay"
  BY <1>1 DEF Inv, TypeOK
<1>. QED
  BY <1>1, <1>2 DEF StepOK, RowsStep, ReadsStep, RepliesStep

LEMMA LeavesReads == ASSUME NEW p \in Procs, LeavesRows(p) PROVE ReadsStep
BY DEF LeavesRows, ReadsStep

\* The end of a transaction of a call, with the answer that it gives.
LEMMA EndCallReplies ==
  ASSUME Inv, NEW c \in Calls, NEW answer, EndCall(c, answer), True(c, answer)'
  PROVE  RepliesStep
<1>1. reply'[c] = answer /\ \A d \in Calls \ {c} : reply'[d] = reply[d]
  BY DEF EndCall, Inv, TypeOK
<1>2. ReplyTrue(c)'
  BY <1>1 DEF ReplyTrue, True
<1>. QED
  BY <1>1, <1>2 DEF RepliesStep

LEMMA EndCallOK ==
  ASSUME Inv, NEW c \in Calls, NEW answer, EndCall(c, answer), True(c, answer),
         UNCHANGED <<req, db>>
  PROVE  StepOK
<1>1. UNCHANGED <<req, txs, ledger>>
  BY DEF db
<1>2. True(c, answer)'
  BY <1>1 DEF True
<1>3. ReadsStep
  BY EndCallLeaves, LeavesReads DEF Procs
<1>4. RepliesStep
  BY <1>2, EndCallReplies
<1>. QED
  BY <1>1, <1>3, <1>4 DEF StepOK, RowsStep

LEMMA RefusalsTrue == ASSUME NEW c PROVE True(c, Conflict) /\ True(c, Error)
BY DEF True, Conflict, Error, NoReply

LEMMA ReplayOrConflictOK ==
  ASSUME Inv, RowsInv, NEW c \in Calls, NEW d \in Calls, ReplayOrConflict(c, d)
  PROVE  StepOK
<1>0. c \in Procs
  BY DEF Procs
<1>1. CASE EndCall(c, Conflict) /\ UNCHANGED <<req, db, faults>>
  BY <1>1, EndCallOK, RefusalsTrue
<1>2. CASE /\ SamePayload(req[d], req[c])
           /\ EndCall(c, Reply("replay", d, txs[d].status, txs[d].snap, req[d].currency))
           /\ UNCHANGED <<req, db, faults>>
  <2>1. True(c, Reply("replay", d, txs[d].status, txs[d].snap, req[d].currency))
    BY <1>2 DEF True, Reply
  <2>. QED
    BY <1>2, <2>1, EndCallOK
<1>3. CASE /\ txs[d].snap = NoBalance /\ Goto(c, "replay")
           /\ seen' = [seen EXCEPT ![c] = [tx |-> d, status |-> txs[d].status, reversed |-> FALSE]]
  <2>1. UNCHANGED <<req, txs, ledger, reply>> /\ pc' = [pc EXCEPT ![c] = "replay"]
    BY <1>3 DEF Goto, db
  <2>2. ~IsTerminal(txs[d].status)
    BY <1>3 DEF RowsInv
  <2>3. seen'[c].tx = d /\ seen'[c].status = txs[d].status
    BY <1>0, <1>3 DEF Inv, TypeOK
  <2>4. \A q \in Procs \ {c} : seen'[q] = seen[q] /\ pc'[q] = pc[q]
    BY <1>0, <1>3, <2>1 DEF Inv, TypeOK
  <2>5. ReadsStep
    BY <2>2, <2>3, <2>4 DEF ReadsStep
  <2>. QED
    BY <2>1, <2>5 DEF StepOK, RowsStep, RepliesStep
<1>. QED
  BY <1>1, <1>2, <1>3 DEF ReplayOrConflict

LEMMA CallReadsOK ==
  ASSUME Inv, RowsInv, ReadsInv, NEW c \in Calls,
         \/ SelectByExternalID(c) \/ SelectByKey(c) \/ ReplayCurrentBalance(c)
         \/ LockWallet(c) \/ TryInsertIdempotency(c)
  PROVE  StepOK
<1>0. c \in Procs
  BY DEF Procs
<1>1. CASE SelectByExternalID(c)
  BY <1>0, <1>1, EndCallOK, RefusalsTrue, GoesOK DEF SelectByExternalID
<1>2. CASE SelectByKey(c)
  BY <1>0, <1>2, ReplayOrConflictOK, GoesOK DEF SelectByKey
<1>3. CASE ReplayCurrentBalance(c)
  <2>1. seen[c].tx \in Calls /\ ~IsTerminal(seen[c].status)
    BY <1>3 DEF ReplayCurrentBalance, ReadsInv, Inv, ProcsAtWork
  <2>2. PICK balance, currency :
          /\ EndCall(c, Reply("replay", seen[c].tx, seen[c].status, balance, currency))
          /\ UNCHANGED <<req, db, faults>>
    BY <1>3 DEF ReplayCurrentBalance
  <2>3. True(c, Reply("replay", seen[c].tx, seen[c].status, balance, currency))
    BY <2>1 DEF True, Reply
  <2>. QED
    BY <2>2, <2>3, EndCallOK
<1>4. CASE LockWallet(c)
  BY <1>0, <1>4, EndCallOK, RefusalsTrue, GoesOK DEF LockWallet
<1>5. CASE TryInsertIdempotency(c)
  <2>1. ASSUME NEW label, label \in {"readRef", "decide"}, Goto(c, label), UNCHANGED seen
        PROVE  StepOK
    BY <1>0, <2>1, GoesOK
  <2>. QED
    BY <1>5, <2>1, ReplayOrConflictOK, EndCallOK, RefusalsTrue DEF TryInsertIdempotency
<1>. QED
  BY <1>1, <1>2, <1>3, <1>4, <1>5

LEMMA ReadReferenceOK == ASSUME Inv, NEW p \in Procs, ReadReference(p) PROVE StepOK
<1>1. UNCHANGED <<req, txs, ledger, reply>>
  BY DEF ReadReference, Goto, db
<1>2. CASE Goto(p, "decide") /\ UNCHANGED seen
  BY <1>2, GoesOK
<1>3. ASSUME NEW d \in ReferenceRows(p), NEW label \in {"readReversal", "decide"}, Goto(p, label),
             seen' = [seen EXCEPT ![p] = [tx |-> d, reversed |-> FALSE,
                        status |-> IF Committed(d) THEN txs[d].status ELSE "PENDING"]]
      PROVE  StepOK
  <2>1. d \in Calls
    BY DEF ReferenceRows
  <2>2. pc' = [pc EXCEPT ![p] = label]
    BY <1>3 DEF Goto
  <2>3. /\ pc'[p] # "replay" /\ seen'[p].tx = d
        /\ seen'[p].status = IF Committed(d) THEN txs[d].status ELSE "PENDING"
        /\ \A q \in Procs \ {p} : seen'[q] = seen[q] /\ pc'[q] = pc[q]
    BY <1>3, <2>2 DEF Inv, TypeOK
  <2>4. ReadsStep
    BY <2>1, <2>3 DEF ReadsStep
  <2>. QED
    BY <1>1, <2>4 DEF StepOK, RowsStep, RepliesStep
<1>4. ASSUME NEW d \in ReferenceRows(p),
             Goto(p, IF /\ txs[d].status = "PROCESSED"
                        /\ ReferenceMismatch(req[TxOf(p)], req[d]) = ""
                     THEN "readReversal" ELSE "decide")
      PROVE  \E label \in {"readReversal", "decide"} : Goto(p, label)
  BY <1>4
<1>. QED
  BY <1>2, <1>3, <1>4 DEF ReadReference

LEMMA ReadReversalOK == ASSUME Inv, NEW p \in Procs, ReadReversal(p) PROVE StepOK
<1>1. UNCHANGED <<req, txs, ledger, reply>> /\ pc' = [pc EXCEPT ![p] = "decide"]
  BY DEF ReadReversal, Goto, db
<1>2. /\ \A q \in Procs \ {p} : seen'[q] = seen[q] /\ pc'[q] = pc[q]
      /\ pc'[p] # "replay" /\ seen'[p].tx = seen[p].tx /\ seen'[p].status = seen[p].status
  BY <1>1 DEF ReadReversal, Inv, TypeOK, SeenRow
<1>3. ReadsStep
  BY <1>2 DEF ReadsStep
<1>. QED
  BY <1>1, <1>3 DEF StepOK, RowsStep, RepliesStep

\* A worker's steps that decide nothing.
LEMMA WorkerOK ==
  ASSUME Inv, NEW r \in Resolvers,
         \/ ClaimPendingReferencesDue(r) \/ LoadPending(r) \/ ReadRetry(r)
         \/ LockForResolve(r) \/ Recheck(r) \/ RetryLater(r) \/ CrashWorker(r)
  PROVE  StepOK
<1>0. r \in Procs
  BY DEF Procs
<1>1. UNCHANGED <<req, txs, ledger, reply>>
  BY DEF ClaimPendingReferencesDue, LoadPending, ReadRetry, LockForResolve, Recheck, RetryLater,
     CrashWorker, ScheduleRetry, EndResolve, Goto, db
<1>2. RowsStep /\ RepliesStep
  BY <1>1 DEF RowsStep, RepliesStep
<1>3. ASSUME NEW label, label # "replay", Goto(r, label), UNCHANGED seen PROVE StepOK
  BY <1>0, <1>3, GoesOK
<1>4. CASE ClaimPendingReferencesDue(r)
  BY <1>2, <1>4 DEF ClaimPendingReferencesDue, StepOK, ReadsStep
<1>5. CASE LoadPending(r)
  <2>1. UNCHANGED seen /\ (pc' = pc \/ pc' = [pc EXCEPT ![r] = "retry"])
    BY <1>5 DEF LoadPending
  <2>2. \A q \in Procs : pc'[q] = pc[q] \/ pc'[q] # "replay"
    BY <2>1 DEF Inv, TypeOK
  <2>. QED
    BY <1>2, <2>1, <2>2 DEF StepOK, ReadsStep
<1>6. CASE ReadRetry(r) \/ LockForResolve(r)
  BY <1>3, <1>6 DEF ReadRetry, LockForResolve
<1>7. CASE Recheck(r)
  <2>1. CASE Goto(r, "readRef") /\ UNCHANGED seen
    BY <1>3, <2>1
  <2>2. CASE EndResolve(r)
    BY <1>0, <1>2, <2>2, EndResolveLeaves, LeavesReads DEF StepOK
  <2>. QED
    BY <1>7, <2>1, <2>2 DEF Recheck
<1>8. CASE RetryLater(r)
  BY <1>0, <1>2, <1>8, EndResolveLeaves, LeavesReads DEF RetryLater, StepOK
<1>9. CASE CrashWorker(r)
  BY <1>0, <1>2, <1>9, GoesIdleLeaves, LeavesReads DEF CrashWorker, GoesIdle, StepOK
<1>. QED
  BY <1>4, <1>5, <1>6, <1>7, <1>8, <1>9

LEMMA FailuresOK ==
  ASSUME Inv, NEW p \in Procs, FailDecision(p) \/ Abort(p) PROVE StepOK
<1>1. Finish(p, Error) /\ UNCHANGED <<req, db>>
  BY DEF FailDecision, Abort
<1>2. CASE p \in Calls
  BY <1>1, <1>2, EndCallOK, RefusalsTrue DEF Finish
<1>3. CASE p \notin Calls
  <2>1. EndResolve(p) /\ p \in Resolvers
    BY <1>1, <1>3 DEF Finish, Procs
  <2>2. UNCHANGED <<req, txs, ledger, reply>>
    BY <1>1, <2>1 DEF EndResolve, db
  <2>. QED
    BY <2>1, <2>2, EndResolveLeaves, LeavesReads DEF StepOK, RowsStep, RepliesStep
<1>. QED
  BY <1>2, <1>3

-----------------------------------------------------------------------------
(* The actions that decide *)

LEMMA CallDecision ==
  ASSUME Inv, NEW c \in Calls
  PROVE  /\ Decision(c).act = "wait" => NeedsReference(req[c].kind)
         /\ Decision(c).act = "loss" => req[c].kind = "LOSS"
<1>1. PICK v : v = Funded(CallVerdict(c), held[c].balance, req[c].amount)
  OBVIOUS
<1>2. TxOf(c) = c
  BY DEF TxOf
<1>3. Decision(c) = v \/ Decision(c) = Verdict("fail", "")
  BY <1>1, <1>2 DEF Decision
<1>4. v = CallVerdict(c) \/ v.act \in {"reject", "fail"}
  BY <1>1 DEF Funded, Reject, Verdict
<1>5. Decision(c).act \in {"wait", "loss"} => Decision(c) = CallVerdict(c)
  <2>1. Verdict("fail", "").act = "fail"
    BY DEF Verdict
  <2>2. CASE Decision(c) = v
    BY <1>4, <2>2
  <2>3. CASE Decision(c) = Verdict("fail", "")
    <3>1. Decision(c).act = "fail"
      BY <2>1, <2>3
    <3>. QED
      BY <3>1
  <2>. QED
    BY <1>3, <2>2, <2>3
<1>6. req[c].kind \in {"BET", "WIN", "LOSS", "REFUND", "ROLLBACK"}
  BY OpsAssumption DEF Inv, TypeOK, ExternalKinds
<1>7. ReferenceVerdict(c).act # "loss"
  BY DEF ReferenceVerdict, ReversalVerdict, Verdict, Reject
<1>8. CallVerdict(c).act = "wait" => NeedsReference(req[c].kind)
  BY DEF CallVerdict, SimpleVerdict, Reject, Verdict
<1>9. CallVerdict(c).act = "loss" => req[c].kind = "LOSS"
  BY <1>6, <1>7 DEF CallVerdict, SimpleVerdict, Reject, Verdict, NeedsReference
<1>. QED
  BY <1>5, <1>8, <1>9

\* The end of a transaction that has recorded an outcome: the reply agrees with the row.
LEMMA FinishOK ==
  ASSUME Inv, NEW p \in Procs, NEW status, NEW balance, UNCHANGED req,
         Finish(p, Answer(p, status, balance)),
         p \in Calls /\ IsTerminal(status) => txs'[p].status = status /\ txs'[p].snap = balance
  PROVE  ReadsStep /\ RepliesStep
<1>1. ReadsStep
  BY FinishLeaves, LeavesReads
<1>2. CASE p \in Calls
  <2>1. PICK answer : answer = Answer(p, status, balance)
    OBVIOUS
  <2>2. EndCall(p, answer)
    BY <1>2, <2>1 DEF Finish
  <2>3. answer.tx = p /\ answer.status = status /\ answer.balance = balance
    BY <1>2, <2>1 DEF Answer, Reply, TxOf
  <2>4. SamePayload(req[p], req[p])
    BY DEF SamePayload
  <2>5. True(p, answer)'
    BY <1>2, <2>3, <2>4 DEF True
  <2>. QED
    BY <1>1, <1>2, <2>2, <2>5, EndCallReplies
<1>3. CASE p \notin Calls
  BY <1>1, <1>3 DEF Finish, EndResolve, RepliesStep
<1>. QED
  BY <1>2, <1>3

\* The row that is written, and the rows of the other calls.
LEMMA RecordedRow ==
  ASSUME Inv, NEW t \in Calls, NEW row, NEW event, RecordOutcome(t, row, event)
  PROVE  txs'[t] = row /\ \A c \in Calls \ {t} : txs'[c] = txs[c]
BY DEF RecordOutcome, Inv, TypeOK, TxIds

\* A call whose amount is positive is no LOSS.
LEMMA PositiveIsNoLoss ==
  ASSUME NEW r \in Ops, r.amount \in 1 .. MaxMinor PROVE r.kind # "LOSS"
<1>1. MaxMinor \in Nat
  BY MinorRangeAssumption
<1>2. ASSUME r.kind = "LOSS" PROVE r.amount = 0
  BY <1>2, OpsAssumption DEF ValidateExternalKindAmount, IsZero
<1>. QED
  BY <1>1, <1>2

LEMMA SettleOK ==
  ASSUME Inv, RowInv, RowsInv, ReadsInv, NEW p \in Procs, Settle(p) PROVE StepOK
<1>. DEFINE t == TxOf(p)
            after == BalanceAfter(Decision(p), held[p].balance, req[t].amount)
            entry == Entry(t, Decision(p).act, req[t].amount, held[p].balance, after)
            row == Row("PROCESSED", "", seen[p].tx, after)
<1>1. /\ pc[p] = "decide" /\ Decision(p).act \in {"credit", "debit"}
      /\ CommitMovement(t, held[p], Decision(p), seen[p].tx)
      /\ Finish(p, Answer(p, "PROCESSED", after)) /\ UNCHANGED req
  BY DEF Settle
<1>2. /\ t \in Calls /\ Undecided(t)
      /\ p \in Calls => t = p
  BY <1>1, DecidingUndecided
<1>3. after \in Amount /\ req[t].amount \in 1 .. MaxMinor
  BY <1>1, DecisionSound
<1>4. Moves(t, p)
  BY <1>1, CommitMovementSound
<1>5. entry \in LedgerEntry /\ ledger' = [ledger EXCEPT ![req[t].wallet] = Append(@, entry)]
  BY <1>4 DEF Moves, PostMovement
<1>6. entry.tx = t /\ entry.amount = req[t].amount /\ entry.after = after
  BY DEF Entry
<1>7. RecordOutcome(t, row, WagerEvent("Processed", "", after))
  BY <1>1 DEF CommitMovement
<1>8. row.status = "PROCESSED" /\ row.ref = seen[p].tx /\ row.snap = after
  BY DEF Row
<1>9. req[t].kind # "LOSS"
  <2>1. req[t] \in Ops
    BY <1>2 DEF Inv, TypeOK
  <2>. QED
    BY <1>3, <2>1, PositiveIsNoLoss
<1>10. ASSUME seen[p].tx # None PROVE Reversible(t, seen[p].tx)
  <2>1. InOrder(p) /\ KnowsRows(p)
    BY <1>1, <1>10, DecisionMoves DEF RowInv
  <2>2. seen[p].tx \in Calls /\ txs[seen[p].tx].status = "PROCESSED"
    BY <1>10, <2>1 DEF InOrder, ReadsInv, Inv, TypeOK, SeenRow
  <2>3. ~ProcessedReversal(seen[p].tx)
    BY <1>1, <2>1 DEF KnowsRows
  <2>4. NeedsReference(req[t].kind)
    <3>1. CASE p \in Calls
      BY <1>1, <1>10, <2>1, <3>1 DEF KnowsRows, Deciding, TxOf
    <3>2. CASE p \notin Calls
      BY <1>1, <1>2, <2>1, <3>2, KindsOfProcess DEF KnowsRows, Deciding, RowsInv, TxOf
    <3>. QED
      BY <3>1, <3>2
  <2>. QED
    BY <2>1, <2>2, <2>3, <2>4 DEF Reversible, InOrder
<1>. HIDE DEF t, after, entry, row
<1>11. txs'[t] = row /\ \A c \in Calls \ {t} : txs'[c] = txs[c]
  BY <1>2, <1>7, RecordedRow
<1>12. after # NoBalance
  BY <1>3, MinorRangeAssumption DEF Amount, NoBalance
<1>13. Outcome(t)
  BY <1>5, <1>6, <1>8, <1>9, <1>10, <1>11, <1>12 DEF Outcome
<1>14. RowsStep
  BY <1>1, <1>2, <1>11, <1>13 DEF RowsStep
<1>15. ReadsStep /\ RepliesStep
  BY <1>1, <1>2, <1>8, <1>11, FinishOK
<1>. QED
  BY <1>14, <1>15 DEF StepOK

\* An outcome without a movement.
LEMMA QuietOutcomeOK ==
  ASSUME Inv, RowInv, NEW p \in Procs, pc[p] = "decide", UNCHANGED <<req, ledger>>,
         NEW row, NEW event, RecordOutcome(TxOf(p), row, event),
         NEW status, NEW balance, Finish(p, Answer(p, status, balance)),
         row.status = status, IsTerminal(status) => row.snap = balance,
         \/ status = "PENDING_REFERENCE" /\ NeedsReference(req[TxOf(p)].kind)
         \/ status = "REJECTED" /\ row.snap # NoBalance
         \/ /\ status = "PROCESSED" /\ row.snap # NoBalance
            /\ req[TxOf(p)].kind = "LOSS" /\ row.ref = None
  PROVE  StepOK
<1>1. /\ TxOf(p) \in Calls /\ Undecided(TxOf(p))
      /\ p \in Calls => TxOf(p) = p
  BY DecidingUndecided
<1>2. txs'[TxOf(p)] = row /\ \A c \in Calls \ {TxOf(p)} : txs'[c] = txs[c]
  BY <1>1, RecordedRow
<1>3. Outcome(TxOf(p))
  BY <1>2 DEF Outcome
<1>4. RowsStep
  BY <1>1, <1>2, <1>3 DEF RowsStep
<1>5. ReadsStep /\ RepliesStep
  BY <1>1, <1>2, FinishOK
<1>. QED
  BY <1>4, <1>5 DEF StepOK

LEMMA HeldBalance == ASSUME Inv, NEW p \in Procs PROVE held[p].balance # NoBalance
<1>1. held[p].balance \in Amount
  BY DEF Inv, TypeOK, WalletRow
<1>. QED
  BY <1>1, MinorRangeAssumption DEF Amount, NoBalance

LEMMA SettleLossOK == ASSUME Inv, RowInv, NEW c \in Calls, SettleLoss(c) PROVE StepOK
<1>0. c \in Procs /\ TxOf(c) = c
  BY DEF Procs, TxOf
<1>1. PICK balance, row, event :
        /\ balance = held[c].balance /\ row = Row("PROCESSED", "", None, balance)
        /\ RecordOutcome(c, row, event)
        /\ Finish(c, Answer(c, "PROCESSED", balance)) /\ UNCHANGED <<req, ledger>>
        /\ pc[c] = "decide" /\ Decision(c).act = "loss"
  BY DEF SettleLoss, RecordLoss
<1>2. row.status = "PROCESSED" /\ row.snap = balance /\ row.ref = None
  BY <1>1 DEF Row
<1>3. balance # NoBalance
  BY <1>0, <1>1, HeldBalance
<1>4. req[c].kind = "LOSS"
  BY <1>1, CallDecision
<1>. QED
  BY <1>0, <1>1, <1>2, <1>3, <1>4, QuietOutcomeOK

LEMMA ParkOK == ASSUME Inv, RowInv, NEW c \in Calls, Park(c) PROVE StepOK
<1>0. c \in Procs /\ TxOf(c) = c
  BY DEF Procs, TxOf
<1>1. PICK balance, row, event :
        /\ row = Row("PENDING_REFERENCE", "", None, NoBalance)
        /\ RecordOutcome(c, row, event)
        /\ Finish(c, Answer(c, "PENDING_REFERENCE", balance)) /\ UNCHANGED <<req, ledger>>
        /\ pc[c] = "decide" /\ Decision(c).act = "wait"
  BY DEF Park, ParkPendingReference
<1>2. row.status = "PENDING_REFERENCE" /\ ~IsTerminal("PENDING_REFERENCE")
  BY <1>1 DEF Row, IsTerminal, Terminal
<1>3. NeedsReference(req[c].kind)
  BY <1>1, CallDecision
<1>. QED
  BY <1>0, <1>1, <1>2, <1>3, QuietOutcomeOK

LEMMA RejectOK == ASSUME Inv, RowInv, NEW p \in Procs, RejectAndPersist(p) PROVE StepOK
<1>1. PICK balance, row, event, code :
        /\ balance = held[p].balance /\ row = Row("REJECTED", code, None, balance)
        /\ RecordOutcome(TxOf(p), row, event)
        /\ Finish(p, Answer(p, "REJECTED", balance)) /\ UNCHANGED <<req, ledger>>
        /\ pc[p] = "decide"
  BY DEF RejectAndPersist, PersistRejection
<1>2. row.status = "REJECTED" /\ row.snap = balance
  BY <1>1 DEF Row
<1>3. balance # NoBalance
  BY <1>1, HeldBalance
<1>. QED
  BY <1>1, <1>2, <1>3, QuietOutcomeOK

LEMMA OpenWalletOK == ASSUME Inv, NEW o \in Openings, OpenWallet(o) PROVE StepOK
<1>0. o.wallet \in Wallets /\ o.wallet \in TxIds /\ o.wallet \notin Calls /\ o.initial \in Amount
  BY OpeningsAssumption, ProcessAssumption DEF TxIds, Amount
<1>1. UNCHANGED <<req, pc, seen, reply>>
  BY DEF OpenWallet
<1>2. ReadsStep /\ RepliesStep
  BY <1>1 DEF ReadsStep, RepliesStep
<1>3. CASE o.initial > 0
  <2>1. PICK row, event, entry :
          /\ RecordOutcome(o.wallet, row, event)
          /\ entry = Entry(o.wallet, "credit", o.initial, 0, o.initial)
          /\ ledger' = [ledger EXCEPT ![o.wallet] = Append(@, entry)]
    BY <1>3 DEF OpenWallet, PostMovement
  <2>2. \A c \in Calls : txs'[c] = txs[c]
    BY <1>0, <2>1 DEF RecordOutcome, Inv, TypeOK, TxIds
  <2>3. entry \in LedgerEntry /\ entry.tx = o.wallet
    BY <1>0, <1>3, <2>1, MinorRangeAssumption DEF Entry, LedgerEntry, Amount
  <2>. QED
    BY <1>0, <1>1, <1>2, <2>1, <2>2, <2>3 DEF StepOK, RowsStep
<1>4. CASE ~(o.initial > 0)
  BY <1>1, <1>2, <1>4 DEF OpenWallet, StepOK, RowsStep
<1>. QED
  BY <1>3, <1>4

LEMMA ClockOK ==
  ASSUME UNCHANGED <<req, txs, ledger, pc, seen, reply>> PROVE StepOK
BY DEF StepOK, RowsStep, ReadsStep, RepliesStep

LEMMA NextOK ==
  ASSUME Inv, RowInv, LeaseInv, RowsInv, ReadsInv, [Next]_vars PROVE StepOK
<1>1. ASSUME NEW o \in Openings, OpenWallet(o) PROVE StepOK
  BY <1>1, OpenWalletOK
<1>2. ASSUME NEW c \in Calls, CallStep(c) PROVE StepOK
  BY <1>2, CallReadsOK, SettleLossOK, ParkOK DEF CallStep
<1>3. ASSUME NEW r \in Resolvers, ResolverStep(r) \/ CrashWorker(r) PROVE StepOK
  BY <1>3, WorkerOK, NoOrphans DEF ResolverStep
<1>4. ASSUME NEW p \in Procs, SharedStep(p) \/ Abort(p) PROVE StepOK
  BY <1>4, ReadReferenceOK, ReadReversalOK, SettleOK, RejectOK, FailuresOK DEF SharedStep
<1>5. ASSUME NEW t \in Calls, NextAttemptDue(t) \/ DeadlinePasses(t) PROVE StepOK
  BY <1>5, ClockOK DEF NextAttemptDue, DeadlinePasses
<1>6. CASE UNCHANGED vars
  BY <1>6, ClockOK DEF vars
<1>. QED
  BY <1>1, <1>2, <1>3, <1>4, <1>5, <1>6 DEF Next, Quiescent

-----------------------------------------------------------------------------
(* The theorems *)

OutcomeInv == RowsInv /\ ReadsInv /\ RepliesTrue

LEMMA InitOutcome == Init => OutcomeInv
<1>. SUFFICES ASSUME Init PROVE OutcomeInv
  OBVIOUS
<1>1. \A c \in Calls : txs[c].status = "NONE"
  BY DEF Init, NoTx, TxIds
<1>2. \A w \in Wallets : ledger[w] = <<>> /\ Len(ledger[w]) = 0
  BY DEF Init
<1>3. \A p \in Procs : seen[p].tx = None /\ pc[p] # "replay"
  BY DEF Init, Unseen
<1>4. \A c \in Calls : reply[c].outcome = "none" /\ c \in Procs
  BY DEF Init, NoReply, Procs
<1>5. MovedOnce
  BY <1>1, <1>2 DEF MovedOnce, MovedAsRecorded
<1>. QED
  BY <1>1, <1>3, <1>4, <1>5 DEF OutcomeInv, RowsInv, ReadsInv, RepliesTrue, ReplyTrue, True,
     ReversedAtMostOnce, IsTerminal, Terminal

LEMMA SpecOutcome ==
  ASSUME ~LeaseMayLapse PROVE Spec => [](Inv /\ OutcomeInv)
<1>1. Inv /\ RowInv /\ LeaseInv /\ OutcomeInv /\ [Next]_vars => OutcomeInv'
  BY NextOK, RowsPreserved, ReadsPreserved, RepliesPreserved DEF OutcomeInv, StepOK
<1>. QED
  BY <1>1, InitOutcome, SpecLeases, PTL DEF Spec

(* Money moves exactly once for every processed transaction that moves     *)
(* money, on its own wallet, for its own amount and to the balance its row *)
(* records, and for no other transaction (commitMovement).                 *)
THEOREM MoneyMovesOnce ==
  ASSUME ~LeaseMayLapse PROVE Spec => []MovedOnce
<1>1. OutcomeInv => MovedOnce
  BY DEF OutcomeInv, RowsInv
<1>. QED
  BY <1>1, SpecOutcome, PTL

(* A transaction is reversed at most once, and only a processed one that   *)
(* matches the reversal, though calls and workers may race to reverse it   *)
(* (validateReferenceMatch, GetProcessedReversalByReference).              *)
THEOREM ReversalsAreUnique ==
  ASSUME ~LeaseMayLapse PROVE Spec => []ReversedAtMostOnce
<1>1. OutcomeInv => ReversedAtMostOnce
  BY DEF OutcomeInv, RowsInv
<1>. QED
  BY <1>1, SpecOutcome, PTL

(* A final answer, given first or replayed, is what the database says ever *)
(* after, so no client hears two outcomes (replayOrConflict).              *)
THEOREM AnswersAlwaysStand ==
  ASSUME ~LeaseMayLapse PROVE Spec => []AnswersStand
<1>1. OutcomeInv => AnswersStand
  BY DEF OutcomeInv, RepliesTrue, ReplyTrue, True, AnswersStand
<1>. QED
  BY <1>1, SpecOutcome, PTL
=============================================================================
