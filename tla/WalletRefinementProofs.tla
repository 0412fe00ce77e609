----------------------- MODULE WalletRefinementProofs -----------------------
(***************************************************************************)
(* Proof that the write path implements WalletPromise, for claims that     *)
(* outlive the work they cover: every COMMIT of an outcome judges one      *)
(* request as if nothing else were running.                                *)
(*                                                                         *)
(* A process decides with what it has read some statements ago.            *)
(* KnowsReference says what of that is still so at the COMMIT: the wallet  *)
(* lock keeps every transaction of its own wallet as it was read, so only  *)
(* a reference into another wallet may have moved on.  Under it Decision   *)
(* is the verdict that the present state commands (Ruled).                 *)
(***************************************************************************)
EXTENDS WalletOutcomeProofs

\* The committed rows that a reversal t names.
Referenced(t) ==
  {d \in Calls : Committed(d) /\ req[d].provider = req[t].provider /\ req[d].ext = req[t].ref}

\* t is asked by the player of its wallet, in the wallet's currency.
Holder(t) ==
  /\ wallets[req[t].wallet].player = req[t].player
  /\ wallets[req[t].wallet].currency = req[t].currency

\* What p has read of its reference, when it has looked for one.
FoundNothing(p) ==
  pc[p] \in {"readReversal", "decide"} /\ seen[p].tx = None
      /\ NeedsReference(req[TxOf(p)].kind) /\ Holder(TxOf(p)) =>
    \A d \in Referenced(TxOf(p)) : req[d].wallet # WalletOf(p)

FoundRow(p) ==
  pc[p] \in {"readReversal", "decide"} /\ seen[p].tx # None =>
    /\ req[seen[p].tx].provider = req[TxOf(p)].provider /\ req[seen[p].tx].ext = req[TxOf(p)].ref
    /\ IF Committed(seen[p].tx)
       THEN IsTerminal(seen[p].status) \/ req[seen[p].tx].wallet = WalletOf(p) =>
              seen[p].status = txs[seen[p].tx].status
       ELSE ~IsTerminal(seen[p].status) /\ seen[p].tx = p

FoundReversal(p) ==
  pc[p] = "decide" /\ seen[p].tx # None /\ seen[p].status = "PROCESSED"
      /\ ReferenceMismatch(req[TxOf(p)], req[seen[p].tx]) = "" =>
    (seen[p].reversed <=> ProcessedReversal(seen[p].tx))

KnowsReference(p) == FoundNothing(p) /\ FoundRow(p) /\ FoundReversal(p)

\* Whoever waits was let in by its wallet, and an opening that has no row has none at all.
WaitersAreHolders == \A c \in Calls : txs[c].status = "PENDING_REFERENCE" => Holder(c)
NoRowIsNoTx == \A w \in Wallets : ~Committed(w) => txs[w] = NoTx

PromiseInv ==
  /\ \A p \in Procs : KnowsReference(p)
  /\ WaitersAreHolders
  /\ NoRowIsNoTx

-----------------------------------------------------------------------------
(* The rules, as the two specifications state them *)

LEMMA SameRules ==
  /\ \A kind : Promise!NeedsReference(kind) <=> NeedsReference(kind)
  /\ \A r, s : Promise!SameKey(r, s) <=> SameKey(r, s)
  /\ \A r, s : Promise!SameExternalID(r, s) <=> SameExternalID(r, s)
  /\ \A act, code : Promise!Verdict(act, code) = Verdict(act, code)
  /\ \A code : Promise!Reject(code) = Reject(code)
  /\ \A r : Promise!SimpleVerdict(r) = SimpleVerdict(r)
  /\ \A r, s, status, reversed :
       Promise!ReversalVerdict(r, s, status, reversed) = ReversalVerdict(r, s, status, reversed)
  /\ \A v, balance, amount : Promise!Funded(v, balance, amount) = Funded(v, balance, amount)
  /\ \A v, balance, amount :
       Promise!BalanceAfter(v, balance, amount) = BalanceAfter(v, balance, amount)
<1>1. \A kind : Promise!NeedsReference(kind) <=> NeedsReference(kind)
  BY DEF Promise!NeedsReference, NeedsReference
<1>2. /\ \A r, s : Promise!SameKey(r, s) <=> SameKey(r, s)
      /\ \A r, s : Promise!SameExternalID(r, s) <=> SameExternalID(r, s)
  BY DEF Promise!SameKey, SameKey, Promise!SameExternalID, SameExternalID
<1>3. \A act, code : Promise!Verdict(act, code) = Verdict(act, code)
  BY DEF Promise!Verdict, Verdict
<1>4. \A code : Promise!Reject(code) = Reject(code)
  BY <1>3 DEF Promise!Reject, Reject
<1>5. \A r : Promise!SimpleVerdict(r) = SimpleVerdict(r)
  BY <1>3 DEF Promise!SimpleVerdict, SimpleVerdict
<1>6. \A r, s : Promise!ReferenceMismatch(r, s) = ReferenceMismatch(r, s)
  BY DEF Promise!ReferenceMismatch, ReferenceMismatch
<1>7. \A status : Promise!IsTerminal(status) <=> IsTerminal(status)
  BY DEF Promise!IsTerminal, Promise!Terminal, IsTerminal, Terminal
<1>8. ASSUME NEW r, NEW s, NEW status, NEW reversed
      PROVE  Promise!ReversalVerdict(r, s, status, reversed) = ReversalVerdict(r, s, status, reversed)
  BY <1>3, <1>4, <1>6, <1>7 DEF Promise!ReversalVerdict, ReversalVerdict
<1>9. \A a, b : Promise!AddChecked(a, b) = AddChecked(a, b)
  BY DEF Promise!AddChecked, AddChecked, Promise!Overflow, Overflow, Promise!Exactly, Exactly
<1>10. \A a, b : Promise!SubChecked(a, b) = SubChecked(a, b)
  BY DEF Promise!SubChecked, SubChecked, Promise!Overflow, Overflow, Promise!Exactly, Exactly
<1>11. ASSUME NEW v, NEW balance, NEW amount
       PROVE  Promise!Funded(v, balance, amount) = Funded(v, balance, amount)
  BY <1>3, <1>4, <1>9 DEF Promise!Funded, Funded
<1>12. ASSUME NEW v, NEW balance, NEW amount
       PROVE  Promise!BalanceAfter(v, balance, amount) = BalanceAfter(v, balance, amount)
  BY <1>9, <1>10 DEF Promise!BalanceAfter, BalanceAfter
<1>. QED
  BY <1>1, <1>2, <1>3, <1>4, <1>5, <1>8, <1>11, <1>12

LEMMA SameReferences ==
  ASSUME NEW t \in Calls
  PROVE  /\ Promise!References(t) = Referenced(t)
         /\ Promise!Reference(t) = IF NeedsReference(req[t].kind) /\ Referenced(t) # {}
                                   THEN CHOOSE d \in Referenced(t) : TRUE ELSE None
<1>1. Promise!References(t) = Referenced(t)
  BY DEF Promise!References, Promise!Known, Referenced, Committed
<1>. QED
  BY <1>1, SameRules DEF Promise!Reference

\* An identity has one row, so a reference names one.
LEMMA OneReference ==
  ASSUME RowInv, NEW t \in Calls, NEW d \in Referenced(t), NeedsReference(req[t].kind)
  PROVE  Promise!Reference(t) = d
<1>1. \A e \in Referenced(t) : e = d
  BY DEF Referenced, RowInv, IdentityHeldOnce, Holds, SameExternalID
<1>2. (CHOOSE e \in Referenced(t) : TRUE) \in Referenced(t)
  OBVIOUS
<1>. QED
  BY <1>1, <1>2, SameReferences

LEMMA NoReference ==
  ASSUME NEW t \in Calls, Referenced(t) = {} \/ ~NeedsReference(req[t].kind)
  PROVE  Promise!Reference(t) = None
BY SameReferences

LEMMA SameReversals == \A d : Promise!Reversed(d) <=> ProcessedReversal(d)
BY SameRules DEF Promise!Reversed, ProcessedReversal

\* The verdict of the present state, before the funds are looked at.
RuledRaw(t) ==
  LET ref == Promise!Reference(t)
  IN IF wallets[req[t].wallet].player # req[t].player THEN Reject("PLAYER_WALLET_MISMATCH")
     ELSE IF wallets[req[t].wallet].currency # req[t].currency THEN Reject("CURRENCY_MISMATCH")
     ELSE IF ~NeedsReference(req[t].kind) THEN SimpleVerdict(req[t])
     ELSE IF ref = None THEN Verdict("wait", "")
     ELSE ReversalVerdict(req[t], req[ref], txs[ref].status, ProcessedReversal(ref))

LEMMA SameRule ==
  ASSUME NEW t \in Calls
  PROVE  Promise!Rule(t) = Funded(RuledRaw(t), wallets[req[t].wallet].balance, req[t].amount)
<1>1. PICK ref : ref = Promise!Reference(t)
  OBVIOUS
<1>2. Promise!ReversalVerdict(req[t], req[ref], txs[ref].status, Promise!Reversed(ref))
        = ReversalVerdict(req[t], req[ref], txs[ref].status, ProcessedReversal(ref))
  <2>1. Promise!Reversed(ref) = ProcessedReversal(ref)
    BY SameRules DEF Promise!Reversed, ProcessedReversal
  <2>. QED
    BY <2>1, SameRules
<1>3. Promise!AccountOf(t) = wallets[req[t].wallet]
  BY DEF Promise!AccountOf
<1>. QED
  BY <1>1, <1>2, <1>3, SameRules DEF Promise!Rule, RuledRaw

-----------------------------------------------------------------------------
(* What is decided is what the rules command *)

\* Its reference belongs to another wallet, so that t can only ever be rejected.
Exempt(t) ==
  /\ NeedsReference(req[t].kind) /\ Promise!Reference(t) # None
  /\ req[Promise!Reference(t)].wallet # req[t].wallet

LEMMA SameMayWait ==
  ASSUME NEW t \in Calls
  PROVE  Promise!MayWait(t) <=> Promise!Rule(t).act = "wait" \/ Exempt(t)
BY SameRules DEF Promise!MayWait, Exempt

\* A raw verdict to wait stays one: funds matter to movements only.
LEMMA WaitIsWait ==
  ASSUME NEW t \in Calls, RuledRaw(t).act = "wait" PROVE Promise!MayWait(t)
<1>1. Promise!Rule(t) = RuledRaw(t)
  BY SameRule DEF Funded
<1>. QED
  BY <1>1, SameMayWait

LEMMA WaitActs == Verdict("wait", "").act = "wait" /\ \A code : Reject(code).act = "reject"
BY DEF Verdict, Reject

\* Whether there is a reversal matters only to a matching, processed reference.
LEMMA ReversedUnasked ==
  ASSUME NEW r, NEW ref, NEW status, NEW a, NEW b,
         ~(status = "PROCESSED" /\ ReferenceMismatch(r, ref) = "")
  PROVE  ReversalVerdict(r, ref, status, a) = ReversalVerdict(r, ref, status, b)
<1>1. CASE ~IsTerminal(status)
  BY <1>1 DEF ReversalVerdict
<1>2. CASE IsTerminal(status) /\ status # "PROCESSED"
  BY <1>2 DEF ReversalVerdict
<1>3. CASE IsTerminal(status) /\ status = "PROCESSED"
  BY <1>3 DEF ReversalVerdict
<1>. QED
  BY <1>1, <1>2, <1>3

(* What p makes of its reference is what the present state says of it, or  *)
(* it waits for one that it can never reverse.                             *)
LEMMA ReferenceRuled ==
  ASSUME Inv, RowInv, PromiseInv, NEW p \in Procs, pc[p] = "decide",
         NeedsReference(req[TxOf(p)].kind), Holder(TxOf(p))
  PROVE  \/ ReferenceVerdict(p) = RuledRaw(TxOf(p))
         \/ ReferenceVerdict(p).act = "wait" /\ Exempt(TxOf(p))
<1>. DEFINE t == TxOf(p)
            d == seen[p].tx
<1>1. t \in Calls /\ KnowsReference(p) /\ KnowsRows(p) /\ d \in Calls \cup {None}
  BY AtWork DEF PromiseInv, RowInv, Inv, TypeOK, SeenRow
<1>2. RuledRaw(t) = IF Promise!Reference(t) = None THEN Verdict("wait", "")
                    ELSE ReversalVerdict(req[t], req[Promise!Reference(t)],
                           txs[Promise!Reference(t)].status, ProcessedReversal(Promise!Reference(t)))
  BY DEF RuledRaw, Holder
<1>3. WalletOf(p) = req[t].wallet
  BY DEF WalletOf
<1>4. None \notin Calls
  BY ProcessAssumption DEF Procs
<1>5. CASE d = None
  <2>1. ReferenceVerdict(p) = Verdict("wait", "")
    BY <1>5 DEF ReferenceVerdict
  <2>2. CASE Referenced(t) = {}
    BY <1>1, <1>2, <2>1, <2>2, NoReference
  <2>3. ASSUME NEW e \in Referenced(t) PROVE Exempt(t)
    <3>1. Promise!Reference(t) = e /\ e \in Calls
      BY <1>1, <2>3, OneReference DEF Referenced
    <3>2. req[e].wallet # req[t].wallet
      BY <1>1, <1>3, <1>5, <2>3 DEF KnowsReference, FoundNothing
    <3>. QED
      BY <1>4, <3>1, <3>2 DEF Exempt
  <2>. QED
    BY <2>1, <2>2, <2>3, WaitActs
<1>6. CASE d # None
  <2>1. ReferenceVerdict(p) = ReversalVerdict(req[t], req[d], seen[p].status, seen[p].reversed)
    BY <1>6 DEF ReferenceVerdict
  <2>2. ~IsTerminal(seen[p].status) => ReferenceVerdict(p) = Verdict("wait", "")
    BY <2>1 DEF ReversalVerdict
  <2>3. d \in Calls /\ req[d].provider = req[t].provider /\ req[d].ext = req[t].ref
    BY <1>1, <1>6 DEF KnowsReference, FoundRow
  <2>4. CASE ~Committed(d)
    <3>1. d = p /\ p \in Calls /\ t = p /\ ~IsTerminal(seen[p].status)
      BY <1>1, <1>6, <2>3, <2>4, KindsOfProcess DEF KnowsReference, FoundRow
    <3>2. Referenced(t) = {}
      <4>1. ASSUME NEW e \in Referenced(t) PROVE FALSE
        <5>1. Holds(e) /\ Holds(t) /\ e # t /\ SameExternalID(req[e], req[t])
          BY <2>3, <2>4, <3>1 DEF Referenced, Holds, InFlight, SameExternalID
        <5>. QED
          BY <1>1, <5>1 DEF Referenced, RowInv, IdentityHeldOnce
      <4>. QED
        BY <4>1
    <3>. QED
      BY <1>1, <1>2, <2>2, <3>1, <3>2, NoReference
  <2>5. CASE Committed(d)
    <3>1. d \in Referenced(t)
      BY <2>3, <2>5 DEF Referenced
    <3>2. Promise!Reference(t) = d
      BY <1>1, <3>1, OneReference
    <3>3. CASE seen[p].status = txs[d].status
      <4>1. RuledRaw(t) = ReversalVerdict(req[t], req[d], seen[p].status, ProcessedReversal(d))
        BY <1>2, <1>6, <3>2, <3>3
      <4>2. CASE seen[p].status = "PROCESSED" /\ ReferenceMismatch(req[t], req[d]) = ""
        <5>1. seen[p].reversed <=> ProcessedReversal(d)
          BY <1>1, <1>6, <4>2 DEF KnowsReference, FoundReversal
        <5>2. CASE ProcessedReversal(d)
          <6>1. ReferenceVerdict(p) = Reject("REFERENCE_ALREADY_REVERSED")
            BY <2>1, <4>2, <5>1, <5>2 DEF ReversalVerdict, IsTerminal, Terminal
          <6>2. RuledRaw(t) = Reject("REFERENCE_ALREADY_REVERSED")
            BY <4>1, <4>2, <5>2 DEF ReversalVerdict, IsTerminal, Terminal
          <6>. QED
            BY <6>1, <6>2
        <5>3. CASE ~ProcessedReversal(d)
          <6>1. ReferenceVerdict(p) = ReversalVerdict(req[t], req[d], "PROCESSED", FALSE)
            BY <2>1, <4>2, <5>1, <5>3 DEF ReversalVerdict
          <6>2. RuledRaw(t) = ReversalVerdict(req[t], req[d], "PROCESSED", FALSE)
            BY <4>1, <4>2, <5>3 DEF ReversalVerdict
          <6>. QED
            BY <6>1, <6>2
        <5>. QED
          BY <5>2, <5>3
      <4>3. CASE ~(seen[p].status = "PROCESSED" /\ ReferenceMismatch(req[t], req[d]) = "")
        <5>1. PICK r, ref, status, flag, read :
                /\ r = req[t] /\ ref = req[d] /\ status = seen[p].status
                /\ flag = ProcessedReversal(d) /\ read = seen[p].reversed
          OBVIOUS
        <5>2. ReversalVerdict(r, ref, status, read) = ReversalVerdict(r, ref, status, flag)
          <6>1. ~(status = "PROCESSED" /\ ReferenceMismatch(r, ref) = "")
            BY <4>3, <5>1
          <6>. QED
            BY <6>1, ReversedUnasked
        <5>. QED
          BY <2>1, <4>1, <5>1, <5>2
      <4>. QED
        BY <4>2, <4>3
    <3>4. CASE seen[p].status # txs[d].status
      <4>1. ~IsTerminal(seen[p].status) /\ req[d].wallet # req[t].wallet
        BY <1>1, <1>3, <1>6, <2>5, <3>4 DEF KnowsReference, FoundRow
      <4>2. Exempt(t)
        BY <1>4, <2>3, <3>2, <4>1 DEF Exempt
      <4>. QED
        BY <2>2, <4>1, <4>2, WaitActs
    <3>. QED
      BY <3>3, <3>4
  <2>. QED
    BY <2>4, <2>5
<1>. QED
  BY <1>5, <1>6

\* A worker's row is a reversal of the wallet's own player and currency.
LEMMA WorkersHold ==
  ASSUME Inv, RowInv, RowsInv, PromiseInv, NEW p \in Resolvers, pc[p] = "decide"
  PROVE  /\ Committed(TxOf(p)) /\ txs[TxOf(p)].status = "PENDING_REFERENCE"
         /\ NeedsReference(req[TxOf(p)].kind) /\ Holder(TxOf(p))
<1>1. p \in Procs /\ TxOf(p) = target[p] /\ target[p] \in Calls
  BY ProcessAssumption DEF Procs, TxOf, Inv, ProcsAtWork
<1>2. txs[target[p]].status = "PENDING_REFERENCE"
  BY <1>1 DEF RowInv, KnowsRows, Deciding
<1>. QED
  BY <1>1, <1>2 DEF RowsInv, PromiseInv, WaitersAreHolders, Committed

LEMMA RawRuled ==
  ASSUME Inv, RowInv, RowsInv, PromiseInv, NEW p \in Procs, pc[p] = "decide",
         NEW raw, raw = IF p \in Calls THEN CallVerdict(p) ELSE WorkerVerdict(p)
  PROVE  \/ raw = RuledRaw(TxOf(p))
         \/ raw.act = "wait" /\ Exempt(TxOf(p))
         \/ raw = Reject("REFERENCE_NOT_FOUND") /\ Promise!MayWait(TxOf(p)) /\ Committed(TxOf(p))
<1>1. held[p] = wallets[req[TxOf(p)].wallet] /\ TxOf(p) \in Calls
  BY AtWork DEF Inv, LockedReadsStayFresh, Locked, WalletOf
<1>2. CASE p \in Calls
  <2>1. TxOf(p) = p
    BY <1>2 DEF TxOf
  <2>2. CASE NeedsReference(req[p].kind) /\ Holder(p)
    <3>1. raw = ReferenceVerdict(p)
      BY <1>1, <1>2, <2>1, <2>2 DEF CallVerdict, Holder
    <3>. QED
      BY <2>1, <2>2, <3>1, ReferenceRuled
  <2>3. CASE ~(NeedsReference(req[p].kind) /\ Holder(p))
    <3>1. raw = RuledRaw(p)
      BY <1>1, <1>2, <2>1, <2>3 DEF CallVerdict, RuledRaw, Holder
    <3>. QED
      BY <2>1, <3>1
  <2>. QED
    BY <2>2, <2>3
<1>3. CASE p \notin Calls
  <2>1. /\ Committed(TxOf(p)) /\ NeedsReference(req[TxOf(p)].kind) /\ Holder(TxOf(p))
    BY <1>3, WorkersHold DEF Procs
  <2>2. \/ ReferenceVerdict(p) = RuledRaw(TxOf(p))
        \/ ReferenceVerdict(p).act = "wait" /\ Exempt(TxOf(p))
    BY <2>1, ReferenceRuled
  <2>3. \/ raw = ReferenceVerdict(p)
        \/ ReferenceVerdict(p).act = "wait" /\ raw = Reject("REFERENCE_NOT_FOUND")
    BY <1>3 DEF WorkerVerdict
  <2>4. ReferenceVerdict(p).act = "wait" => Promise!MayWait(TxOf(p))
    BY <1>1, <2>2, WaitIsWait, SameMayWait
  <2>. QED
    BY <2>1, <2>2, <2>3, <2>4
<1>. QED
  BY <1>2, <1>3

(* The decision of a transaction is the verdict that the state commands at *)
(* the moment of its COMMIT, or one of the two ways to wait.               *)
LEMMA Ruled ==
  ASSUME Inv, RowInv, RowsInv, PromiseInv, NEW p \in Procs, pc[p] = "decide",
         Decision(p).act # "fail"
  PROVE  \/ Decision(p) = Promise!Rule(TxOf(p))
         \/ Decision(p).act = "wait" /\ Promise!MayWait(TxOf(p))
         \/ /\ Decision(p) = Reject("REFERENCE_NOT_FOUND")
            /\ Promise!MayWait(TxOf(p)) /\ Committed(TxOf(p))
<1>1. held[p] = wallets[req[TxOf(p)].wallet] /\ TxOf(p) \in Calls
  BY AtWork DEF Inv, LockedReadsStayFresh, Locked, WalletOf
<1>2. PICK raw : raw = IF p \in Calls THEN CallVerdict(p) ELSE WorkerVerdict(p)
  OBVIOUS
<1>3. Verdict("fail", "").act = "fail"
  BY DEF Verdict
<1>4. Decision(p) = Funded(raw, held[p].balance, req[TxOf(p)].amount)
  <2>1. \/ Decision(p) = Funded(raw, held[p].balance, req[TxOf(p)].amount)
        \/ Decision(p) = Verdict("fail", "")
    BY <1>2 DEF Decision
  <2>. QED
    BY <1>3, <2>1
<1>5. CASE raw = RuledRaw(TxOf(p))
  BY <1>1, <1>4, <1>5, SameRule
<1>6. CASE raw.act \in {"wait", "reject"} /\ raw # RuledRaw(TxOf(p))
  <2>1. Decision(p) = raw
    BY <1>4, <1>6 DEF Funded
  <2>. QED
    BY <1>1, <1>2, <1>6, <2>1, RawRuled, SameMayWait
<1>. QED
  BY <1>2, <1>5, <1>6, RawRuled, WaitActs

-----------------------------------------------------------------------------
(* What the steps of others leave of it *)

Keeps(p) ==
  /\ pc'[p] = pc[p] /\ seen'[p] = seen[p]
  /\ p \in Resolvers => target'[p] = target[p]

\* Outcomes are recorded in other wallets only.
RowsElsewhere(p) ==
  \A d \in Calls :
    \/ txs'[d] = txs[d]
    \/ Undecided(d) /\ Committed(d)' /\ req[d].wallet # WalletOf(p)

StepFor(p) ==
  \/ Keeps(p) /\ (pc[p] \in Deciding => RowsElsewhere(p))
  \/ KnowsReference(p)'

PromiseStep ==
  /\ \A p \in Procs : StepFor(p)
  /\ \A c \in Calls :
       \/ txs'[c] = txs[c] \/ txs'[c].status # "PENDING_REFERENCE"
       \/ Holder(c) /\ Opened(req[c].wallet)

HoldersStay ==
  \A w \in Wallets : Opened(w) =>
    wallets'[w].player = wallets[w].player /\ wallets'[w].currency = wallets[w].currency

\* Whoever is not past its reads knows nothing yet.
LEMMA KnowsNothing ==
  ASSUME NEW p, pc[p] \notin {"readReversal", "decide"} PROVE KnowsReference(p)
BY DEF KnowsReference, FoundNothing, FoundRow, FoundReversal

LEMMA ReversalKept ==
  ASSUME RowsStep, NEW p, RowsElsewhere(p), NEW x \in Calls, req[x].wallet = WalletOf(p)
  PROVE  ProcessedReversal(x)' <=> ProcessedReversal(x)
<1>1. UNCHANGED req /\ x # None
  BY ProcessAssumption DEF RowsStep, Procs
<1>2. ASSUME ProcessedReversal(x)' PROVE ProcessedReversal(x)
  <2>1. PICK e \in Calls : /\ txs'[e].status = "PROCESSED" /\ txs'[e].ref = x
                           /\ NeedsReference(req[e].kind)
    BY <1>1, <1>2 DEF ProcessedReversal
  <2>2. CASE txs'[e] = txs[e]
    BY <2>1, <2>2 DEF ProcessedReversal
  <2>3. CASE txs'[e] # txs[e]
    <3>1. Outcome(e)
      BY <2>3 DEF RowsStep
    <3>2. Reversible(e, x)
      BY <1>1, <2>1, <3>1 DEF Outcome
    <3>3. req[x].wallet = req[e].wallet
      BY <3>2 DEF Reversible, ReferenceMismatch
    <3>. QED
      BY <2>3, <3>3 DEF RowsElsewhere
  <2>. QED
    BY <2>2, <2>3
<1>3. ASSUME ProcessedReversal(x) PROVE ProcessedReversal(x)'
  <2>1. PICK e \in Calls : /\ txs[e].status = "PROCESSED" /\ txs[e].ref = x
                           /\ NeedsReference(req[e].kind)
    BY <1>3 DEF ProcessedReversal
  <2>2. txs'[e] = txs[e]
    BY <2>1 DEF RowsElsewhere, Undecided
  <2>. QED
    BY <1>1, <2>1, <2>2 DEF ProcessedReversal
<1>. QED
  BY <1>2, <1>3

LEMMA KeptKnows ==
  ASSUME Inv, RowsStep, HoldersStay, NEW p \in Procs, KnowsReference(p), Keeps(p),
         pc[p] \in Deciding => RowsElsewhere(p)
  PROVE  KnowsReference(p)'
<1>1. CASE pc[p] \notin {"readReversal", "decide"}
  BY <1>1 DEF Keeps, KnowsReference, FoundNothing, FoundRow, FoundReversal
<1>2. CASE pc[p] \in {"readReversal", "decide"}
  <2>1. /\ UNCHANGED req /\ pc'[p] = pc[p] /\ seen'[p] = seen[p] /\ RowsElsewhere(p)
        /\ seen[p].tx \in Calls \cup {None}
    BY <1>2 DEF RowsStep, Keeps, Deciding, Inv, TypeOK, SeenRow
  <2>2. PICK t : t = TxOf(p)
    OBVIOUS
  <2>3. TxOf(p)' = t /\ t \in Calls /\ (p \in Calls => t = p)
    BY <1>2, <2>2, AtWork, KindsOfProcess DEF Keeps, TxOf, Procs
  <2>4. WalletOf(p) = req[t].wallet /\ WalletOf(p)' = req[t].wallet
    BY <2>1, <2>2, <2>3 DEF WalletOf
  <2>5. Holder(t)' <=> Holder(t)
    <3>1. Opened(req[t].wallet) /\ req[t].wallet \in Wallets
      BY <1>2, <2>2, <2>4, AtWork DEF Inv, LockedReadsStayFresh, Locked
    <3>. QED
      BY <2>1, <3>1 DEF Holder, HoldersStay
  <2>6. FoundNothing(p)'
    <3>1. ASSUME seen[p].tx = None, NeedsReference(req[t].kind), Holder(t),
                 NEW d \in Referenced(t)'
          PROVE  req[d].wallet # WalletOf(p)
      <4>1. d \in Calls /\ Committed(d)' /\ req[d].provider = req[t].provider /\ req[d].ext = req[t].ref
        BY <2>1, <3>1 DEF Referenced
      <4>2. CASE txs'[d] = txs[d]
        <5>1. d \in Referenced(t)
          BY <4>1, <4>2 DEF Referenced, Committed
        <5>. QED
          BY <1>2, <2>2, <3>1, <5>1 DEF KnowsReference, FoundNothing
      <4>. QED
        BY <2>1, <4>1, <4>2 DEF RowsElsewhere
    <3>2. Referenced(t)' = Referenced(TxOf(p))'
      BY <2>1, <2>3 DEF Referenced
    <3>. QED
      BY <2>1, <2>3, <2>4, <2>5, <3>1, <3>2 DEF FoundNothing, Holder
  <2>7. ASSUME seen[p].tx # None PROVE FoundRow(p)'
    <3>1. PICK d : d = seen[p].tx /\ d \in Calls
      BY <2>1, <2>7
    <3>2. /\ req[d].provider = req[t].provider /\ req[d].ext = req[t].ref
          /\ IF Committed(d)
             THEN IsTerminal(seen[p].status) \/ req[d].wallet = WalletOf(p) =>
                    seen[p].status = txs[d].status
             ELSE ~IsTerminal(seen[p].status) /\ d = p
      BY <1>2, <2>2, <2>7, <3>1 DEF KnowsReference, FoundRow
    <3>3. CASE txs'[d] = txs[d]
      <4>1. Committed(d)' <=> Committed(d)
        BY <3>3 DEF Committed
      <4>. QED
        BY <2>1, <2>3, <2>4, <3>1, <3>2, <3>3, <4>1 DEF FoundRow
    <3>4. CASE txs'[d] # txs[d]
      <4>1. Undecided(d) /\ Committed(d)' /\ req[d].wallet # WalletOf(p)
        BY <2>1, <3>1, <3>4 DEF RowsElsewhere
      <4>2. Committed(d)
        BY <2>3, <2>4, <3>1, <3>2, <4>1
      <4>3. ~IsTerminal(seen[p].status)
        BY <3>2, <4>1, <4>2 DEF Undecided, Committed, IsTerminal, Terminal
      <4>. QED
        BY <2>1, <2>3, <2>4, <3>1, <3>2, <4>1, <4>3 DEF FoundRow
    <3>. QED
      BY <3>3, <3>4
  <2>8. FoundReversal(p)'
    <3>1. ASSUME pc[p] = "decide", seen[p].tx # None, seen[p].status = "PROCESSED",
                 ReferenceMismatch(req[t], req[seen[p].tx]) = ""
          PROVE  seen[p].reversed <=> ProcessedReversal(seen[p].tx)'
      <4>1. seen[p].tx \in Calls /\ req[seen[p].tx].wallet = WalletOf(p)
        BY <2>1, <2>4, <3>1 DEF ReferenceMismatch
      <4>2. seen[p].reversed <=> ProcessedReversal(seen[p].tx)
        BY <2>2, <3>1 DEF KnowsReference, FoundReversal
      <4>3. PICK x \in Calls : x = seen[p].tx
        BY <4>1
      <4>4. ProcessedReversal(x)' <=> ProcessedReversal(x)
        BY <2>1, <4>1, <4>3, ReversalKept
      <4>5. ProcessedReversal(seen[p].tx)' <=> ProcessedReversal(x)'
        BY <2>1, <4>3 DEF ProcessedReversal
      <4>. QED
        BY <4>2, <4>3, <4>4, <4>5
    <3>. QED
      BY <2>1, <2>3, <3>1 DEF FoundReversal
  <2>9. seen[p].tx = None => FoundRow(p)'
    BY <2>1 DEF FoundRow
  <2>. QED
    BY <2>6, <2>7, <2>8, <2>9 DEF KnowsReference
<1>. QED
  BY <1>1, <1>2

-----------------------------------------------------------------------------
(* The steps *)

\* p does anything but read a reference, and no row of a call changes.
LEMMA QuietStep ==
  ASSUME NEW p \in Procs, pc'[p] \notin {"readReversal", "decide"},
         \A q \in Procs \ {p} : Keeps(q), \A d \in Calls : txs'[d] = txs[d]
  PROVE  PromiseStep
<1>1. KnowsReference(p)'
  BY DEF KnowsReference, FoundNothing, FoundRow, FoundReversal
<1>. QED
  BY <1>1 DEF PromiseStep, StepFor, RowsElsewhere

LEMMA StillStep ==
  ASSUME UNCHANGED <<pc, seen, target>>, \A d \in Calls : txs'[d] = txs[d]
  PROVE  PromiseStep
BY DEF PromiseStep, StepFor, Keeps, RowsElsewhere

LEMMA OthersKeep ==
  ASSUME Inv, NEW p \in Procs, NEW label, Goto(p, label),
         \A q \in Procs \ {p} : seen'[q] = seen[q],
         \A r \in Resolvers \ {p} : target'[r] = target[r]
  PROVE  /\ pc'[p] = label /\ UNCHANGED <<req, txs, wallets>>
         /\ \A q \in Procs \ {p} : Keeps(q)
BY DEF Goto, db, Keeps, Inv, TypeOK

LEMMA GoesQuietly ==
  ASSUME Inv, NEW p \in Procs, NEW label, Goto(p, label),
         label \notin {"readReversal", "decide"},
         \A q \in Procs \ {p} : seen'[q] = seen[q],
         \A r \in Resolvers \ {p} : target'[r] = target[r]
  PROVE  PromiseStep
BY OthersKeep, QuietStep

LEMMA LeavesQuietly ==
  ASSUME NEW p \in Procs, LeavesRows(p), UNCHANGED txs PROVE PromiseStep
BY QuietStep DEF LeavesRows, Keeps

\* p looks for its reference, and knows what it has found.
LEMMA LooksStep ==
  ASSUME Inv, NEW p \in Procs, NEW label, Goto(p, label), KnowsReference(p)',
         \A q \in Procs \ {p} : seen'[q] = seen[q],
         \A r \in Resolvers \ {p} : target'[r] = target[r]
  PROVE  PromiseStep
<1>1. UNCHANGED txs /\ \A q \in Procs \ {p} : Keeps(q)
  BY OthersKeep
<1>. QED
  BY <1>1 DEF PromiseStep, StepFor, RowsElsewhere

(* An outcome is recorded: all others that are deciding hold the locks of  *)
(* other wallets.                                                          *)
LEMMA WriterStep ==
  ASSUME Inv, RowInv, NEW p \in Procs, pc[p] = "decide", LeavesRows(p), UNCHANGED req,
         NEW row, NEW event, RecordOutcome(TxOf(p), row, event), row.status # "NONE",
         row.status = "PENDING_REFERENCE" => Holder(TxOf(p))
  PROVE  PromiseStep
<1>1. PICK t : t = TxOf(p)
  OBVIOUS
<1>2. t \in Calls /\ Undecided(t) /\ txs'[t] = row /\ \A d \in Calls \ {t} : txs'[d] = txs[d]
  BY <1>1, DecidingUndecided, RecordedRow
<1>3. KnowsReference(p)'
  BY DEF LeavesRows, KnowsReference, FoundNothing, FoundRow, FoundReversal
<1>4. ASSUME NEW q \in Procs, q # p PROVE Keeps(q) /\ (pc[q] \in Deciding => RowsElsewhere(q))
  <2>1. Keeps(q)
    BY <1>4 DEF LeavesRows, Keeps
  <2>2. ASSUME pc[q] \in Deciding PROVE req[t].wallet # WalletOf(q)
    <3>1. Locked(p) /\ Locked(q)
      BY <2>2 DEF Locked, Deciding
    <3>. QED
      BY <1>1, <1>4, <3>1, LocksAreExclusive DEF WalletOf
  <2>3. Committed(t)'
    BY <1>2 DEF Committed
  <2>. QED
    BY <1>2, <2>1, <2>2, <2>3 DEF RowsElsewhere
<1>5. Opened(req[t].wallet)
  BY <1>1 DEF Inv, LockedReadsStayFresh, Locked, WalletOf
<1>. QED
  BY <1>1, <1>2, <1>3, <1>4, <1>5 DEF PromiseStep, StepFor

LEMMA ReplayOrConflictPromise ==
  ASSUME Inv, NEW c \in Calls, NEW d \in Calls, ReplayOrConflict(c, d) PROVE PromiseStep
<1>1. c \in Procs /\ c \notin Resolvers
  BY ProcessAssumption DEF Procs
<1>2. ASSUME NEW answer, EndCall(c, answer), UNCHANGED <<req, db, faults>> PROVE PromiseStep
  BY <1>1, <1>2, EndCallLeaves, LeavesQuietly DEF db
<1>3. ASSUME NEW row, seen' = [seen EXCEPT ![c] = row], Goto(c, "replay"), UNCHANGED <<locks, held, work>>
      PROVE  PromiseStep
  <2>1. /\ \A q \in Procs \ {c} : seen'[q] = seen[q]
        /\ \A r \in Resolvers \ {c} : target'[r] = target[r]
    BY <1>3 DEF work, Inv, TypeOK
  <2>. QED
    BY <1>1, <1>3, <2>1, GoesQuietly
<1>. QED
  BY <1>2, <1>3 DEF ReplayOrConflict

LEMMA CallGoesQuietly ==
  ASSUME Inv, NEW c \in Calls, NEW label \in {"byKey", "lock", "insert", "readRef"},
         Goto(c, label), UNCHANGED <<seen, work>>
  PROVE  PromiseStep
<1>1. c \in Procs /\ UNCHANGED <<seen, target>>
  BY DEF Procs, work
<1>. QED
  BY <1>1, GoesQuietly

LEMMA EndCallQuietly ==
  ASSUME Inv, NEW c \in Calls, NEW answer, EndCall(c, answer), UNCHANGED db PROVE PromiseStep
BY EndCallLeaves, LeavesQuietly DEF db, Procs

LEMMA CallReadsPromise ==
  ASSUME Inv, NEW c \in Calls,
         SelectByExternalID(c) \/ SelectByKey(c) \/ ReplayCurrentBalance(c) \/ LockWallet(c)
  PROVE  PromiseStep
<1>1. CASE SelectByExternalID(c)
  BY <1>1, EndCallQuietly, CallGoesQuietly DEF SelectByExternalID
<1>2. CASE SelectByKey(c)
  BY <1>2, ReplayOrConflictPromise, CallGoesQuietly DEF SelectByKey
<1>3. CASE ReplayCurrentBalance(c)
  BY <1>3, EndCallQuietly DEF ReplayCurrentBalance
<1>4. CASE LockWallet(c)
  BY <1>4, EndCallQuietly, CallGoesQuietly DEF LockWallet
<1>. QED
  BY <1>1, <1>2, <1>3, <1>4

\* Only a reversal of the wallet's own player and currency asks for its reference.
LEMMA TryInsertPromise ==
  ASSUME Inv, RowInv, NEW c \in Calls, TryInsertIdempotency(c) PROVE PromiseStep
<1>1. CASE \E d \in Calls : ReplayOrConflict(c, d)
  BY <1>1, ReplayOrConflictPromise
<1>2. CASE EndCall(c, Conflict) /\ UNCHANGED <<req, db, faults>>
  BY <1>2, EndCallQuietly
<1>3. CASE /\ Goto(c, IF /\ NeedsReference(req[c].kind)
                         /\ held[c].player = req[c].player
                         /\ held[c].currency = req[c].currency
                      THEN "readRef" ELSE "decide")
           /\ UNCHANGED <<locks, held, seen, work>>
  <2>1. c \in Procs /\ TxOf(c) = c /\ TxOf(c)' = c /\ UNCHANGED <<seen, target>>
    BY <1>3 DEF Procs, TxOf, work
  <2>2. pc[c] = "insert" /\ seen[c].tx = None
    BY <2>1 DEF TryInsertIdempotency, RowInv, KnowsRows
  <2>3. held[c] = wallets[req[c].wallet]
    BY <2>1, <2>2 DEF Inv, LockedReadsStayFresh, Locked, WalletOf
  <2>4. CASE NeedsReference(req[c].kind) /\ Holder(c)
    <3>1. Goto(c, "readRef")
      BY <1>3, <2>3, <2>4 DEF Holder
    <3>. QED
      BY <1>3, <3>1, CallGoesQuietly
  <2>5. CASE ~(NeedsReference(req[c].kind) /\ Holder(c))
    <3>1. Goto(c, "decide")
      BY <1>3, <2>3, <2>5 DEF Holder
    <3>2. UNCHANGED <<req, wallets>>
      BY <3>1 DEF Goto, db
    <3>3. ~(NeedsReference(req[c].kind) /\ Holder(c))'
      BY <2>5, <3>2 DEF Holder
    <3>4. KnowsReference(c)'
      BY <2>1, <2>2, <3>2, <3>3 DEF KnowsReference, FoundNothing, FoundRow, FoundReversal
    <3>. QED
      BY <2>1, <3>1, <3>4, LooksStep
  <2>. QED
    BY <2>4, <2>5
<1>. QED
  BY <1>1, <1>2, <1>3 DEF TryInsertIdempotency

LEMMA ReadReferencePromise ==
  ASSUME Inv, RowInv, NEW p \in Procs, ReadReference(p) PROVE PromiseStep
<1>1. PICK t : t = TxOf(p)
  OBVIOUS
<1>2. /\ pc[p] = "readRef" /\ seen[p].tx = None /\ t \in Calls
      /\ UNCHANGED <<req, txs, target>> /\ None \notin Calls
  BY <1>1, AtWork, ProcessAssumption DEF ReadReference, RowInv, KnowsRows, work, Goto, db, Procs
<1>3. /\ TxOf(p)' = t /\ WalletOf(p)' = req[t].wallet /\ WalletOf(p) = req[t].wallet
      /\ \A d \in Calls : Committed(d)' <=> Committed(d)
  BY <1>1, <1>2 DEF TxOf, WalletOf, Committed
<1>4. CASE ReferenceRows(p) = {} /\ Goto(p, "decide") /\ UNCHANGED seen
  <2>1. \A d \in Calls : d \notin Referenced(t)
    BY <1>1, <1>4 DEF ReferenceRows, Referenced
  <2>2. Referenced(TxOf(p))' = {}
    BY <1>2, <1>3, <2>1 DEF Referenced
  <2>3. KnowsReference(p)'
    BY <1>2, <1>4, <2>2 DEF KnowsReference, FoundNothing, FoundRow, FoundReversal
  <2>. QED
    BY <1>2, <1>4, <2>3, LooksStep
<1>5. ASSUME NEW d \in ReferenceRows(p), NEW label, NEW row,
             row = [tx |-> d, reversed |-> FALSE,
                    status |-> IF Committed(d) THEN txs[d].status ELSE "PENDING"],
             seen' = [seen EXCEPT ![p] = row],
             Goto(p, label), label \in {"readReversal", "decide"},
             label = "decide" => ~(/\ txs[d].status = "PROCESSED"
                                   /\ ReferenceMismatch(req[t], req[d]) = "")
      PROVE  PromiseStep
  <2>1. /\ d \in Calls /\ (Committed(d) \/ d = p)
        /\ req[d].provider = req[t].provider /\ req[d].ext = req[t].ref
    BY <1>1, <1>5 DEF ReferenceRows
  <2>2. seen'[p] = row /\ row.tx = d /\ row.tx # None /\ \A q \in Procs \ {p} : seen'[q] = seen[q]
    BY <1>2, <1>5, <2>1 DEF Inv, TypeOK
  <2>3. row.status = IF Committed(d) THEN txs[d].status ELSE "PENDING"
    BY <1>5
  <2>4. FoundNothing(p)'
    BY <2>2 DEF FoundNothing
  <2>5. FoundRow(p)'
    BY <1>2, <1>3, <2>1, <2>2, <2>3 DEF FoundRow, IsTerminal, Terminal
  <2>6. pc'[p] = label
    BY <1>5 DEF Goto, Inv, TypeOK
  <2>7. row.status = "PROCESSED" => txs[d].status = "PROCESSED"
    BY <2>3
  <2>8. FoundReversal(p)'
    BY <1>2, <1>3, <1>5, <2>2, <2>6, <2>7 DEF FoundReversal
  <2>. QED
    BY <1>2, <1>5, <2>2, <2>4, <2>5, <2>8, LooksStep DEF KnowsReference
<1>. QED
  <2>1. CASE \E d \in ReferenceRows(p) :
          /\ seen' = [seen EXCEPT ![p] = [tx |-> d, reversed |-> FALSE,
               status |-> IF Committed(d) THEN txs[d].status ELSE "PENDING"]]
          /\ Goto(p, IF /\ txs[d].status = "PROCESSED"
                        /\ ReferenceMismatch(req[TxOf(p)], req[d]) = ""
                     THEN "readReversal" ELSE "decide")
    <3>1. PICK d \in ReferenceRows(p) :
          /\ seen' = [seen EXCEPT ![p] = [tx |-> d, reversed |-> FALSE,
               status |-> IF Committed(d) THEN txs[d].status ELSE "PENDING"]]
          /\ Goto(p, IF /\ txs[d].status = "PROCESSED"
                        /\ ReferenceMismatch(req[t], req[d]) = ""
                     THEN "readReversal" ELSE "decide")
      BY <1>1, <2>1
    <3>2. CASE txs[d].status = "PROCESSED" /\ ReferenceMismatch(req[t], req[d]) = ""
      BY <1>5, <3>1, <3>2
    <3>3. CASE ~(txs[d].status = "PROCESSED" /\ ReferenceMismatch(req[t], req[d]) = "")
      BY <1>5, <3>1, <3>3
    <3>. QED
      BY <3>2, <3>3
  <2>. QED
    BY <1>4, <2>1 DEF ReadReference

LEMMA ReadReversalPromise ==
  ASSUME Inv, PromiseInv, NEW p \in Procs, ReadReversal(p) PROVE PromiseStep
<1>1. PICK t : t = TxOf(p)
  OBVIOUS
<1>2. /\ pc[p] = "readReversal" /\ t \in Calls /\ KnowsReference(p)
      /\ UNCHANGED <<req, txs, wallets, target>> /\ Goto(p, "decide")
      /\ seen' = [seen EXCEPT ![p].reversed = ProcessedReversal(seen[p].tx)]
  BY <1>1, AtWork DEF ReadReversal, PromiseInv, work, Goto, db
<1>3. TxOf(p)' = t /\ WalletOf(p)' = WalletOf(p) /\ \A d \in Calls : Committed(d)' <=> Committed(d)
  BY <1>1, <1>2 DEF TxOf, WalletOf, Committed
<1>4. /\ seen'[p].tx = seen[p].tx /\ seen'[p].status = seen[p].status
      /\ seen'[p].reversed = ProcessedReversal(seen[p].tx)
      /\ \A q \in Procs \ {p} : seen'[q] = seen[q]
      /\ seen[p].tx \in Calls \cup {None}
  BY <1>2 DEF Inv, TypeOK, SeenRow
<1>5. Referenced(t)' = Referenced(t) /\ (Holder(t)' <=> Holder(t))
  BY <1>2 DEF Referenced, Committed, Holder
<1>6. FoundNothing(p)'
  <2>1. FoundNothing(p)
    BY <1>2 DEF KnowsReference
  <2>2. Referenced(TxOf(p))' = Referenced(t)
    BY <1>2, <1>3, <1>5 DEF Referenced
  <2>3. Holder(TxOf(p))' <=> Holder(t)
    BY <1>2, <1>3, <1>5 DEF Holder
  <2>. QED
    BY <1>1, <1>2, <1>3, <1>4, <2>1, <2>2, <2>3 DEF FoundNothing
<1>7. FoundRow(p)'
  <2>1. FoundRow(p)
    BY <1>2 DEF KnowsReference
  <2>. QED
    BY <1>1, <1>2, <1>3, <1>4, <2>1 DEF FoundRow, Committed
<1>8. FoundReversal(p)'
  <2>1. ProcessedReversal(seen[p].tx)' <=> ProcessedReversal(seen'[p].tx)
    BY <1>2, <1>4 DEF ProcessedReversal
  <2>2. ProcessedReversal(seen'[p].tx) <=> ProcessedReversal(seen[p].tx)
    BY <1>4
  <2>3. seen'[p].reversed <=> ProcessedReversal(seen[p].tx)
    BY <1>4
  <2>4. ProcessedReversal(seen[p].tx)' <=> \E e \in Calls :
          txs[e].status = "PROCESSED" /\ txs[e].ref = seen[p].tx /\ NeedsReference(req[e].kind)
    BY <1>2, <1>4 DEF ProcessedReversal
  <2>. QED
    BY <2>3, <2>4 DEF FoundReversal, ProcessedReversal
<1>. QED
  BY <1>2, <1>4, <1>6, <1>7, <1>8, LooksStep DEF KnowsReference

\* A call is parked only in a wallet that lets it in.
LEMMA ParkedHolds ==
  ASSUME NEW c \in Calls, Inv, pc[c] = "decide", Decision(c).act = "wait" PROVE Holder(c)
<1>1. held[c] = wallets[req[c].wallet] /\ c \in Procs /\ TxOf(c) = c
  BY DEF Inv, LockedReadsStayFresh, Locked, WalletOf, TxOf, Procs
<1>2. PICK raw : raw = CallVerdict(c)
  OBVIOUS
<1>3. Verdict("fail", "").act # "wait" /\ \A code : Reject(code).act # "wait"
  BY DEF Verdict, Reject
<1>4. Decision(c) = Funded(raw, held[c].balance, req[c].amount)
  <2>1. \/ Decision(c) = Funded(raw, held[c].balance, req[c].amount)
        \/ Decision(c) = Verdict("fail", "")
    BY <1>1, <1>2 DEF Decision
  <2>. QED
    BY <1>3, <2>1
<1>5. raw.act = "wait"
  BY <1>3, <1>4 DEF Funded
<1>. QED
  BY <1>1, <1>2, <1>3, <1>5 DEF CallVerdict, Holder

LEMMA OutcomesPromise ==
  ASSUME Inv, RowInv, NEW p \in Procs,
         Settle(p) \/ RejectAndPersist(p) \/ (p \in Calls /\ (SettleLoss(p) \/ Park(p)))
  PROVE  PromiseStep
<1>1. \A ref, code, snap : /\ Row("PROCESSED", code, ref, snap).status = "PROCESSED"
                           /\ Row("REJECTED", code, ref, snap).status = "REJECTED"
                           /\ Row("PENDING_REFERENCE", code, ref, snap).status = "PENDING_REFERENCE"
  BY DEF Row
<1>2. CASE Settle(p)
  <2>1. PICK ref, snap, event, answer :
          /\ RecordOutcome(TxOf(p), Row("PROCESSED", "", ref, snap), event)
          /\ Finish(p, answer) /\ UNCHANGED req /\ pc[p] = "decide"
    BY <1>2 DEF Settle, CommitMovement
  <2>. QED
    BY <1>1, <2>1, FinishLeaves, WriterStep
<1>3. CASE RejectAndPersist(p)
  <2>1. PICK code, snap, event, answer :
          /\ RecordOutcome(TxOf(p), Row("REJECTED", code, None, snap), event)
          /\ Finish(p, answer) /\ UNCHANGED req /\ pc[p] = "decide"
    BY <1>3 DEF RejectAndPersist, PersistRejection
  <2>. QED
    BY <1>1, <2>1, FinishLeaves, WriterStep
<1>4. CASE p \in Calls /\ SettleLoss(p)
  <2>1. PICK snap, event, answer :
          /\ RecordOutcome(p, Row("PROCESSED", "", None, snap), event)
          /\ Finish(p, answer) /\ UNCHANGED req /\ pc[p] = "decide"
    BY <1>4 DEF SettleLoss, RecordLoss
  <2>2. TxOf(p) = p
    BY <1>4 DEF TxOf
  <2>. QED
    BY <1>1, <2>1, <2>2, FinishLeaves, WriterStep
<1>5. CASE p \in Calls /\ Park(p)
  <2>1. PICK snap, event, answer :
          /\ RecordOutcome(p, Row("PENDING_REFERENCE", "", None, snap), event)
          /\ Finish(p, answer) /\ UNCHANGED req /\ pc[p] = "decide"
    BY <1>5 DEF Park, ParkPendingReference
  <2>2. TxOf(p) = p /\ Holder(p)
    BY <1>5, ParkedHolds DEF Park, TxOf
  <2>. QED
    BY <1>1, <2>1, <2>2, FinishLeaves, WriterStep
<1>. QED
  BY <1>2, <1>3, <1>4, <1>5

LEMMA WorkerPromise ==
  ASSUME Inv, NEW r \in Resolvers,
         \/ ClaimPendingReferencesDue(r) \/ LoadPending(r) \/ ReadRetry(r)
         \/ LockForResolve(r) \/ Recheck(r) \/ RetryLater(r) \/ CrashWorker(r)
  PROVE  PromiseStep
<1>1. r \in Procs /\ r \notin Calls
  BY ProcessAssumption DEF Procs
<1>2. ASSUME GoesIdle(r), UNCHANGED txs PROVE PromiseStep
  BY <1>1, <1>2, GoesIdleLeaves, LeavesQuietly
<1>3. ASSUME NEW label \in {"lock", "orphan", "recheck", "readRef"}, Goto(r, label),
             UNCHANGED <<seen, target>>
      PROVE  PromiseStep
  BY <1>1, <1>3, GoesQuietly
<1>4. CASE ClaimPendingReferencesDue(r)
  BY <1>4, StillStep DEF ClaimPendingReferencesDue
<1>5. CASE LoadPending(r)
  <2>1. /\ UNCHANGED <<txs, seen>>
        /\ \A q \in Procs \ {r} : pc'[q] = pc[q] /\ (q \in Resolvers => target'[q] = target[q])
        /\ pc'[r] \in {"idle", "retry"}
    BY <1>1, <1>5 DEF LoadPending, db, Inv, TypeOK
  <2>. QED
    BY <1>1, <2>1, QuietStep DEF Keeps
<1>6. CASE ReadRetry(r)
  BY <1>3, <1>6 DEF ReadRetry
<1>7. CASE LockForResolve(r)
  BY <1>3, <1>7 DEF LockForResolve, work
<1>8. CASE Recheck(r)
  BY <1>2, <1>3, <1>8 DEF Recheck, EndResolve, GoesIdle, work, db
<1>9. CASE RetryLater(r)
  BY <1>2, <1>9 DEF RetryLater, EndResolve, GoesIdle, ScheduleRetry
<1>10. CASE CrashWorker(r)
  BY <1>2, <1>10 DEF CrashWorker, GoesIdle, db
<1>. QED
  BY <1>4, <1>5, <1>6, <1>7, <1>8, <1>9, <1>10

LEMMA FailuresPromise ==
  ASSUME Inv, NEW p \in Procs, FailDecision(p) \/ Abort(p) PROVE PromiseStep
<1>1. Finish(p, Error) /\ UNCHANGED txs
  BY DEF FailDecision, Abort, db
<1>. QED
  BY <1>1, FinishLeaves, LeavesQuietly

LEMMA OpenWalletPromise == ASSUME Inv, NEW o \in Openings, OpenWallet(o) PROVE PromiseStep
<1>1. o.wallet \in Wallets /\ o.wallet \in TxIds /\ o.wallet \notin Calls
  BY OpeningsAssumption, ProcessAssumption DEF TxIds
<1>2. \A c \in Calls : txs'[c] = txs[c]
  BY <1>1 DEF OpenWallet, RecordOutcome, Inv, TypeOK, TxIds
<1>. QED
  BY <1>2, StillStep DEF OpenWallet, work

LEMMA NextPromise ==
  ASSUME Inv, RowInv, LeaseInv, PromiseInv, [Next]_vars PROVE PromiseStep
<1>1. ASSUME NEW o \in Openings, OpenWallet(o) PROVE PromiseStep
  BY <1>1, OpenWalletPromise
<1>2. ASSUME NEW c \in Calls, CallStep(c) PROVE PromiseStep
  <2>1. c \in Procs
    BY DEF Procs
  <2>. QED
    BY <1>2, <2>1, CallReadsPromise, TryInsertPromise, OutcomesPromise DEF CallStep
<1>3. ASSUME NEW r \in Resolvers, ResolverStep(r) \/ CrashWorker(r) PROVE PromiseStep
  BY <1>3, WorkerPromise, NoOrphans DEF ResolverStep
<1>4. ASSUME NEW p \in Procs, SharedStep(p) \/ Abort(p) PROVE PromiseStep
  BY <1>4, ReadReferencePromise, ReadReversalPromise, OutcomesPromise, FailuresPromise DEF SharedStep
<1>5. ASSUME NEW t \in Calls, NextAttemptDue(t) \/ DeadlinePasses(t) PROVE PromiseStep
  BY <1>5, StillStep DEF NextAttemptDue, DeadlinePasses, work
<1>6. CASE UNCHANGED vars
  BY <1>6, StillStep DEF vars
<1>. QED
  BY <1>1, <1>2, <1>3, <1>4, <1>5, <1>6 DEF Next, Quiescent

\* Nothing renames a wallet.
LEMMA HoldersAlwaysStay == ASSUME Inv, [Next]_vars PROVE HoldersStay
<1>1. ASSUME UNCHANGED wallets PROVE HoldersStay
  BY <1>1 DEF HoldersStay
<1>2. ASSUME NEW p \in Procs, Settle(p) PROVE HoldersStay
  <2>1. PICK id, after, version :
          wallets' = [wallets EXCEPT ![id].balance = after, ![id].version = version]
    BY <1>2 DEF Settle, CommitMovement
  <2>2. \A w \in Wallets : wallets[w] \in WalletRow
    BY DEF Inv, TypeOK
  <2>. QED
    BY <2>1, <2>2 DEF HoldersStay, Inv, TypeOK, WalletRow
<1>3. ASSUME NEW o \in Openings, OpenWallet(o) PROVE HoldersStay
  <2>1. ~Opened(o.wallet) /\ \A w \in Wallets \ {o.wallet} : wallets'[w] = wallets[w]
    BY <1>3 DEF OpenWallet, Inv, TypeOK
  <2>. QED
    BY <2>1 DEF HoldersStay
<1>. QED
  BY <1>1, <1>2, <1>3, OnlyTwoMove DEF NoMovement

LEMMA PromisePreserved ==
  ASSUME Inv, PromiseInv, RowsStep, HoldersStay, PromiseStep, OneOutcome
  PROVE  PromiseInv'
<1>1. ASSUME NEW p \in Procs PROVE KnowsReference(p)'
  <2>1. KnowsReference(p) /\ StepFor(p)
    BY DEF PromiseInv, PromiseStep
  <2>. QED
    BY <2>1, KeptKnows DEF StepFor
<1>2. WaitersAreHolders'
  <2>1. ASSUME NEW c \in Calls, txs'[c].status = "PENDING_REFERENCE" PROVE Holder(c)'
    <3>1. Holder(c) /\ Opened(req[c].wallet)
      <4>1. CASE txs'[c] = txs[c]
        BY <2>1, <4>1 DEF PromiseInv, WaitersAreHolders, Inv, ProcsAtWork, Committed
      <4>2. CASE txs'[c] # txs[c]
        BY <2>1, <4>2 DEF PromiseStep
      <4>. QED
        BY <4>1, <4>2
    <3>2. req[c].wallet \in Wallets
      BY OpsAssumption DEF Inv, TypeOK
    <3>. QED
      BY <3>1, <3>2 DEF Holder, HoldersStay, RowsStep
  <2>. QED
    BY <2>1 DEF WaitersAreHolders
<1>3. NoRowIsNoTx'
  <2>1. ASSUME NEW w \in Wallets, ~Committed(w)' PROVE txs'[w] = NoTx
    <3>1. CASE txs'[w] = txs[w]
      BY <2>1, <3>1 DEF PromiseInv, NoRowIsNoTx, Committed
    <3>2. CASE txs'[w] # txs[w]
      <4>1. w \in TxIds
        BY DEF TxIds
      <4>2. PICK row, event : Tells(w, row, event) /\ txs'[w] = row
        BY <3>2, <4>1, OutcomeRows
      <4>. QED
        BY <2>1, <4>2 DEF Tells, Committed
    <3>. QED
      BY <3>1, <3>2
  <2>. QED
    BY <2>1 DEF NoRowIsNoTx, NoTx, NoBalance
<1>. QED
  BY <1>1, <1>2, <1>3 DEF PromiseInv

LEMMA InitPromise == Init => PromiseInv
<1>. SUFFICES ASSUME Init PROVE PromiseInv
  OBVIOUS
<1>1. \A p \in Procs : pc[p] \notin {"readReversal", "decide"}
  BY DEF Init
<1>2. \A t \in TxIds : txs[t] = NoTx
  BY DEF Init
<1>3. \A c \in Calls : txs[c].status = "NONE"
  BY DEF Init, NoTx, TxIds
<1>. QED
  BY <1>1, <1>2, <1>3, KnowsNothing DEF PromiseInv, WaitersAreHolders, NoRowIsNoTx, TxIds

LEMMA SpecPromise ==
  ASSUME ~LeaseMayLapse PROVE Spec => []PromiseInv
<1>1. ASSUME Inv, RowInv, LeaseInv, HistoryInv, OutcomeInv, PromiseInv, [Next]_vars PROVE PromiseInv'
  <2>1. RowsStep /\ HoldersStay /\ PromiseStep
    BY <1>1, NextOK, HoldersAlwaysStay, NextPromise DEF StepOK, OutcomeInv
  <2>2. OneOutcome
    <3>1. CASE Next
      BY <1>1, <3>1, NextOutcome DEF HistoryInv
    <3>2. CASE UNCHANGED vars
      BY <3>2 DEF OneOutcome, vars
    <3>. QED
      BY <1>1, <3>1, <3>2
  <2>. QED
    BY <1>1, <2>1, <2>2, PromisePreserved
<1>. QED
  BY <1>1, InitPromise, SpecLeases, SpecHistory, SpecOutcome, PTL DEF Spec

-----------------------------------------------------------------------------
(* Every step judges one request, opens one wallet or changes neither *)

LEMMA Judged ==
  ASSUME Inv, RowInv, NEW p \in Procs, pc[p] = "decide" PROVE Promise!Admissible(TxOf(p))
<1>1. TxOf(p) \in Calls /\ KnowsRows(p) /\ Opened(req[TxOf(p)].wallet)
  BY AtWork DEF RowInv, Inv, LockedReadsStayFresh, Locked, WalletOf
<1>2. CASE p \in Calls
  <2>1. TxOf(p) = p /\ ~Committed(p) /\ Holds(p)
    BY <1>1, <1>2 DEF TxOf, KnowsRows, Holds, InFlight
  <2>2. \A d \in Calls : Committed(d) => ~SameKey(req[d], req[p]) /\ ~SameExternalID(req[d], req[p])
    BY <1>2, <2>1 DEF RowInv, IdentityHeldOnce, Holds
  <2>. QED
    BY <1>1, <2>1, <2>2, SameRules DEF Promise!Admissible, Promise!AccountOf, Promise!Known, Opened, Committed
<1>3. CASE p \notin Calls
  <2>1. txs[TxOf(p)].status = "PENDING_REFERENCE"
    BY <1>1, <1>3 DEF Procs, TxOf, KnowsRows, Deciding
  <2>. QED
    BY <1>1, <2>1 DEF Promise!Admissible, Promise!AccountOf, Opened
<1>. QED
  BY <1>2, <1>3

\* Funds never turn another verdict into a movement.
LEMMA RawMoves ==
  ASSUME NEW p \in Procs, Decision(p).act \in {"credit", "debit"},
         NEW raw, raw = IF p \in Calls THEN CallVerdict(p) ELSE WorkerVerdict(p)
  PROVE  raw.act \in {"credit", "debit"}
<1>1. PICK v : v = Funded(raw, held[p].balance, req[TxOf(p)].amount)
  OBVIOUS
<1>2. Verdict("fail", "").act = "fail"
  BY DEF Verdict
<1>3. Decision(p) = v \/ Decision(p) = Verdict("fail", "")
  BY <1>1 DEF Decision
<1>4. v.act \in {"credit", "debit"}
  BY <1>2, <1>3
<1>. QED
  BY <1>1, <1>4 DEF Funded, Reject, Verdict

\* A movement names the reference that it reverses, and one that reverses nothing names none.
LEMMA MovesItsReference ==
  ASSUME Inv, RowInv, RowsInv, PromiseInv, NEW p \in Procs, pc[p] = "decide",
         Decision(p).act \in {"credit", "debit"}
  PROVE  seen[p].tx = Promise!Reference(TxOf(p))
<1>1. PICK t \in Calls : t = TxOf(p)
  BY AtWork
<1>2. KnowsReference(p) /\ KnowsRows(p) /\ seen[p].tx \in Calls \cup {None}
  BY DEF PromiseInv, RowInv, Inv, TypeOK, SeenRow
<1>3. CASE seen[p].tx # None
  <2>1. seen[p].tx \in Calls /\ seen[p].status = "PROCESSED"
    BY <1>2, <1>3, DecisionMoves DEF InOrder
  <2>2. seen[p].tx \in Referenced(t)
    BY <1>1, <1>2, <1>3, <2>1 DEF KnowsReference, FoundRow, Referenced, IsTerminal, Terminal
  <2>3. NeedsReference(req[t].kind)
    <3>1. CASE p \in Calls
      BY <1>1, <1>2, <1>3, <3>1 DEF KnowsRows, Deciding, TxOf
    <3>2. CASE p \notin Calls
      BY <1>1, <3>2, WorkersHold DEF Procs
    <3>. QED
      BY <3>1, <3>2
  <2>. QED
    BY <1>1, <2>2, <2>3, OneReference
<1>4. CASE seen[p].tx = None
  <2>1. PICK raw : raw = IF p \in Calls THEN CallVerdict(p) ELSE WorkerVerdict(p)
    OBVIOUS
  <2>2. raw.act \in {"credit", "debit"}
    BY <2>1, RawMoves
  <2>3. ReferenceVerdict(p) = Verdict("wait", "")
    BY <1>4 DEF ReferenceVerdict
  <2>4. p \in Calls /\ ~NeedsReference(req[t].kind)
    <3>1. CASE p \in Calls
      <4>1. TxOf(p) = p
        BY <3>1 DEF TxOf
      <4>. QED
        BY <1>1, <2>1, <2>2, <2>3, <3>1, <4>1, WaitActs DEF CallVerdict
    <3>2. CASE p \notin Calls
      BY <2>1, <2>2, <2>3, <3>2, WaitActs DEF WorkerVerdict
    <3>. QED
      BY <3>1, <3>2
  <2>. QED
    BY <1>1, <1>4, <2>4, NoReference
<1>. QED
  BY <1>3, <1>4

LEMMA SettleJudges ==
  ASSUME Inv, RowInv, RowsInv, PromiseInv, NEW p \in Procs, Settle(p)
  PROVE  Promise!Judge(TxOf(p))
<1>1. PICK t \in Calls : t = TxOf(p)
  BY AtWork DEF Settle
<1>2. /\ pc[p] = "decide" /\ Decision(p).act \in {"credit", "debit"} /\ UNCHANGED req
      /\ CommitMovement(t, held[p], Decision(p), seen[p].tx)
  BY <1>1 DEF Settle
<1>3. Decision(p) = Promise!Rule(t)
  <2>1. Reject("REFERENCE_NOT_FOUND").act = "reject"
    BY WaitActs
  <2>. QED
    BY <1>1, <1>2, <2>1, Ruled
<1>4. PICK after : after = BalanceAfter(Decision(p), held[p].balance, req[t].amount)
  OBVIOUS
<1>5. held[p] = wallets[req[t].wallet] /\ req[t].wallet \in Wallets
  BY <1>1, <1>2, AtWork DEF Inv, LockedReadsStayFresh, Locked, WalletOf
<1>6. after = Promise!BalanceAfter(Promise!Rule(t), Promise!AccountOf(t).balance, req[t].amount)
  BY <1>3, <1>4, <1>5, SameRules DEF Promise!AccountOf
<1>7. wallets' = [wallets EXCEPT ![req[t].wallet].balance = after,
                                 ![req[t].wallet].version = @ + 1]
  <2>1. wallets' = [wallets EXCEPT ![req[t].wallet].balance = after,
                                   ![req[t].wallet].version = held[p].version + 1]
    BY <1>2, <1>4 DEF CommitMovement
  <2>2. wallets[req[t].wallet] \in WalletRow
    BY <1>5 DEF Inv, TypeOK
  <2>. QED
    BY <1>5, <2>1, <2>2 DEF WalletRow, Inv, TypeOK
<1>8. Promise!Record(t, "PROCESSED", "", Promise!Reference(t), after)
  <2>1. txs' = [txs EXCEPT ![t] = Row("PROCESSED", "", seen[p].tx, after)]
    BY <1>2, <1>4 DEF CommitMovement, RecordOutcome
  <2>2. seen[p].tx = Promise!Reference(t)
    BY <1>1, <1>2, MovesItsReference
  <2>. QED
    BY <2>1, <2>2 DEF Row, Promise!Record, Promise!Fate
<1>9. Promise!Move(t)
  BY <1>2, <1>3, <1>6, <1>7, <1>8 DEF Promise!Move
<1>. QED
  BY <1>1, <1>2, <1>9, Judged DEF Promise!Judge

LEMMA SettleLossJudges ==
  ASSUME Inv, RowInv, RowsInv, PromiseInv, NEW c \in Calls, SettleLoss(c) PROVE Promise!Judge(c)
<1>1. /\ pc[c] = "decide" /\ Decision(c).act = "loss" /\ UNCHANGED <<req, wallets>>
      /\ txs' = [txs EXCEPT ![c] = Row("PROCESSED", "", None, held[c].balance)]
  BY DEF SettleLoss, RecordLoss, RecordOutcome
<1>2. c \in Procs /\ TxOf(c) = c
  BY DEF Procs, TxOf
<1>3. Decision(c) = Promise!Rule(c)
  <2>1. Reject("REFERENCE_NOT_FOUND").act = "reject"
    BY WaitActs
  <2>. QED
    BY <1>1, <1>2, <2>1, Ruled
<1>4. held[c].balance = Promise!AccountOf(c).balance
  BY <1>1, <1>2 DEF Inv, LockedReadsStayFresh, Locked, WalletOf, Promise!AccountOf
<1>5. Promise!Record(c, "PROCESSED", "", None, Promise!AccountOf(c).balance)
  BY <1>1, <1>4 DEF Row, Promise!Record, Promise!Fate
<1>. QED
  BY <1>1, <1>2, <1>3, <1>5, Judged DEF Promise!RecordLoss, Promise!Judge

LEMMA RejectJudges ==
  ASSUME Inv, RowInv, RowsInv, PromiseInv, NEW p \in Procs, RejectAndPersist(p)
  PROVE  Promise!Judge(TxOf(p))
<1>1. PICK t \in Calls : t = TxOf(p)
  BY AtWork DEF RejectAndPersist
<1>2. /\ pc[p] = "decide" /\ Decision(p).act = "reject" /\ UNCHANGED <<req, wallets>>
      /\ txs' = [txs EXCEPT ![t] = Row("REJECTED", Decision(p).code, None, held[p].balance)]
  BY <1>1 DEF RejectAndPersist, PersistRejection, RecordOutcome
<1>3. held[p].balance = Promise!AccountOf(t).balance
  BY <1>1, <1>2 DEF Inv, LockedReadsStayFresh, Locked, WalletOf, Promise!AccountOf
<1>4. Promise!Record(t, "REJECTED", Decision(p).code, None, Promise!AccountOf(t).balance)
  BY <1>2, <1>3 DEF Row, Promise!Record, Promise!Fate
<1>5. CASE Decision(p) = Promise!Rule(t)
  <2>1. Promise!Refuse(t)
    BY <1>2, <1>4, <1>5 DEF Promise!Refuse
  <2>. QED
    BY <1>1, <1>2, <2>1, Judged DEF Promise!Judge
<1>6. CASE Decision(p) # Promise!Rule(t)
  <2>1. /\ Decision(p) = Reject("REFERENCE_NOT_FOUND")
        /\ Promise!MayWait(t) /\ Committed(t)
    BY <1>1, <1>2, <1>6, Ruled
  <2>2. Reject("REFERENCE_NOT_FOUND").code = "REFERENCE_NOT_FOUND"
    BY DEF Reject, Verdict
  <2>3. Promise!Refuse(t)
    BY <1>2, <1>4, <2>1, <2>2 DEF Promise!Refuse, Promise!Known, Committed
  <2>. QED
    BY <1>1, <1>2, <2>3, Judged DEF Promise!Judge
<1>. QED
  BY <1>5, <1>6

LEMMA ParkJudges ==
  ASSUME Inv, RowInv, RowsInv, PromiseInv, NEW c \in Calls, Park(c) PROVE Promise!Judge(c)
<1>1. /\ pc[c] = "decide" /\ Decision(c).act = "wait" /\ UNCHANGED <<req, wallets>>
      /\ txs' = [txs EXCEPT ![c] = Row("PENDING_REFERENCE", "", None, NoBalance)]
  BY DEF Park, ParkPendingReference, RecordOutcome
<1>2. c \in Procs /\ TxOf(c) = c
  BY DEF Procs, TxOf
<1>3. ~Committed(c)
  BY <1>1, <1>2, DecidingUndecided
<1>4. Promise!MayWait(c)
  <2>1. Reject("REFERENCE_NOT_FOUND").act = "reject"
    BY WaitActs
  <2>. QED
    BY <1>1, <1>2, <2>1, Ruled, SameMayWait
<1>5. Promise!Record(c, "PENDING_REFERENCE", "", None, -1)
  BY <1>1 DEF Row, NoBalance, Promise!Record, Promise!Fate
<1>. QED
  BY <1>1, <1>2, <1>3, <1>4, <1>5, Judged DEF Promise!Wait, Promise!Judge, Promise!Known, Committed

LEMMA OpenWalletOpens ==
  ASSUME Inv, OpeningsInv, PromiseInv, NEW o \in Openings, OpenWallet(o)
  PROVE  Promise!Open(o.wallet)
<1>1. PICK w \in Wallets : w = o.wallet
  BY OpeningsAssumption
<1>2. PICK balance : balance = o.initial /\ balance >= 0 /\ balance \in Int
  BY OpeningsAssumption, MinorRangeAssumption
<1>3. PICK row : row = [player |-> o.player, currency |-> o.currency,
                        balance |-> balance, version |-> 1]
  OBVIOUS
<1>4. /\ ~Opened(w) /\ UNCHANGED req /\ wallets' = [wallets EXCEPT ![w] = row]
      /\ \A x \in Wallets : Opened(x) =>
           wallets[x].player # o.player \/ wallets[x].currency # o.currency
  BY <1>1, <1>2, <1>3 DEF OpenWallet
<1>5. wallets'[w] = row /\ \A x \in Wallets \ {w} : wallets'[x] = wallets[x]
  BY <1>4 DEF Inv, TypeOK
<1>6. row.player = o.player /\ row.currency = o.currency /\ row.balance = balance /\ row.version = 1
  BY <1>3
<1>7. wallets[w].version = 0
  BY <1>4 DEF Opened, Inv, TypeOK, WalletRow
<1>8. Promise!Untouched = NoTx
  BY DEF Promise!Untouched, Promise!Fate, NoTx, NoBalance
<1>9. txs' = [txs EXCEPT ![w] = IF balance > 0
                THEN Promise!Fate("PROCESSED", "", None, balance)
                ELSE Promise!Untouched]
  <2>1. CASE balance > 0
    <3>1. txs' = [txs EXCEPT ![w] = Row("PROCESSED", "", None, balance)]
      BY <1>1, <1>2, <2>1 DEF OpenWallet, RecordOutcome
    <3>. QED
      BY <2>1, <3>1 DEF Row, Promise!Fate
  <2>2. CASE ~(balance > 0)
    <3>1. txs' = txs
      BY <1>1, <1>2, <2>2 DEF OpenWallet
    <3>2. txs[w] = NoTx
      BY <1>4 DEF OpeningsInv, PromiseInv, NoRowIsNoTx
    <3>. QED
      BY <1>8, <2>2, <3>1, <3>2 DEF Inv, TypeOK, TxIds
  <2>. QED
    BY <2>1, <2>2
<1>10. txs' = [txs EXCEPT ![w] = IF wallets'[w].balance > 0
                 THEN Promise!Fate("PROCESSED", "", None, wallets'[w].balance)
                 ELSE Promise!Untouched]
  BY <1>5, <1>6, <1>9
<1>11. \A x \in Wallets \ {w} :
         /\ wallets'[x] = wallets[x]
         /\ wallets[x].version > 0 =>
              wallets[x].player # wallets'[w].player \/ wallets[x].currency # wallets'[w].currency
  BY <1>4, <1>5, <1>6 DEF Opened
<1>12. wallets'[w].version = 1 /\ wallets'[w].balance >= 0
  BY <1>2, <1>5, <1>6
<1>13. Promise!Open(w)
  BY <1>4, <1>7, <1>10, <1>11, <1>12 DEF Promise!Open
<1>. QED
  BY <1>1, <1>13

LEMMA NextRefines ==
  ASSUME Inv, RowInv, LeaseInv, OpeningsInv, RowsInv, PromiseInv, [Next]_vars
  PROVE  [Promise!Next]_(Promise!vars)
<1>0. ASSUME UNCHANGED <<req, wallets, txs>> PROVE [Promise!Next]_(Promise!vars)
  BY <1>0 DEF Promise!vars
<1>1. ASSUME NEW o \in Openings, OpenWallet(o) PROVE Promise!Next
  BY <1>1, OpenWalletOpens, OpeningsAssumption DEF Promise!Next
<1>2. ASSUME NEW p \in Procs,
             Settle(p) \/ RejectAndPersist(p) \/ (p \in Calls /\ (SettleLoss(p) \/ Park(p)))
      PROVE  Promise!Next
  <2>1. p \in Calls /\ (SettleLoss(p) \/ Park(p)) => Promise!Judge(p)
    BY SettleLossJudges, ParkJudges
  <2>2. Settle(p) \/ RejectAndPersist(p) => TxOf(p) \in Calls /\ Promise!Judge(TxOf(p))
    BY AtWork, SettleJudges, RejectJudges DEF Settle, RejectAndPersist
  <2>. QED
    BY <1>2, <2>1, <2>2 DEF Promise!Next
<1>3. ASSUME NEW c \in Calls,
             \/ SelectByExternalID(c) \/ SelectByKey(c) \/ ReplayCurrentBalance(c)
             \/ LockWallet(c) \/ TryInsertIdempotency(c)
      PROVE  UNCHANGED <<req, wallets, txs>>
  BY <1>3 DEF SelectByExternalID, SelectByKey, ReplayCurrentBalance, LockWallet,
     TryInsertIdempotency, ReplayOrConflict, Goto, db
<1>4. ASSUME NEW r \in Resolvers, ResolverStep(r) \/ CrashWorker(r)
      PROVE  UNCHANGED <<req, wallets, txs>>
  BY <1>4, NoOrphans DEF ResolverStep, ClaimPendingReferencesDue, LoadPending, ReadRetry,
     LockForResolve, Recheck, RetryLater, CrashWorker, ScheduleRetry, Goto, db
<1>5. ASSUME NEW p \in Procs, ReadReference(p) \/ ReadReversal(p) \/ FailDecision(p) \/ Abort(p)
      PROVE  UNCHANGED <<req, wallets, txs>>
  BY <1>5 DEF ReadReference, ReadReversal, FailDecision, Abort, Goto, db
<1>6. ASSUME NEW t \in Calls, NextAttemptDue(t) \/ DeadlinePasses(t)
      PROVE  UNCHANGED <<req, wallets, txs>>
  BY <1>6 DEF NextAttemptDue, DeadlinePasses
<1>7. ASSUME NEW c \in Calls, CallStep(c) PROVE [Promise!Next]_(Promise!vars)
  <2>1. c \in Procs
    BY DEF Procs
  <2>. QED
    BY <1>0, <1>2, <1>3, <1>7, <2>1 DEF CallStep
<1>8. ASSUME NEW p \in Procs, SharedStep(p) \/ Abort(p) PROVE [Promise!Next]_(Promise!vars)
  BY <1>0, <1>2, <1>5, <1>8 DEF SharedStep
<1>9. CASE UNCHANGED vars
  BY <1>0, <1>9 DEF vars
<1>. QED
  BY <1>0, <1>1, <1>4, <1>6, <1>7, <1>8, <1>9 DEF Next, Quiescent

LEMMA InitRefines == Init => Promise!Init
<1>1. NoWallet = [player |-> None, currency |-> None, balance |-> 0, version |-> 0]
  BY DEF NoWallet
<1>2. Promise!Untouched = NoTx
  BY DEF Promise!Untouched, Promise!Fate, NoTx, NoBalance
<1>. QED
  BY <1>1, <1>2 DEF Init, Promise!Init, TxIds

(* The write path implements WalletPromise: whatever calls and workers     *)
(* interleave, fail, retry or crash, each COMMIT of an outcome judges one  *)
(* request by the rules of the domain applied to the state at that         *)
(* instant, though the process read that state some statements before      *)
(* (ExecuteInTx, ResolvePendingReference.Execute).                         *)
THEOREM WritePathKeepsPromise ==
  ASSUME ~LeaseMayLapse PROVE Spec => ImplementsPromise
<1>1. Inv /\ RowInv /\ LeaseInv /\ HistoryInv /\ OutcomeInv /\ PromiseInv /\ [Next]_vars
        => [Promise!Next]_(Promise!vars)
  BY NextRefines DEF HistoryInv, OutcomeInv
<1>. QED
  BY <1>1, InitRefines, SpecLeases, SpecHistory, SpecOutcome, SpecPromise, PTL
     DEF Spec, ImplementsPromise, Promise!Spec
=============================================================================
