----------------------------- MODULE WagerDomain -----------------------------
(***************************************************************************)
(* The rules of the domain layer as pure operators: kinds and statuses of  *)
(* a wager transaction, the transitions a status may take, the fields two  *)
(* requests must share, and the verdict on a reversal                      *)
(* (internal/domain/wagering, internal/domain/wallet and the decision part *)
(* of internal/app).                                                       *)
(*                                                                         *)
(* A request is a record with the business fields of ProcessWagerInput:    *)
(* provider, ext (external transaction id), key (idempotency key), player, *)
(* wallet, round, game, kind, amount (minor units), currency, and ref (the *)
(* external id of the transaction it reverses).                            *)
(***************************************************************************)
EXTENDS Money

ExternalKinds == {"BET", "WIN", "LOSS", "REFUND", "ROLLBACK"}
Terminal == {"PROCESSED", "REJECTED", "FAILED"}
Statuses == {"PENDING", "PENDING_REFERENCE"} \cup Terminal

IsTerminal(status) == status \in Terminal

EnsureTransition(from, to) ==
  \/ /\ from = "PENDING"
     /\ to \in {"PENDING_REFERENCE"} \cup Terminal
  \/ /\ from = "PENDING_REFERENCE"
     /\ to \in Terminal

NeedsReference(kind) == kind \in {"REFUND", "ROLLBACK"}

ValidateExternalKindAmount(kind, amount) ==
  \/ kind \in {"BET", "WIN", "REFUND", "ROLLBACK"} /\ IsPositive(amount)
  \/ kind = "LOSS" /\ IsZero(amount)

(* CanonicalHash covers every business field and leaves the idempotency    *)
(* key out; the digest is taken to be injective.                           *)
SamePayload(r, s) ==
  /\ r.provider = s.provider /\ r.ext = s.ext
  /\ r.player = s.player /\ r.wallet = s.wallet
  /\ r.round = s.round /\ r.game = s.game
  /\ r.kind = s.kind /\ r.amount = s.amount /\ r.currency = s.currency
  /\ r.ref = s.ref

SameKey(r, s) == r.provider = s.provider /\ r.key = s.key
SameExternalID(r, s) == r.provider = s.provider /\ r.ext = s.ext

-----------------------------------------------------------------------------
(* A verdict is what the code decides to do with a transaction: move money *)
(* ("credit" or "debit"), record it without a movement ("loss"), reject it *)
(* with a failure code, or wait for its reference ("wait").                *)

Verdict(act, code) == [act |-> act, code |-> code]
Reject(code) == Verdict("reject", code)

(* validateReferenceMatch: "" stands for a nil error.                      *)
ReferenceMismatch(r, ref) ==
  IF \/ ref.provider # r.provider
     \/ ref.player # r.player
     \/ ref.wallet # r.wallet
     \/ ref.round # r.round
     \/ ref.currency # r.currency
  THEN "REFERENCE_MISMATCH"
  ELSE IF ref.amount # r.amount THEN "REFERENCE_AMOUNT_MISMATCH" ELSE ""

(* The verdict on request r whose reference is the request ref, recorded   *)
(* with the given status; reversed says whether a processed reversal of    *)
(* that reference exists.                                                  *)
ReversalVerdict(r, ref, status, reversed) ==
  IF ~IsTerminal(status) THEN Verdict("wait", "")
  ELSE IF status # "PROCESSED" THEN Reject("REFERENCE_NOT_PROCESSED")
  ELSE IF ReferenceMismatch(r, ref) # "" THEN Reject(ReferenceMismatch(r, ref))
  ELSE IF reversed THEN Reject("REFERENCE_ALREADY_REVERSED")
  ELSE IF ref.kind = "BET" THEN Verdict("credit", "")
  ELSE IF ref.kind \in {"WIN", "REFUND"} /\ r.kind = "ROLLBACK"
       THEN Verdict("debit", "REVERSAL_INSUFFICIENT_FUNDS")
  ELSE Reject("REFERENCE_NOT_REVERSIBLE")

SimpleVerdict(r) ==
  IF r.kind = "BET" THEN Verdict("debit", "INSUFFICIENT_FUNDS")
  ELSE IF r.kind = "WIN" THEN Verdict("credit", "")
  ELSE Verdict("loss", "")

\* Mutant: a debit that does not look at the balance.
FundedUnchecked(v, balance, amount) == v

(* Wallet.Debit and Wallet.Credit applied to a verdict: a debit beyond the *)
(* balance becomes a rejection with the verdict's code, a credit beyond    *)
(* the largest amount an error ("fail": the transaction is rolled back).   *)
Funded(v, balance, amount) ==
  IF v.act = "debit" /\ balance < amount THEN Reject(v.code)
  ELSE IF v.act = "credit" /\ ~AddChecked(balance, amount).ok THEN Verdict("fail", "")
  ELSE v

\* Mutant: a credit that takes the money away.
BalanceAfterSwapped(v, balance, amount) == SubChecked(balance, amount).value

BalanceAfter(v, balance, amount) ==
  IF v.act = "credit" THEN AddChecked(balance, amount).value
                      ELSE SubChecked(balance, amount).value
=============================================================================
