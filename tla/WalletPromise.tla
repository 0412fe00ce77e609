---------------------------- MODULE WalletPromise ----------------------------
(***************************************************************************)
(* What the write path promises, with no SQL transactions, locks or        *)
(* workers: every request is judged in one indivisible step, by the rules  *)
(* of WagerDomain applied to the state at that instant.  The detailed      *)
(* specification (WalletCore) is shown to implement this one, each COMMIT  *)
(* being the step that judges a request.                                   *)
(***************************************************************************)
EXTENDS WagerDomain

CONSTANTS Calls, Wallets, Workloads, None

VARIABLES
  req,      \* what each call asks
  account,  \* the wallets; version 0 stands for no wallet
  fate      \* what was recorded of each request and of each opening

vars == <<req, account, fate>>

Fate(status, code, ref, snap) ==
  [status |-> status, code |-> code, ref |-> ref, snap |-> snap]
Untouched == Fate("NONE", "", None, -1)
Known(t) == fate[t].status # "NONE"

Init ==
  /\ req \in Workloads
  /\ account = [w \in Wallets |->
       [player |-> None, currency |-> None, balance |-> 0, version |-> 0]]
  /\ fate = [t \in Calls \cup Wallets |-> Untouched]

\* One wallet per player and currency, opened once, with its OPENING record.
Open(w) ==
  /\ account[w].version = 0
  /\ account'[w].version = 1 /\ account'[w].balance >= 0
  /\ \A x \in Wallets \ {w} :
       /\ account'[x] = account[x]
       /\ account[x].version > 0 =>
            \/ account[x].player # account'[w].player
            \/ account[x].currency # account'[w].currency
  /\ fate' = [fate EXCEPT ![w] =
       IF account'[w].balance > 0
       THEN Fate("PROCESSED", "", None, account'[w].balance)
       ELSE Untouched]
  /\ UNCHANGED req

-----------------------------------------------------------------------------
AccountOf(c) == account[req[c].wallet]

\* A request is judged once, and its key and external id must be free.
Admissible(c) ==
  /\ AccountOf(c).version > 0
  /\ \/ fate[c].status = "PENDING_REFERENCE"
     \/ /\ ~Known(c)
        /\ \A d \in Calls : Known(d) =>
             ~SameKey(req[d], req[c]) /\ ~SameExternalID(req[d], req[c])

References(c) ==
  {d \in Calls : Known(d) /\ req[d].provider = req[c].provider /\ req[d].ext = req[c].ref}
Reference(c) ==
  IF NeedsReference(req[c].kind) /\ References(c) # {}
  THEN CHOOSE d \in References(c) : TRUE ELSE None

Reversed(d) ==
  \E t \in Calls : /\ fate[t].status = "PROCESSED" /\ fate[t].ref = d
                   /\ NeedsReference(req[t].kind)

\* The verdict that the present state commands.
Rule(c) ==
  LET ref == Reference(c)
      v == IF AccountOf(c).player # req[c].player THEN Reject("PLAYER_WALLET_MISMATCH")
           ELSE IF AccountOf(c).currency # req[c].currency THEN Reject("CURRENCY_MISMATCH")
           ELSE IF ~NeedsReference(req[c].kind) THEN SimpleVerdict(req[c])
           ELSE IF ref = None THEN Verdict("wait", "")
           ELSE ReversalVerdict(req[c], req[ref], fate[ref].status, Reversed(ref))
  IN Funded(v, AccountOf(c).balance, req[c].amount)

(* A request may be left waiting while its reference is undecided.  The    *)
(* one exemption is a reference to another wallet's transaction, which can *)
(* never be reversed from this wallet: it may wait although it is decided. *)
MayWait(c) ==
  \/ Rule(c).act = "wait"
  \/ /\ NeedsReference(req[c].kind) /\ Reference(c) # None
     /\ req[Reference(c)].wallet # req[c].wallet

Record(c, status, code, ref, snap) ==
  fate' = [fate EXCEPT ![c] = Fate(status, code, ref, snap)]

Move(c) ==
  LET after == BalanceAfter(Rule(c), AccountOf(c).balance, req[c].amount)
  IN /\ Rule(c).act \in {"credit", "debit"}
     /\ account' = [account EXCEPT ![req[c].wallet].balance = after,
                                   ![req[c].wallet].version = @ + 1]
     /\ Record(c, "PROCESSED", "", Reference(c), after)

RecordLoss(c) ==
  /\ Rule(c).act = "loss"
  /\ Record(c, "PROCESSED", "", None, AccountOf(c).balance)
  /\ UNCHANGED account

Refuse(c) ==
  /\ \/ /\ Rule(c).act = "reject"
        /\ Record(c, "REJECTED", Rule(c).code, None, AccountOf(c).balance)
     \/ /\ Known(c) /\ MayWait(c)    \* attempts or time used up
        /\ Record(c, "REJECTED", "REFERENCE_NOT_FOUND", None, AccountOf(c).balance)
  /\ UNCHANGED account

Wait(c) ==
  /\ ~Known(c) /\ MayWait(c)
  /\ Record(c, "PENDING_REFERENCE", "", None, -1)
  /\ UNCHANGED account

Judge(c) ==
  /\ Admissible(c)
  /\ Move(c) \/ RecordLoss(c) \/ Refuse(c) \/ Wait(c)
  /\ UNCHANGED req

Next ==
  \/ \E w \in Wallets : Open(w)
  \/ \E c \in Calls : Judge(c)

Spec == Init /\ [][Next]_vars
=============================================================================
