----------------------------- MODULE LedgerReads -----------------------------
(***************************************************************************)
(* What is read of the ledger while wallets move: ListLedger page by page, *)
(* and ReconcileWallet.                                                    *)
(*                                                                         *)
(* An entry is known by its key, its place in the order (created_at, id).  *)
(* prepare draws created_at from the clock of its instance before the call *)
(* waits for the wallet, and the id is random: entries reach the ledger in *)
(* any order of their keys.  How a movement is decided is the subject of   *)
(* WalletCore; here it changes a balance and adds its entry in one COMMIT. *)
(***************************************************************************)
EXTENDS Integers, FiniteSets, FiniteSetsExt

CONSTANTS
  Wallets,
  Keys,          \* places in the order (created_at, id)
  Amounts,       \* signed amounts of movements, in minor units
  Initials,      \* balances a wallet may be opened with
  Readers,       \* clients that list a ledger
  Auditors,      \* clients that ask for a reconciliation
  Limits,        \* the limits that clients send
  DefaultLimit,  \* 50
  MaxLimit,      \* 200
  None

ASSUME ReadsAssumption ==
  /\ Keys \subseteq Nat \ {0}
  /\ Amounts \subseteq Int \ {0} /\ Initials \subseteq Nat /\ Limits \subseteq Int
  /\ DefaultLimit \in Nat \ {0} /\ MaxLimit \in Nat \ {0} /\ DefaultLimit <= MaxLimit
  /\ None \notin Wallets /\ None \notin Nat

VARIABLES
  (* the database *)
  balance,     \* of each wallet, or None while it is not open
  entries,     \* the keys of its ledger entries
  minor,       \* the signed amount of each entry
  (* listings *)
  asked,       \* the limit that a reader asks for
  listing,     \* the wallet whose ledger a reader lists
  cursor,      \* nextCursor of its last page; 0 stands for none
  seen,        \* entries of its pages so far
  twice,       \* entries that were on two of its pages
  late,        \* entries committed behind its cursor
  whole,       \* the ledger when its last page was read
  ended,       \* readers whose last page had no nextCursor
  (* reconciliations *)
  auditing,    \* the wallet an auditor asks about
  snapshot,    \* the ledger that its REPEATABLE READ transaction sees
  stored,      \* the balance it has read
  difference   \* its last result

ledger == <<balance, entries, minor>>
pages == <<asked, listing, cursor, seen, twice, late, whole, ended>>
audits == <<auditing, snapshot, stored, difference>>
vars == <<balance, entries, minor, asked, listing, cursor, seen, twice, late, whole,
          ended, auditing, snapshot, stored, difference>>

Opened(w) == balance[w] # None
Used == UNION {entries[w] : w \in Wallets}

Init ==
  /\ balance = [w \in Wallets |-> None]
  /\ entries = [w \in Wallets |-> {}]
  /\ minor = [k \in Keys |-> 0]
  /\ asked \in [Readers -> Limits]
  /\ listing = [r \in Readers |-> None]
  /\ cursor = [r \in Readers |-> 0]
  /\ seen = [r \in Readers |-> {}]
  /\ twice = [r \in Readers |-> {}]
  /\ late = [r \in Readers |-> {}]
  /\ whole = [r \in Readers |-> {}]
  /\ ended = {}
  /\ auditing = [a \in Auditors |-> None]
  /\ snapshot = [a \in Auditors |-> {}]
  /\ stored = [a \in Auditors |-> 0]
  /\ difference = [a \in Auditors |-> 0]

-----------------------------------------------------------------------------
(* Movements *)

\* A COMMIT adds the entry k; readers past its place do not come back to it.
AddEntry(w, k, amount) ==
  /\ k \notin Used
  /\ entries' = [entries EXCEPT ![w] = @ \cup {k}]
  /\ minor' = [minor EXCEPT ![k] = amount]
  /\ late' = [r \in Readers |->
       IF listing[r] = w /\ k <= cursor[r] THEN late[r] \cup {k} ELSE late[r]]

\* OpenWallet: a positive balance comes with its OPENING entry.
OpenWallet(w, initial) ==
  /\ ~Opened(w)
  /\ balance' = [balance EXCEPT ![w] = initial]
  /\ IF initial > 0 THEN \E k \in Keys : AddEntry(w, k, initial)
     ELSE UNCHANGED <<entries, minor, late>>
  /\ UNCHANGED <<asked, listing, cursor, seen, twice, whole, ended, audits>>

\* Mutant: a debit without the check of the balance.
MoveUnchecked(w, amount) ==
  /\ Opened(w)
  /\ balance' = [balance EXCEPT ![w] = @ + amount]
  /\ \E k \in Keys : AddEntry(w, k, amount)
  /\ UNCHANGED <<asked, listing, cursor, seen, twice, whole, ended, audits>>

\* A movement that its wallet has the funds for.
Move(w, amount) ==
  /\ Opened(w) /\ balance[w] + amount >= 0
  /\ balance' = [balance EXCEPT ![w] = @ + amount]
  /\ \E k \in Keys : AddEntry(w, k, amount)
  /\ UNCHANGED <<asked, listing, cursor, seen, twice, whole, ended, audits>>

-----------------------------------------------------------------------------
(* ListLedger *)

PageSize(limit) ==
  IF limit <= 0 THEN DefaultLimit ELSE IF limit > MaxLimit THEN MaxLimit ELSE limit

\* Mutant: the entry at the cursor is read again.
ListByWalletFrom(w, after, n) ==
  LET rest == {k \in entries[w] : k >= after}
  IN {rows \in SUBSET rest :
        /\ \A k \in rows, l \in rest \ rows : k < l
        /\ \/ Cardinality(rows) = n
           \/ Cardinality(rows) < n /\ rows = rest}

\* WHERE (created_at, id) > cursor ORDER BY created_at, id LIMIT n: one set.
ListByWallet(w, after, n) ==
  LET rest == {k \in entries[w] : k > after}
  IN {rows \in SUBSET rest :
        /\ \A k \in rows, l \in rest \ rows : k < l
        /\ \/ Cardinality(rows) = n
           \/ Cardinality(rows) < n /\ rows = rest}

LastOf(k, rows) == k \in rows /\ \A l \in rows : l <= k

Deliver(r, w, page) ==
  /\ seen' = [seen EXCEPT ![r] = @ \cup page]
  /\ twice' = [twice EXCEPT ![r] = @ \cup (seen[r] \cap page)]
  /\ whole' = [whole EXCEPT ![r] = entries[w]]

\* Mutant: the cursor is the row that shows that there are more.
AnswerPastRow(r, w, rows, n) ==
  \/ /\ Cardinality(rows) > n
     /\ \E extra \in rows :
          /\ LastOf(extra, rows)
          /\ cursor' = [cursor EXCEPT ![r] = extra]
          /\ Deliver(r, w, rows \ {extra})
     /\ UNCHANGED ended
  \/ /\ Cardinality(rows) <= n
     /\ Deliver(r, w, rows)
     /\ ended' = ended \cup {r}
     /\ UNCHANGED cursor

(* One row more than the page shows that there are more: it is left out,   *)
(* and the cursor is the last row of the page.                             *)
Answer(r, w, rows, n) ==
  \/ /\ Cardinality(rows) > n
     /\ \E extra \in rows :
          /\ LastOf(extra, rows)
          /\ \E next \in rows \ {extra} :
               /\ LastOf(next, rows \ {extra})
               /\ cursor' = [cursor EXCEPT ![r] = next]
          /\ Deliver(r, w, rows \ {extra})
     /\ UNCHANGED ended
  \/ /\ Cardinality(rows) <= n
     /\ Deliver(r, w, rows)
     /\ ended' = ended \cup {r}
     /\ UNCHANGED cursor

FirstPage(r, w) ==
  LET n == PageSize(asked[r])
  IN /\ listing[r] = None /\ Opened(w)
     /\ listing' = [listing EXCEPT ![r] = w]
     /\ \E rows \in ListByWallet(w, 0, n + 1) : Answer(r, w, rows, n)
     /\ UNCHANGED <<ledger, asked, late, audits>>

NextPage(r) ==
  LET n == PageSize(asked[r])
  IN /\ listing[r] # None /\ r \notin ended
     /\ \E rows \in ListByWallet(listing[r], cursor[r], n + 1) : Answer(r, listing[r], rows, n)
     /\ UNCHANGED <<ledger, asked, listing, late, audits>>

-----------------------------------------------------------------------------
(* ReconcileWallet: two statements in one REPEATABLE READ transaction *)

\* Wallets().Get; the first statement takes the snapshot.
ReadWallet(a, w) ==
  /\ auditing[a] = None /\ Opened(w)
  /\ auditing' = [auditing EXCEPT ![a] = w]
  /\ snapshot' = [snapshot EXCEPT ![a] = entries[w]]
  /\ stored' = [stored EXCEPT ![a] = balance[w]]
  /\ UNCHANGED <<ledger, pages, difference>>

\* Mutant: READ COMMITTED, where each statement has a snapshot of its own.
VisibleNow(a) == entries[auditing[a]]

VisibleEntries(a) == snapshot[a]

\* SumByWallet, and the difference of the two.
SumByWallet(a) ==
  /\ auditing[a] # None
  /\ difference' = [difference EXCEPT
       ![a] = stored[a] - MapThenSumSet(LAMBDA k : minor[k], VisibleEntries(a))]
  /\ auditing' = [auditing EXCEPT ![a] = None]
  /\ snapshot' = [snapshot EXCEPT ![a] = {}]
  /\ stored' = [stored EXCEPT ![a] = 0]
  /\ UNCHANGED <<ledger, pages>>

-----------------------------------------------------------------------------
Next ==
  \/ \E w \in Wallets :
       \/ \E initial \in Initials : OpenWallet(w, initial)
       \/ \E amount \in Amounts : Move(w, amount)
       \/ \E r \in Readers : FirstPage(r, w)
       \/ \E a \in Auditors : ReadWallet(a, w)
  \/ \E r \in Readers : NextPage(r)
  \/ \E a \in Auditors : SumByWallet(a)

Spec == Init /\ [][Next]_vars

\* A reader that has begun asks for the page after the one it has.
Fairness == \A r \in Readers : WF_vars(NextPage(r))

FairSpec == Spec /\ Fairness

-----------------------------------------------------------------------------
(* Properties *)

\* The part of the type invariant about listings and what they list.
ListingsTyped ==
  /\ entries \in [Wallets -> SUBSET Keys]
  /\ asked \in [Readers -> Limits]
  /\ listing \in [Readers -> Wallets \cup {None}]
  /\ cursor \in [Readers -> Nat]
  /\ seen \in [Readers -> SUBSET Keys]
  /\ twice \in [Readers -> SUBSET Keys]
  /\ late \in [Readers -> SUBSET Keys]
  /\ whole \in [Readers -> SUBSET Keys]
  /\ ended \in SUBSET Readers

(* Every variable has its type; in particular no balance is negative.      *)
TypeOK ==
  /\ ListingsTyped
  /\ balance \in [Wallets -> Nat \cup {None}]
  /\ minor \in [Keys -> Int]
  /\ auditing \in [Auditors -> Wallets \cup {None}]
  /\ snapshot \in [Auditors -> SUBSET Keys]
  /\ stored \in [Auditors -> Nat]
  /\ difference \in [Auditors -> Int]

(* A reader who follows nextCursor to the end has had every entry that is  *)
(* in the ledger on exactly one page, whatever is committed meanwhile,     *)
(* except entries committed behind a cursor it already had.  So it misses  *)
(* nothing that was committed before its first page ("ordenacao estavel",  *)
(* docs/CHALLENGE.md:244; ListLedger.Execute, ListByWallet).               *)
PagesCoverLedger ==
  \A r \in Readers :
    /\ twice[r] = {}
    /\ r \in ended => whole[r] \ late[r] \subseteq seen[r] /\ seen[r] \subseteq whole[r]

(* A reconciliation finds no difference that is not there, although        *)
(* movements are committed between its two statements                      *)
(* (docs/CHALLENGE.md:310, WithinRepeatableRead).                          *)
ReconcileFindsNoDifference == \A a \in Auditors : difference[a] = 0

(* A listing that has begun ends, once there are no more entries to come:  *)
(* every page moves the cursor on, whatever limits the reader asks for.    *)
ListingsEnd == \A r \in Readers : [](listing[r] # None => <>(r \in ended))
=============================================================================
