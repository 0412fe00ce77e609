-------------------------- MODULE LedgerReadsProofs --------------------------
(***************************************************************************)
(* What holds of the read side for any wallets, readers, auditors, limits, *)
(* amounts and orders of commits.                                          *)
(*                                                                         *)
(* Listings: a reader under way has had what lies up to its cursor, but    *)
(* for what was committed behind it.  Reconciliation: the balance of a     *)
(* wallet is the sum of its entries (Books), and so is what an auditor     *)
(* has stored of the entries in its snapshot (Snapshots).  The facts about *)
(* sums over finite sets are proved by taking a smallest counterexample.   *)
(***************************************************************************)
EXTENDS LedgerReads, FiniteSetTheorems, WellFoundedInduction, TLAPS

\* A reader under way has had what lies up to its cursor, and nothing beyond.
UnderWay(r) ==
  LET w == listing[r]
  IN /\ seen[r] \subseteq entries[w]
     /\ \A k \in seen[r] : k <= cursor[r]
     /\ \A k \in entries[w] : k <= cursor[r] => k \in seen[r] \cup late[r]

\* A reader has begun with nothing; one that has begun and not ended is under way.
Listings ==
  \A r \in Readers :
    /\ listing[r] = None => cursor[r] = 0 /\ seen[r] = {} /\ twice[r] = {} /\ r \notin ended
    /\ listing[r] # None /\ r \notin ended => UnderWay(r)

\* The invariant behind PagesAlwaysCover.
Inv == ListingsTyped /\ Listings /\ PagesCoverLedger

\* The rows of a query lie behind the cursor; a short answer is all there is.
LEMMA QueryRows ==
  ASSUME NEW w, NEW after, NEW n \in Nat, NEW rows \in ListByWallet(w, after, n + 1)
  PROVE  /\ rows \subseteq entries[w]
         /\ \A k \in rows : k > after
         /\ \A k \in rows, l \in entries[w] \ rows : l > after => k < l
         /\ Cardinality(rows) <= n => \A k \in entries[w] : k > after => k \in rows
<1>1. /\ rows \subseteq {k \in entries[w] : k > after}
      /\ \A k \in rows, l \in {k \in entries[w] : k > after} \ rows : k < l
      /\ \/ Cardinality(rows) = n + 1
         \/ rows = {k \in entries[w] : k > after}
  BY DEF ListByWallet
<1>2. Cardinality(rows) = n + 1 => ~(Cardinality(rows) <= n)
  OBVIOUS
<1> QED BY <1>1, <1>2

\* A page has a size, whatever is asked.
LEMMA PageSizeTyped ==
  ASSUME NEW limit \in Limits
  PROVE  PageSize(limit) \in Nat
BY ReadsAssumption DEF PageSize

\* A page after the cursor c of reader r, whose earlier pages were s.
LEMMA AnswerCovers ==
  ASSUME ListingsTyped, NEW r \in Readers, NEW w \in Wallets, NEW n \in Nat,
         NEW rows \in ListByWallet(w, cursor[r], n + 1),
         Answer(r, w, rows, n), twice[r] = {}, r \notin ended,
         seen[r] \subseteq entries[w],
         \A k \in seen[r] : k <= cursor[r],
         \A k \in entries[w] : k <= cursor[r] => k \in seen[r] \cup late[r]
  PROVE  /\ cursor' \in [Readers -> Nat]
         /\ seen' \in [Readers -> SUBSET Keys]
         /\ twice' = twice
         /\ whole' \in [Readers -> SUBSET Keys]
         /\ ended' \in {ended, ended \cup {r}}
         /\ \A q \in Readers \ {r} : UNCHANGED <<cursor[q], seen[q], whole[q]>>
         /\ r \notin ended' =>
              /\ seen'[r] \subseteq entries[w]
              /\ \A k \in seen'[r] : k <= cursor'[r]
              /\ \A k \in entries[w] : k <= cursor'[r] => k \in seen'[r] \cup late[r]
         /\ r \in ended' => whole'[r] \ late[r] \subseteq seen'[r] /\ seen'[r] \subseteq whole'[r]
<1> DEFINE c == cursor[r]
<1>1. /\ rows \subseteq entries[w]
      /\ \A k \in rows : k > c
      /\ \A k \in rows, l \in entries[w] \ rows : l > c => k < l
      /\ Cardinality(rows) <= n => \A k \in entries[w] : k > c => k \in rows
  BY QueryRows
<1>2. /\ c \in Nat /\ Keys \subseteq Nat /\ entries[w] \subseteq Keys /\ rows \subseteq Keys
      /\ seen[r] \subseteq Keys
  BY <1>1, ReadsAssumption DEF ListingsTyped
<1>3. ASSUME NEW page \in SUBSET rows, Deliver(r, w, page)
      PROVE  /\ seen' \in [Readers -> SUBSET Keys] /\ seen'[r] = seen[r] \cup page
             /\ whole' \in [Readers -> SUBSET Keys] /\ whole'[r] = entries[w]
             /\ twice' = twice
             /\ \A q \in Readers \ {r} : UNCHANGED <<seen[q], whole[q]>>
  <2>1. ASSUME NEW k \in seen[r], k \in page PROVE FALSE
    <3>1. k <= c /\ k > c /\ k \in Nat
      BY <1>1, <1>2, <2>1
    <3> QED BY <1>2, <3>1
  <2>2. twice' = [twice EXCEPT ![r] = twice[r] \cup {}]
    BY <1>3, <2>1 DEF Deliver
  <2>3. twice' = twice
    BY <2>2 DEF ListingsTyped
  <2> QED BY <1>2, <1>3, <2>3 DEF Deliver, ListingsTyped
<1>4. CASE /\ Cardinality(rows) <= n /\ Deliver(r, w, rows)
           /\ ended' = ended \cup {r} /\ UNCHANGED cursor
  <2>1. ASSUME NEW k \in entries[w], k \notin late[r] PROVE k \in seen[r] \cup rows
    <3>1. k \in Nat
      BY <1>2
    <3>2. CASE k <= c
      BY <2>1, <3>2
    <3>3. CASE k > c
      BY <1>1, <1>4, <3>3
    <3> QED BY <1>2, <3>1, <3>2, <3>3
  <2>2. seen[r] \cup rows \subseteq entries[w]
    BY <1>1
  <2> QED BY <1>3, <1>4, <2>1, <2>2 DEF ListingsTyped
<1>5. ASSUME NEW extra \in rows, LastOf(extra, rows),
             NEW next \in rows \ {extra}, LastOf(next, rows \ {extra}),
             cursor' = [cursor EXCEPT ![r] = next],
             Deliver(r, w, rows \ {extra}), ended' = ended
      PROVE  /\ cursor' \in [Readers -> Nat]
             /\ \A q \in Readers \ {r} : UNCHANGED cursor[q]
             /\ seen'[r] \subseteq entries[w]
             /\ \A k \in seen'[r] : k <= cursor'[r]
             /\ \A k \in entries[w] : k <= cursor'[r] => k \in seen'[r] \cup late[r]
  <2>1. next \in Nat /\ extra \in Nat /\ cursor'[r] = next /\ next > c /\ next < extra
    BY <1>1, <1>2, <1>5 DEF ListingsTyped, LastOf
  <2>2. seen'[r] = seen[r] \cup (rows \ {extra})
    BY <1>3, <1>5
  <2>3. cursor' \in [Readers -> Nat] /\ \A q \in Readers \ {r} : UNCHANGED cursor[q]
    BY <1>5, <2>1 DEF ListingsTyped
  <2>4. seen'[r] \subseteq entries[w]
    BY <1>1, <2>2
  <2>5. ASSUME NEW k \in seen'[r] PROVE k <= next
    <3>1. k \in Nat
      BY <1>2, <2>2, <2>5
    <3>2. CASE k \in seen[r]
      BY <1>2, <2>1, <3>1, <3>2
    <3>3. CASE k \in rows \ {extra}
      BY <1>5, <3>3 DEF LastOf
    <3> QED BY <2>2, <2>5, <3>2, <3>3
  <2>6. ASSUME NEW k \in entries[w], k <= next PROVE k \in seen'[r] \cup late[r]
    <3>0. k \in Nat
      BY <1>2, <2>6
    <3>1. k \in Nat /\ k # extra
      BY <2>1, <2>6, <3>0
    <3>2. CASE k <= c
      BY <2>2, <3>2
    <3>3. CASE k > c
      BY <1>1, <1>2, <1>5, <2>1, <2>2, <2>6, <3>1, <3>3
    <3> QED BY <1>2, <3>1, <3>2, <3>3
  <2> QED BY <2>1, <2>3, <2>4, <2>5, <2>6
<1>6. CASE /\ Cardinality(rows) > n /\ ended' = ended
           /\ \E extra \in rows :
                /\ LastOf(extra, rows)
                /\ \E next \in rows \ {extra} :
                     /\ LastOf(next, rows \ {extra})
                     /\ cursor' = [cursor EXCEPT ![r] = next]
                /\ Deliver(r, w, rows \ {extra})
  <2>1. PICK extra \in rows :
          /\ LastOf(extra, rows)
          /\ \E next \in rows \ {extra} :
               /\ LastOf(next, rows \ {extra})
               /\ cursor' = [cursor EXCEPT ![r] = next]
          /\ Deliver(r, w, rows \ {extra})
    BY <1>6
  <2>2. PICK next \in rows \ {extra} :
          LastOf(next, rows \ {extra}) /\ cursor' = [cursor EXCEPT ![r] = next]
    BY <2>1
  <2>3. rows \ {extra} \in SUBSET rows
    OBVIOUS
  <2>4. /\ seen' \in [Readers -> SUBSET Keys]
        /\ whole' \in [Readers -> SUBSET Keys]
        /\ twice' = twice
        /\ \A q \in Readers \ {r} : UNCHANGED <<seen[q], whole[q]>>
    BY <1>3, <2>1, <2>3
  <2>5. /\ cursor' \in [Readers -> Nat]
        /\ \A q \in Readers \ {r} : UNCHANGED cursor[q]
        /\ seen'[r] \subseteq entries[w]
        /\ \A k \in seen'[r] : k <= cursor'[r]
        /\ \A k \in entries[w] : k <= cursor'[r] => k \in seen'[r] \cup late[r]
    BY <1>5, <1>6, <2>1, <2>2
  <2> QED BY <1>6, <2>4, <2>5
<1> QED BY <1>4, <1>6 DEF Answer

-----------------------------------------------------------------------------
(* The steps *)

\* An answer keeps the invariant; the other readers are left alone.
LEMMA AnswerKeeps ==
  ASSUME Inv, NEW r \in Readers, NEW w \in Wallets, NEW n \in Nat,
         NEW rows \in ListByWallet(w, cursor[r], n + 1),
         Answer(r, w, rows, n), twice[r] = {}, r \notin ended,
         listing' = [listing EXCEPT ![r] = w],
         UNCHANGED <<entries, asked, late>>,
         seen[r] \subseteq entries[w],
         \A k \in seen[r] : k <= cursor[r],
         \A k \in entries[w] : k <= cursor[r] => k \in seen[r] \cup late[r]
  PROVE  Inv'
<1>1. /\ cursor' \in [Readers -> Nat]
      /\ seen' \in [Readers -> SUBSET Keys]
      /\ twice' = twice
      /\ whole' \in [Readers -> SUBSET Keys]
      /\ ended' \in {ended, ended \cup {r}}
      /\ \A q \in Readers \ {r} : UNCHANGED <<cursor[q], seen[q], whole[q]>>
      /\ r \notin ended' =>
           /\ seen'[r] \subseteq entries[w]
           /\ \A k \in seen'[r] : k <= cursor'[r]
           /\ \A k \in entries[w] : k <= cursor'[r] => k \in seen'[r] \cup late[r]
      /\ r \in ended' => whole'[r] \ late[r] \subseteq seen'[r] /\ seen'[r] \subseteq whole'[r]
  BY AnswerCovers DEF Inv
<1>2. /\ listing' \in [Readers -> Wallets \cup {None}] /\ listing'[r] = w /\ w # None
      /\ \A q \in Readers \ {r} : listing'[q] = listing[q]
  BY ReadsAssumption DEF Inv, ListingsTyped
<1>3. ListingsTyped'
  BY <1>1, <1>2 DEF Inv, ListingsTyped
<1>4. Listings'
  <2>1. ASSUME NEW q \in Readers \ {r}
        PROVE  /\ listing'[q] = None => /\ cursor'[q] = 0 /\ seen'[q] = {} /\ twice'[q] = {}
                                        /\ q \notin ended'
               /\ listing'[q] # None /\ q \notin ended' => UnderWay(q)'
    <3>1. /\ listing'[q] = listing[q] /\ cursor'[q] = cursor[q] /\ seen'[q] = seen[q]
          /\ twice'[q] = twice[q] /\ (q \in ended' <=> q \in ended)
          /\ entries' = entries /\ late' = late
      BY <1>1, <1>2
    <3> QED BY <3>1 DEF Inv, Listings, UnderWay
  <2>2. r \notin ended' => UnderWay(r)'
    BY <1>1, <1>2 DEF UnderWay
  <2> QED BY <1>2, <2>1, <2>2 DEF Listings
<1>5. PagesCoverLedger'
  <2>1. ASSUME NEW q \in Readers \ {r}, q \in ended'
        PROVE  whole'[q] \ late'[q] \subseteq seen'[q] /\ seen'[q] \subseteq whole'[q]
    <3>1. /\ seen'[q] = seen[q] /\ whole'[q] = whole[q] /\ q \in ended /\ late' = late
      BY <1>1, <2>1
    <3> QED BY <3>1 DEF Inv, PagesCoverLedger
  <2>2. \A q \in Readers : twice'[q] = {}
    BY <1>1 DEF Inv, PagesCoverLedger
  <2> QED BY <1>1, <2>1, <2>2 DEF PagesCoverLedger
<1> QED BY <1>3, <1>4, <1>5 DEF Inv

\* Before the first page nothing was read, and every key lies behind 0.
LEMMA FirstPageKeeps ==
  ASSUME Inv, NEW r \in Readers, NEW w \in Wallets, FirstPage(r, w)
  PROVE  Inv'
<1>1. PICK n \in Nat : n = PageSize(asked[r])
  BY PageSizeTyped DEF Inv, ListingsTyped
<1>2. PICK rows \in ListByWallet(w, cursor[r], n + 1) : Answer(r, w, rows, n)
  BY <1>1 DEF Inv, Listings, FirstPage
<1>3. /\ listing[r] = None /\ cursor[r] = 0 /\ seen[r] = {} /\ twice[r] = {} /\ r \notin ended
      /\ listing' = [listing EXCEPT ![r] = w]
      /\ UNCHANGED <<entries, asked, late>>
  BY DEF Inv, Listings, FirstPage, ledger
<1>4. \A k \in entries[w] : ~(k <= cursor[r])
  BY <1>3, ReadsAssumption DEF Inv, ListingsTyped
<1> QED BY <1>2, <1>3, <1>4, AnswerKeeps DEF Inv

\* A later page goes on from what the earlier ones covered.
LEMMA NextPageKeeps ==
  ASSUME Inv, NEW r \in Readers, NextPage(r)
  PROVE  Inv'
<1>1. PICK n \in Nat : n = PageSize(asked[r])
  BY PageSizeTyped DEF Inv, ListingsTyped
<1>2. PICK w \in Wallets : w = listing[r]
  BY DEF Inv, ListingsTyped, NextPage
<1>3. PICK rows \in ListByWallet(w, cursor[r], n + 1) : Answer(r, w, rows, n)
  BY <1>1, <1>2 DEF NextPage
<1>4. /\ r \notin ended /\ listing' = listing /\ UNCHANGED <<entries, asked, late>>
  BY DEF NextPage, ledger
<1>5. listing' = [listing EXCEPT ![r] = w]
  BY <1>2, <1>4 DEF Inv, ListingsTyped
<1>6. UnderWay(r) /\ twice[r] = {}
  BY <1>2, <1>4 DEF Inv, Listings, PagesCoverLedger, NextPage
<1> QED BY <1>2, <1>3, <1>4, <1>5, <1>6, AnswerKeeps DEF UnderWay, Inv

\* An entry is committed: behind a cursor it is late, beyond it a later page has it.
LEMMA AddEntryKeeps ==
  ASSUME Inv, NEW w \in Wallets, NEW k \in Keys, NEW amount, AddEntry(w, k, amount),
         UNCHANGED <<asked, listing, cursor, seen, twice, whole, ended>>
  PROVE  Inv'
<1>1. /\ entries' \in [Wallets -> SUBSET Keys] /\ entries'[w] = entries[w] \cup {k}
      /\ \A v \in Wallets \ {w} : entries'[v] = entries[v]
      /\ late' \in [Readers -> SUBSET Keys]
      /\ \A r \in Readers : late[r] \subseteq late'[r]
      /\ \A r \in Readers : listing[r] = w /\ k <= cursor[r] => k \in late'[r]
  BY DEF Inv, ListingsTyped, AddEntry
<1>2. ListingsTyped'
  BY <1>1 DEF Inv, ListingsTyped
<1>3. ASSUME NEW r \in Readers, listing[r] # None, r \notin ended
      PROVE  UnderWay(r)'
  <2>1. UnderWay(r) /\ listing[r] \in Wallets /\ listing' = listing /\ cursor' = cursor
        /\ seen' = seen
    BY <1>3 DEF Inv, Listings, ListingsTyped
  <2>2. CASE listing[r] = w
    BY <1>1, <2>1, <2>2 DEF UnderWay
  <2>3. CASE listing[r] # w
    BY <1>1, <2>1, <2>3 DEF UnderWay
  <2> QED BY <2>2, <2>3
<1>4. Listings'
  BY <1>3 DEF Inv, Listings
<1>5. PagesCoverLedger'
  BY <1>1 DEF Inv, PagesCoverLedger
<1> QED BY <1>2, <1>4, <1>5 DEF Inv

\* What is the matter of no listing leaves the invariant alone.
LEMMA OthersKeep ==
  ASSUME Inv, UNCHANGED <<entries, pages>>
  PROVE  Inv'
BY DEF Inv, pages, ListingsTyped, Listings, UnderWay, PagesCoverLedger

\* Every step keeps the invariant.
LEMMA Preserved ==
  ASSUME Inv, [Next]_vars
  PROVE  Inv'
<1>1. ASSUME NEW w \in Wallets, NEW initial \in Initials, OpenWallet(w, initial) PROVE Inv'
  <2>1. CASE initial > 0
    <3>1. PICK k \in Keys : AddEntry(w, k, initial)
      BY <1>1, <2>1 DEF OpenWallet
    <3> QED BY <1>1, <3>1, AddEntryKeeps DEF OpenWallet
  <2>2. CASE ~(initial > 0)
    BY <1>1, <2>2, OthersKeep DEF OpenWallet, pages
  <2> QED BY <2>1, <2>2
<1>2. ASSUME NEW w \in Wallets, NEW amount \in Amounts, Move(w, amount) PROVE Inv'
  <2>1. PICK k \in Keys : AddEntry(w, k, amount)
    BY <1>2 DEF Move
  <2> QED BY <1>2, <2>1, AddEntryKeeps DEF Move
<1>3. ASSUME NEW w \in Wallets, NEW r \in Readers, FirstPage(r, w) PROVE Inv'
  BY <1>3, FirstPageKeeps
<1>4. ASSUME NEW r \in Readers, NextPage(r) PROVE Inv'
  BY <1>4, NextPageKeeps
<1>5. ASSUME NEW w \in Wallets, NEW a \in Auditors, ReadWallet(a, w) PROVE Inv'
  BY <1>5, OthersKeep DEF ReadWallet, ledger
<1>6. ASSUME NEW a \in Auditors, SumByWallet(a) PROVE Inv'
  BY <1>6, OthersKeep DEF SumByWallet, ledger
<1>7. CASE UNCHANGED vars
  BY <1>7, OthersKeep DEF vars, pages
<1> QED BY <1>1, <1>2, <1>3, <1>4, <1>5, <1>6, <1>7 DEF Next

\* Whatever is committed between the pages, and in whatever order of its keys, a
\* reader of ListLedger gets each entry on one page and misses only what was
\* committed behind its cursor.
THEOREM PagesAlwaysCover == Spec => []PagesCoverLedger
<1>1. Init => Inv
  BY DEF Init, Inv, ListingsTyped, Listings, UnderWay, PagesCoverLedger
<1>2. Inv /\ [Next]_vars => Inv'
  BY Preserved
<1>3. Inv => PagesCoverLedger
  BY DEF Inv
<1> QED BY <1>1, <1>2, <1>3, PTL DEF Spec

-----------------------------------------------------------------------------
(* Sums *)

\* The element of s that a sum takes first.
Chosen(s) == CHOOSE x \in s : TRUE

\* f adds up e over every subset of S, one chosen element at a time.
Adds(f, e, S) ==
  f = [s \in SUBSET S |->
         IF s = {} THEN 0 ELSE e[Chosen(s)] + f[s \ {Chosen(s)}]]

\* Such a function, as the library's folds choose it.
Sums(e, S) == CHOOSE f : Adds(f, e, S)

\* The sum of e over S: what SumByWallet computes.
Total(e, S) == MapThenSumSet(LAMBDA k : e[k], S)

\* The library's sum is the value of that function.
LEMMA TotalIsSum == ASSUME NEW e, NEW S PROVE Total(e, S) = Sums(e, S)[S]
BY DEF Total, MapThenSumSet, MapThenFoldSet, Sums, Adds, Chosen

\* A family of subsets of a finite set has a smallest one, as strict inclusion is
\* well-founded: a claim that fails of some subset has a smallest counterexample.
LEMMA Smallest ==
  ASSUME NEW U, IsFiniteSet(U), NEW C \in SUBSET (SUBSET U), C # {}
  PROVE  \E T \in C : \A V \in C : V \subseteq T => V = T
<1>1. C \subseteq FiniteSubsetsOf(U)
  BY FS_FiniteSubsetsOfFinite
<1>2. IsWellFoundedOn(StrictSubsetOrdering(U), FiniteSubsetsOf(U))
  BY FS_StrictSubsetOrderingWellFounded
<1>3. \E T \in C : \A V \in C : ~(<<V, T>> \in StrictSubsetOrdering(U))
  BY <1>1, <1>2, WFMin
<1> QED BY <1>3 DEF StrictSubsetOrdering

\* Two such functions agree, over whatever sets, and for whatever e outside.
LEMMA SumsAgree ==
  ASSUME NEW S, IsFiniteSet(S), NEW T, NEW R, S \subseteq T, S \subseteq R,
         NEW e, NEW d, \A k \in S : e[k] = d[k],
         NEW f, Adds(f, e, T), NEW g, Adds(g, d, R)
  PROVE  f[S] = g[S]
<1> DEFINE C == {s \in SUBSET S : f[s] # g[s]}
<1> SUFFICES ASSUME C # {} PROVE FALSE
  OBVIOUS
<1>m. \E s \in C : \A v \in C : v \subseteq s => v = s
  <2>1. C \in SUBSET (SUBSET S)
    OBVIOUS
  <2> HIDE DEF C
  <2> QED BY <2>1, Smallest
<1>1. PICK s \in C : \A v \in C : v \subseteq s => v = s
  BY <1>m
<1>2. s \in SUBSET T /\ s \in SUBSET R
  OBVIOUS
<1>3. CASE s = {}
  BY <1>2, <1>3 DEF Adds
<1>4. CASE s # {}
  <2> DEFINE x == Chosen(s)
  <2>1. x \in s
    BY <1>4 DEF Chosen
  <2>2. f[s \ {x}] = g[s \ {x}]
    BY <1>1, <2>1
  <2>3. f[s] = e[x] + f[s \ {x}]
    BY <1>2, <1>4 DEF Adds
  <2>4. g[s] = d[x] + g[s \ {x}]
    BY <1>2, <1>4 DEF Adds
  <2> QED BY <2>1, <2>2, <2>3, <2>4
<1> QED BY <1>3, <1>4

\* The function over s, from those over its proper subsets.
Extended(e, s) ==
  [t \in SUBSET s |->
     IF t = {} THEN 0 ELSE e[Chosen(t)] + Sums(e, t \ {Chosen(t)})[t \ {Chosen(t)}]]

\* It adds up over s if they do over the proper subsets.
LEMMA SumsExtend ==
  ASSUME NEW s, IsFiniteSet(s), NEW e, \A t \in SUBSET s : t # s => Adds(Sums(e, t), e, t)
  PROVE  Adds(Extended(e, s), e, s)
<1> SUFFICES ASSUME NEW t \in SUBSET s, t # {}
             PROVE  Sums(e, t \ {Chosen(t)})[t \ {Chosen(t)}] = Extended(e, s)[t \ {Chosen(t)}]
  BY DEF Adds, Extended
<1>1. Chosen(t) \in t
  BY DEF Chosen
<1>2. t \ {Chosen(t)} \in SUBSET s /\ t \ {Chosen(t)} # s
  BY <1>1
<1> PICK u \in SUBSET s : u = t \ {Chosen(t)} /\ u # s
  BY <1>2
<1>3. Adds(Sums(e, u), e, u)
  BY <1>2
<1>4. CASE u = {}
  BY <1>2, <1>3, <1>4 DEF Adds, Extended
<1>5. CASE u # {}
  <2>1. Chosen(u) \in u
    BY <1>5 DEF Chosen
  <2>2. u \ {Chosen(u)} \in SUBSET s /\ u \ {Chosen(u)} # s /\ u \ {Chosen(u)} \subseteq u
    BY <2>1
  <2> PICK v \in SUBSET s : v = u \ {Chosen(u)} /\ v # s /\ v \subseteq u
    BY <2>2
  <2>3. IsFiniteSet(v) /\ Adds(Sums(e, v), e, v)
    BY <2>2, FS_Subset
  <2>4. Sums(e, v)[v] = Sums(e, u)[v]
    BY <1>3, <2>2, <2>3, SumsAgree
  <2>5. Sums(e, u)[u] = e[Chosen(u)] + Sums(e, u)[v]
    BY <1>3, <1>5, <2>2 DEF Adds
  <2>6. Extended(e, s)[u] = e[Chosen(u)] + Sums(e, v)[v]
    BY <1>2, <1>5, <2>2 DEF Extended
  <2> QED BY <1>2, <2>4, <2>5, <2>6
<1> QED BY <1>4, <1>5

\* There is such a function.
LEMMA SumsExist ==
  ASSUME NEW S, IsFiniteSet(S), NEW e
  PROVE  Adds(Sums(e, S), e, S)
<1> DEFINE C == {s \in SUBSET S : ~ Adds(Sums(e, s), e, s)}
<1> SUFFICES ASSUME C # {} PROVE FALSE
  OBVIOUS
<1>m. \E s \in C : \A v \in C : v \subseteq s => v = s
  <2>1. C \in SUBSET (SUBSET S)
    OBVIOUS
  <2> HIDE DEF C
  <2> QED BY <2>1, Smallest
<1>1. PICK s \in C : \A v \in C : v \subseteq s => v = s
  BY <1>m
<1>2. \A t \in SUBSET s : t # s => Adds(Sums(e, t), e, t)
  BY <1>1
<1>3. IsFiniteSet(s)
  BY FS_Subset
<1>4. Adds(Extended(e, s), e, s)
  BY <1>2, <1>3, SumsExtend
<1>5. Adds(Sums(e, s), e, s)
  BY <1>4 DEF Sums
<1> QED BY <1>5

\* Nothing adds up to 0.
LEMMA TotalEmpty == ASSUME NEW e PROVE Total(e, {}) = 0
<1>1. Adds(Sums(e, {}), e, {})
  BY SumsExist, FS_EmptySet
<1>2. {} \in SUBSET {}
  OBVIOUS
<1> QED BY <1>1, <1>2, TotalIsSum DEF Adds

\* Outside of the set e does not matter.
LEMMA TotalAgree ==
  ASSUME NEW S, IsFiniteSet(S), NEW e, NEW d, \A k \in S : e[k] = d[k]
  PROVE  Total(e, S) = Total(d, S)
BY SumsExist, SumsAgree, TotalIsSum

\* Some element may be taken out first.
LEMMA TotalChosen ==
  ASSUME NEW S, IsFiniteSet(S), S # {}, NEW e
  PROVE  \E x \in S : Total(e, S) = e[x] + Total(e, S \ {x})
<1> DEFINE x == Chosen(S)
<1>1. x \in S /\ IsFiniteSet(S \ {x}) /\ S \ {x} \in SUBSET S
  BY FS_Subset DEF Chosen
<1>2. Adds(Sums(e, S), e, S) /\ Adds(Sums(e, S \ {x}), e, S \ {x})
  BY <1>1, SumsExist
<1>3. Sums(e, S)[S] = e[x] + Sums(e, S)[S \ {x}]
  BY <1>2 DEF Adds
<1>4. Sums(e, S)[S \ {x}] = Sums(e, S \ {x})[S \ {x}]
  BY <1>1, <1>2, SumsAgree
<1> QED BY <1>1, <1>3, <1>4, TotalIsSum

\* A sum of integers is an integer.
LEMMA TotalTyped ==
  ASSUME NEW S, IsFiniteSet(S), NEW e, \A k \in S : e[k] \in Int
  PROVE  Total(e, S) \in Int
<1> DEFINE C == {s \in SUBSET S : Total(e, s) \notin Int}
<1> SUFFICES ASSUME C # {} PROVE FALSE
  OBVIOUS
<1>m. \E s \in C : \A v \in C : v \subseteq s => v = s
  <2>1. C \in SUBSET (SUBSET S)
    OBVIOUS
  <2> HIDE DEF C
  <2> QED BY <2>1, Smallest
<1>1. PICK s \in C : \A v \in C : v \subseteq s => v = s
  BY <1>m
<1>2. s # {} /\ IsFiniteSet(s)
  <2>1. Total(e, {}) \in Int
    BY TotalEmpty
  <2> QED BY <2>1, FS_Subset
<1>3. PICK x \in s : Total(e, s) = e[x] + Total(e, s \ {x})
  BY <1>2, TotalChosen
<1>4. Total(e, s \ {x}) \in Int
  BY <1>1
<1> QED BY <1>3, <1>4

\* Any element may be taken out first.
LEMMA TotalWithout ==
  ASSUME NEW S, IsFiniteSet(S), NEW e, \A k \in S : e[k] \in Int, NEW k \in S
  PROVE  Total(e, S) = e[k] + Total(e, S \ {k})
<1> DEFINE C == {s \in SUBSET S : \E x \in s : Total(e, s) # e[x] + Total(e, s \ {x})}
<1> SUFFICES ASSUME C # {} PROVE FALSE
  OBVIOUS
<1>m. \E s \in C : \A v \in C : v \subseteq s => v = s
  <2>1. C \in SUBSET (SUBSET S)
    OBVIOUS
  <2> HIDE DEF C
  <2> QED BY <2>1, Smallest
<1>1. PICK s \in C : \A v \in C : v \subseteq s => v = s
  BY <1>m
<1>2. PICK x \in s : Total(e, s) # e[x] + Total(e, s \ {x})
  OBVIOUS
<1>3. \A t \in SUBSET s : IsFiniteSet(t) /\ Total(e, t) \in Int
  BY FS_Subset, TotalTyped
<1>4. PICK y \in s : Total(e, s) = e[y] + Total(e, s \ {y})
  BY <1>2, <1>3, TotalChosen
<1>5. \A t \in SUBSET s : t # s => \A z \in t : Total(e, t) = e[z] + Total(e, t \ {z})
  BY <1>1
<1>6. x # y
  BY <1>2, <1>4
<1>7. /\ Total(e, s \ {y}) = e[x] + Total(e, (s \ {y}) \ {x})
      /\ Total(e, s \ {x}) = e[y] + Total(e, (s \ {x}) \ {y})
  BY <1>5, <1>6
<1>8. (s \ {y}) \ {x} = (s \ {x}) \ {y}
  OBVIOUS
<1>9. /\ e[x] \in Int /\ e[y] \in Int /\ Total(e, (s \ {x}) \ {y}) \in Int
  BY <1>3
<1> QED BY <1>2, <1>4, <1>7, <1>8, <1>9

\* An entry adds its amount.
LEMMA TotalAdded ==
  ASSUME NEW S, IsFiniteSet(S), NEW k, k \notin S, NEW e, NEW d, d[k] \in Int,
         \A l \in S : d[l] = e[l] /\ e[l] \in Int
  PROVE  Total(d, S \cup {k}) = Total(e, S) + d[k]
<1>1. IsFiniteSet(S \cup {k}) /\ (S \cup {k}) \ {k} = S
  BY FS_AddElement
<1>2. Total(d, S \cup {k}) = d[k] + Total(d, S)
  BY <1>1, TotalWithout
<1>3. Total(d, S) = Total(e, S) /\ Total(e, S) \in Int
  BY TotalAgree, TotalTyped
<1> QED BY <1>2, <1>3

-----------------------------------------------------------------------------
(* Reconciliation *)

\* The part of the type invariant about balances and those who audit them.
AuditsTyped ==
  /\ balance \in [Wallets -> Nat \cup {None}]
  /\ minor \in [Keys -> Int]
  /\ auditing \in [Auditors -> Wallets \cup {None}]
  /\ snapshot \in [Auditors -> SUBSET Keys]
  /\ stored \in [Auditors -> Nat]
  /\ difference \in [Auditors -> Int]

\* An entry belongs to one wallet, and a balance is the sum of its entries.
Books ==
  /\ \A w \in Wallets :
       /\ IsFiniteSet(entries[w])
       /\ ~Opened(w) => entries[w] = {}
       /\ Opened(w) => balance[w] = Total(minor, entries[w])
  /\ \A v, w \in Wallets : v # w => entries[v] \cap entries[w] = {}

\* So it is in the snapshot of an auditor, whose entries are still there.
Snapshots ==
  \A a \in Auditors : auditing[a] # None =>
    /\ snapshot[a] \subseteq entries[auditing[a]]
    /\ stored[a] = Total(minor, snapshot[a])

\* The invariant behind ReconciliationIsExact.
AuditInv == AuditsTyped /\ Books /\ Snapshots /\ ReconcileFindsNoDifference

\* A COMMIT that changes a balance by the amount of its entry keeps the books,
\* and no snapshot has the new entry.
LEMMA EntryBooked ==
  ASSUME ListingsTyped, AuditInv,
         NEW w \in Wallets, NEW k \in Keys, NEW amount \in Int, AddEntry(w, k, amount),
         NEW b \in Nat, balance' = [balance EXCEPT ![w] = b],
         b = (IF Opened(w) THEN balance[w] ELSE 0) + amount, UNCHANGED audits
  PROVE  AuditInv'
<1>1. /\ \A v \in Wallets : k \notin entries[v]
      /\ minor' = [minor EXCEPT ![k] = amount]
      /\ entries' = [entries EXCEPT ![w] = @ \cup {k}]
  BY DEF AddEntry, Used
<1>2. /\ minor' \in [Keys -> Int] /\ minor'[k] = amount
      /\ \A l \in Keys : l # k => minor'[l] = minor[l] /\ minor[l] \in Int
  BY <1>1 DEF AuditInv, AuditsTyped
<1>3. /\ entries'[w] = entries[w] \cup {k}
      /\ \A v \in Wallets \ {w} : entries'[v] = entries[v]
      /\ \A v \in Wallets : entries[v] \subseteq Keys /\ k \notin entries[v]
      /\ \A v \in Wallets : IsFiniteSet(entries[v])
  BY <1>1 DEF ListingsTyped, AuditInv, Books
<1>4. /\ balance'[w] = b /\ Opened(w)'
      /\ \A v \in Wallets \ {w} : balance'[v] = balance[v] /\ (Opened(v)' <=> Opened(v))
  BY ReadsAssumption DEF AuditInv, AuditsTyped, Opened
<1>5. AuditsTyped'
  BY <1>2 DEF AuditInv, AuditsTyped, audits
<1>6. Total(minor', entries'[w]) = b
  <2>1. Total(minor', entries'[w]) = Total(minor, entries[w]) + amount
    BY <1>2, <1>3, TotalAdded
  <2>2. CASE Opened(w)
    BY <2>1, <2>2 DEF AuditInv, Books
  <2>3. CASE ~Opened(w)
    BY <2>1, <2>3, TotalEmpty DEF AuditInv, Books
  <2> QED BY <2>2, <2>3
<1>7. ASSUME NEW v \in Wallets, NEW S, S \subseteq entries[v]
      PROVE  Total(minor', S) = Total(minor, S)
  <2>1. IsFiniteSet(S) /\ \A l \in S : minor'[l] = minor[l]
    BY <1>2, <1>3, <1>7, FS_Subset
  <2> QED BY <2>1, TotalAgree
<1>8. Books'
  <2>1. ASSUME NEW v \in Wallets
        PROVE  /\ IsFiniteSet(entries'[v])
               /\ ~Opened(v)' => entries'[v] = {}
               /\ Opened(v)' => balance'[v] = Total(minor', entries'[v])
    <3>1. CASE v = w
      <4>1. IsFiniteSet(entries[w] \cup {k})
        BY <1>3, FS_AddElement
      <4> QED BY <1>3, <1>4, <1>6, <3>1, <4>1
    <3>2. CASE v # w
      <4>1. Total(minor', entries[v]) = Total(minor, entries[v])
        BY <1>7
      <4> QED BY <1>3, <1>4, <3>2, <4>1 DEF AuditInv, Books
    <3> QED BY <3>1, <3>2
  <2>2. \A u, v \in Wallets : u # v => entries'[u] \cap entries'[v] = {}
    BY <1>3 DEF AuditInv, Books
  <2> QED BY <2>1, <2>2 DEF Books
<1>9. Snapshots'
  <2> SUFFICES ASSUME NEW a \in Auditors, auditing'[a] # None
               PROVE  /\ snapshot'[a] \subseteq entries'[auditing'[a]]
                      /\ stored'[a] = Total(minor', snapshot'[a])
    BY DEF Snapshots
  <2>1. /\ auditing[a] \in Wallets /\ UNCHANGED <<auditing, snapshot, stored>>
        /\ snapshot[a] \subseteq entries[auditing[a]]
        /\ stored[a] = Total(minor, snapshot[a])
    BY DEF audits, AuditInv, AuditsTyped, Snapshots
  <2>2. Total(minor', snapshot[a]) = Total(minor, snapshot[a])
    BY <1>7, <2>1
  <2>3. entries[auditing[a]] \subseteq entries'[auditing[a]]
    BY <1>3, <2>1
  <2> QED BY <2>1, <2>2, <2>3
<1> QED BY <1>5, <1>8, <1>9 DEF AuditInv, ReconcileFindsNoDifference, audits

\* A step that writes neither a balance nor an entry keeps the books.
LEMMA BooksKept ==
  ASSUME Books, UNCHANGED ledger
  PROVE  Books'
BY DEF Books, ledger, Opened

\* Every step keeps the books, and a reconciliation adds up what its snapshot has.
LEMMA AuditStep ==
  ASSUME ListingsTyped, AuditInv, [Next]_vars
  PROVE  AuditInv'
<1>k. ASSUME UNCHANGED <<ledger, audits>> PROVE AuditInv'
  BY <1>k, BooksKept DEF AuditInv, AuditsTyped, Snapshots, ReconcileFindsNoDifference, ledger,
                         audits
<1>1. ASSUME NEW w \in Wallets, NEW initial \in Initials, OpenWallet(w, initial) PROVE AuditInv'
  <2>0. /\ initial \in Nat /\ ~Opened(w) /\ UNCHANGED audits
        /\ balance' = [balance EXCEPT ![w] = initial]
    BY <1>1, ReadsAssumption DEF OpenWallet
  <2>1. CASE initial > 0
    <3>1. PICK k \in Keys : AddEntry(w, k, initial)
      BY <1>1, <2>1 DEF OpenWallet
    <3>2. initial = (IF Opened(w) THEN balance[w] ELSE 0) + initial /\ initial \in Int
      BY <2>0
    <3> QED BY <2>0, <3>1, <3>2, EntryBooked
  <2>2. CASE ~(initial > 0)
    <3>1. initial = 0 /\ UNCHANGED <<entries, minor>>
      BY <1>1, <2>0, <2>2 DEF OpenWallet
    <3>2. AuditsTyped'
      BY <2>0, <3>1 DEF AuditInv, AuditsTyped, audits
    <3>3. Books'
      <4>1. Total(minor, {}) = 0
        BY TotalEmpty
      <4>2. /\ balance'[w] = 0 /\ entries[w] = {}
            /\ \A v \in Wallets \ {w} : balance'[v] = balance[v]
        BY <2>0, <3>1 DEF AuditInv, AuditsTyped, Books
      <4>3. Opened(w)' /\ \A v \in Wallets \ {w} : Opened(v)' <=> Opened(v)
        BY <4>2, ReadsAssumption DEF Opened
      <4>4. \A v \in Wallets : Opened(v)' => balance'[v] = Total(minor, entries[v])
        BY <4>1, <4>2, <4>3 DEF AuditInv, Books
      <4> QED BY <3>1, <4>2, <4>3, <4>4 DEF AuditInv, Books
    <3> QED BY <2>0, <3>1, <3>2, <3>3 DEF AuditInv, Snapshots, ReconcileFindsNoDifference, audits
  <2> QED BY <2>1, <2>2
<1>2. ASSUME NEW w \in Wallets, NEW amount \in Amounts, Move(w, amount) PROVE AuditInv'
  <2>1. PICK k \in Keys : AddEntry(w, k, amount)
    BY <1>2 DEF Move
  <2>2. Opened(w) /\ balance[w] \in Nat /\ amount \in Int
    BY <1>2, ReadsAssumption DEF Move, Opened, AuditInv, AuditsTyped
  <2>3. PICK b \in Nat : b = balance[w] + amount
    BY <1>2, <2>2 DEF Move
  <2> QED BY <1>2, <2>1, <2>2, <2>3, EntryBooked DEF Move
<1>3. ASSUME NEW r \in Readers, (\E w \in Wallets : FirstPage(r, w)) \/ NextPage(r)
      PROVE  AuditInv'
  BY <1>3, <1>k DEF FirstPage, NextPage
<1>4. ASSUME NEW w \in Wallets, NEW a \in Auditors, ReadWallet(a, w) PROVE AuditInv'
  <2>1. /\ auditing' = [auditing EXCEPT ![a] = w]
        /\ snapshot' = [snapshot EXCEPT ![a] = entries[w]]
        /\ stored' = [stored EXCEPT ![a] = balance[w]]
        /\ UNCHANGED <<balance, entries, minor, difference>> /\ Opened(w)
    BY <1>4 DEF ReadWallet, ledger
  <2>2. balance[w] \in Nat /\ entries[w] \in SUBSET Keys /\ balance[w] = Total(minor, entries[w])
    BY <2>1 DEF AuditInv, AuditsTyped, Books, Opened, ListingsTyped
  <2>3. AuditsTyped'
    BY <2>1, <2>2 DEF AuditInv, AuditsTyped
  <2>4. Snapshots'
    <3> SUFFICES ASSUME NEW c \in Auditors, auditing'[c] # None
                 PROVE  /\ snapshot'[c] \subseteq entries[auditing'[c]]
                        /\ stored'[c] = Total(minor, snapshot'[c])
      BY <2>1 DEF Snapshots
    <3>1. CASE c = a
      BY <2>1, <2>2, <3>1 DEF AuditInv, AuditsTyped
    <3>2. CASE c # a
      BY <2>1, <3>2 DEF AuditInv, AuditsTyped, Snapshots
    <3> QED BY <3>1, <3>2
  <2> QED BY <2>1, <2>3, <2>4, BooksKept DEF AuditInv, ReconcileFindsNoDifference, ledger
<1>5. ASSUME NEW a \in Auditors, SumByWallet(a) PROVE AuditInv'
  <2>1. /\ auditing[a] # None /\ UNCHANGED ledger
        /\ difference' = [difference EXCEPT ![a] = stored[a] - Total(minor, snapshot[a])]
        /\ auditing' = [auditing EXCEPT ![a] = None]
        /\ snapshot' = [snapshot EXCEPT ![a] = {}]
        /\ stored' = [stored EXCEPT ![a] = 0]
    BY <1>5 DEF SumByWallet, VisibleEntries, Total
  <2>2. stored[a] = Total(minor, snapshot[a]) /\ stored[a] \in Nat
    BY <2>1 DEF AuditInv, AuditsTyped, Snapshots
  <2>3. difference' = [difference EXCEPT ![a] = 0]
    <3>1. stored[a] - Total(minor, snapshot[a]) = 0
      BY <2>2
    <3> QED BY <2>1, <3>1
  <2>4. AuditsTyped' /\ ReconcileFindsNoDifference'
    BY <2>1, <2>3 DEF AuditInv, AuditsTyped, ReconcileFindsNoDifference, ledger
  <2>5. Snapshots'
    BY <2>1 DEF AuditInv, AuditsTyped, Snapshots, ledger
  <2> QED BY <2>1, <2>4, <2>5, BooksKept DEF AuditInv
<1>6. CASE UNCHANGED vars
  BY <1>6, <1>k DEF vars, ledger, audits
<1> QED BY <1>1, <1>2, <1>3, <1>4, <1>5, <1>6 DEF Next

\* Both invariants hold in every state.
LEMMA AuditAlways == Spec => [](ListingsTyped /\ AuditInv)
<1>1. Init => Inv /\ AuditInv
  <2> SUFFICES ASSUME Init PROVE Inv /\ AuditInv
    OBVIOUS
  <2>1. Inv
    BY DEF Init, Inv, ListingsTyped, Listings, UnderWay, PagesCoverLedger
  <2>2. AuditsTyped /\ Snapshots /\ ReconcileFindsNoDifference
    BY DEF Init, AuditsTyped, Snapshots, ReconcileFindsNoDifference
  <2>3. Books
    BY FS_EmptySet DEF Init, Books, Opened
  <2> QED BY <2>1, <2>2, <2>3 DEF AuditInv
<1>2. Inv /\ AuditInv /\ [Next]_vars => (Inv /\ AuditInv)'
  BY Preserved, AuditStep DEF Inv
<1>3. Inv /\ AuditInv => ListingsTyped /\ AuditInv
  BY DEF Inv
<1> QED BY <1>1, <1>2, <1>3, PTL DEF Spec

(* Every variable of the read side keeps its type: no movement takes a     *)
(* balance below zero, however many are committed between two reads.       *)
THEOREM TypeCorrect == Spec => []TypeOK
<1>1. ListingsTyped /\ AuditInv => TypeOK
  BY DEF TypeOK, AuditInv, AuditsTyped
<1> QED BY <1>1, AuditAlways, PTL

(* The sum of a wallet's entries is its balance in every committed state,  *)
(* and a reconciliation, which has both from one snapshot, never reports a *)
(* difference, whatever is committed between its two statements            *)
(* (ReconcileWallet.Execute, WithinRepeatableRead).                        *)
THEOREM ReconciliationIsExact == Spec => []ReconcileFindsNoDifference
<1>1. ListingsTyped /\ AuditInv => ReconcileFindsNoDifference
  BY DEF AuditInv
<1> QED BY <1>1, AuditAlways, PTL

=============================================================================
