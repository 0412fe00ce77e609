--------------------------- MODULE ConsumerProofs ---------------------------
(***************************************************************************)
(* What holds of the consumer for any messages, bodies, groups, instances, *)
(* goroutines, batches and bounds.                                         *)
(*                                                                         *)
(* The rows a transaction has staged are visible to nobody, so what makes  *)
(* COMMIT right are the waits: for the inbox row of an id, and for the     *)
(* indexes of a transaction.  Claims says what each goroutine may rely on  *)
(* at its label because of them.                                           *)
(*                                                                         *)
(* On top of that, Accounts says what each receive of a message was for,   *)
(* Deaths what the dead-letter queue may hold, and Ordered what must be    *)
(* settled before a goroutine takes the next message of a wallet.          *)
(***************************************************************************)
EXTENDS ConsumerSafety, TLAPS

\* What a goroutine has staged is still free: its id, and no other stages it.
StagedAlone(w) ==
  pc[w] \in Staged =>
    /\ inbox[body[current[w]].id] = None
    /\ \A v \in Goroutines :
         pc[v] \in Staged /\ body[current[v]].id = body[current[w]].id => v = w

\* So is the identity of the transaction it has inserted.
EffectAlone(w) ==
  pc[w] = "effect" =>
    /\ \A s \in Requests : Stored(s) => ~SameIdentity(s, Request(current[w]))
    /\ \A v \in Goroutines :
         pc[v] = "effect" /\ SameIdentity(Request(current[v]), Request(current[w])) => v = w

Decided(content) == \E s \in Requests : Stored(s) /\ SameIdentity(s, RequestOf(content))

RecordDecided(w) == pc[w] = "record" => Decided(body[current[w]])

ReplayKnown(w) ==
  pc[w] \in {"replay", "delete"} => inbox[body[current[w]].id] = body[current[w]]

Claims ==
  \A w \in Goroutines :
    StagedAlone(w) /\ EffectAlone(w) /\ RecordDecided(w) /\ ReplayKnown(w)

\* What the tables hold is decided, and a deleted message is recorded.
Tables ==
  /\ \A i \in Ids : inbox[i] # None => Decided(inbox[i])
  /\ \A m \in Messages : mailbox[m] = "deleted" => inbox[body[m].id] = body[m]
  /\ EffectHasInboxRow
  /\ OneTransactionPerIdentity

Inv == TypeOK /\ Claims /\ Tables
-----------------------------------------------------------------------------
(* Types *)

\* What a message carries is among the bodies, ids and requests.
LEMMA BodyTyped ==
  ASSUME body \in Workloads, NEW m \in Messages
  PROVE  /\ body[m] \in Bodies /\ body[m] # None
         /\ body[m].id \in Ids /\ Request(m) \in Requests
<1>1. body[m] \in {body[n] : n \in Messages} /\ body[m].id \in {body[n].id : n \in Messages}
  OBVIOUS
<1>2. body[m] \in Bodies /\ body[m].id \in Ids
  BY <1>1 DEF Bodies, Ids
<1>3. Request(m) \in Requests
  BY <1>2 DEF Request, Requests
<1> QED BY <1>2, <1>3, ConsumerAssumption

\* Returning from handle keeps the types of what it assigns.
LEMMA ReturnTyped ==
  ASSUME TypeOK, NEW w \in Goroutines, Return(w)
  PROVE  /\ todo' \in [Goroutines -> SUBSET Messages]
         /\ current' \in [Goroutines -> Messages \cup {None}]
         /\ pc' \in [Goroutines -> Labels]
         /\ \A v \in Goroutines : pc'[v] \in Calling => current'[v] \in Messages
         /\ run' = run
BY DEF TypeOK, Return, Labels, Calling

\* So does going on at another call.
LEMMA GotoTyped ==
  ASSUME TypeOK, NEW w \in Goroutines, pc[w] \in Calling,
         NEW label \in Calling \cup {"idle", "next"}, Goto(w, label)
  PROVE  /\ pc' \in [Goroutines -> Labels]
         /\ \A v \in Goroutines : pc'[v] \in Calling => current'[v] \in Messages
         /\ UNCHANGED <<run, todo, current, errors, lapses, stops>>
BY DEF TypeOK, Goto, Labels, bounds

\* COMMIT stores bodies under their ids and counts rows.
LEMMA WriteTyped ==
  ASSUME TypeOK, NEW w \in Goroutines, pc[w] \in Calling, Write(w)
  PROVE  /\ inbox' \in [Ids -> Bodies \cup {None}]
         /\ rows' \in [Requests -> Nat]
         /\ applied' \in SUBSET Messages
<1>1. current[w] \in Messages /\ body \in Workloads
  BY DEF TypeOK
<1>2. body[current[w]] \in Bodies /\ body[current[w]].id \in Ids /\ Request(current[w]) \in Requests
  BY <1>1, BodyTyped
<1> QED BY <1>1, <1>2 DEF TypeOK, Write

\* A call that is lost leaves everything typed.
LEMMA CallLostTyped ==
  ASSUME TypeOK, NEW w \in Goroutines, CallLost(w)
  PROVE  /\ body' = body
         /\ mailbox' \in [Messages -> {"queued", "deleted", "dead"}]
         /\ receives' = receives
         /\ receipt' \in [Messages -> Goroutines \cup {None}]
         /\ inbox' \in [Ids -> Bodies \cup {None}]
         /\ rows' \in [Requests -> Nat]
         /\ applied' \in SUBSET Messages
<1>1. pc[w] \in Calling /\ current[w] \in Messages
  BY DEF CallLost, TypeOK
<1>2. CASE UNCHANGED <<queue, db>>
  BY <1>2 DEF TypeOK, queue, db
<1>3. CASE Write(w) /\ UNCHANGED queue
  BY <1>1, <1>3, WriteTyped DEF TypeOK, queue
<1>4. CASE /\ mailbox' = [mailbox EXCEPT ![current[w]] = IF @ = "queued" THEN "deleted" ELSE @]
           /\ UNCHANGED <<body, receives, receipt, db>>
  BY <1>4 DEF TypeOK, db
<1>5. CASE MakeVisible(w, current[w]) /\ UNCHANGED <<body, mailbox, receives, db>>
  BY <1>5 DEF TypeOK, db, MakeVisible
<1> QED BY <1>2, <1>3, <1>4, <1>5 DEF CallLost

\* Every step keeps the types.
LEMMA TypeStep == TypeOK /\ [Next]_vars => TypeOK'
<1> SUFFICES ASSUME TypeOK, [Next]_vars PROVE TypeOK'
  OBVIOUS
<1> USE ConsumerAssumption
<1>0. ASSUME NEW w \in Goroutines, NEW g \in Groups, NEW batch \in Batches(g), Take(w, batch)
      PROVE  /\ batch \in SUBSET Messages
             /\ receives' \in [Messages -> Nat]
             /\ receipt' \in [Messages -> Goroutines \cup {None}]
  <2>1. batch \in SUBSET Messages
    BY DEF Batches, Available
  <2> QED BY <1>0, <2>1 DEF TypeOK, Take
<1>1. ASSUME NEW w \in Goroutines, NEW g \in Groups, Receive(w, g) PROVE TypeOK'
  <2>1. PICK batch \in Batches(g) : Take(w, batch) /\ todo' = [todo EXCEPT ![w] = batch]
    BY <1>1 DEF Receive
  <2>2. /\ receives' \in [Messages -> Nat]
        /\ receipt' \in [Messages -> Goroutines \cup {None}]
        /\ batch \in SUBSET Messages
    BY <1>0, <2>1
  <2>3. todo' \in [Goroutines -> SUBSET Messages]
    BY <2>1, <2>2 DEF TypeOK
  <2>4. /\ pc' \in [Goroutines -> Labels]
        /\ \A v \in Goroutines : pc'[v] \in Calling => current'[v] \in Messages
    BY <1>1 DEF TypeOK, Receive, Labels, Calling
  <2> QED BY <1>1, <2>2, <2>3, <2>4 DEF TypeOK, Receive, db, bounds
<1>21. ASSUME NEW w \in Goroutines, NEW g \in Groups, ReceiveLost(w, g) PROVE TypeOK'
  <2>1. receives' \in [Messages -> Nat] /\ receipt' \in [Messages -> Goroutines \cup {None}]
    BY <1>0, <1>21 DEF ReceiveLost
  <2>2. errors' \in Nat
    BY <1>21 DEF TypeOK, ReceiveLost
  <2> QED BY <1>21, <2>1, <2>2 DEF TypeOK, ReceiveLost, db
<1>2. ASSUME NEW w \in Goroutines, NEW m \in Messages, StartMessage(w, m) PROVE TypeOK'
  BY <1>2 DEF TypeOK, StartMessage, queue, db, bounds, Labels, Calling
<1>3. ASSUME NEW w \in Goroutines, Poison(w) PROVE TypeOK'
  BY <1>3, ReturnTyped DEF TypeOK, Poison, MakeVisible, db, bounds
<1>4. ASSUME NEW w \in Goroutines, InsertInbox(w) PROVE TypeOK'
  <2>1. \E label \in Calling : Goto(w, label)
    BY <1>4 DEF InsertInbox, Calling
  <2>2. pc[w] \in Calling
    BY <1>4 DEF InsertInbox, Calling
  <2> QED BY <1>4, <2>1, <2>2, GotoTyped DEF TypeOK, InsertInbox, queue, db
<1>5. ASSUME NEW w \in Goroutines, Execute(w) PROVE TypeOK'
  <2>1. pc[w] \in Calling /\ UNCHANGED <<queue, db>>
    BY <1>5 DEF Execute, Calling
  <2>2. CASE Return(w) /\ UNCHANGED bounds
    BY <2>1, <2>2, ReturnTyped DEF TypeOK, queue, db, bounds
  <2>3. CASE \E label \in Calling : Goto(w, label)
    BY <2>1, <2>3, GotoTyped DEF TypeOK, queue, db
  <2> QED BY <1>5, <2>2, <2>3 DEF Execute, Calling
<1>6. ASSUME NEW w \in Goroutines, InsertTransaction(w) PROVE TypeOK'
  <2>1. pc[w] \in Calling /\ UNCHANGED <<queue, db>>
    BY <1>6 DEF InsertTransaction, Calling
  <2>2. CASE Return(w) /\ UNCHANGED bounds
    BY <2>1, <2>2, ReturnTyped DEF TypeOK, queue, db, bounds
  <2>3. CASE \E label \in Calling : Goto(w, label)
    BY <2>1, <2>3, GotoTyped DEF TypeOK, queue, db
  <2> QED BY <1>6, <2>2, <2>3 DEF InsertTransaction, Calling
<1>7. ASSUME NEW w \in Goroutines, Commit(w) PROVE TypeOK'
  <2>1. pc[w] \in Calling /\ "delete" \in Calling
    BY <1>7 DEF Commit, CommitLabels, Calling
  <2> QED BY <1>7, <2>1, WriteTyped, GotoTyped DEF TypeOK, Commit, queue
<1>8. ASSUME NEW w \in Goroutines, Delete(w) PROVE TypeOK'
  <2>1. mailbox' \in [Messages -> {"queued", "deleted", "dead"}]
    BY <1>8 DEF Delete, TypeOK
  <2> QED BY <1>8, <2>1, ReturnTyped DEF TypeOK, Delete, db, bounds
<1>9. ASSUME NEW w \in Goroutines, CallFails(w) PROVE TypeOK'
  <2>1. Return(w) /\ CallLost(w) /\ errors' \in Nat /\ UNCHANGED <<lapses, stops>>
    BY <1>9 DEF CallFails, CallLost, TypeOK
  <2> QED BY <2>1, ReturnTyped, CallLostTyped DEF TypeOK
<1>10. ASSUME NEW w \in Goroutines, CallCancelled(w) PROVE TypeOK'
  <2>1. Return(w) /\ CallLost(w) /\ UNCHANGED bounds
    BY <1>10 DEF CallCancelled, CallLost
  <2> QED BY <2>1, ReturnTyped, CallLostTyped DEF TypeOK, bounds
<1>11. ASSUME NEW w \in Goroutines, SkipRest(w) PROVE TypeOK'
  BY <1>11 DEF TypeOK, SkipRest, queue, db, bounds, Labels, Calling
<1>12. ASSUME NEW i \in Instances, Drained(i) PROVE TypeOK'
  BY <1>12 DEF TypeOK, Drained, queue, db, bounds
<1>13. ASSUME NEW i \in Instances, ReleaseInFlight(i) PROVE TypeOK'
  BY <1>13 DEF TypeOK, ReleaseInFlight, db, bounds
<1>14. ASSUME NEW i \in Instances, NEW how \in {"stopped", "crashed"}, Gone(i, how),
              stops' \in Nat
       PROVE  TypeOK'
  <2>1. /\ pc' \in [Goroutines -> Labels]
        /\ \A v \in Goroutines : pc'[v] \in Calling => current'[v] \in Messages
    BY <1>14 DEF TypeOK, Gone, Labels, Calling
  <2> QED BY <1>14, <2>1 DEF TypeOK, Gone, queue, db
<1>15. ASSUME NEW i \in Instances, Exit(i) \/ Crash(i) PROVE TypeOK'
  <2>1. stops' \in Nat
    BY <1>15 DEF Exit, Crash, TypeOK
  <2> QED BY <1>14, <1>15, <2>1 DEF Exit, Crash
<1>16. ASSUME NEW i \in Instances, Restart(i) \/ BeginStop(i) PROVE TypeOK'
  BY <1>16 DEF TypeOK, Restart, BeginStop, queue, db, bounds
<1>17. ASSUME NEW g \in Groups, VisibilityTimeout(g) PROVE TypeOK'
  BY <1>17 DEF TypeOK, VisibilityTimeout, db
<1>18. ASSUME NEW m \in Messages, Redrive(m) PROVE TypeOK'
  BY <1>18 DEF TypeOK, Redrive, db, bounds
<1>19. ASSUME NEW r \in Elsewhere, ProcessElsewhere(r) PROVE TypeOK'
  <2>1. r \in Requests
    BY DEF Requests
  <2> QED BY <1>19, <2>1 DEF TypeOK, ProcessElsewhere, queue, bounds
<1>20. CASE Quiescent \/ UNCHANGED vars
  <2>1. UNCHANGED vars
    BY <1>20 DEF Quiescent
  <2> QED BY <2>1 DEF TypeOK, vars
<1> QED BY <1>1, <1>2, <1>3, <1>4, <1>5, <1>6, <1>7, <1>8, <1>9, <1>10, <1>11, <1>12, <1>13,
           <1>15, <1>16, <1>17, <1>18, <1>19, <1>20, <1>21
        DEF Next, GoroutineStep, ProcessStep

\* The initial states have their types.
LEMMA InitTyped == Init => TypeOK
BY ConsumerAssumption DEF Init, TypeOK, Labels, Calling

(* Every variable of the consumer keeps its type; a goroutine at a call    *)
(* has a message in hand.                                                  *)
THEOREM TypeCorrect == Spec => []TypeOK
BY InitTyped, TypeStep, PTL DEF Spec

-----------------------------------------------------------------------------
(* What a goroutine may rely on *)

\* Labels at which a goroutine relies on nothing.
Unclaimed == {"idle", "next", "poison", "inbox"}

\* A goroutine that goes on as it was, or that lets go of what it claimed.
Kept(v) == \/ pc'[v] = pc[v] /\ current'[v] = current[v]
           \/ pc'[v] \in Unclaimed

\* A goroutine that has let go, or gone on, without writing keeps the claims.
LEMMA ClaimsKept ==
  ASSUME Claims, UNCHANGED <<body, db>>, \A v \in Goroutines : Kept(v)
  PROVE  Claims'
<1>1. UNCHANGED <<body, inbox, rows>>
  BY DEF db
<1>2. \A v \in Goroutines : pc'[v] \in Staged \cup {"replay", "delete"} =>
        pc'[v] = pc[v] /\ current'[v] = current[v]
  BY DEF Kept, Unclaimed, Staged
<1> SUFFICES ASSUME NEW w \in Goroutines
             PROVE  (StagedAlone(w) /\ EffectAlone(w) /\ RecordDecided(w) /\ ReplayKnown(w))'
  BY DEF Claims
<1>3. StagedAlone(w)'
  BY <1>1, <1>2 DEF Claims, StagedAlone
<1>4. EffectAlone(w)'
  BY <1>1, <1>2 DEF Claims, EffectAlone, Stored, Request, Staged
<1>5. RecordDecided(w)'
  BY <1>1, <1>2 DEF Claims, RecordDecided, Decided, Stored, Staged
<1>6. ReplayKnown(w)'
  BY <1>1, <1>2 DEF Claims, ReplayKnown
<1> QED BY <1>3, <1>4, <1>5, <1>6

\* One goroutine goes on at a label whose claim it can make, writing nothing.
LEMMA ClaimMade ==
  ASSUME TypeOK, Claims, UNCHANGED <<body, db>>, NEW w \in Goroutines, NEW label,
         pc' = [pc EXCEPT ![w] = label], current' = current,
         label \in Staged => pc[w] \in Staged \/
            (inbox[body[current[w]].id] = None /\ InboxRowFree(body[current[w]].id)),
         label = "effect" =>
            /\ IdentityFree(Request(current[w]))
            /\ \A s \in Requests : Stored(s) => ~SameIdentity(s, Request(current[w])),
         label = "record" => Decided(body[current[w]]),
         label \in {"replay", "delete"} => inbox[body[current[w]].id] = body[current[w]]
  PROVE  Claims'
<1>1. UNCHANGED <<body, inbox, rows>>
  BY DEF db
<1>2. /\ \A v \in Goroutines : v # w => pc'[v] = pc[v]
      /\ pc'[w] = label
  BY DEF TypeOK
<1> SUFFICES ASSUME NEW u \in Goroutines
             PROVE  (StagedAlone(u) /\ EffectAlone(u) /\ RecordDecided(u) /\ ReplayKnown(u))'
  BY DEF Claims
<1>3. StagedAlone(u)'
  BY <1>1, <1>2 DEF Claims, StagedAlone, InboxRowFree
<1>4. EffectAlone(u)'
  BY <1>1, <1>2 DEF Claims, EffectAlone, IdentityFree, Stored, Request, SameIdentity
<1>5. RecordDecided(u)'
  BY <1>1, <1>2 DEF Claims, RecordDecided, Decided, Stored
<1>6. ReplayKnown(u)'
  BY <1>1, <1>2 DEF Claims, ReplayKnown
<1> QED BY <1>3, <1>4, <1>5, <1>6

\* COMMIT, heard of or not, keeps the claims of the others and makes its own.
LEMMA WriteKeepsClaims ==
  ASSUME TypeOK, Claims, body' = body, NEW w \in Goroutines, pc[w] \in CommitLabels, Write(w),
         \A v \in Goroutines : v # w => pc'[v] = pc[v] /\ current'[v] = current[v],
         \/ pc'[w] \in Unclaimed
         \/ pc'[w] = "delete" /\ current'[w] = current[w]
  PROVE  Claims'
<1> DEFINE m == current[w]
<1>1. /\ m \in Messages /\ body[m] \in Bodies /\ body[m] # None
      /\ body[m].id \in Ids /\ Request(m) \in Requests
  BY BodyTyped DEF TypeOK, CommitLabels, Calling
<1>2. /\ pc[w] # "replay" => inbox' = [inbox EXCEPT ![body[m].id] = body[m]]
      /\ pc[w] = "replay" => inbox' = inbox
      /\ pc[w] = "effect" => rows' = [rows EXCEPT ![Request(m)] = @ + 1]
      /\ pc[w] # "effect" => rows' = rows
  BY DEF Write
<1>3. \A v \in Goroutines : v # w => pc'[v] = pc[v] /\ current'[v] = current[v]
  OBVIOUS
<1>4. pc'[w] \notin Staged /\ pc'[w] # "replay"
  BY DEF Unclaimed, Staged
<1>5. pc[w] # "replay" => pc[w] \in Staged
  BY DEF CommitLabels, Staged
<1>6. \A s \in Requests : Stored(s) => Stored(s)'
  BY <1>1, <1>2 DEF Stored, TypeOK
<1>7. inbox'[body[m].id] = body[m]
  BY <1>1, <1>2 DEF Claims, ReplayKnown, TypeOK
<1> SUFFICES ASSUME NEW u \in Goroutines
             PROVE  (StagedAlone(u) /\ EffectAlone(u) /\ RecordDecided(u) /\ ReplayKnown(u))'
  BY DEF Claims
<1>8. StagedAlone(u)'
  <2> SUFFICES ASSUME pc'[u] \in Staged
               PROVE  /\ inbox'[body[current[u]].id] = None
                      /\ \A v \in Goroutines :
                           pc'[v] \in Staged /\ body[current[v]].id = body[current[u]].id => v = u
    BY <1>3, <1>4 DEF StagedAlone
  <2>1. u # w /\ pc[u] \in Staged
    BY <1>3, <1>4
  <2>2. inbox[body[current[u]].id] = None
    BY <2>1 DEF Claims, StagedAlone
  <2>3. pc[w] # "replay" => body[m].id # body[current[u]].id
    BY <1>5, <2>1 DEF Claims, StagedAlone
  <2>t. inbox \in [Ids -> Bodies \cup {None}] /\ body[current[u]].id \in Ids
    BY <2>1, BodyTyped DEF TypeOK, Staged, Calling
  <2>4. inbox'[body[current[u]].id] = None
    BY <1>2, <2>2, <2>3, <2>t
  <2> QED BY <1>3, <1>4, <2>1, <2>4 DEF Claims, StagedAlone
<1>9. EffectAlone(u)'
  <2> SUFFICES ASSUME pc'[u] = "effect"
               PROVE  /\ \A s \in Requests : Stored(s)' => ~SameIdentity(s, Request(current[u]))
                      /\ \A v \in Goroutines :
                           pc'[v] = "effect" /\ SameIdentity(Request(current[v]), Request(current[u]))
                             => v = u
    BY <1>3, <1>4 DEF EffectAlone, Staged, Request
  <2>1. u # w /\ pc[u] = "effect"
    BY <1>3, <1>4 DEF Staged
  <2>2. pc[w] = "effect" => ~SameIdentity(Request(m), Request(current[u]))
    BY <2>1 DEF Claims, EffectAlone
  <2>3. \A s \in Requests : Stored(s)' => Stored(s) \/ (pc[w] = "effect" /\ s = Request(m))
    BY <1>1, <1>2 DEF Stored, TypeOK
  <2>4. pc'[w] # "effect"
    BY <1>4 DEF Staged
  <2> QED BY <1>3, <2>1, <2>2, <2>3, <2>4 DEF Claims, EffectAlone
<1>10. RecordDecided(u)'
  BY <1>3, <1>4, <1>6 DEF Claims, RecordDecided, Decided, Staged
<1>11. ReplayKnown(u)'
  <2> SUFFICES ASSUME pc'[u] \in {"replay", "delete"}
               PROVE  inbox'[body[current'[u]].id] = body[current'[u]]
    BY DEF ReplayKnown
  <2>1. CASE u = w
    BY <1>7, <2>1 DEF Unclaimed
  <2>2. CASE u # w
    <3>1. current[u] \in Messages /\ pc[u] \in {"replay", "delete"}
      BY <1>3, <2>2 DEF TypeOK, Calling
    <3>2. inbox[body[current[u]].id] = body[current[u]] /\ body[current[u]] # None
          /\ body[current[u]].id \in Ids
      BY <3>1, BodyTyped DEF Claims, ReplayKnown, TypeOK
    <3>3. pc[w] # "replay" => body[m].id # body[current[u]].id
      BY <1>5, <3>2 DEF Claims, StagedAlone
    <3> QED BY <1>2, <1>3, <2>2, <3>2, <3>3 DEF TypeOK
  <2> QED BY <2>1, <2>2
<1> QED BY <1>8, <1>9, <1>10, <1>11

\* Every step keeps the claims.
LEMMA ClaimsStep == TypeOK /\ Claims /\ [Next]_vars => Claims'
<1> SUFFICES ASSUME TypeOK, Claims, [Next]_vars PROVE Claims'
  OBVIOUS
<1>r. ASSUME NEW w \in Goroutines, Return(w) PROVE \A v \in Goroutines : Kept(v)
  BY <1>r DEF Return, Kept, Unclaimed, TypeOK
<1>1. ASSUME NEW w \in Goroutines, NEW g \in Groups, Receive(w, g) PROVE Claims'
  <2>1. \A v \in Goroutines : Kept(v)
    BY <1>1 DEF Receive, Kept, Unclaimed, TypeOK
  <2> QED BY <1>1, <2>1, ClaimsKept DEF Receive
<1>2. ASSUME NEW w \in Goroutines, NEW m \in Messages, StartMessage(w, m) PROVE Claims'
  <2>1. \A v \in Goroutines : Kept(v)
    BY <1>2 DEF StartMessage, Kept, Unclaimed, TypeOK
  <2> QED BY <1>2, <2>1, ClaimsKept DEF StartMessage, queue
<1>3. ASSUME NEW w \in Goroutines, Poison(w) \/ Delete(w) PROVE Claims'
  <2>1. Return(w) /\ UNCHANGED <<body, db>>
    BY <1>3 DEF Poison, Delete
  <2> QED BY <2>1, <1>r, ClaimsKept
<1>4. ASSUME NEW w \in Goroutines, InsertInbox(w) PROVE Claims'
  <2> DEFINE content == body[current[w]]
  <2>1. InboxRowFree(content.id) /\ UNCHANGED <<body, db>>
    BY <1>4 DEF InsertInbox, queue
  <2>2. CASE inbox[content.id] = None /\ Goto(w, "execute")
    BY <2>1, <2>2, ClaimMade DEF Goto, Staged
  <2>3. CASE inbox[content.id] = content /\ Goto(w, "replay")
    BY <2>1, <2>3, ClaimMade DEF Goto, Staged
  <2>4. CASE Goto(w, "poison")
    BY <2>1, <2>4, ClaimMade DEF Goto, Staged
  <2> QED BY <1>4, <2>2, <2>3, <2>4 DEF InsertInbox
<1>5. ASSUME NEW w \in Goroutines, Execute(w) PROVE Claims'
  <2>1. pc[w] \in Staged /\ UNCHANGED <<body, db>>
    BY <1>5 DEF Execute, queue, Staged
  <2>2. CASE Return(w)
    BY <2>1, <2>2, <1>r, ClaimsKept
  <2>3. CASE Goto(w, "record") /\ Decided(body[current[w]])
    BY <2>1, <2>3, ClaimMade DEF Goto
  <2>4. CASE Goto(w, "insert")
    BY <2>1, <2>4, ClaimMade DEF Goto
  <2> QED BY <1>5, <2>2, <2>3, <2>4 DEF Execute, Decided, Request
<1>6. ASSUME NEW w \in Goroutines, InsertTransaction(w) PROVE Claims'
  <2>1. pc[w] \in Staged /\ UNCHANGED <<body, db>> /\ IdentityFree(Request(current[w]))
    BY <1>6 DEF InsertTransaction, queue, Staged
  <2>2. CASE Return(w)
    BY <2>1, <2>2, <1>r, ClaimsKept
  <2>3. CASE Goto(w, "record") /\ Decided(body[current[w]])
    BY <2>1, <2>3, ClaimMade DEF Goto
  <2>4. CASE Goto(w, "effect") /\ \A s \in Requests : Stored(s) => ~SameIdentity(s, Request(current[w]))
    BY <2>1, <2>4, ClaimMade DEF Goto
  <2> QED BY <1>6, <2>2, <2>3, <2>4 DEF InsertTransaction, Decided, Request, SameIdentity
<1>7. ASSUME NEW w \in Goroutines, Commit(w) PROVE Claims'
  <2>1. /\ pc[w] \in CommitLabels /\ Write(w) /\ body' = body
        /\ pc' = [pc EXCEPT ![w] = "delete"] /\ current' = current
    BY <1>7 DEF Commit, Goto, queue
  <2>2. /\ \A v \in Goroutines : v # w => pc'[v] = pc[v] /\ current'[v] = current[v]
        /\ pc'[w] = "delete" /\ current'[w] = current[w]
    BY <2>1 DEF TypeOK
  <2> QED BY <2>1, <2>2, WriteKeepsClaims
<1>8. ASSUME NEW w \in Goroutines, CallLost(w) PROVE Claims'
  <2>1. Return(w) /\ body' = body
    BY <1>8 DEF CallLost, queue
  <2>2. CASE UNCHANGED db
    BY <2>1, <2>2, <1>r, ClaimsKept
  <2>3. CASE pc[w] \in CommitLabels /\ Write(w)
    <3>1. /\ \A v \in Goroutines : v # w => pc'[v] = pc[v] /\ current'[v] = current[v]
          /\ pc'[w] \in Unclaimed
      BY <2>1 DEF Return, Unclaimed, TypeOK
    <3>2. Write(w) /\ pc[w] \in CommitLabels /\ body' = body
      BY <2>1, <2>3
    <3> QED BY <3>1, <3>2, WriteKeepsClaims
  <2> QED BY <1>8, <2>2, <2>3 DEF CallLost
<1>9. ASSUME NEW w \in Goroutines, CallFails(w) \/ CallCancelled(w) PROVE Claims'
  BY <1>8, <1>9 DEF CallFails, CallCancelled
<1>10. ASSUME NEW w \in Goroutines, SkipRest(w) PROVE Claims'
  <2>1. \A v \in Goroutines : Kept(v)
    BY <1>10 DEF SkipRest, Kept, Unclaimed, TypeOK
  <2> QED BY <1>10, <2>1, ClaimsKept DEF SkipRest, queue
<1>11. ASSUME UNCHANGED <<body, db, pc, current>> PROVE Claims'
  BY <1>11, ClaimsKept DEF Kept
<1>17. ASSUME NEW w \in Goroutines, NEW g \in Groups, ReceiveLost(w, g) PROVE Claims'
  BY <1>11, <1>17 DEF ReceiveLost
<1>12. ASSUME NEW i \in Instances, Drained(i) \/ ReleaseInFlight(i) \/ Restart(i) \/ BeginStop(i)
       PROVE  Claims'
  BY <1>11, <1>12 DEF Drained, ReleaseInFlight, Restart, BeginStop, queue
<1>13. ASSUME NEW i \in Instances, Exit(i) \/ Crash(i) PROVE Claims'
  <2>1. PICK how : Gone(i, how)
    BY <1>13 DEF Exit, Crash
  <2>2. \A v \in Goroutines : Kept(v)
    BY <2>1 DEF Gone, Kept, Unclaimed, TypeOK
  <2> QED BY <2>1, <2>2, ClaimsKept DEF Gone, queue
<1>14. ASSUME \/ \E g \in Groups : VisibilityTimeout(g)
             \/ \E m \in Messages : Redrive(m)
      PROVE  Claims'
  BY <1>11, <1>14 DEF VisibilityTimeout, Redrive
<1>15. ASSUME NEW r \in Elsewhere, ProcessElsewhere(r) PROVE Claims'
  <2>1. /\ r \in Requests /\ IdentityFree(r) /\ rows' = [rows EXCEPT ![r] = @ + 1]
        /\ UNCHANGED <<body, inbox, pc, current>>
    BY <1>15 DEF ProcessElsewhere, queue, Requests
  <2>2. /\ \A s \in Requests : Stored(s)' => Stored(s) \/ s = r
        /\ \A s \in Requests : Stored(s) => Stored(s)'
    BY <2>1 DEF Stored, TypeOK
  <2> SUFFICES ASSUME NEW u \in Goroutines
               PROVE  (StagedAlone(u) /\ EffectAlone(u) /\ RecordDecided(u) /\ ReplayKnown(u))'
    BY DEF Claims
  <2>3. StagedAlone(u)' /\ ReplayKnown(u)'
    BY <2>1 DEF Claims, StagedAlone, ReplayKnown
  <2>4. EffectAlone(u)'
    BY <2>1, <2>2 DEF Claims, EffectAlone, IdentityFree, SameIdentity, Request
  <2>5. RecordDecided(u)'
    BY <2>1, <2>2 DEF Claims, RecordDecided, Decided
  <2> QED BY <2>3, <2>4, <2>5
<1>16. CASE Quiescent \/ UNCHANGED vars
  BY <1>11, <1>16 DEF Quiescent, vars, db
<1> QED BY <1>1, <1>2, <1>3, <1>4, <1>5, <1>6, <1>7, <1>9, <1>10, <1>12, <1>13, <1>14, <1>15,
           <1>16, <1>17
        DEF Next, GoroutineStep, ProcessStep

-----------------------------------------------------------------------------
(* What the tables hold *)

\* A step that writes no table may delete only what a goroutine may delete.
LEMMA TablesKept ==
  ASSUME TypeOK, Tables, UNCHANGED <<body, db>>,
         \A m \in Messages : mailbox'[m] = "deleted" =>
            mailbox[m] = "deleted" \/ inbox[body[m].id] = body[m]
  PROVE  Tables'
BY DEF Tables, Decided, Stored, EffectHasInboxRow, OneTransactionPerIdentity, db

\* COMMIT writes an inbox row where there was none, and with "effect" the one
\* row of an identity that had none.
LEMMA WriteEffect ==
  ASSUME TypeOK, Claims, NEW w \in Goroutines, pc[w] \in CommitLabels, Write(w)
  PROVE  LET m == current[w]
         IN /\ m \in Messages /\ body[m] # None
            /\ body[m].id \in Ids /\ Request(m) \in Requests
            /\ \/ pc[w] = "replay" /\ UNCHANGED db
               \/ /\ pc[w] # "replay" /\ inbox[body[m].id] = None
                  /\ inbox' = [inbox EXCEPT ![body[m].id] = body[m]]
                  /\ \/ /\ pc[w] # "effect" /\ Decided(body[m])
                        /\ UNCHANGED <<rows, applied>>
                     \/ /\ pc[w] = "effect"
                        /\ \A s \in Requests : Stored(s) => ~SameIdentity(s, Request(m))
                        /\ rows[Request(m)] = 0
                        /\ rows' = [rows EXCEPT ![Request(m)] = 1]
                        /\ applied' = applied \cup {m}
<1> DEFINE m == current[w]
<1>1. /\ m \in Messages /\ body[m] # None
      /\ body[m].id \in Ids /\ Request(m) \in Requests
  BY BodyTyped DEF TypeOK, CommitLabels, Calling
<1>2. CASE pc[w] = "replay"
  BY <1>1, <1>2 DEF Write, db
<1>3. CASE pc[w] = "record"
  <2>1. inbox[body[m].id] = None /\ Decided(body[m])
    BY <1>3 DEF Claims, StagedAlone, RecordDecided, Staged
  <2> QED BY <1>1, <1>3, <2>1 DEF Write
<1>4. CASE pc[w] = "effect"
  <2>1. /\ inbox[body[m].id] = None
        /\ \A s \in Requests : Stored(s) => ~SameIdentity(s, Request(m))
    BY <1>4 DEF Claims, StagedAlone, EffectAlone, Staged
  <2>2. ~Stored(Request(m))
    BY <1>1, <2>1 DEF SameIdentity
  <2>3. rows[Request(m)] = 0
    BY <1>1, <2>2 DEF Stored, TypeOK
  <2>4. rows' = [rows EXCEPT ![Request(m)] = 1]
    BY <1>4, <2>3 DEF Write
  <2> QED BY <1>1, <1>4, <2>1, <2>3, <2>4 DEF Write
<1> QED BY <1>2, <1>3, <1>4 DEF CommitLabels

\* A row for an identity that has none leaves every identity with one.
LEMMA OneRowAdded ==
  ASSUME TypeOK, Tables, NEW r \in Requests,
         \A s \in Requests : Stored(s) => ~SameIdentity(s, r),
         rows' = [rows EXCEPT ![r] = 1]
  PROVE  /\ OneTransactionPerIdentity'
         /\ \A s \in Requests : Stored(s) => Stored(s)'
         /\ Stored(r)'
<1>1. rows'[r] = 1 /\ \A s \in Requests : s # r => rows'[s] = rows[s]
  BY DEF TypeOK
<1>2. Stored(r)' /\ \A s \in Requests : s # r => (Stored(s)' <=> Stored(s))
  BY <1>1 DEF Stored
<1>3. \A s, t \in Requests :
        Stored(s) /\ Stored(t) /\ SameIdentity(s, t) => s = t /\ rows[s] = 1
  BY DEF Tables, OneTransactionPerIdentity
<1>4. \A s \in Requests : Stored(s) => ~SameIdentity(s, r) /\ ~SameIdentity(r, s)
  BY DEF SameIdentity
<1> QED BY <1>1, <1>2, <1>3, <1>4 DEF OneTransactionPerIdentity

\* COMMIT keeps the tables in agreement.
LEMMA TablesWritten ==
  ASSUME TypeOK, Claims, Tables, UNCHANGED <<body, mailbox>>,
         NEW w \in Goroutines, pc[w] \in CommitLabels, Write(w)
  PROVE  Tables'
<1> DEFINE m == current[w]
           DecidedNext == \E s \in Requests : Stored(s)' /\ SameIdentity(s, RequestOf(body[m]))
<1>1. /\ m \in Messages /\ body[m] # None
      /\ body[m].id \in Ids /\ Request(m) \in Requests
  BY WriteEffect
<1>2. CASE UNCHANGED db
  BY <1>2, TablesKept
<1>3. CASE /\ inbox[body[m].id] = None
           /\ inbox' = [inbox EXCEPT ![body[m].id] = body[m]]
           /\ OneTransactionPerIdentity' /\ DecidedNext
           /\ \A s \in Requests : Stored(s) => Stored(s)'
           /\ applied' \in {applied, applied \cup {m}}
  <2>1. /\ inbox'[body[m].id] = body[m]
        /\ \A i \in Ids : i # body[m].id => inbox'[i] = inbox[i]
    BY <1>1, <1>3 DEF TypeOK
  <2>2. \A n \in Messages : body[n].id \in Ids /\ body[n] # None
    BY BodyTyped DEF TypeOK
  <2>3. \A n \in Messages : inbox[body[n].id] = body[n] => inbox'[body[n].id] = body[n]
    BY <1>3, <2>1, <2>2
  <2>4. \A i \in Ids : inbox'[i] # None => Decided(inbox[i])'
    BY <1>3, <2>1 DEF Tables, Decided
  <2>5. EffectHasInboxRow'
    BY <1>3, <2>1, <2>3 DEF Tables, EffectHasInboxRow, TypeOK
  <2>6. \A n \in Messages : mailbox'[n] = "deleted" => inbox'[body'[n].id] = body'[n]
    BY <2>3 DEF Tables
  <2> QED BY <1>3, <2>4, <2>5, <2>6 DEF Tables
<1>4. CASE /\ inbox[body[m].id] = None
           /\ inbox' = [inbox EXCEPT ![body[m].id] = body[m]]
           /\ Decided(body[m]) /\ UNCHANGED <<rows, applied>>
  <2>1. OneTransactionPerIdentity' /\ DecidedNext
        /\ \A s \in Requests : Stored(s) => Stored(s)'
    BY <1>4 DEF Tables, OneTransactionPerIdentity, Decided, Stored
  <2> QED BY <1>3, <1>4, <2>1
<1>5. CASE /\ inbox[body[m].id] = None
           /\ inbox' = [inbox EXCEPT ![body[m].id] = body[m]]
           /\ \A s \in Requests : Stored(s) => ~SameIdentity(s, Request(m))
           /\ rows' = [rows EXCEPT ![Request(m)] = 1]
           /\ applied' = applied \cup {m}
  <2> PICK r \in Requests : r = Request(m)
    BY <1>1
  <2>1. OneTransactionPerIdentity' /\ Stored(r)'
        /\ \A s \in Requests : Stored(s) => Stored(s)'
    BY <1>5, OneRowAdded
  <2>2. DecidedNext
    BY <2>1 DEF Request, SameIdentity
  <2> QED BY <1>3, <1>5, <2>1, <2>2
<1> QED BY <1>2, <1>4, <1>5, WriteEffect

\* A call over HTTP keeps them in agreement.
LEMMA TablesElsewhere ==
  ASSUME TypeOK, Tables, NEW r \in Elsewhere, ProcessElsewhere(r)
  PROVE  /\ Tables'
         /\ r \in Requests /\ rows' = [rows EXCEPT ![r] = 1]
<1>1. /\ r \in Requests /\ UNCHANGED <<body, mailbox, inbox, applied>>
      /\ \A s \in Requests : Stored(s) => ~SameIdentity(s, r)
  BY DEF ProcessElsewhere, Requests, queue
<1>2. rows[r] = 0
  BY <1>1 DEF SameIdentity, Stored, TypeOK
<1>3. rows' = [rows EXCEPT ![r] = 1]
  BY <1>2 DEF ProcessElsewhere
<1>4. OneTransactionPerIdentity' /\ \A s \in Requests : Stored(s) => Stored(s)'
  BY <1>1, <1>3, OneRowAdded
<1> QED BY <1>1, <1>3, <1>4 DEF Tables, Decided, EffectHasInboxRow

\* Every step keeps the tables in agreement.
LEMMA TablesStep == Inv /\ [Next]_vars => Tables'
<1> SUFFICES ASSUME TypeOK, Claims, Tables, [Next]_vars PROVE Tables'
  BY DEF Inv
<1>k. ASSUME UNCHANGED <<body, db>>,
             \A m \in Messages : mailbox'[m] = "deleted" => mailbox[m] = "deleted"
      PROVE  Tables'
  BY <1>k, TablesKept
<1>d. ASSUME NEW w \in Goroutines, pc[w] = "delete", UNCHANGED <<body, db>>,
             mailbox' \in {mailbox, [mailbox EXCEPT ![current[w]] =
                                      IF @ = "queued" THEN "deleted" ELSE @]}
      PROVE  Tables'
  <2>1. inbox[body[current[w]].id] = body[current[w]]
    BY <1>d DEF Claims, ReplayKnown
  <2>2. \A m \in Messages : mailbox'[m] = "deleted" => mailbox[m] = "deleted" \/ m = current[w]
    BY <1>d DEF TypeOK
  <2> QED BY <1>d, <2>1, <2>2, TablesKept
<1>1. ASSUME NEW w \in Goroutines, GoroutineStep(w), ~Commit(w), ~Delete(w) PROVE Tables'
  <2>1. UNCHANGED <<body, db, mailbox>>
    BY <1>1 DEF GoroutineStep, Receive, StartMessage, Poison, InsertInbox, Execute,
                InsertTransaction, queue
  <2> QED BY <2>1, <1>k
<1>2. ASSUME NEW w \in Goroutines, Delete(w) PROVE Tables'
  <2>1. /\ pc[w] = "delete" /\ UNCHANGED <<body, db>>
        /\ mailbox' \in {mailbox, [mailbox EXCEPT ![current[w]] =
                                    IF @ = "queued" THEN "deleted" ELSE @]}
    BY <1>2 DEF Delete
  <2> QED BY <2>1, <1>d
<1>3. ASSUME NEW w \in Goroutines, Commit(w) PROVE Tables'
  BY <1>3, TablesWritten DEF Commit, queue
<1>4. ASSUME NEW w \in Goroutines, CallLost(w) PROVE Tables'
  <2>1. CASE UNCHANGED <<body, db, mailbox>>
    BY <2>1, <1>k
  <2>2. CASE pc[w] \in CommitLabels /\ Write(w) /\ UNCHANGED queue
    BY <2>2, TablesWritten DEF queue
  <2>3. CASE /\ pc[w] = "delete" /\ UNCHANGED <<body, db>>
             /\ mailbox' = [mailbox EXCEPT ![current[w]] = IF @ = "queued" THEN "deleted" ELSE @]
    BY <2>3, <1>d
  <2> QED BY <1>4, <2>1, <2>2, <2>3 DEF CallLost, queue
<1>5. ASSUME NEW w \in Goroutines, CallFails(w) \/ CallCancelled(w) PROVE Tables'
  BY <1>4, <1>5 DEF CallFails, CallCancelled
<1>6. ASSUME UNCHANGED <<body, db, mailbox>> PROVE Tables'
  BY <1>6, <1>k
<1>13. ASSUME NEW w \in Goroutines, NEW g \in Groups, ReceiveLost(w, g) PROVE Tables'
  BY <1>6, <1>13 DEF ReceiveLost
<1>7. ASSUME NEW w \in Goroutines, SkipRest(w) PROVE Tables'
  BY <1>6, <1>7 DEF SkipRest, queue
<1>8. ASSUME NEW i \in Instances, ProcessStep(i) \/ BeginStop(i) \/ Crash(i) PROVE Tables'
  BY <1>6, <1>8 DEF ProcessStep, Drained, ReleaseInFlight, Exit, Restart, BeginStop, Crash, Gone,
                    queue
<1>9. ASSUME NEW g \in Groups, VisibilityTimeout(g) PROVE Tables'
  BY <1>6, <1>9 DEF VisibilityTimeout
<1>10. ASSUME NEW m \in Messages, Redrive(m) PROVE Tables'
  BY <1>k, <1>10 DEF Redrive, TypeOK
<1>11. ASSUME NEW r \in Elsewhere, ProcessElsewhere(r) PROVE Tables'
  BY <1>11, TablesElsewhere
<1>12. CASE Quiescent \/ UNCHANGED vars
  BY <1>6, <1>12 DEF Quiescent, vars, db
<1> QED BY <1>1, <1>2, <1>3, <1>5, <1>7, <1>8, <1>9, <1>10, <1>11, <1>12, <1>13
        DEF Next

\* The initial states claim nothing and hold nothing.
LEMMA InitInv == Init => Inv
<1> SUFFICES ASSUME Init PROVE Inv
  OBVIOUS
<1>1. TypeOK
  BY InitTyped
<1>2. Claims
  BY DEF Init, Claims, StagedAlone, EffectAlone, RecordDecided, ReplayKnown, Staged
<1>3. Tables
  BY DEF Init, Tables, EffectHasInboxRow, OneTransactionPerIdentity, Stored
<1> QED BY <1>1, <1>2, <1>3 DEF Inv

\* The invariant that the theorems rest on.
LEMMA InvAlways == Spec => []Inv
<1>1. Inv /\ [Next]_vars => Inv'
  BY TypeStep, ClaimsStep, TablesStep DEF Inv
<1> QED BY InitInv, <1>1, PTL DEF Spec

(* One transaction for each key and each external id, for any number of    *)
(* instances, redeliveries and competing HTTP calls.                       *)
THEOREM OneTransactionAlways == Spec => []OneTransactionPerIdentity
<1>1. Inv => OneTransactionPerIdentity
  BY DEF Inv, Tables
<1> QED BY <1>1, InvAlways, PTL

(* No message leaves the queue by DeleteMessage unless its own body is     *)
(* recorded and its identity is decided.                                   *)
THEOREM AcknowledgedAlwaysDecided == Spec => []AcknowledgedWasDecided
<1>1. ASSUME Inv PROVE AcknowledgedWasDecided
  <2> SUFFICES ASSUME NEW m \in Messages, mailbox[m] = "deleted"
               PROVE  /\ inbox[body[m].id] = body[m]
                      /\ \E r \in Requests : Stored(r) /\ SameIdentity(r, Request(m))
    BY DEF AcknowledgedWasDecided
  <2>1. body[m].id \in Ids /\ body[m] # None
    BY <1>1, BodyTyped DEF Inv, TypeOK
  <2>2. inbox[body[m].id] = body[m]
    BY <1>1 DEF Inv, Tables
  <2>3. Decided(body[m])
    BY <1>1, <2>1, <2>2 DEF Inv, Tables
  <2> QED BY <2>2, <2>3 DEF Decided, Request
<1> QED BY <1>1, InvAlways, PTL

(* The effect of a message and its inbox row are one transaction.          *)
THEOREM EffectAlwaysRecorded == Spec => []EffectHasInboxRow
<1>1. Inv => EffectHasInboxRow
  BY DEF Inv, Tables
<1> QED BY <1>1, InvAlways, PTL

-----------------------------------------------------------------------------
(* The promise *)

Acknowledged == {m \in Messages : mailbox[m] = "deleted"}

\* A step that writes no table and deletes nothing is none of the promise's.
LEMMA StutterKept ==
  ASSUME UNCHANGED <<body, db>>,
         \A m \in Messages : mailbox'[m] = "deleted" <=> mailbox[m] = "deleted"
  PROVE  UNCHANGED Promise!promise
<1>1. Acknowledged' = Acknowledged
  BY DEF Acknowledged
<1> QED BY <1>1 DEF Promise!promise, Acknowledged, db

\* COMMIT records a replay or a conflict, or applies a request once.
LEMMA WriteKeepsPromise ==
  ASSUME Inv, UNCHANGED <<body, mailbox>>,
         NEW w \in Goroutines, pc[w] \in CommitLabels, Write(w)
  PROVE  [Promise!Next]_(Promise!promise)
<1> DEFINE m == current[w]
<1>1. PICK n \in Messages : n = m
  BY WriteEffect DEF Inv
<1>2. Request(n) = Promise!Request(n)
  BY DEF Request, RequestOf, Promise!Request
<1>3. Acknowledged' = Acknowledged
  BY DEF Acknowledged
<1>4. CASE UNCHANGED db
  BY <1>4, StutterKept
<1>5. CASE /\ inbox[body[n].id] = None
           /\ inbox' = [inbox EXCEPT ![body[n].id] = body[n]]
           /\ Decided(body[n]) /\ UNCHANGED <<rows, applied>>
  <2>1. Promise!Taken(Promise!Request(n))
    BY <1>2, <1>5 DEF Promise!Taken, Decided, Stored, SameIdentity, Request
  <2>2. Promise!Record(n)
    BY <1>3, <1>5, <2>1 DEF Promise!Record, Acknowledged
  <2> QED BY <2>2 DEF Promise!Next
<1>6. CASE /\ inbox[body[n].id] = None
           /\ inbox' = [inbox EXCEPT ![body[n].id] = body[n]]
           /\ \A s \in Requests : Stored(s) => ~SameIdentity(s, Request(n))
           /\ rows' = [rows EXCEPT ![Request(n)] = 1]
           /\ applied' = applied \cup {n}
  <2>1. ~Promise!Taken(Promise!Request(n))
    BY <1>2, <1>6 DEF Promise!Taken, Stored, SameIdentity
  <2>2. Promise!Apply(n)
    BY <1>2, <1>3, <1>6, <2>1 DEF Promise!Apply, Acknowledged
  <2> QED BY <2>2 DEF Promise!Next
<1> QED BY <1>1, <1>4, <1>5, <1>6, WriteEffect DEF Inv

\* DeleteMessage acknowledges a message whose body is recorded.
LEMMA DeleteKeepsPromise ==
  ASSUME Inv, UNCHANGED <<body, db>>, NEW w \in Goroutines, pc[w] = "delete",
         mailbox' \in {mailbox, [mailbox EXCEPT ![current[w]] =
                                  IF @ = "queued" THEN "deleted" ELSE @]}
  PROVE  [Promise!Next]_(Promise!promise)
<1>1. PICK n \in Messages : n = current[w]
  BY DEF Inv, TypeOK, Calling
<1>2. inbox[body[n].id] = body[n]
  BY <1>1 DEF Inv, Claims, ReplayKnown
<1>3. mailbox \in [Messages -> {"queued", "deleted", "dead"}]
  BY DEF Inv, TypeOK
<1>4. CASE Acknowledged' = Acknowledged
  BY <1>4 DEF Promise!promise, Acknowledged, db
<1>5. CASE Acknowledged' = Acknowledged \cup {n}
  <2>1. Promise!Acknowledge(n)
    BY <1>2, <1>5 DEF Promise!Acknowledge, Acknowledged, db
  <2> QED BY <2>1 DEF Promise!Next
<1> QED BY <1>1, <1>3, <1>4, <1>5 DEF Acknowledged

\* Every step of the consumer is one of the promise, or none.
LEMMA PromiseStep == Inv /\ [Next]_vars => [Promise!Next]_(Promise!promise)
<1> SUFFICES ASSUME Inv, [Next]_vars PROVE [Promise!Next]_(Promise!promise)
  OBVIOUS
<1>1. ASSUME NEW w \in Goroutines, GoroutineStep(w), ~Commit(w), ~Delete(w)
      PROVE  [Promise!Next]_(Promise!promise)
  <2>1. UNCHANGED <<body, db, mailbox>>
    BY <1>1 DEF GoroutineStep, Receive, StartMessage, Poison, InsertInbox, Execute,
                InsertTransaction, queue
  <2> QED BY <2>1, StutterKept
<1>2. ASSUME NEW w \in Goroutines, Delete(w) PROVE [Promise!Next]_(Promise!promise)
  <2>1. /\ pc[w] = "delete" /\ UNCHANGED <<body, db>>
        /\ mailbox' \in {mailbox, [mailbox EXCEPT ![current[w]] =
                                    IF @ = "queued" THEN "deleted" ELSE @]}
    BY <1>2 DEF Delete
  <2> QED BY <2>1, DeleteKeepsPromise
<1>3. ASSUME NEW w \in Goroutines, Commit(w) PROVE [Promise!Next]_(Promise!promise)
  BY <1>3, WriteKeepsPromise DEF Commit, queue
<1>4. ASSUME NEW w \in Goroutines, CallLost(w) PROVE [Promise!Next]_(Promise!promise)
  <2>1. CASE UNCHANGED <<body, db, mailbox>>
    BY <2>1, StutterKept
  <2>2. CASE pc[w] \in CommitLabels /\ Write(w) /\ UNCHANGED queue
    BY <2>2, WriteKeepsPromise DEF queue
  <2>3. CASE /\ pc[w] = "delete" /\ UNCHANGED <<body, db>>
             /\ mailbox' = [mailbox EXCEPT ![current[w]] = IF @ = "queued" THEN "deleted" ELSE @]
    BY <2>3, DeleteKeepsPromise
  <2> QED BY <1>4, <2>1, <2>2, <2>3 DEF CallLost, queue
<1>5. ASSUME NEW w \in Goroutines, CallFails(w) \/ CallCancelled(w)
      PROVE  [Promise!Next]_(Promise!promise)
  BY <1>4, <1>5 DEF CallFails, CallCancelled
<1>6. ASSUME UNCHANGED <<body, db, mailbox>> PROVE [Promise!Next]_(Promise!promise)
  BY <1>6, StutterKept
<1>13. ASSUME NEW w \in Goroutines, NEW g \in Groups, ReceiveLost(w, g)
       PROVE  [Promise!Next]_(Promise!promise)
  BY <1>6, <1>13 DEF ReceiveLost
<1>7. ASSUME NEW w \in Goroutines, SkipRest(w) PROVE [Promise!Next]_(Promise!promise)
  BY <1>6, <1>7 DEF SkipRest, queue
<1>8. ASSUME NEW i \in Instances, ProcessStep(i) \/ BeginStop(i) \/ Crash(i)
      PROVE  [Promise!Next]_(Promise!promise)
  BY <1>6, <1>8 DEF ProcessStep, Drained, ReleaseInFlight, Exit, Restart, BeginStop, Crash, Gone,
                    queue
<1>9. ASSUME NEW g \in Groups, VisibilityTimeout(g) PROVE [Promise!Next]_(Promise!promise)
  BY <1>6, <1>9 DEF VisibilityTimeout
<1>10. ASSUME NEW m \in Messages, Redrive(m) PROVE [Promise!Next]_(Promise!promise)
  <2>1. mailbox[m] = "queued" /\ mailbox' = [mailbox EXCEPT ![m] = "dead"]
    BY <1>10 DEF Redrive, Available, Visible
  <2>2. \A n \in Messages : mailbox'[n] = "deleted" <=> mailbox[n] = "deleted"
    BY <2>1 DEF Inv, TypeOK
  <2> QED BY <1>10, <2>2, StutterKept DEF Redrive
<1>11. ASSUME NEW r \in Elsewhere, ProcessElsewhere(r) PROVE [Promise!Next]_(Promise!promise)
  <2>1. /\ UNCHANGED <<body, mailbox, inbox, applied>>
        /\ rows' = [rows EXCEPT ![r] = 1]
        /\ \A s \in Requests : Stored(s) => ~SameIdentity(s, r)
    BY <1>11, TablesElsewhere DEF Inv, ProcessElsewhere, queue
  <2>2. Promise!ApplyElsewhere(r)
    BY <2>1 DEF Promise!ApplyElsewhere, Promise!Taken, Stored, SameIdentity
  <2> QED BY <2>2 DEF Promise!Next
<1>12. CASE Quiescent \/ UNCHANGED vars
  BY <1>6, <1>12 DEF Quiescent, vars, db
<1> QED BY <1>1, <1>2, <1>3, <1>5, <1>7, <1>8, <1>9, <1>10, <1>11, <1>12, <1>13
        DEF Next

(* The consumer implements its promise: whatever is redelivered, lost,     *)
(* stopped or raced, an id keeps the body it came with first, the row of   *)
(* the inbox and the transaction appear together and once, and only what   *)
(* is recorded is acknowledged.                                            *)
THEOREM PromiseAlwaysKept == Spec => ImplementsPromise
<1>1. Init => Promise!Init
  BY DEF Init, Promise!Init
<1> QED BY <1>1, InvAlways, PromiseStep, PTL DEF Spec, ImplementsPromise, Promise!Spec

-----------------------------------------------------------------------------
(* What no message can lose *)

\* What has gone wrong so far, for whatever reason.
Faults == errors + lapses + stops

\* Nothing that happens can make the message take effect any more.
Settled(m) ==
  body[m].form # "good" \/ inbox[body[m].id] # None \/ Decided(body[m])

\* A running goroutine has the message, by the receive that hides it.
Underway(m) ==
  \E w \in Goroutines : receipt[m] = w /\ Running(w) /\ (m \in todo[w] \/ current[w] = m)

\* A goroutine at rest has nothing, and a process that is gone is at rest.
AtRest ==
  \A w \in Goroutines :
    /\ pc[w] \in {"idle", "next"} => current[w] = None
    /\ pc[w] = "idle" => todo[w] = {}
    /\ run[InstanceOf[w]] \in {"stopped", "crashed"} => pc[w] = "idle"

\* What a goroutine holds for poison, and what it goes on with.
Judged ==
  /\ \A w \in Goroutines :
       /\ pc[w] = "poison" => Settled(current[w]) /\ ~Good(current[w])
       /\ pc[w] \in {"insert", "effect"} => body[current[w]].form = "good"
  /\ \A i \in Ids : inbox[i] # None => \E n \in Messages : inbox[i] = body[n] /\ body[n].id = i

\* The receives of a message are paid for by faults, but for the one that is under way.
Paid(m, n) == n <= Faults \/ (Underway(m) /\ n <= Faults + 1)

\* A settled message that is good has had one more at most, by the 23505, and no other comes.
Account(m) ==
  mailbox[m] = "queued" =>
    \/ Paid(m, receives[m])
    \/ /\ Settled(m)
       /\ Good(m) => /\ Paid(m, receives[m] - 1)
                     /\ \A w \in Goroutines : ~(pc[w] = "insert" /\ current[w] = m)

\* Every message has its account, and faults are bounded.
Accounts ==
  /\ Faults <= MaxFaults
  /\ \A m \in Messages : Account(m)
  /\ ReceivesHaveCause

\* A message leaves the queue undecided only when it was received more often than faults explain.
Deaths ==
  \A m \in Messages : mailbox[m] = "dead" =>
    /\ MaxFaults < MaxReceives => Settled(m)
    /\ 2 + MaxFaults <= MaxReceives => ~Good(m)

\* While no call has failed, what is earlier than a message that a goroutine has is settled.
Ordered ==
  errors = 0 =>
    /\ \A w \in Goroutines, m \in Messages, n \in Messages :
         /\ Running(w) /\ n \in todo[w] /\ Earlier(m, n) =>
              m \in todo[w] \/ m = current[w] \/ Settled(m)
         /\ current[w] = n /\ Earlier(m, n) => Settled(m)
    /\ \A n \in applied, m \in Messages : Earlier(m, n) => Settled(m)

\* What has happened stays: bodies, rows of the inbox, and what settles a message.
LEMMA HistoryKept ==
  ASSUME Inv, [Next]_vars
  PROVE  /\ body' = body
         /\ \A i \in Ids : inbox[i] # None => inbox'[i] = inbox[i]
         /\ \A i \in Ids : inbox'[i] # None =>
              \/ inbox[i] # None
              \/ \E n \in Messages : inbox'[i] = body[n] /\ body[n].id = i
         /\ \A m \in Messages : Settled(m) => Settled(m)'
<1>1. [Promise!Next]_(Promise!promise)
  BY PromiseStep
<1>2. \A m \in Messages : body[m].id \in Ids /\ Request(m) \in Requests /\ Promise!Request(m) = Request(m)
  BY BodyTyped DEF Inv, TypeOK, Request, RequestOf, Promise!Request
<1>3. body' = body
  BY <1>1 DEF Promise!Next, Promise!promise, Promise!Record, Promise!Apply, Promise!Acknowledge,
              Promise!ApplyElsewhere
<1>4. \/ inbox' = inbox
      \/ \E m \in Messages : inbox[body[m].id] = None /\ inbox' = [inbox EXCEPT ![body[m].id] = body[m]]
  BY <1>1 DEF Promise!Next, Promise!promise, Promise!Record, Promise!Apply, Promise!Acknowledge,
              Promise!ApplyElsewhere
<1>5. \/ rows' = rows
      \/ \E r \in Requests : rows' = [rows EXCEPT ![r] = 1]
  <2>1. Elsewhere \subseteq Requests
    BY DEF Requests
  <2> QED BY <1>1, <1>2, <2>1 DEF Promise!Next, Promise!promise, Promise!Record, Promise!Apply,
                                  Promise!Acknowledge, Promise!ApplyElsewhere
<1>6. \A s \in Requests : Stored(s) => Stored(s)'
  BY <1>5 DEF Inv, TypeOK, Stored
<1>7. \A i \in Ids : inbox[i] # None => inbox'[i] = inbox[i]
  BY <1>2, <1>4 DEF Inv, TypeOK
<1>8. \A i \in Ids : inbox'[i] # None =>
        inbox[i] # None \/ \E n \in Messages : inbox'[i] = body[n] /\ body[n].id = i
  BY <1>2, <1>4 DEF Inv, TypeOK
<1>9. ASSUME NEW m \in Messages, Settled(m) PROVE Settled(m)'
  <2>1. inbox[body[m].id] # None => inbox'[body[m].id] # None
    BY <1>2, <1>7
  <2>2. Decided(body[m]) => Decided(body[m])'
    BY <1>3, <1>6 DEF Decided
  <2> QED BY <1>3, <1>9, <2>1, <2>2 DEF Settled
<1> QED BY <1>3, <1>7, <1>8, <1>9

\* A message with a body of its own under its id keeps it; being good never changes.
LEMMA GoodKept == ASSUME body' = body, NEW m \in Messages PROVE Good(m)' <=> Good(m)
BY DEF Good

\* Only COMMIT of a message that nothing has settled adds to what is applied.
LEMMA AppliedBy ==
  ASSUME Inv, Judged, [Next]_vars, NEW m \in Messages, m \in applied' \ applied
  PROVE  ~Settled(m) /\ \E w \in Goroutines : current[w] = m
<1>1. PICK w \in Goroutines : pc[w] = "effect" /\ current[w] = m
  <2>1. ASSUME NEW w \in Goroutines, Write(w) PROVE pc[w] = "effect" /\ current[w] = m
    BY <2>1 DEF Write
  <2>2. ASSUME NEW w \in Goroutines, GoroutineStep(w) \/ CallFails(w) \/ CallCancelled(w)
        PROVE  Write(w)
    BY <2>2 DEF GoroutineStep, Receive, StartMessage, Poison, InsertInbox, Execute,
                InsertTransaction, Commit, Delete, CallFails, CallCancelled, CallLost, queue, db
  <2>3. \E w \in Goroutines : GoroutineStep(w) \/ CallFails(w) \/ CallCancelled(w)
    BY DEF Next, ProcessStep, SkipRest, ReceiveLost, Drained, ReleaseInFlight, Exit, Restart,
           BeginStop, Crash, Gone, VisibilityTimeout, Redrive, ProcessElsewhere, Quiescent, db, vars
  <2> QED BY <2>1, <2>2, <2>3
<1>2. body[m].form = "good"
  BY <1>1 DEF Judged
<1>3. inbox[body[m].id] = None
  BY <1>1 DEF Inv, Claims, StagedAlone, Staged
<1>4. ~Decided(body[m])
  BY <1>1 DEF Inv, Claims, EffectAlone, Decided, Request, SameIdentity
<1> QED BY <1>1, <1>2, <1>3, <1>4 DEF Settled

-----------------------------------------------------------------------------
(* Who has what *)

\* One goroutine of a process that is there moves, and is at rest as it should be.
LEMMA AtRestKept ==
  ASSUME TypeOK, AtRest, NEW w \in Goroutines,
         run[InstanceOf[w]] \notin {"stopped", "crashed"}, run' = run,
         \A v \in Goroutines : v # w => pc'[v] = pc[v] /\ current'[v] = current[v] /\ todo'[v] = todo[v],
         pc'[w] \in {"idle", "next"} => current'[w] = None,
         pc'[w] = "idle" => todo'[w] = {}
  PROVE  AtRest'
BY DEF AtRest

\* Every step keeps that: only a process that is there has goroutines at work.
LEMMA AtRestStep == TypeOK /\ AtRest /\ [Next]_vars => AtRest'
<1> SUFFICES ASSUME TypeOK, AtRest, [Next]_vars PROVE AtRest'
  OBVIOUS
<1> USE ConsumerAssumption
<1>r. ASSUME NEW w \in Goroutines, Return(w), pc[w] # "idle" PROVE AtRest'
  <2>1. run[InstanceOf[w]] \notin {"stopped", "crashed"}
    BY <1>r DEF AtRest
  <2>2. /\ pc'[w] = IF todo[w] = {} THEN "idle" ELSE "next"
        /\ current'[w] = None /\ todo' = todo /\ run' = run
        /\ \A v \in Goroutines : v # w => pc'[v] = pc[v] /\ current'[v] = current[v]
    BY <1>r DEF Return, TypeOK
  <2> QED BY <2>1, <2>2, AtRestKept
<1>g. ASSUME NEW w \in Goroutines, NEW label \in Calling, Goto(w, label), Running(w)
      PROVE  AtRest'
  <2>1. /\ pc'[w] = label /\ UNCHANGED <<run, todo, current>>
        /\ \A v \in Goroutines : v # w => pc'[v] = pc[v]
    BY <1>g DEF Goto, TypeOK
  <2> QED BY <1>g, <2>1, AtRestKept DEF Running, Calling
<1>1. ASSUME NEW w \in Goroutines, NEW g \in Groups, Receive(w, g) PROVE AtRest'
  BY <1>1 DEF Receive, AtRest, TypeOK, Running
<1>2. ASSUME NEW w \in Goroutines, NEW m \in Messages, StartMessage(w, m) PROVE AtRest'
  BY <1>2 DEF StartMessage, AtRest, TypeOK, Running
<1>3. ASSUME NEW w \in Goroutines, Poison(w) \/ Delete(w) \/ CallFails(w) \/ CallCancelled(w)
      PROVE  AtRest'
  BY <1>3, <1>r DEF Poison, Delete, CallFails, CallCancelled, CallLost, Calling
<1>4. ASSUME NEW w \in Goroutines,
             InsertInbox(w) \/ Execute(w) \/ InsertTransaction(w) \/ Commit(w)
      PROVE  AtRest'
  <2>1. Running(w) /\ pc[w] # "idle" /\ (Return(w) \/ \E label \in Calling : Goto(w, label))
    BY <1>4 DEF InsertInbox, Execute, InsertTransaction, Commit, CommitLabels, Calling
  <2> QED BY <2>1, <1>r, <1>g
<1>5. ASSUME NEW w \in Goroutines, SkipRest(w) PROVE AtRest'
  BY <1>5 DEF SkipRest, AtRest, TypeOK
<1>6. ASSUME UNCHANGED <<run, todo, current, pc>> PROVE AtRest'
  BY <1>6 DEF AtRest
<1>7. ASSUME NEW i \in Instances, Drained(i) PROVE AtRest'
  BY <1>7 DEF Drained, Crew, AtRest, TypeOK
<1>8. ASSUME NEW i \in Instances, ReleaseInFlight(i) \/ Restart(i) \/ BeginStop(i) PROVE AtRest'
  BY <1>8 DEF ReleaseInFlight, Restart, BeginStop, AtRest, TypeOK
<1>9. ASSUME NEW i \in Instances, Exit(i) \/ Crash(i) PROVE AtRest'
  <2>1. PICK how : Gone(i, how)
    BY <1>9 DEF Exit, Crash
  <2> QED BY <2>1 DEF Gone, Crew, AtRest, TypeOK
<1>10. CASE \/ \E w \in Goroutines, g \in Groups : ReceiveLost(w, g)
            \/ \E g \in Groups : VisibilityTimeout(g)
            \/ \E m \in Messages : Redrive(m)
            \/ \E r \in Elsewhere : ProcessElsewhere(r)
            \/ Quiescent \/ UNCHANGED vars
  BY <1>6, <1>10 DEF ReceiveLost, VisibilityTimeout, Redrive, ProcessElsewhere, Quiescent, vars
<1> QED BY <1>1, <1>2, <1>3, <1>4, <1>5, <1>7, <1>8, <1>9, <1>10
        DEF Next, GoroutineStep, ProcessStep

\* Goroutines that go on as they were, or with a judgement that is right, keep it so.
LEMMA JudgedKept ==
  ASSUME Inv, Judged, [Next]_vars,
         \A v \in Goroutines :
           \/ pc'[v] \notin {"poison", "insert", "effect"}
           \/ pc'[v] = pc[v] /\ current'[v] = current[v]
           \/ pc'[v] = "poison" /\ Settled(current'[v]) /\ ~Good(current'[v])
           \/ pc'[v] \in {"insert", "effect"} /\ body[current'[v]].form = "good"
  PROVE  Judged'
<1>1. TypeOK' /\ TypeOK
  BY TypeStep DEF Inv
<1>2. ASSUME NEW v \in Goroutines, pc'[v] = "poison"
      PROVE  Settled(current[v])' /\ ~Good(current[v])'
  <2>1. PICK m \in Messages : m = current'[v]
    BY <1>1, <1>2 DEF TypeOK, Calling
  <2>2. Settled(m) /\ ~Good(m)
    BY <1>2, <2>1 DEF Judged
  <2>3. Settled(m)' /\ ~Good(m)'
    BY <2>2, HistoryKept, GoodKept
  <2> QED BY <2>1, <2>3
<1>3. ASSUME NEW v \in Goroutines, pc'[v] \in {"insert", "effect"}
      PROVE  body'[current'[v]].form = "good"
  BY <1>3, HistoryKept DEF Judged
<1>4. ASSUME NEW i \in Ids, inbox'[i] # None
      PROVE  \E n \in Messages : inbox'[i] = body'[n] /\ body'[n].id = i
  BY <1>4, HistoryKept DEF Judged
<1> QED BY <1>2, <1>3, <1>4 DEF Judged

\* Poison is for what nobody can process, and only good bodies are inserted.
LEMMA JudgedStep == Inv /\ Judged /\ [Next]_vars => Judged'
<1> SUFFICES ASSUME Inv, Judged, [Next]_vars PROVE Judged'
  OBVIOUS
<1> DEFINE Kin(v) == pc'[v] = pc[v] /\ current'[v] = current[v]
           Idle(v) == pc'[v] \notin {"poison", "insert", "effect"}
<1>0. TypeOK
  BY DEF Inv
<1>r. ASSUME NEW w \in Goroutines, Return(w) PROVE Judged'
  <2>1. \A v \in Goroutines : Idle(v) \/ Kin(v)
    BY <1>0, <1>r DEF Return, TypeOK
  <2> QED BY <2>1, JudgedKept
<1>g. ASSUME NEW w \in Goroutines, NEW label, Goto(w, label),
             label = "poison" => Settled(current[w]) /\ ~Good(current[w]),
             label \in {"insert", "effect"} => body[current[w]].form = "good"
      PROVE  Judged'
  <2>1. /\ current' = current /\ pc'[w] = label
        /\ \A v \in Goroutines : v # w => pc'[v] = pc[v]
    BY <1>0, <1>g DEF Goto, TypeOK
  <2> QED BY <1>g, <2>1, JudgedKept
<1>1. ASSUME NEW w \in Goroutines, NEW g \in Groups, Receive(w, g) PROVE Judged'
  <2>1. \A v \in Goroutines : Idle(v) \/ Kin(v)
    BY <1>0, <1>1 DEF Receive, TypeOK
  <2> QED BY <2>1, JudgedKept
<1>2. ASSUME NEW w \in Goroutines, NEW m \in Messages, StartMessage(w, m) PROVE Judged'
  <2>1. /\ current'[w] = m
        /\ pc'[w] = IF body[m].form \in {"malformed", "unusable"} THEN "poison" ELSE "inbox"
        /\ \A v \in Goroutines : v # w => Kin(v)
    BY <1>0, <1>2 DEF StartMessage, TypeOK
  <2>2. body[m].form \in {"malformed", "unusable"} => Settled(m) /\ ~Good(m)
    BY DEF Settled, Good
  <2> QED BY <2>1, <2>2, JudgedKept
<1>3. ASSUME NEW w \in Goroutines, Poison(w) \/ Delete(w) \/ CallFails(w) \/ CallCancelled(w)
      PROVE  Judged'
  BY <1>3, <1>r DEF Poison, Delete, CallFails, CallCancelled, CallLost
<1>4. ASSUME NEW w \in Goroutines, InsertInbox(w) PROVE Judged'
  <2>1. PICK m \in Messages : m = current[w]
    BY <1>0, <1>4 DEF InsertInbox, TypeOK, Calling
  <2>2. body[m].id \in Ids /\ body[m] # None
    BY <1>0, BodyTyped DEF TypeOK
  <2>3. CASE inbox[body[m].id] \notin {None, body[m]} /\ Goto(w, "poison")
    <3>1. PICK n \in Messages : inbox[body[m].id] = body[n] /\ body[n].id = body[m].id
      BY <2>2, <2>3 DEF Judged
    <3>2. Settled(m) /\ ~Good(m)
      BY <2>3, <3>1 DEF Settled, Good
    <3> QED BY <2>1, <2>3, <3>2, <1>g
  <2>4. CASE Goto(w, "execute") \/ Goto(w, "replay")
    BY <2>4, <1>g
  <2> QED BY <1>4, <2>1, <2>3, <2>4 DEF InsertInbox
<1>5. ASSUME NEW w \in Goroutines, Execute(w) \/ InsertTransaction(w) \/ Commit(w) PROVE Judged'
  <2>1. CASE Return(w)
    BY <2>1, <1>r
  <2>2. CASE Goto(w, "record") \/ Goto(w, "delete")
    BY <2>2, <1>g
  <2>3. CASE (Goto(w, "insert") \/ Goto(w, "effect")) /\ body[current[w]].form = "good"
    BY <2>3, <1>g
  <2> QED BY <1>5, <2>1, <2>2, <2>3 DEF Execute, InsertTransaction, Commit, Judged
<1>6. ASSUME \A v \in Goroutines : Idle(v) \/ Kin(v) PROVE Judged'
  BY <1>6, JudgedKept
<1>7. ASSUME NEW w \in Goroutines, SkipRest(w) PROVE Judged'
  <2>1. \A v \in Goroutines : Idle(v) \/ Kin(v)
    BY <1>0, <1>7 DEF SkipRest, TypeOK
  <2> QED BY <2>1, <1>6
<1>8. ASSUME NEW i \in Instances, Exit(i) \/ Crash(i) PROVE Judged'
  <2>1. \A v \in Goroutines : Idle(v) \/ Kin(v)
    BY <1>0, <1>8 DEF Exit, Crash, Gone, TypeOK
  <2> QED BY <2>1, <1>6
<1>9. ASSUME UNCHANGED <<current, pc>> PROVE Judged'
  BY <1>9, <1>6
<1>10. CASE \/ \E w \in Goroutines, g \in Groups : ReceiveLost(w, g)
            \/ \E i \in Instances : Drained(i) \/ ReleaseInFlight(i) \/ Restart(i) \/ BeginStop(i)
            \/ \E g \in Groups : VisibilityTimeout(g)
            \/ \E m \in Messages : Redrive(m)
            \/ \E r \in Elsewhere : ProcessElsewhere(r)
            \/ Quiescent \/ UNCHANGED vars
  BY <1>9, <1>10 DEF ReceiveLost, Drained, ReleaseInFlight, Restart, BeginStop, VisibilityTimeout,
                     Redrive, ProcessElsewhere, Quiescent, vars
<1> QED BY <1>1, <1>2, <1>3, <1>4, <1>5, <1>7, <1>8, <1>10
        DEF Next, GoroutineStep, ProcessStep

-----------------------------------------------------------------------------
(* What the receives of a message are for *)

\* Faults are counted up to their bound.
LEMMA FaultsStep ==
  ASSUME TypeOK, Faults <= MaxFaults, [Next]_vars
  PROVE  /\ Faults \in Nat /\ Faults' \in Nat
         /\ Faults <= Faults' /\ Faults' <= MaxFaults
<1>1. errors \in Nat /\ lapses \in Nat /\ stops \in Nat /\ MaxFaults \in Nat
  BY ConsumerAssumption DEF TypeOK
<1>2. CASE UNCHANGED bounds
  BY <1>1, <1>2 DEF Faults, bounds
<1> DEFINE Counted == /\ Faults < MaxFaults
                      /\ \/ errors' = errors + 1 /\ UNCHANGED <<lapses, stops>>
                         \/ lapses' = lapses + 1 /\ UNCHANGED <<errors, stops>>
                         \/ stops' = stops + 1 /\ UNCHANGED <<errors, lapses>>
<1>3. CASE Counted
  BY <1>1, <1>3 DEF Faults
<1>4. ASSUME NEW w \in Goroutines, GoroutineStep(w) PROVE UNCHANGED bounds
  BY <1>4 DEF GoroutineStep, Receive, StartMessage, Poison, InsertInbox, Execute,
              InsertTransaction, Commit, Delete, Goto
<1>5. ASSUME NEW w \in Goroutines, NEW g \in Groups, ReceiveLost(w, g) PROVE Counted
  BY <1>5 DEF ReceiveLost, MayFail, Faults
<1>6. ASSUME NEW w \in Goroutines, CallFails(w) PROVE Counted
  BY <1>6 DEF CallFails, MayFail, Faults
<1>7. ASSUME NEW i \in Instances, BeginStop(i) \/ Crash(i) PROVE Counted
  BY <1>7 DEF BeginStop, Crash, Gone, MayFail, Faults
<1>8. ASSUME NEW g \in Groups, VisibilityTimeout(g) PROVE Counted \/ UNCHANGED bounds
  BY <1>8 DEF VisibilityTimeout, MayFail, Faults, bounds
<1>9. ASSUME NEW w \in Goroutines, CallCancelled(w) \/ SkipRest(w) PROVE UNCHANGED bounds
  BY <1>9 DEF CallCancelled, SkipRest
<1>10. ASSUME NEW i \in Instances, ProcessStep(i) PROVE UNCHANGED bounds
  BY <1>10 DEF ProcessStep, Drained, ReleaseInFlight, Exit, Gone, Restart, bounds
<1>11. ASSUME \/ \E m \in Messages : Redrive(m)
              \/ \E r \in Elsewhere : ProcessElsewhere(r)
              \/ Quiescent \/ UNCHANGED vars
       PROVE  UNCHANGED bounds
  BY <1>11 DEF Redrive, ProcessElsewhere, Quiescent, vars, bounds
<1>12. Counted \/ UNCHANGED bounds
  BY <1>4, <1>5, <1>6, <1>7, <1>8, <1>9, <1>10, <1>11 DEF Next
<1> QED BY <1>2, <1>3, <1>12

\* An error, a lapse or a stop is one fault.
LEMMA FaultCounted ==
  ASSUME TypeOK,
         \/ errors' = errors + 1 /\ UNCHANGED <<lapses, stops>>
         \/ lapses' = lapses + 1 /\ UNCHANGED <<errors, stops>>
         \/ stops' = stops + 1 /\ UNCHANGED <<errors, lapses>>
  PROVE  Faults' = Faults + 1
BY DEF Faults, TypeOK

\* The queue hands out, and moves away, only what is visible in it.
LEMMA QueueStep ==
  ASSUME TypeOK, [Next]_vars, NEW m \in Messages
  PROVE  /\ mailbox'[m] = "queued" => mailbox[m] = "queued"
         /\ mailbox'[m] # "queued" => receives'[m] = receives[m]
         /\ mailbox'[m] = "dead" =>
              mailbox[m] = "dead" \/ (Visible(m) /\ receives[m] >= MaxReceives)
<1>1. CASE UNCHANGED <<mailbox, receives>>
  BY <1>1
<1>2. ASSUME NEW w \in Goroutines, pc[w] = "delete", receives' = receives,
             mailbox' = [mailbox EXCEPT ![current[w]] = IF @ = "queued" THEN "deleted" ELSE @]
      PROVE  /\ mailbox'[m] = "queued" => mailbox[m] = "queued"
             /\ mailbox'[m] = "dead" => mailbox[m] = "dead"
  BY <1>2 DEF TypeOK
<1>3. ASSUME NEW w \in Goroutines, NEW g \in Groups,
             mailbox' = mailbox, \E batch \in Batches(g) : Take(w, batch)
      PROVE  mailbox'[m] # "queued" => receives'[m] = receives[m]
  BY <1>3 DEF Batches, Available, Visible, Take
<1>4. ASSUME NEW w \in Goroutines, NEW g \in Groups, Receive(w, g) \/ ReceiveLost(w, g)
      PROVE  mailbox' = mailbox /\ \E batch \in Batches(g) : Take(w, batch)
  BY <1>4 DEF Receive, ReceiveLost
<1>5. ASSUME NEW w \in Goroutines, ~UNCHANGED <<mailbox, receives>>,
             \/ GoroutineStep(w) /\ ~(\E g \in Groups : Receive(w, g))
             \/ CallFails(w) \/ CallCancelled(w)
      PROVE  /\ receives' = receives /\ pc[w] = "delete"
             /\ mailbox' = [mailbox EXCEPT ![current[w]] = IF @ = "queued" THEN "deleted" ELSE @]
  BY <1>5 DEF GoroutineStep, StartMessage, Poison, InsertInbox, Execute, InsertTransaction,
              Commit, Delete, CallFails, CallCancelled, CallLost, queue
<1>6. ASSUME NEW n \in Messages, Redrive(n)
      PROVE  /\ receives' = receives
             /\ mailbox'[m] = "queued" => mailbox[m] = "queued"
             /\ mailbox'[m] = "dead" =>
                  mailbox[m] = "dead" \/ (Visible(m) /\ receives[m] >= MaxReceives)
  BY <1>6 DEF Redrive, Available, TypeOK
<1>7. ASSUME NEW w \in Goroutines, SkipRest(w) PROVE UNCHANGED <<mailbox, receives>>
  BY <1>7 DEF SkipRest, queue
<1>8. ASSUME NEW i \in Instances, ProcessStep(i) \/ BeginStop(i) \/ Crash(i)
      PROVE  UNCHANGED <<mailbox, receives>>
  BY <1>8 DEF ProcessStep, Drained, ReleaseInFlight, Exit, Restart, BeginStop, Crash, Gone, queue
<1>9. CASE \/ \E g \in Groups : VisibilityTimeout(g)
           \/ \E r \in Elsewhere : ProcessElsewhere(r)
           \/ Quiescent \/ UNCHANGED vars
  BY <1>1, <1>9 DEF VisibilityTimeout, ProcessElsewhere, Quiescent, vars, queue
<1> QED BY <1>1, <1>2, <1>3, <1>4, <1>5, <1>6, <1>7, <1>8, <1>9 DEF Next, GoroutineStep

\* A message keeps its account while its receives are as they were, who loses it
\* has a fault to show, and nobody takes it for an insert once it is settled.
LEMMA AccountKept ==
  ASSUME Inv, Faults <= MaxFaults, [Next]_vars, NEW m \in Messages, Account(m),
         receives'[m] = receives[m],
         Underway(m) => Underway(m)' \/ Faults' = Faults + 1,
         \A w \in Goroutines : pc'[w] = "insert" /\ current'[w] = m =>
           (pc[w] = "insert" /\ current[w] = m) \/ ~Settled(m)
  PROVE  Account(m)'
<1>1. TypeOK /\ receives[m] \in Nat
  BY DEF Inv, TypeOK
<1>2. Faults \in Nat /\ Faults' \in Nat /\ Faults <= Faults'
  BY <1>1, FaultsStep
<1>3. ASSUME NEW n \in Int, Paid(m, n) PROVE Paid(m, n)'
  BY <1>2, <1>3 DEF Paid
<1> SUFFICES ASSUME mailbox'[m] = "queued"
             PROVE  (\/ Paid(m, receives[m])
                     \/ /\ Settled(m)
                        /\ Good(m) => /\ Paid(m, receives[m] - 1)
                                      /\ \A w \in Goroutines : ~(pc[w] = "insert" /\ current[w] = m))'
  BY DEF Account
<1>4. mailbox[m] = "queued"
  BY <1>1, QueueStep
<1>5. CASE Paid(m, receives[m])
  <2>1. Paid(m, receives[m])'
    BY <1>1, <1>3, <1>5 DEF Paid
  <2> QED BY <2>1
<1>6. CASE /\ Settled(m)
           /\ Good(m) => /\ Paid(m, receives[m] - 1)
                         /\ \A w \in Goroutines : ~(pc[w] = "insert" /\ current[w] = m)
  <2>1. Settled(m)' /\ (Good(m)' <=> Good(m))
    BY <1>6, HistoryKept, GoodKept
  <2>2. Paid(m, receives[m] - 1) => Paid(m, receives[m] - 1)'
    BY <1>1, <1>3 DEF Paid
  <2> QED BY <1>6, <2>1, <2>2
<1> QED BY <1>4, <1>5, <1>6 DEF Account

\* A message stays under way while its goroutine, its receipt and its process do.
LEMMA UnderwayKept ==
  ASSUME NEW m \in Messages, Underway(m),
         \A w \in Goroutines : receipt[m] = w /\ Running(w) =>
           /\ receipt'[m] = w /\ Running(w)'
           /\ m \in todo[w] \/ current[w] = m => m \in todo'[w] \/ current'[w] = m
  PROVE  Underway(m)'
BY DEF Underway

\* A settled message that nobody can process is accounted for.
LEMMA SettledAccounted ==
  ASSUME Inv, [Next]_vars, NEW m \in Messages, Settled(m), ~Good(m)
  PROVE  Account(m)'
BY HistoryKept, GoodKept DEF Account

\* A goroutine that returns lets go of one message, and only of its own receipt.
LEMMA ReturnAccounted ==
  ASSUME Inv, Faults <= MaxFaults, [Next]_vars, NEW m \in Messages, Account(m),
         NEW w \in Goroutines, Return(w), receives' = receives,
         receipt'[m] = receipt[m] \/ (receipt[m] = w /\ current[w] = m),
         current[w] = m /\ receipt[m] = w /\ Running(w) => Faults' = Faults + 1
  PROVE  Account(m)'
<1>1. /\ todo' = todo /\ run' = run /\ pc'[w] # "insert"
      /\ \A v \in Goroutines : v # w => pc'[v] = pc[v] /\ current'[v] = current[v]
  BY DEF Return, Inv, TypeOK
<1>2. CASE current[w] = m /\ receipt[m] = w /\ Running(w)
  BY <1>1, <1>2, AccountKept
<1>3. CASE ~(current[w] = m /\ receipt[m] = w /\ Running(w))
  <2>1. ASSUME NEW v \in Goroutines, receipt[m] = v, Running(v)
        PROVE  /\ receipt'[m] = v /\ Running(v)'
               /\ m \in todo[v] \/ current[v] = m => m \in todo'[v] \/ current'[v] = m
    BY <1>1, <1>3, <2>1 DEF Running
  <2>2. Underway(m) => Underway(m)'
    BY <2>1, UnderwayKept
  <2> QED BY <1>1, <2>2, AccountKept
<1> QED BY <1>2, <1>3

\* A receive pays for itself while the message is under way, or is a fault.
LEMMA ReceiveAccounted ==
  ASSUME Inv, AtRest, Faults <= MaxFaults, [Next]_vars, NEW m \in Messages, Account(m),
         NEW w \in Goroutines, NEW g \in Groups, NEW batch \in Batches(g),
         Running(w), pc[w] = "idle", Take(w, batch), UNCHANGED <<run, current>>,
         \A v \in Goroutines : pc'[v] = pc[v] \/ pc'[v] = "next",
         \/ todo' = [todo EXCEPT ![w] = batch]
         \/ todo' = todo /\ Faults' = Faults + 1
  PROVE  Account(m)'
<1>1. TypeOK /\ Faults \in Nat /\ Faults' \in Nat /\ Faults <= Faults'
  BY FaultsStep DEF Inv
<1>2. receives[m] \in Nat /\ todo[w] = {} /\ current[w] = None /\ w # None
  BY <1>1, ConsumerAssumption DEF AtRest, TypeOK
<1>3. CASE m \notin batch
  <2>1. receives'[m] = receives[m] /\ receipt'[m] = receipt[m]
    BY <1>3 DEF Take
  <2>2. ASSUME NEW v \in Goroutines, receipt[m] = v, Running(v)
        PROVE  /\ receipt'[m] = v /\ Running(v)'
               /\ m \in todo[v] \/ current[v] = m => m \in todo'[v] \/ current'[v] = m
    BY <1>1, <1>2, <2>1, <2>2 DEF Running, TypeOK
  <2>3. Underway(m) => Underway(m)'
    BY <2>2, UnderwayKept
  <2> QED BY <2>1, <2>3, AccountKept
<1>4. CASE m \in batch
  <2>1. Visible(m) /\ ~Underway(m)
    <3>1. Visible(m)
      BY <1>4 DEF Batches, Available
    <3> QED BY <3>1, ConsumerAssumption DEF Visible, Underway
  <2>2. receives'[m] = receives[m] + 1 /\ receipt'[m] = w
    BY <1>4 DEF Take
  <2>3. Underway(m)' \/ Faults' = Faults + 1
    <3>1. CASE todo' = [todo EXCEPT ![w] = batch]
      <4>1. m \in todo'[w]
        BY <1>1, <1>4, <3>1 DEF TypeOK
      <4> QED BY <2>2, <4>1 DEF Underway, Running
    <3> QED BY <3>1
  <2> PICK k \in Nat : k = receives[m]
    BY <1>2
  <2>4. /\ Paid(m, k) => Paid(m, k + 1)'
        /\ Paid(m, k - 1) => Paid(m, k)'
    BY <1>1, <2>1, <2>3 DEF Paid
  <2>5. CASE Paid(m, k)
    <3>1. Paid(m, receives[m])'
      BY <2>2, <2>4, <2>5 DEF Paid
    <3> QED BY <3>1 DEF Account
  <2>6. CASE /\ Settled(m)
             /\ Good(m) => /\ Paid(m, k - 1)
                           /\ \A v \in Goroutines : ~(pc[v] = "insert" /\ current[v] = m)
    <3>1. Settled(m)' /\ (Good(m)' <=> Good(m))
      BY <2>6, HistoryKept, GoodKept
    <3>2. receives'[m] - 1 = k
      BY <2>2
    <3>3. Paid(m, k - 1) => Paid(m, receives[m] - 1)'
      BY <2>4, <3>2 DEF Paid
    <3>4. \A v \in Goroutines : pc'[v] = "insert" => pc[v] = "insert" /\ current'[v] = current[v]
      OBVIOUS
    <3> QED BY <2>6, <3>1, <3>3, <3>4 DEF Account
  <2>7. mailbox[m] = "queued"
    BY <2>1 DEF Visible
  <2> QED BY <2>5, <2>6, <2>7 DEF Account
<1> QED BY <1>3, <1>4

\* A goroutine at a call that goes on keeps what it has in hand.
LEMMA GotoAccounted ==
  ASSUME Inv, Faults <= MaxFaults, [Next]_vars, NEW m \in Messages, Account(m),
         NEW w \in Goroutines, NEW label, Goto(w, label), UNCHANGED queue,
         label = "insert" /\ current[w] = m => ~Settled(m)
  PROVE  Account(m)'
<1>1. /\ UNCHANGED <<run, todo, current>> /\ pc'[w] = label
      /\ \A v \in Goroutines : v # w => pc'[v] = pc[v]
  BY DEF Goto, Inv, TypeOK
<1>2. Underway(m) => Underway(m)'
  BY <1>1, UnderwayKept DEF queue, Running
<1> QED BY <1>1, <1>2, AccountKept DEF queue

\* Every step keeps the account of every message.
LEMMA AccountStep ==
  ASSUME Inv, AtRest, Judged, Faults <= MaxFaults, [Next]_vars,
         NEW m \in Messages, Account(m)
  PROVE  Account(m)'
<1>0. TypeOK
  BY DEF Inv
<1>1. ASSUME NEW w \in Goroutines, NEW g \in Groups, Receive(w, g) PROVE Account(m)'
  <2>1. PICK batch \in Batches(g) : Take(w, batch) /\ todo' = [todo EXCEPT ![w] = batch]
    BY <1>1 DEF Receive
  <2>2. \A v \in Goroutines : pc'[v] = pc[v] \/ pc'[v] = "next"
    BY <1>0, <1>1 DEF Receive, TypeOK
  <2> QED BY <1>1, <2>1, <2>2, ReceiveAccounted DEF Receive
<1>2. ASSUME NEW w \in Goroutines, NEW g \in Groups, ReceiveLost(w, g) PROVE Account(m)'
  <2>1. PICK batch \in Batches(g) : Take(w, batch)
    BY <1>2 DEF ReceiveLost
  <2>2. Faults' = Faults + 1
    BY <1>0, <1>2, FaultCounted DEF ReceiveLost
  <2> QED BY <1>2, <2>1, <2>2, ReceiveAccounted DEF ReceiveLost
<1>3. ASSUME NEW w \in Goroutines, NEW n \in Messages, StartMessage(w, n) PROVE Account(m)'
  <2>1. /\ current[w] = None /\ UNCHANGED <<queue, run>>
        /\ current'[w] = n /\ todo'[w] = todo[w] \ {n} /\ pc'[w] # "insert"
        /\ \A v \in Goroutines : v # w =>
             pc'[v] = pc[v] /\ current'[v] = current[v] /\ todo'[v] = todo[v]
    BY <1>0, <1>3 DEF StartMessage, AtRest, TypeOK
  <2>2. Underway(m) => Underway(m)'
    BY <2>1, UnderwayKept, ConsumerAssumption DEF queue, Running
  <2> QED BY <2>1, <2>2, AccountKept DEF queue
<1>4. ASSUME NEW w \in Goroutines, Poison(w) PROVE Account(m)'
  <2>1. CASE current[w] = m
    BY <1>4, <2>1, SettledAccounted DEF Judged, Poison
  <2>2. CASE current[w] # m
    <3>1. Return(w) /\ receives' = receives /\ receipt'[m] = receipt[m]
      BY <1>0, <1>4, <2>2 DEF Poison, MakeVisible, TypeOK
    <3> QED BY <2>2, <3>1, ReturnAccounted
  <2> QED BY <2>1, <2>2
<1>5. ASSUME NEW w \in Goroutines, InsertInbox(w) PROVE Account(m)'
  <2>1. UNCHANGED queue /\ \E label \in {"execute", "replay", "poison"} : Goto(w, label)
    BY <1>5 DEF InsertInbox
  <2> QED BY <2>1, GotoAccounted
<1>6. ASSUME NEW w \in Goroutines, Execute(w) PROVE Account(m)'
  <2>1. UNCHANGED queue
    BY <1>6 DEF Execute
  <2>2. CASE Return(w) /\ body[current[w]].form = "refused"
    <3>1. CASE current[w] = m
      <4>1. Settled(m) /\ ~Good(m)
        BY <2>2, <3>1 DEF Settled, Good
      <4> QED BY <4>1, SettledAccounted
    <3>2. CASE current[w] # m
      BY <2>1, <2>2, <3>2, ReturnAccounted DEF queue
    <3> QED BY <3>1, <3>2
  <2>3. CASE Goto(w, "record")
    BY <2>1, <2>3, GotoAccounted
  <2>4. CASE /\ Goto(w, "insert") /\ body[current[w]].form = "good"
             /\ \A s \in Requests : Stored(s) => ~SameIdentity(s, Request(current[w]))
    <3>1. ASSUME current[w] = m PROVE ~Settled(m)
      <4>1. inbox[body[m].id] = None
        BY <1>6, <3>1 DEF Execute, Inv, Claims, StagedAlone, Staged
      <4>2. ~Decided(body[m])
        BY <2>4, <3>1 DEF Decided, Request
      <4> QED BY <2>4, <3>1, <4>1, <4>2 DEF Settled
    <3> QED BY <2>1, <2>4, <3>1, GotoAccounted
  <2> QED BY <1>6, <2>2, <2>3, <2>4 DEF Execute
<1>7. ASSUME NEW w \in Goroutines, InsertTransaction(w) PROVE Account(m)'
  <2>1. UNCHANGED queue
    BY <1>7 DEF InsertTransaction
  <2>2. CASE Goto(w, "record") \/ Goto(w, "effect")
    BY <2>1, <2>2, GotoAccounted
  <2>3. CASE /\ Return(w) /\ UNCHANGED bounds
             /\ \E s \in Requests : Stored(s) /\ s.ext = Request(current[w]).ext
    <3>1. CASE current[w] # m
      BY <2>1, <2>3, <3>1, ReturnAccounted DEF queue
    <3>2. CASE current[w] = m
      <4>1. Settled(m)
        BY <2>3, <3>2 DEF Settled, Decided, Request, SameIdentity
      <4>2. CASE ~Good(m)
        BY <4>1, <4>2, SettledAccounted
      <4>3. CASE Good(m)
        <5>1. pc[w] = "insert"
          BY <1>7 DEF InsertTransaction
        <5>2. ASSUME NEW v \in Goroutines, pc'[v] = "insert", current'[v] = m PROVE FALSE
          <6>1. v # w /\ pc[v] = "insert" /\ current[v] = m
            BY <1>0, <2>3, <5>2 DEF Return, TypeOK
          <6> QED BY <3>2, <5>1, <6>1 DEF Inv, Claims, StagedAlone, Staged
        <5> PICK k \in Nat : k = receives[m]
          BY <1>0 DEF TypeOK
        <5>3. mailbox[m] = "queued" => Paid(m, k)
          BY <3>2, <4>3, <5>1 DEF Account
        <5>4. /\ receives'[m] = k /\ Faults' = Faults /\ Faults \in Nat
              /\ mailbox' = mailbox
          BY <1>0, <2>1, <2>3, FaultsStep DEF queue, bounds, Faults
        <5>5. Paid(m, k) => k - 1 <= Faults
          BY <5>4 DEF Paid
        <5>6. mailbox'[m] = "queued" => Paid(m, receives[m] - 1)'
          BY <5>3, <5>4, <5>5 DEF Paid
        <5>7. Settled(m)'
          BY <4>1, HistoryKept
        <5> QED BY <5>2, <5>6, <5>7 DEF Account
      <4> QED BY <4>2, <4>3
    <3> QED BY <3>1, <3>2
  <2> QED BY <1>7, <2>2, <2>3 DEF InsertTransaction
<1>8. ASSUME NEW w \in Goroutines, Commit(w) PROVE Account(m)'
  BY <1>8, GotoAccounted DEF Commit
<1>9. ASSUME NEW w \in Goroutines, Delete(w) PROVE Account(m)'
  <2>1. Return(w) /\ UNCHANGED <<receives, receipt>>
    BY <1>9 DEF Delete
  <2>2. CASE current[w] = m /\ receipt[m] = w
    <3>1. mailbox'[m] # "queued"
      BY <1>0, <1>9, <2>2 DEF Delete, TypeOK
    <3> QED BY <3>1 DEF Account
  <2> QED BY <2>1, <2>2, ReturnAccounted
<1>10. ASSUME NEW w \in Goroutines, CallLost(w), ~Running(w) \/ Faults' = Faults + 1
       PROVE  Account(m)'
  <2>1. /\ Return(w) /\ receives' = receives
        /\ receipt'[m] = receipt[m] \/ (receipt[m] = w /\ current[w] = m)
    BY <1>0, <1>10 DEF CallLost, MakeVisible, queue, TypeOK
  <2> QED BY <1>10, <2>1, ReturnAccounted
<1>11. ASSUME NEW w \in Goroutines, CallFails(w) PROVE Account(m)'
  <2>1. Faults' = Faults + 1
    BY <1>0, <1>11, FaultCounted DEF CallFails
  <2> QED BY <1>10, <1>11, <2>1 DEF CallFails
<1>12. ASSUME NEW w \in Goroutines, CallCancelled(w) PROVE Account(m)'
  BY <1>10, <1>12 DEF CallCancelled, Running
<1>13. ASSUME NEW w \in Goroutines, SkipRest(w) PROVE Account(m)'
  <2>1. /\ ~Running(w) /\ UNCHANGED <<queue, run, current>> /\ pc'[w] = "idle"
        /\ \A v \in Goroutines : v # w => pc'[v] = pc[v] /\ todo'[v] = todo[v]
    BY <1>0, <1>13 DEF SkipRest, Running, TypeOK
  <2>2. Underway(m) => Underway(m)'
    BY <2>1, UnderwayKept DEF queue, Running
  <2> QED BY <2>1, <2>2, AccountKept DEF queue
<1>14. ASSUME NEW i \in Instances, BeginStop(i) PROVE Account(m)'
  <2>1. Faults' = Faults + 1
    BY <1>0, <1>14, FaultCounted DEF BeginStop
  <2> QED BY <1>14, <2>1, AccountKept DEF BeginStop, queue
<1>15. ASSUME NEW i \in Instances, Drained(i) \/ Restart(i) PROVE Account(m)'
  <2>1. /\ UNCHANGED <<queue, todo, current, pc>>
        /\ \A v \in Goroutines : Running(v) => Running(v)'
    BY <1>0, <1>15, ConsumerAssumption DEF Drained, Restart, Running, TypeOK
  <2>2. Underway(m) => Underway(m)'
    BY <2>1, UnderwayKept DEF queue
  <2> QED BY <2>1, <2>2, AccountKept DEF queue
<1>16. ASSUME NEW i \in Instances, ReleaseInFlight(i) PROVE Account(m)'
  <2>1. /\ UNCHANGED <<receives, todo, current, pc>>
        /\ \A v \in Goroutines : Running(v) =>
             Running(v)' /\ v \notin Crew(i)
    BY <1>0, <1>16 DEF ReleaseInFlight, Running, Crew, TypeOK
  <2>2. \A v \in Goroutines : receipt[m] = v /\ v \notin Crew(i) => receipt'[m] = v
    BY <1>16 DEF ReleaseInFlight
  <2>3. Underway(m) => Underway(m)'
    BY <2>1, <2>2, UnderwayKept
  <2> QED BY <2>1, <2>3, AccountKept
<1>17. ASSUME NEW i \in Instances, Exit(i) \/ Crash(i) PROVE Account(m)'
  <2>1. PICK how \in {"stopped", "crashed"} : Gone(i, how)
    BY <1>17 DEF Exit, Crash
  <2>2. /\ UNCHANGED queue /\ \A v \in Goroutines : pc'[v] = "insert" =>
             pc[v] = "insert" /\ current'[v] = current[v]
    BY <2>1 DEF Gone
  <2>3. CASE Crash(i)
    <3>1. Faults' = Faults + 1
      BY <1>0, <2>3, FaultCounted DEF Crash, Gone
    <3> QED BY <2>2, <3>1, AccountKept DEF queue
  <2>4. CASE Exit(i)
    <3>1. \A v \in Goroutines : Running(v) =>
            /\ Running(v)' /\ todo'[v] = todo[v] /\ current'[v] = current[v]
      BY <1>0, <2>4 DEF Exit, Gone, Running, Crew, TypeOK
    <3>2. Underway(m) => Underway(m)'
      BY <2>2, <3>1, UnderwayKept DEF queue
    <3> QED BY <2>2, <3>2, AccountKept DEF queue
  <2> QED BY <1>17, <2>3, <2>4
<1>18. ASSUME NEW g \in Groups, VisibilityTimeout(g) PROVE Account(m)'
  <2>1. UNCHANGED <<receives, run, todo, current, pc>>
    BY <1>18 DEF VisibilityTimeout
  <2>2. CASE \E n \in HiddenOf(g) : Held(n)
    <3>1. Faults' = Faults + 1
      BY <1>0, <1>18, <2>2, FaultCounted DEF VisibilityTimeout
    <3> QED BY <2>1, <3>1, AccountKept
  <2>3. CASE ~ \E n \in HiddenOf(g) : Held(n)
    <3>1. Underway(m) => m \notin HiddenOf(g)
      BY <1>0, <2>3, ConsumerAssumption DEF Held, HiddenOf, Hidden, Underway, TypeOK
    <3>2. Underway(m) => receipt'[m] = receipt[m]
      BY <1>18, <3>1 DEF VisibilityTimeout
    <3>3. Underway(m) => Underway(m)'
      BY <2>1, <3>2, UnderwayKept DEF Running
    <3> QED BY <2>1, <3>3, AccountKept
  <2> QED BY <2>2, <2>3
<1>19. ASSUME UNCHANGED <<receives, receipt, run, todo, current, pc>> PROVE Account(m)'
  <2>1. Underway(m) => Underway(m)'
    BY <1>19, UnderwayKept DEF Running
  <2> QED BY <1>19, <2>1, AccountKept
<1>20. CASE \/ \E n \in Messages : Redrive(n)
            \/ \E r \in Elsewhere : ProcessElsewhere(r)
            \/ Quiescent \/ UNCHANGED vars
  BY <1>19, <1>20 DEF Redrive, ProcessElsewhere, Quiescent, queue, vars
<1> QED BY <1>1, <1>2, <1>3, <1>4, <1>5, <1>6, <1>7, <1>8, <1>9, <1>11, <1>12, <1>13, <1>14,
           <1>15, <1>16, <1>17, <1>18, <1>20
        DEF Next, GoroutineStep, ProcessStep

\* What the accounts rest on.
Mail == Inv /\ AtRest /\ Judged /\ Accounts

\* Every step keeps the accounts, and with them the bound on receives.
LEMMA MailStep == Mail /\ [Next]_vars => Mail'
<1> SUFFICES ASSUME Inv, AtRest, Judged, Accounts, [Next]_vars PROVE Mail'
  BY DEF Mail
<1>1. TypeOK /\ Inv'
  BY TypeStep, ClaimsStep, TablesStep DEF Inv
<1>2. AtRest' /\ Judged'
  BY <1>1, AtRestStep, JudgedStep
<1>3. Faults \in Nat /\ Faults' \in Nat /\ Faults <= Faults' /\ Faults' <= MaxFaults
  BY <1>1, FaultsStep DEF Accounts
<1>4. \A m \in Messages : Account(m)'
  BY AccountStep DEF Accounts
<1>5. ASSUME NEW m \in Messages, Good(m)' PROVE receives'[m] <= 2 + Faults'
  <2>1. receives'[m] \in Nat /\ receives[m] \in Nat
    BY <1>1 DEF Inv, TypeOK
  <2>2. CASE mailbox'[m] = "queued"
    BY <1>3, <1>4, <1>5, <2>1, <2>2 DEF Account, Paid
  <2>3. CASE mailbox'[m] # "queued"
    <3>1. receives'[m] = receives[m]
      BY <1>1, <2>3, QueueStep
    <3>2. receives[m] <= 2 + Faults
      BY <1>1, <1>5, HistoryKept, GoodKept DEF Accounts, ReceivesHaveCause, Faults, TypeOK
    <3> QED BY <1>3, <2>1, <3>1, <3>2
  <2> QED BY <2>2, <2>3
<1>6. ReceivesHaveCause'
  <2>1. errors' \in Nat /\ lapses' \in Nat /\ stops' \in Nat
    BY <1>1 DEF Inv, TypeOK
  <2>2. 2 + Faults' = 2 + errors' + lapses' + stops'
    BY <2>1 DEF Faults
  <2> QED BY <1>5, <2>2 DEF ReceivesHaveCause
<1> QED BY <1>1, <1>2, <1>3, <1>4, <1>6 DEF Mail, Accounts

\* The initial states owe nothing.
LEMMA InitMail == Init => Mail
<1> SUFFICES ASSUME Init PROVE Mail
  OBVIOUS
<1>1. Inv
  BY InitInv
<1>2. AtRest
  BY ConsumerAssumption DEF Init, AtRest
<1>3. Judged
  BY DEF Init, Judged
<1>4. Faults = 0 /\ \A m \in Messages : receives[m] = 0
  BY DEF Init, Faults
<1>5. Accounts
  BY <1>4, ConsumerAssumption DEF Init, Accounts, Account, Paid, ReceivesHaveCause
<1> QED BY <1>1, <1>2, <1>3, <1>5 DEF Mail

\* The accounts hold in every state.
LEMMA MailAlways == Spec => []Mail
BY InitMail, MailStep, PTL DEF Spec

(* A message that can be processed is received again only for a failed     *)
(* call, a lapsed timeout, a stop, or the 23505 that a competitor caused   *)
(* once: no number of instances and competitors takes it further.          *)
THEOREM ReceivesAlwaysHaveCause == Spec => []ReceivesHaveCause
<1>1. Mail => ReceivesHaveCause
  BY DEF Mail, Accounts
<1> QED BY <1>1, MailAlways, PTL

\* Every step keeps what the dead-letter queue may hold.
LEMMA DeathsStep == Mail /\ Deaths /\ [Next]_vars => Deaths'
<1> SUFFICES ASSUME Mail, Deaths, [Next]_vars, NEW m \in Messages, mailbox'[m] = "dead"
             PROVE  /\ MaxFaults < MaxReceives => Settled(m)'
                    /\ 2 + MaxFaults <= MaxReceives => ~Good(m)'
  BY DEF Deaths
<1>1. Inv /\ TypeOK /\ Faults <= MaxFaults
  BY DEF Mail, Accounts, Inv
<1>2. /\ receives[m] \in Nat /\ Faults \in Nat
      /\ MaxFaults \in Nat /\ MaxReceives \in Nat
  BY <1>1, FaultsStep, ConsumerAssumption DEF TypeOK
<1>3. /\ MaxFaults < MaxReceives => Settled(m)
      /\ 2 + MaxFaults <= MaxReceives => ~Good(m)
  <2>1. CASE mailbox[m] = "dead"
    BY <2>1 DEF Deaths
  <2>2. CASE Visible(m) /\ receives[m] >= MaxReceives
    <3>1. ~Underway(m) /\ Account(m) /\ mailbox[m] = "queued"
      BY <2>2, ConsumerAssumption DEF Visible, Underway, Mail, Accounts
    <3>2. \/ receives[m] <= Faults
          \/ Settled(m) /\ (Good(m) => receives[m] - 1 <= Faults)
      BY <3>1 DEF Account, Paid
    <3> QED BY <1>1, <1>2, <2>2, <3>2
  <2> QED BY <1>1, <2>1, <2>2, QueueStep
<1> QED BY <1>1, <1>3, HistoryKept, GoodKept

-----------------------------------------------------------------------------
(* The order of a wallet *)

\* Goroutines that go on with what they had, or finish what is settled, keep the order.
LEMMA OrderKept ==
  ASSUME Mail, Ordered, [Next]_vars, errors' = 0 => errors = 0,
         \A v \in Goroutines :
           /\ current'[v] \in {None, current[v]}
           /\ Running(v)' /\ todo'[v] # {} =>
                /\ Running(v) /\ todo'[v] = todo[v]
                /\ \/ current'[v] = current[v]
                   \/ \A m \in Messages : m = current[v] => Settled(m)
  PROVE  Ordered'
<1> SUFFICES ASSUME errors' = 0
             PROVE  (/\ \A w \in Goroutines, m \in Messages, n \in Messages :
                          /\ Running(w) /\ n \in todo[w] /\ Earlier(m, n) =>
                               m \in todo[w] \/ m = current[w] \/ Settled(m)
                          /\ current[w] = n /\ Earlier(m, n) => Settled(m)
                     /\ \A n \in applied, m \in Messages : Earlier(m, n) => Settled(m))'
  BY DEF Ordered
<1>1. errors = 0 /\ Inv /\ Judged /\ TypeOK
  BY DEF Mail, Inv
<1>2. /\ \A m \in Messages : Settled(m) => Settled(m)'
      /\ \A m, n \in Messages : Earlier(m, n)' <=> Earlier(m, n)
  BY <1>1, HistoryKept DEF Earlier, GroupOf
<1>3. ASSUME NEW w \in Goroutines, NEW m \in Messages, NEW n \in Messages,
             Running(w)', n \in todo'[w], Earlier(m, n)
      PROVE  m \in todo'[w] \/ m = current'[w] \/ Settled(m)'
  <2>1. Running(w) /\ todo'[w] = todo[w]
    BY <1>3
  <2>2. m \in todo[w] \/ m = current[w] \/ Settled(m)
    BY <1>1, <1>3, <2>1 DEF Ordered
  <2> QED BY <1>2, <1>3, <2>1, <2>2
<1>4. ASSUME NEW w \in Goroutines, NEW m \in Messages, NEW n \in Messages,
             current'[w] = n, Earlier(m, n)
      PROVE  Settled(m)'
  <2>1. current[w] = n
    BY <1>4, ConsumerAssumption
  <2> QED BY <1>1, <1>2, <1>4, <2>1 DEF Ordered
<1>5. ASSUME NEW n \in applied', NEW m \in Messages, Earlier(m, n) PROVE Settled(m)'
  <2>1. n \in Messages
    BY <1>1, TypeStep DEF TypeOK
  <2>2. CASE n \in applied
    BY <1>1, <1>2, <1>5, <2>2 DEF Ordered
  <2>3. CASE n \notin applied
    <3>1. \E w \in Goroutines : current[w] = n
      BY <1>1, <2>1, <2>3, AppliedBy
    <3> QED BY <1>1, <1>2, <1>5, <2>1, <3>1 DEF Ordered
  <2> QED BY <2>2, <2>3
<1>6. \A n \in applied' : n \in Messages
  BY <1>1, TypeStep DEF TypeOK
<1> QED BY <1>2, <1>3, <1>4, <1>5, <1>6

\* So does a goroutine that returns from a message that is settled.
LEMMA ReturnOrdered ==
  ASSUME Mail, Ordered, [Next]_vars, NEW w \in Goroutines, Return(w), errors' = errors,
         Running(w) => \A m \in Messages : m = current[w] => Settled(m)
  PROVE  Ordered'
<1>1. /\ UNCHANGED <<run, todo>> /\ current'[w] = None
      /\ \A v \in Goroutines : v # w => current'[v] = current[v]
  BY DEF Return, Mail, Inv, TypeOK
<1> QED BY <1>1, OrderKept DEF Running

\* A batch is the head of its group: what comes before it has left the queue.
LEMMA HeadOfGroup ==
  ASSUME Mail, Deaths, MaxFaults < MaxReceives,
         NEW g \in Groups, NEW batch \in Batches(g),
         NEW n \in batch, NEW m \in Messages, Earlier(m, n)
  PROVE  m \in batch \/ Settled(m)
<1>1. Inv /\ TypeOK
  BY DEF Mail, Inv
<1>2. /\ batch \in SUBSET Available(g) /\ n \in Messages /\ GroupOf(n) = g
      /\ \A k \in Messages : GroupOf(k) = g => ~Hidden(k)
      /\ m \in Available(g) /\ m \notin batch => Place[n] < Place[m]
  BY DEF Batches, Available
<1>3. GroupOf(m) = g /\ Place[m] < Place[n] /\ Place[m] \in Nat /\ Place[n] \in Nat
  BY <1>2, ConsumerAssumption DEF Earlier
<1>4. CASE mailbox[m] = "queued"
  <2>1. m \in Available(g)
    BY <1>2, <1>3, <1>4 DEF Available, Hidden, Visible
  <2> QED BY <1>2, <1>3, <2>1
<1>5. CASE mailbox[m] = "deleted"
  <2>1. inbox[body[m].id] # None
    BY <1>1, <1>5, BodyTyped DEF Inv, Tables, TypeOK
  <2> QED BY <2>1 DEF Settled
<1>6. CASE mailbox[m] = "dead"
  BY <1>6 DEF Deaths
<1> QED BY <1>1, <1>4, <1>5, <1>6 DEF TypeOK

\* A batch that arrives is in order.
LEMMA ReceiveOrdered ==
  ASSUME Mail, Deaths, Ordered, MaxFaults < MaxReceives, [Next]_vars,
         NEW w \in Goroutines, NEW g \in Groups, Receive(w, g)
  PROVE  Ordered'
<1>1. PICK batch \in Batches(g) : todo' = [todo EXCEPT ![w] = batch]
  BY DEF Receive
<1>2. TypeOK /\ UNCHANGED <<body, db, run, current, bounds>>
  BY DEF Receive, Mail, Inv
<1>3. /\ todo'[w] = batch
      /\ \A v \in Goroutines : v # w => todo'[v] = todo[v]
  BY <1>1, <1>2 DEF TypeOK
<1>4. /\ \A m \in Messages : Settled(m)' <=> Settled(m)
      /\ \A m, n \in Messages : Earlier(m, n)' <=> Earlier(m, n)
  BY <1>2 DEF Settled, Decided, Stored, Earlier, GroupOf, db
<1>5. \A n \in batch, m \in Messages : Earlier(m, n) => m \in batch \/ Settled(m)
  BY HeadOfGroup
<1> SUFFICES ASSUME errors = 0 PROVE Ordered'
  BY <1>2 DEF Ordered, bounds
<1>6. ASSUME NEW v \in Goroutines, NEW m \in Messages, NEW n \in Messages,
             Running(v)', n \in todo'[v], Earlier(m, n)
      PROVE  m \in todo'[v] \/ m = current'[v] \/ Settled(m)
  <2>1. CASE v = w
    BY <1>3, <1>5, <1>6, <2>1
  <2>2. CASE v # w
    BY <1>2, <1>3, <1>6, <2>2 DEF Ordered, Running
  <2> QED BY <2>1, <2>2
<1> QED BY <1>2, <1>4, <1>6 DEF Ordered, db, bounds, TypeOK

\* The head of the batch is taken first.
LEMMA StartOrdered ==
  ASSUME Mail, Ordered, [Next]_vars,
         NEW w \in Goroutines, NEW k \in Messages, StartMessage(w, k)
  PROVE  Ordered'
<1>1. TypeOK /\ UNCHANGED <<body, db, run, bounds>> /\ current[w] = None /\ Running(w)
  BY DEF StartMessage, Mail, Inv, AtRest, queue
<1>2. /\ k \in todo[w] /\ \A n \in todo[w] : Place[k] <= Place[n]
      /\ todo'[w] = todo[w] \ {k} /\ current'[w] = k
      /\ \A v \in Goroutines : v # w => todo'[v] = todo[v] /\ current'[v] = current[v]
  BY <1>1 DEF StartMessage, TypeOK
<1>3. /\ \A m \in Messages : Settled(m)' <=> Settled(m)
      /\ \A m, n \in Messages : Earlier(m, n)' <=> Earlier(m, n)
  BY <1>1 DEF Settled, Decided, Stored, Earlier, GroupOf, db
<1> SUFFICES ASSUME errors = 0 PROVE Ordered'
  BY <1>1 DEF Ordered, bounds
<1>4. ASSUME NEW m \in Messages, NEW n \in todo[w], n \in Messages, Earlier(m, n)
      PROVE  m \in todo[w] \/ Settled(m)
  BY <1>1, <1>4, ConsumerAssumption DEF Ordered
<1>5. ASSUME NEW m \in Messages, Earlier(m, k) PROVE Settled(m)
  <2>1. Place[m] < Place[k] /\ Place[m] \in Nat /\ Place[k] \in Nat
    BY <1>5, ConsumerAssumption DEF Earlier
  <2>2. m \notin todo[w]
    BY <1>2, <2>1
  <2> QED BY <1>2, <1>4, <1>5, <2>2
<1>6. ASSUME NEW v \in Goroutines, NEW m \in Messages, NEW n \in Messages,
             Running(v)', n \in todo'[v], Earlier(m, n)
      PROVE  m \in todo'[v] \/ m = current'[v] \/ Settled(m)
  <2>1. CASE v = w
    BY <1>2, <1>4, <1>6, <2>1
  <2>2. CASE v # w
    BY <1>1, <1>2, <1>6, <2>2 DEF Ordered, Running
  <2> QED BY <2>1, <2>2
<1>7. ASSUME NEW v \in Goroutines, NEW m \in Messages, NEW n \in Messages,
             current'[v] = n, Earlier(m, n)
      PROVE  Settled(m)
  <2>1. CASE v = w
    BY <1>2, <1>5, <1>7, <2>1
  <2>2. CASE v # w
    BY <1>2, <1>7, <2>2 DEF Ordered
  <2> QED BY <2>1, <2>2
<1> QED BY <1>1, <1>3, <1>6, <1>7 DEF Ordered, db, bounds, TypeOK

\* Every step keeps the order.
LEMMA OrderStep ==
  ASSUME Mail, Deaths, Ordered, MaxFaults < MaxReceives, [Next]_vars PROVE Ordered'
<1>0. Inv /\ TypeOK /\ Judged /\ AtRest /\ InstanceOf \in [Goroutines -> Instances]
  BY ConsumerAssumption DEF Mail, Inv
<1>1. ASSUME NEW w \in Goroutines, NEW g \in Groups, Receive(w, g) PROVE Ordered'
  BY <1>1, ReceiveOrdered
<1>2. ASSUME NEW w \in Goroutines, NEW m \in Messages, StartMessage(w, m) PROVE Ordered'
  BY <1>2, StartOrdered
<1>k. ASSUME UNCHANGED <<run, todo, current>>, errors' = 0 => errors = 0 PROVE Ordered'
  BY <1>k, OrderKept DEF Running
<1>3. ASSUME NEW w \in Goroutines, Poison(w) PROVE Ordered'
  BY <1>0, <1>3, ReturnOrdered DEF Poison, Judged, bounds
<1>4. ASSUME NEW w \in Goroutines, NEW label, Goto(w, label) PROVE Ordered'
  BY <1>4, <1>k DEF Goto, bounds
<1>5. ASSUME NEW w \in Goroutines, InsertInbox(w) \/ Commit(w) PROVE Ordered'
  BY <1>4, <1>5 DEF InsertInbox, Commit
<1>6. ASSUME NEW w \in Goroutines, Execute(w) PROVE Ordered'
  <2>1. CASE Return(w) /\ body[current[w]].form = "refused" /\ UNCHANGED bounds
    BY <2>1, ReturnOrdered DEF Settled, bounds
  <2> QED BY <1>4, <1>6, <2>1 DEF Execute
<1>7. ASSUME NEW w \in Goroutines, InsertTransaction(w) PROVE Ordered'
  <2>1. CASE /\ Return(w) /\ UNCHANGED bounds
             /\ \E s \in Requests : Stored(s) /\ s.ext = Request(current[w]).ext
    <3>1. \A m \in Messages : m = current[w] => Settled(m)
      BY <2>1 DEF Settled, Decided, Request, SameIdentity
    <3> QED BY <2>1, <3>1, ReturnOrdered DEF bounds
  <2> QED BY <1>4, <1>7, <2>1 DEF InsertTransaction
<1>8. ASSUME NEW w \in Goroutines, Delete(w) PROVE Ordered'
  <2>1. \A m \in Messages : m = current[w] => inbox[body[m].id] # None
    BY <1>0, <1>8, BodyTyped DEF Delete, Inv, Claims, ReplayKnown, TypeOK
  <2> QED BY <1>8, <2>1, ReturnOrdered DEF Delete, Settled, bounds
<1>9. ASSUME errors' = errors + 1 PROVE Ordered'
  BY <1>0, <1>9 DEF Ordered, TypeOK
<1>10. ASSUME NEW w \in Goroutines, CallFails(w) PROVE Ordered'
  BY <1>9, <1>10 DEF CallFails
<1>11. ASSUME NEW w \in Goroutines, NEW g \in Groups, ReceiveLost(w, g) PROVE Ordered'
  BY <1>9, <1>11 DEF ReceiveLost
<1>12. ASSUME NEW w \in Goroutines, CallCancelled(w) PROVE Ordered'
  BY <1>12, ReturnOrdered DEF CallCancelled, CallLost, Running, bounds
<1>13. ASSUME NEW w \in Goroutines, SkipRest(w) PROVE Ordered'
  <2>1. /\ UNCHANGED <<run, current, bounds>> /\ todo'[w] = {}
        /\ \A v \in Goroutines : v # w => todo'[v] = todo[v]
    BY <1>0, <1>13 DEF SkipRest, TypeOK
  <2> QED BY <2>1, OrderKept DEF Running, bounds
<1>14. ASSUME NEW i \in Instances, BeginStop(i) \/ Drained(i) \/ ReleaseInFlight(i) PROVE Ordered'
  <2>1. /\ UNCHANGED <<todo, current>> /\ errors' = errors
        /\ \A v \in Goroutines : Running(v)' => Running(v)
    BY <1>0, <1>14 DEF BeginStop, Drained, ReleaseInFlight, Running, bounds, TypeOK
  <2> QED BY <2>1, OrderKept
<1>15. ASSUME NEW i \in Instances, Restart(i) PROVE Ordered'
  <2>1. /\ UNCHANGED <<todo, current>> /\ errors' = errors
        /\ \A v \in Goroutines : Running(v)' => Running(v) \/ todo[v] = {}
    BY <1>0, <1>15 DEF Restart, Running, AtRest, bounds, TypeOK
  <2> QED BY <2>1, OrderKept
<1>16. ASSUME NEW i \in Instances, Exit(i) \/ Crash(i) PROVE Ordered'
  <2>1. PICK how \in {"stopped", "crashed"} : Gone(i, how)
    BY <1>16 DEF Exit, Crash
  <2>2. /\ errors' = errors
        /\ \A v \in Goroutines :
             /\ current'[v] \in {None, current[v]}
             /\ Running(v)' => /\ Running(v) /\ todo'[v] = todo[v]
                               /\ current'[v] = current[v]
    BY <1>0, <2>1 DEF Gone, Running, Crew, TypeOK
  <2> QED BY <2>2, OrderKept
<1>17. ASSUME \/ \E g \in Groups : VisibilityTimeout(g)
             \/ \E m \in Messages : Redrive(m)
      PROVE  Ordered'
  BY <1>k, <1>17 DEF VisibilityTimeout, Redrive, bounds
<1>18. CASE \/ \E r \in Elsewhere : ProcessElsewhere(r)
            \/ Quiescent \/ UNCHANGED vars
  BY <1>k, <1>18 DEF ProcessElsewhere, Quiescent, bounds, vars
<1> QED BY <1>1, <1>2, <1>3, <1>5, <1>6, <1>7, <1>8, <1>10, <1>11, <1>12, <1>13, <1>14, <1>15,
           <1>16, <1>17, <1>18
        DEF Next, GoroutineStep, ProcessStep

(* While no call has failed, no message takes effect after a later one of  *)
(* its wallet, whoever crashes, stops, lapses or competes; provided that   *)
(* the redrive policy does not move a message away under the goroutine     *)
(* that handles it.                                                        *)
THEOREM OrderKeptUntilFailure ==
  ASSUME MaxFaults < MaxReceives PROVE Spec => OrderUntilFailure
<1> DEFINE I == Mail /\ Deaths /\ Ordered
<1>1. Init => Deaths /\ Ordered
  BY ConsumerAssumption DEF Init, Deaths, Ordered
<1>2. I /\ [Next]_vars => I'
  BY MailStep, DeathsStep, OrderStep
<1>3. ASSUME I, [Next]_vars PROVE errors = 0 => ~OutOfOrder
  <2>1. ASSUME errors = 0, NEW m \in applied' \ applied, NEW n \in applied, Earlier(m, n)
        PROVE  FALSE
    <3>1. m \in Messages /\ Inv /\ Judged
      BY <1>3, TypeStep DEF Mail, Inv, TypeOK
    <3> QED BY <1>3, <2>1, <3>1, AppliedBy DEF Ordered
  <2> QED BY <2>1 DEF OutOfOrder
<1>4. I /\ [Next]_vars => [errors = 0 => ~OutOfOrder]_vars
  BY <1>3
<1> QED BY <1>1, <1>2, <1>4, InitMail, PTL DEF Spec, OrderUntilFailure

(* The dead-letter queue never takes a message that can be processed, as   *)
(* long as maxReceiveCount exceeds the failures there may be by two.       *)
THEOREM GoodMessagesAlwaysSurvive == Spec => []GoodMessagesSurvive
<1>1. Init => Deaths
  BY DEF Init, Deaths
<1>2. Mail /\ Deaths /\ [Next]_vars => (Mail /\ Deaths)'
  BY MailStep, DeathsStep
<1>3. Deaths => GoodMessagesSurvive
  BY DEF Deaths, GoodMessagesSurvive
<1> QED BY <1>1, <1>2, <1>3, InitMail, PTL DEF Spec
=============================================================================
