----------------------------- MODULE InboxPromise -----------------------------
(***************************************************************************)
(* What the consumer promises, whatever fails: the body that a message id  *)
(* came with first is recorded once, together with the one transaction it  *)
(* may cause, and only recorded messages are acknowledged.                 *)
(***************************************************************************)
EXTENDS Integers

CONSTANTS Messages, Workloads, Ids, Requests, Elsewhere, None

VARIABLES body, inbox, rows, applied, acknowledged

promise == <<body, inbox, rows, applied, acknowledged>>

Request(m) == [key |-> body[m].key, ext |-> body[m].ext, payload |-> body[m].payload]

Init ==
  /\ body \in Workloads
  /\ inbox = [i \in Ids |-> None]
  /\ rows = [r \in Requests |-> 0]
  /\ applied = {} /\ acknowledged = {}

\* A transaction has taken the key or the external id of r.
Taken(r) == \E s \in Requests : rows[s] > 0 /\ (s.key = r.key \/ s.ext = r.ext)

\* A replay or a conflict: the request was decided before.
Record(m) ==
  /\ inbox[body[m].id] = None /\ Taken(Request(m))
  /\ inbox' = [inbox EXCEPT ![body[m].id] = body[m]]
  /\ UNCHANGED <<body, rows, applied, acknowledged>>

Apply(m) ==
  /\ inbox[body[m].id] = None /\ ~Taken(Request(m))
  /\ inbox' = [inbox EXCEPT ![body[m].id] = body[m]]
  /\ rows' = [rows EXCEPT ![Request(m)] = 1]
  /\ applied' = applied \cup {m}
  /\ UNCHANGED <<body, acknowledged>>

Acknowledge(m) ==
  /\ inbox[body[m].id] = body[m]
  /\ acknowledged' = acknowledged \cup {m}
  /\ UNCHANGED <<body, inbox, rows, applied>>

ApplyElsewhere(r) ==
  /\ ~Taken(r)
  /\ rows' = [rows EXCEPT ![r] = 1]
  /\ UNCHANGED <<body, inbox, applied, acknowledged>>

Next ==
  \/ \E m \in Messages : Record(m) \/ Apply(m) \/ Acknowledge(m)
  \/ \E r \in Elsewhere : ApplyElsewhere(r)

Spec == Init /\ [][Next]_promise
=============================================================================
