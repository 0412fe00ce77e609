------------------------------ MODULE MCConsumer ------------------------------
(***************************************************************************)
(* Small instances of the consumer for TLC.                                *)
(***************************************************************************)
EXTENDS ConsumerSafety, TLC

CONSTANTS m1, m2, g1, g2, i1, i2, a1, b1

MCPlace == (m1 :> 1) @@ (m2 :> 2)
MCInstanceOf == (a1 :> i1) @@ (b1 :> i2)

Mail(group, id, key, ext, form) ==
  [group |-> group, id |-> id, key |-> key, ext |-> ext, payload |-> ext, form |-> form]

First == Mail(g1, "a", "k1", "e1", "good")
Pair(n) == (m1 :> First) @@ (m2 :> n)

(* After the first message comes: one of the same wallet whose external id *)
(* HTTP may take; the same one again; one of another wallet under its id;  *)
(* one under another id for its transaction.  Or the first cannot be read  *)
(* and holds up one of its wallet that is always refused.                  *)
MailPairs ==
  {Pair(Mail(g1, "b", "k2", "e2", "good")), Pair(First),
   Pair(Mail(g2, "a", "k3", "e3", "good")), Pair(Mail(g2, "b", "k1", "e1", "good")),
   (m1 :> [First EXCEPT !.form = "malformed"]) @@
     (m2 :> Mail(g1, "b", "k2", "e2", "refused"))}

\* Over HTTP: the external id of the second message under another key.
HttpCollide == {[key |-> "k9", ext |-> "e2", payload |-> "e2"]}
=============================================================================
