------------------------------ MODULE MCWallet ------------------------------
(***************************************************************************)
(* Small instances of the write path for TLC.                              *)
(***************************************************************************)
EXTENDS WalletSafety, Functions

CONSTANTS c1, c2, c3, c4, r1, r2, w1, w2, ana, bia

Op(key, ext, kind, amount, ref) ==
  [provider |-> "acme", ext |-> ext, key |-> key, player |-> ana, wallet |-> w1,
   round |-> "r", game |-> "g", kind |-> kind, amount |-> amount,
   currency |-> "BRL", ref |-> ref]

Opening(w, player, currency, initial) ==
  [wallet |-> w, player |-> player, currency |-> currency, initial |-> initial]

MCMin == -4
MCMax == 3

\* Two wallets of the same player; the second may also lose the race for BRL.
OpeningsRace == {Opening(w1, ana, "BRL", 2), Opening(w2, ana, "USD", 0),
                 Opening(w2, ana, "BRL", 1)}

(* Requests that collide: the same bet twice, its key with another payload *)
(* (also against the other wallet), its external id with another key, a    *)
(* win that may overflow, a loss, a win for somebody else's wallet, and a  *)
(* refund of the bet, which waits when it comes first.                     *)
OpsRace ==
  LET bet == Op("k1", "e1", "BET", 2, None)
      win == Op("k3", "e3", "WIN", 2, None)
  IN <<bet, [bet EXCEPT !.amount = 1],
       [bet EXCEPT !.wallet = w2, !.currency = "USD", !.ext = "e2"],
       [bet EXCEPT !.wallet = w2, !.key = "k2"], [bet EXCEPT !.key = "k2"],
       win, Op("k4", "e4", "LOSS", 0, None), [win EXCEPT !.player = bia],
       Op("k5", "e5", "REFUND", 2, "e1")>>

OpeningsReferences == {Opening(w1, ana, "BRL", 1)}

(* A bet, two ways to reverse it, a rollback of its refund, a win and its  *)
(* rollback, a reversal of the wrong amount, one that names itself, and a  *)
(* win that leaves the wallet no room for a refund.                        *)
OpsReferences ==
  <<Op("k1", "e1", "BET", 1, None), Op("k2", "e2", "REFUND", 1, "e1"),
    Op("k3", "e3", "ROLLBACK", 1, "e1"), Op("k4", "e4", "ROLLBACK", 1, "e2"),
    Op("k5", "e5", "WIN", 2, None), Op("k6", "e6", "ROLLBACK", 2, "e5"),
    Op("k7", "e7", "REFUND", 2, "e1"), Op("k8", "e8", "REFUND", 1, "e8"),
    Op("k9", "e9", "WIN", 3, None)>>

\* Calls are interchangeable: every choice of requests, in one order only.
CallOrder == <<c1, c2, c3, c4>>
Place(c) == CHOOSE i \in 1 .. 4 : CallOrder[i] = c
Carry(ops, f) == [c \in Calls |-> ops[f[c]]]
InOrder(g, strict) ==
  \A c, d \in Calls :
    Place(c) < Place(d) => g[c] < g[d] \/ (~strict /\ g[c] = g[d])

RaceOps == Range(OpsRace)
RaceWorkloads ==
  {Carry(OpsRace, g) : g \in {f \in [Calls -> 1 .. 9] : InOrder(f, FALSE)}}

\* Different requests, among them the bet or the win that others refer to.
ReferenceOps == Range(OpsReferences)
ReferenceWorkloads ==
  {Carry(OpsReferences, g) : g \in
     {f \in [Calls -> 1 .. 8] : InOrder(f, TRUE) /\ {1, 5} \cap Range(f) # {}}}

Chosen(ops, sets) ==
  {Carry(ops, g) : g \in
     {f \in [Calls -> DOMAIN ops] : InOrder(f, TRUE) /\ Range(f) \in sets}}

\* The bet, its refund and the refund's rollback or the bet's: a chain and a race.
WorkerWorkloads == Chosen(OpsReferences, {{1, 2, 3}, {1, 2, 4}})

\* The chain, with a reversal that names itself, and with a full wallet.
WaitingWorkloads == Chosen(OpsReferences, {{1, 2, 4}, {1, 2, 8}, {1, 2, 9}})
FullWalletWorkloads == Chosen(OpsReferences, {{1, 2, 9}})
=============================================================================
