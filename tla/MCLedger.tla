------------------------------- MODULE MCLedger -------------------------------
(* Small instances of Ledger for TLC: two assets, of which b only ever moves  *)
(* along with a.                                                             *)
EXTENDS Ledger, TLC

CONSTANTS a, b, u1, u2, u3, t1, t2

At(txo, asset, amount) == [txo |-> txo, asset |-> asset, amount |-> amount]

\* a little of asset a, and more of it together with b
MCHolding == {At(u1, a, 1), At(u2, a, 2), At(u2, b, 1)}

Order(x, y) == (a :> x) @@ (b :> y)
MCOrders == {Order(1, 0), Order(2, 0), Order(1, 1)}
MCOrdersTwo == {Order(1, 0), Order(1, 1)}

MCSymmetry == Permutations({t1, t2})
=============================================================================
