--------------------------- MODULE MCWalletStores ---------------------------
(* A small instance: two data directories, two assets that share a medium. *)
EXTENDS WalletStores, TLC
CONSTANTS d1, d2, s1, s2, a1, a2, m1, m2
MCMediaOf == (a1 :> {m1}) @@ (a2 :> {m1, m2})
Symmetry == Permutations({d1, d2}) \cup Permutations({s1, s2})
=============================================================================
