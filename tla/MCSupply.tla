------------------------------ MODULE MCSupply ------------------------------
(* A small instance: an issuer and two wallets that receive.               *)
EXTENDS Supply, TLC
CONSTANTS w1, w2, w3
Symmetry == Permutations({w1, w2, w3})
=============================================================================
