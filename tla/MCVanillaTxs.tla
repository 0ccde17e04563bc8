---------------------------- MODULE MCVanillaTxs ----------------------------
(* A small instance: one vanilla coin at the start, one output that        *)
(* another wallet pays to the colored keychain.                            *)
EXTENDS VanillaTxs
MCDeposits == {0}
MCReceipts == {-1}
=============================================================================
