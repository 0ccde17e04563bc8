----------------------------- MODULE MCBdkPersist -----------------------------
(* A small instance of BdkPersist for TLC.  The legacy stores are a whole one *)
(* and a truncated one in which the higher index can still be read.          *)
EXTENDS BdkPersist, TLC

CONSTANTS t1, t2

Store(index, whole) ==
    [content |-> [Fresh EXCEPT !.revealed = index], whole |-> whole]

MCOld == {Store(0, TRUE), Store(1, FALSE)}

MCSymmetry == Permutations({t1, t2})
=============================================================================
