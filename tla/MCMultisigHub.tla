--------------------------- MODULE MCMultisigHub ---------------------------
(* Small instances of MultisigHub.                                          *)
EXTENDS MultisigHub

CONSTANTS c1, c2, w1

TwoCosigners == {c1, c2}
Watcher == {w1}

TwoSignatures == [k \in Voted |-> 2]

\* Every kind occurs.  An inflation adds a row to batch_transfer and the other
\* kinds of the first operation add none, so the row of the second operation
\* depends on whether the first one was processed.
EveryKind == [i \in Idx |->
    IF i = 1 THEN {"Issuance", "CreateUtxos", "SendBtc", "Inflation"}
             ELSE {"SendRgb", "Burn", "BlindReceive", "WitnessReceive"}]
=============================================================================
