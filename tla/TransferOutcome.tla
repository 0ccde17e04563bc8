--------------------------- MODULE TransferOutcome ---------------------------
(***************************************************************************)
(* What a batch transfer promises, without wallets, databases or messages: *)
(* each recipient answers once and for all, the transaction is published   *)
(* only when all of them accepted (or the sender gives the assets away),   *)
(* and a recipient owns what it got only after that.                       *)
(***************************************************************************)
CONSTANT Recipients

VARIABLES
    gift,       \* the sender does not ask for the recipients' consent
    verdict,    \* the answer of each recipient
    published,  \* the transaction is on the network
    settled     \* the recipients whose transfer is final

vars == <<gift, verdict, published, settled>>

Init ==
    /\ gift = FALSE
    /\ verdict = [r \in Recipients |-> "none"]
    /\ published = FALSE
    /\ settled = {}

\* decided before anything else happens
GiveAway ==
    /\ verdict = [r \in Recipients |-> "none"]
    /\ ~published
    /\ gift' = TRUE
    /\ UNCHANGED <<verdict, published, settled>>

Answer(r) ==
    /\ verdict[r] = "none"
    /\ \E v \in {"ack", "nack"} : verdict' = [verdict EXCEPT ![r] = v]
    /\ UNCHANGED <<gift, published, settled>>

PublishTx ==
    /\ gift \/ \A r \in Recipients : verdict[r] = "ack"
    /\ published' = TRUE
    /\ UNCHANGED <<gift, verdict, settled>>

Settle(r) ==
    /\ published
    /\ verdict[r] # "none"
    /\ settled' = settled \cup {r}
    /\ UNCHANGED <<gift, verdict, published>>

Next ==
    \/ GiveAway
    \/ \E r \in Recipients : Answer(r) \/ Settle(r)
    \/ PublishTx

Spec == Init /\ [][Next]_vars

=============================================================================
