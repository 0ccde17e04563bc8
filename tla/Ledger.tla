-------------------------------- MODULE Ledger --------------------------------
(***************************************************************************)
(* The allocations of one wallet: which UTXO holds, will hold or gives     *)
(* away how much of which asset, over several transfers in both directions.*)
(*                                                                         *)
(* The database has no balances and no locks.  It has txo rows with three  *)
(* flags, coloring rows that tie an amount on a TXO to a transfer, and the *)
(* status of each transfer; what is settled, spendable, reserved or        *)
(* awaited is computed from these each time it is needed.                  *)
(*                                                                         *)
(* Every API call is one action: it runs in one database transaction.  The *)
(* messages behind a step (consignments, ACKs) are those of RgbTransfer and *)
(* here a free choice: a transfer is accepted, answered or given up at any *)
(* time its status allows.  BTC amounts are left out: whether a TX needs   *)
(* one more input for its fee, or has a BTC change output, is open.        *)
(*                                                                         *)
(* The colorings of one transfer, asset and type on one TXO are one record *)
(* with their sum.  A definition marked "mutant" is a wrong version of the *)
(* one after it, used only to see that a property notices.                 *)
(***************************************************************************)
EXTENDS Integers, FiniteSets, FiniteSetsExt

CONSTANTS
    Assets,
    Utxos,      \* the colored UTXOs create_utxos made
    Outgoing,   \* transfers the wallet sends; also: their BTC change output
    Blind,      \* transfers it receives on one of its own TXOs
    Witness,    \* transfers it receives on a new output; also: that output
    Issuance,   \* the batch transfer of the initial allocations
    Nowhere,    \* no TXO
    Holding,    \* the initial allocations, [txo, asset, amount] records
    Orders,     \* what may be sent: functions from Assets to amounts
    Gifts,      \* the amounts that may be received
    Requests,   \* the amounts a witness invoice may ask for; 0: any
    MaxAllocs,  \* max_allocations_per_utxo
    MaxTopUps,  \* bound: inputs added to a TX for its fee
    MaxStrays,  \* bound: transfers whose send_end finds no reservation
    MaxFaults   \* bound: broadcasts whose database transaction is lost

Incoming == Blind \cup Witness
Transfers == Outgoing \cup Incoming \cup {Issuance}
Txos == Utxos \cup Outgoing \cup Witness

ASSUME IdentityAssumption ==
    /\ Outgoing \cap Incoming = {} /\ Blind \cap Witness = {}
    /\ Issuance \notin Outgoing \cup Incoming
    /\ Utxos \cap (Outgoing \cup Witness) = {}
    /\ Nowhere \notin Txos

ASSUME AmountAssumption ==
    /\ Holding \subseteq [txo: Utxos, asset: Assets, amount: Nat \ {0}]
    /\ Orders \subseteq [Assets -> Nat]
    /\ \A order \in Orders : \E a \in Assets : order[a] # 0
    /\ Gifts \subseteq Nat \ {0}
    /\ Requests \subseteq Nat

\* a wallet has finitely many TXOs, assets and allocations, and is used for
\* finitely many transfers
ASSUME FinitenessAssumption ==
    /\ IsFiniteSet(Assets) /\ IsFiniteSet(Holding)
    /\ IsFiniteSet(Utxos) /\ IsFiniteSet(Outgoing) /\ IsFiniteSet(Witness)

ASSUME BoundAssumption ==
    /\ MaxAllocs \in Nat \ {0}
    /\ MaxTopUps \in Nat
    /\ MaxStrays \in Nat
    /\ MaxFaults \in Nat

VARIABLES
    status,    \* of each transfer
    coloring,  \* the coloring rows
    known,     \* the TXOs that have a row
    exists,    \* those with exists = true
    spent,     \* those with spent = true
    pending,   \* those with pending_witness = true
    plan,      \* the transfer directory of each outgoing transfer
    promised,  \* the TXO of each blind invoice
    asked,     \* the amount of each witness invoice
    net,       \* the transfers whose TX is on the network
    strays,    \* the transfers ended without a reservation
    faults

txoVars == <<known, exists, spent, pending>>
invoiceVars == <<promised, asked>>
vars == <<status, coloring, txoVars, plan, invoiceVars, net, strays, faults>>

-----------------------------------------------------------------------------
(* Rows                                                                    *)

\* TransferStatus; "None" is a transfer without a row
Pending == {"Initiated", "WaitingCounterparty", "WaitingSafeHeight",
            "WaitingBroadcast", "WaitingConfirmations"}
Status == Pending \cup {"None", "Settled", "Failed"}

ColoringType == {"Issue", "Receive", "Change", "Input"}
Coloring == [txo: Txos, of: Transfers, type: ColoringType, asset: Assets,
             amount: Nat]

Moved == [txo: Txos, asset: Assets, amount: Nat]

\* what send_begin leaves in the transfer directory: the allocations the TX
\* moves, its other inputs, whether it has a BTC change output and is
\* broadcast without ACKs, and the seat of the assets that come back
Plan == [order: [Assets -> Nat], moved: SUBSET Moved, fees: SUBSET Txos,
         own: BOOLEAN, donation: BOOLEAN, seat: Txos \cup {Nowhere}]
NoPlan == [order |-> [a \in Assets |-> 0], moved |-> {}, fees |-> {},
           own |-> FALSE, donation |-> FALSE, seat |-> Nowhere]
Begun(t) == plan[t] # NoPlan

NotAsked == -1

Sum(records) == MapThenSumSet(LAMBDA r : r.amount, records)

\* the colorings of the initial allocations
Issued == {[txo |-> h.txo, of |-> Issuance, type |-> "Issue",
            asset |-> h.asset, amount |-> h.amount] : h \in Holding}

Init ==
    /\ status = [x \in Transfers |->
                    IF x = Issuance THEN "Settled" ELSE "None"]
    /\ coloring = Issued
    /\ known = Utxos
    /\ exists = Utxos
    /\ spent = {}
    /\ pending = {}
    /\ plan = [t \in Outgoing |-> NoPlan]
    /\ promised = [b \in Blind |-> Nowhere]
    /\ asked = [w \in Witness |-> NotAsked]
    /\ net = {}
    /\ strays = {}
    /\ faults = 0

-----------------------------------------------------------------------------
(* What the rows of a TXO say                                              *)

Rows(u) == {c \in coloring : c.txo = u}
StatusOf(c) == status[c.of]

\* DbColoring::incoming
Comes(c) == c.type # "Input"

\* the open blind invoices of a TXO
PendingBlinded(u) ==
    {b \in Blind : promised[b] = u /\ status[b] = "WaitingCounterparty"}

\* an outgoing transfer that is not on the network yet holds the TXO
Reserved(u) ==
    \E c \in Rows(u) :
        ~Comes(c) /\ StatusOf(c) \in {"Initiated", "WaitingCounterparty"}

\* something that is not settled yet comes to the TXO
Awaits(u) == \E c \in Rows(u) : Comes(c) /\ StatusOf(c) \in Pending

Unspent == known \ spent

\* mutant: an open blind invoice does not protect its TXO
UsableUnderInvoice ==
    {u \in Unspent \cap exists : u \notin pending /\ ~Reserved(u) /\ ~Awaits(u)}

\* mutant: a transfer that was only begun reserves nothing
UsableInitiated ==
    {u \in Unspent \cap exists :
        /\ u \notin pending
        /\ ~\E c \in Rows(u) :
              ~Comes(c) /\ StatusOf(c) = "WaitingCounterparty"
        /\ ~Awaits(u)
        /\ PendingBlinded(u) = {}}

\* get_input_unspents
Usable ==
    {u \in Unspent \cap exists :
        /\ u \notin pending
        /\ ~Reserved(u)
        /\ ~Awaits(u)
        /\ PendingBlinded(u) = {}}

\* get_available_allocations
Alive(u) == {c \in Rows(u) : StatusOf(c) # "Failed"}
Load(u) == Cardinality(Alive(u)) + Cardinality(PendingBlinded(u))
Available(excluded, max) ==
    {u \in Unspent \cap exists :
        /\ u \notin pending
        /\ u \notin excluded
        /\ Load(u) <= max
        /\ ~Reserved(u)}

\* get_utxo for a pending operation: one of the least loaded TXOs; but if it
\* holds something already, rather one that something else comes to
LeastLoaded(S) == {u \in S : \A v \in S : Load(u) <= Load(v)}
Pick(excluded) ==
    LET candidates == Available(excluded, MaxAllocs - 1)
        first == LeastLoaded(candidates)
        uncertain == {u \in candidates : Awaits(u)}
    IN  IF uncertain = {} THEN first
        ELSE {u \in first : Alive(u) = {}} \cup
             (IF \E u \in first : Alive(u) # {} THEN LeastLoaded(uncertain)
              ELSE {})

-----------------------------------------------------------------------------
(* Choosing the inputs and outputs of a transfer                           *)

Held(u, a) == {c \in Rows(u) : c.asset = a /\ StatusOf(c) = "Settled"}
Holds(S, a) == Sum(UNION {Held(u, a) : u \in S})

\* select_rgb_inputs: TXOs with the asset, by growing amounts, until there is
\* enough
IsSelection(S, a, amount) ==
    IF amount = 0 THEN S = {}
    ELSE /\ \A u \in S : Held(u, a) # {}
         /\ Holds(S, a) >= amount
         /\ \E last \in S :
               /\ Holds(S \ {last}, a) < amount
               /\ \A u \in S : Sum(Rows(u)) <= Sum(Rows(last))
               /\ \A v \in Usable \ S :
                     Held(v, a) # {} => Sum(Rows(last)) <= Sum(Rows(v))

Selects(inputs, order) ==
    \E S \in [Assets -> SUBSET inputs] :
        /\ inputs = UNION {S[a] : a \in Assets}
        /\ \A a \in Assets : IsSelection(S[a], a, order[a])

\* everything on an input moves, the allocations nobody asked for included
MovedFrom(inputs) ==
    UNION {{[txo |-> u, asset |-> a, amount |-> Sum(Held(u, a))] :
               a \in {b \in Assets : Held(u, b) # {}}} : u \in inputs}

\* try_prepare_psbt adds UTXOs without allocations until the fee is paid
TopUps(inputs) ==
    {F \in SUBSET {u \in Usable \ inputs : Alive(u) = {}} :
        Cardinality(F) <= MaxTopUps}

MovedOf(p, a) == {m \in p.moved : m.asset = a}
Back(p, a) == Sum(MovedOf(p, a)) - p.order[a]
SomethingBack(p) == \E a \in Assets : Back(p, a) > 0
RgbInputs(p) == {m.txo : m \in p.moved}
Spends(p) == RgbInputs(p) \cup p.fees

\* get_change_seal
Seats(t, p) ==
    IF ~SomethingBack(p) THEN {Nowhere}
    ELSE IF p.own THEN {t}
    ELSE Pick(Spends(p))

\* the outcome of send_begin_impl before its change has a seat
Draft(order, inputs, fees, own, donation) ==
    [order |-> order, moved |-> MovedFrom(inputs), fees |-> fees,
     own |-> own, donation |-> donation, seat |-> Nowhere]

InputRows(t, p) ==
    {[txo |-> m.txo, of |-> t, type |-> "Input", asset |-> m.asset,
      amount |-> m.amount] : m \in p.moved}
\* mutant: the allocations nobody asked for are forgotten
ChangeOfOrdered(t, p) ==
    {[txo |-> p.seat, of |-> t, type |-> "Change", asset |-> a,
      amount |-> Back(p, a)] :
        a \in {b \in Assets : Back(p, b) > 0 /\ p.order[b] > 0}}
ChangeRows(t, p) ==
    {[txo |-> p.seat, of |-> t, type |-> "Change", asset |-> a,
      amount |-> Back(p, a)] : a \in {b \in Assets : Back(p, b) > 0}}

-----------------------------------------------------------------------------
(* Sending                                                                 *)

\* save_transfers, its TXO row for a BTC change output included
Save(t, p, st) ==
    /\ status' = [status EXCEPT ![t] = st]
    /\ coloring' = coloring \cup InputRows(t, p) \cup ChangeRows(t, p)

\* update_or_save_transfers: a row that is there only gets the new status
UpdateOrSave(t, p, st) ==
    IF status[t] = "None" THEN Save(t, p, st)
    ELSE status' = [status EXCEPT ![t] = st] /\ UNCHANGED coloring

SeatRow(t, p) == IF p.seat = t THEN {t} ELSE {}
OwnOutput(t, p) == IF p.own THEN {t} ELSE {}

\* the network takes no second spend of a TXO
Publishable(t, p) ==
    \A t2 \in (net \cap Outgoing) \ {t} : Spends(p) \cap Spends(plan[t2]) = {}

\* mutant: the inputs are not marked spent
BroadcastUnmarked(t, p) ==
    /\ Publishable(t, p)
    /\ net' = net \cup {t}
    /\ exists' = exists \cup OwnOutput(t, p)
    /\ known' = known \cup OwnOutput(t, p)
    /\ UNCHANGED <<spent, pending>>

\* broadcast_psbt: the TX is published, its change output becomes known, its
\* inputs are marked spent
BroadcastPsbt(t, p) ==
    /\ Publishable(t, p)
    /\ net' = net \cup {t}
    /\ spent' = spent \cup Spends(p)
    /\ exists' = exists \cup OwnOutput(t, p)
    /\ known' = known \cup OwnOutput(t, p)
    /\ UNCHANGED pending

\* send_end_impl
EndOf(t, p) ==
    IF p.donation
    THEN /\ BroadcastPsbt(t, p)
         /\ UpdateOrSave(t, p, "WaitingConfirmations")
    ELSE /\ UpdateOrSave(t, p, "WaitingCounterparty")
         /\ known' = known \cup SeatRow(t, p)
         /\ UNCHANGED <<exists, spent, pending, net>>

\* the plan is made: in a dry run, reserving its inputs, or by send, which goes
\* on to the end at once
Begin(t, p) ==
    /\ plan' = [plan EXCEPT ![t] = p]
    /\ \/ UNCHANGED <<status, coloring, txoVars, net>>
       \/ /\ Save(t, p, "Initiated")
          /\ known' = known \cup SeatRow(t, p)
          /\ UNCHANGED <<exists, spent, pending, net>>
       \/ EndOf(t, p)

\* send_begin, send
SendBegin(t) ==
    /\ ~Begun(t)
    /\ \E order \in Orders, inputs \in SUBSET Usable :
          /\ Selects(inputs, order)
          /\ \E fees \in TopUps(inputs), own, donation \in BOOLEAN :
                LET draft == Draft(order, inputs, fees, own, donation)
                IN  \E seat \in Seats(t, draft) :
                       Begin(t, [draft EXCEPT !.seat = seat])
    /\ UNCHANGED <<invoiceVars, strays, faults>>

\* send_end of a plan begun earlier.  The row need not be there: the begin
\* was a dry run, or the transfer was failed, perhaps deleted, since.
SendEnd(t) ==
    /\ Begun(t)
    /\ IF status[t] \in {"Initiated", "WaitingCounterparty"}
       THEN UNCHANGED strays
       ELSE strays' = strays \cup {t} /\ Cardinality(strays') <= MaxStrays
    /\ EndOf(t, plan[t])
    /\ UNCHANGED <<plan, invoiceVars, faults>>

\* refresh: every ACK is there
Complete(t) ==
    /\ status[t] = "WaitingCounterparty"
    /\ BroadcastPsbt(t, plan[t])
    /\ status' = [status EXCEPT ![t] = "WaitingConfirmations"]
    /\ UNCHANGED <<coloring, plan, invoiceVars, strays, faults>>

\* the TX is out, but the database transaction of refresh, or of the send_end
\* of a donation, is lost
LoseBroadcast(t) ==
    /\ \/ status[t] = "WaitingCounterparty"
       \/ status[t] = "Initiated" /\ plan[t].donation
    /\ faults < MaxFaults
    /\ Publishable(t, plan[t])
    /\ net' = net \cup {t}
    /\ faults' = faults + 1
    /\ UNCHANGED <<status, coloring, txoVars, plan, invoiceVars, strays>>

SettleSent(t) ==
    /\ status[t] = "WaitingConfirmations"
    /\ t \in net
    /\ status' = [status EXCEPT ![t] = "Settled"]
    /\ UNCHANGED <<coloring, txoVars, plan, invoiceVars, net, strays, faults>>

\* a NACK, the expiration, or fail_transfers
FailSent(t) ==
    /\ status[t] \in {"Initiated", "WaitingCounterparty"}
    /\ status' = [status EXCEPT ![t] = "Failed"]
    /\ UNCHANGED <<coloring, txoVars, plan, invoiceVars, net, strays, faults>>

-----------------------------------------------------------------------------
(* Receiving                                                               *)

\* blind_receive promises one of the wallet's own TXOs
BlindReceive(b) ==
    /\ promised[b] = Nowhere
    /\ \E u \in Pick({}) : promised' = [promised EXCEPT ![b] = u]
    /\ status' = [status EXCEPT ![b] = "WaitingCounterparty"]
    /\ UNCHANGED <<coloring, txoVars, plan, asked, net, strays, faults>>

\* witness_receive registers a script for an output to come
WitnessReceive(w) ==
    /\ asked[w] = NotAsked
    /\ \E n \in Requests : asked' = [asked EXCEPT ![w] = n]
    /\ status' = [status EXCEPT ![w] = "WaitingCounterparty"]
    /\ UNCHANGED <<coloring, txoVars, plan, promised, net, strays, faults>>

\* the other side publishes its TX, for a donation without waiting
Published(x) ==
    /\ status[x] # "None"
    /\ x \notin net
    /\ net' = net \cup {x}
    /\ UNCHANGED <<status, coloring, txoVars, plan, invoiceVars, strays, faults>>

Seat(x) == IF x \in Blind THEN promised[x] ELSE x

\* ack_consignment: the wallet waits for the broadcast, or broadcasts the TX
\* of a donation itself
Acknowledge(x) ==
    \/ /\ status' = [status EXCEPT ![x] = "WaitingBroadcast"]
       /\ UNCHANGED net
    \/ /\ status' = [status EXCEPT ![x] = "WaitingConfirmations"]
       /\ net' = net \cup {x}

\* validate_received_consignment: whatever amount comes is recorded; a
\* witness output gets a row that does not exist yet and is pending
Accept(x) ==
    /\ status[x] = "WaitingCounterparty"
    /\ \E a \in Assets, n \in Gifts :
          coloring' = coloring \cup
              {[txo |-> Seat(x), of |-> x, type |-> "Receive", asset |-> a,
                amount |-> n]}
    /\ known' = known \cup {Seat(x)}
    /\ pending' = IF x \in Witness \ known THEN pending \cup {x} ELSE pending
    /\ \/ status' = [status EXCEPT ![x] = "WaitingSafeHeight"] /\ UNCHANGED net
       \/ Acknowledge(x)
    /\ UNCHANGED <<exists, spent, plan, invoiceVars, strays, faults>>

\* wait_safe_height
ReachSafeHeight(x) ==
    /\ status[x] = "WaitingSafeHeight"
    /\ Acknowledge(x)
    /\ UNCHANGED <<coloring, txoVars, plan, invoiceVars, strays, faults>>

\* wait_confirmations: the TX is seen
SeeBroadcast(x) ==
    /\ status[x] = "WaitingBroadcast"
    /\ x \in net
    /\ status' = [status EXCEPT ![x] = "WaitingConfirmations"]
    /\ UNCHANGED <<coloring, txoVars, plan, invoiceVars, net, strays, faults>>

\* update_db_colored_txos_from_bdk finds an output of the wallet; one with a
\* registered script is pending if it had no row before
FoundTxo(x) ==
    /\ exists' = exists \cup {x}
    /\ known' = known \cup {x}

\* mutant: a witness output stays pending
SettleStillPending(x) ==
    /\ status[x] \in {"WaitingBroadcast", "WaitingConfirmations"}
    /\ x \in net
    /\ status' = [status EXCEPT ![x] = "Settled"]
    /\ IF x \in Witness THEN FoundTxo(x) ELSE UNCHANGED <<known, exists>>
    /\ UNCHANGED <<coloring, spent, pending, plan, invoiceVars, net, strays,
                   faults>>

\* wait_confirmations: the TX is deep enough.  fail_transfers can get here
\* without the synchronisation that finds the output.
SettleReceived(x) ==
    /\ status[x] \in {"WaitingBroadcast", "WaitingConfirmations"}
    /\ x \in net
    /\ status' = [status EXCEPT ![x] = "Settled"]
    /\ pending' = pending \ {x}
    /\ \/ x \in Witness /\ FoundTxo(x)
       \/ UNCHANGED <<known, exists>>
    /\ UNCHANGED <<coloring, spent, plan, invoiceVars, net, strays, faults>>

\* refused, or given up; not once the TX of an accepted transfer is there,
\* unless its history is what is not safe
FailReceived(x) ==
    /\ \/ status[x] \in {"WaitingCounterparty", "WaitingSafeHeight"}
       \/ status[x] = "WaitingBroadcast" /\ x \notin net
    /\ status' = [status EXCEPT ![x] = "Failed"]
    /\ UNCHANGED <<coloring, txoVars, plan, invoiceVars, net, strays, faults>>

\* a synchronisation finds the output of a published TX
SyncTxo(x) ==
    /\ x \in net \ exists
    /\ x \in Witness \/ (x \in Outgoing /\ plan[x].own)
    /\ FoundTxo(x)
    /\ pending' = IF x \in Witness \ known THEN pending \cup {x} ELSE pending
    /\ UNCHANGED <<status, coloring, spent, plan, invoiceVars, net, strays,
                   faults>>

\* mutant: the TXOs are removed whether they exist or not
DeleteWithTxos(x) ==
    /\ status[x] = "Failed"
    /\ status' = [status EXCEPT ![x] = "None"]
    /\ coloring' = {c \in coloring : c.of # x}
    /\ known' = known \ {c.txo : c \in coloring \ coloring'}
    /\ UNCHANGED <<exists, spent, pending, plan, invoiceVars, net, strays,
                   faults>>

\* delete_batch_transfer: the colorings and the TXOs that never came to exist
Delete(x) ==
    /\ status[x] = "Failed"
    /\ status' = [status EXCEPT ![x] = "None"]
    /\ coloring' = {c \in coloring : c.of # x}
    /\ LET gone == {c.txo : c \in coloring \ coloring'} \ exists
       IN  known' = known \ gone /\ pending' = pending \ gone
    /\ UNCHANGED <<exists, spent, plan, invoiceVars, net, strays, faults>>

SendStep(t) ==
    \/ SendBegin(t) \/ SendEnd(t)
    \/ Complete(t) \/ LoseBroadcast(t) \/ SettleSent(t) \/ FailSent(t)

ReceiveStep(x) ==
    \/ Published(x) \/ Accept(x) \/ ReachSafeHeight(x) \/ SeeBroadcast(x)
    \/ SettleReceived(x) \/ FailReceived(x)

Next ==
    \/ \E t \in Outgoing : SendStep(t)
    \/ \E b \in Blind : BlindReceive(b)
    \/ \E w \in Witness : WitnessReceive(w)
    \/ \E x \in Incoming : ReceiveStep(x)
    \/ \E x \in Outgoing \cup Witness : SyncTxo(x)
    \/ \E x \in Outgoing \cup Incoming : Delete(x)

Spec == Init /\ [][Next]_vars

-----------------------------------------------------------------------------
(* Balances: get_asset_balance                                             *)

Of(a) == {c \in coloring : c.asset = a}

\* LocalRgbAllocation::settled
IsSettled(c) ==
    \/ c.txo \notin spent /\ Comes(c) /\ StatusOf(c) = "Settled"
    \/ c.txo \in spent /\ ~Comes(c) /\ StatusOf(c) = "WaitingConfirmations"
Settled(a) == Sum({c \in Of(a) : IsSettled(c)})

\* the witness invoices whose TX is there add what they asked for
WitnessPending(a) ==
    MapThenSumSet(LAMBDA w : asked[w],
        {w \in Witness : /\ status[w] = "WaitingConfirmations"
                         /\ \E c \in Of(a) : c.of = w})
PendingIn(a) ==
    Sum({c \in Of(a) : /\ c.txo \notin spent
                       /\ Comes(c)
                       /\ StatusOf(c) \in Pending}) + WitnessPending(a)
PendingOut(a) == Sum({c \in Of(a) : ~Comes(c) /\ StatusOf(c) \in Pending})
Future(a) == Settled(a) + PendingIn(a) - PendingOut(a)

Blocked(u) ==
    IF u \in spent
    THEN \E c \in Rows(u) :
            ~Comes(c) /\ StatusOf(c) = "WaitingConfirmations"
    ELSE \/ \E c \in Rows(u) : ~Comes(c) /\ StatusOf(c) # "Failed"
         \/ Awaits(u)
         \/ PendingBlinded(u) # {}
Unspendable(a) ==
    Sum({c \in Of(a) : IsSettled(c) /\ c.txo \in known /\ Blocked(c.txo)})
Spendable(a) == Settled(a) - Unspendable(a)

-----------------------------------------------------------------------------
(* Properties                                                              *)

\* The rows are well formed: a coloring belongs to a TXO and to a transfer
\* that have rows (the foreign keys of the database), also after deletions.
TypeOK ==
    /\ status \in [Transfers -> Status]
    /\ coloring \subseteq Coloring
    /\ known \subseteq Txos
    /\ exists \subseteq known
    /\ spent \subseteq known
    /\ pending \subseteq known
    /\ plan \in [Outgoing -> Plan]
    /\ promised \in [Blind -> Txos \cup {Nowhere}]
    /\ asked \in [Witness -> Requests \cup {NotAsked}]
    /\ net \subseteq Outgoing \cup Incoming
    /\ strays \subseteq Outgoing
    /\ faults \in 0..MaxFaults
    /\ \A c \in coloring : c.txo \in known /\ status[c.of] # "None"

\* an outgoing transfer whose reservation was in place from its begin on
Active == {"Initiated", "WaitingCounterparty", "WaitingConfirmations"}
Firm == {t \in Outgoing \ strays : status[t] \in Active}

\* No two outgoing transfers that are under way move the same allocation,
\* however their begins, ends, failures and broadcasts interleave and
\* whatever commit is lost (get_input_unspents, save_transfers).
ReservationIsExclusive ==
    \A t1, t2 \in Firm :
        t1 # t2 => RgbInputs(plan[t1]) \cap RgbInputs(plan[t2]) = {}

\* the TXOs on which something is still to come
OpenSeats ==
    {promised[b] : b \in {c \in Blind : status[c] \in Pending}} \cup
    {plan[t].seat : t \in Firm}

\* A TXO that was promised in a blind invoice, or is to take the change of a
\* transfer, is not moved by another transfer before that is settled or
\* given up (get_input_unspents, get_utxo).
SeatIsKept ==
    \A t \in Firm : RgbInputs(plan[t]) \cap OpenSeats = {}

\* nothing is under way, and no TX is out that the wallet gave up on
Quiet ==
    /\ \A x \in Transfers : status[x] \notin Pending
    /\ \A x \in net : status[x] = "Settled"
Undisturbed == strays = {} /\ \A t \in Outgoing : plan[t].fees = {}

Received(a) == Sum({c \in Of(a) : c.type = "Receive" /\ StatusOf(c) = "Settled"})
Sent(a) == MapThenSumSet(LAMBDA t : plan[t].order[a],
                         {t \in Outgoing : status[t] = "Settled"})

\* When nothing is under way the settled balance of every asset is what the
\* wallet started with, plus what it received, minus what it sent: no
\* allocation is lost or counted twice on the way through the colorings of
\* inputs, changes and seats (save_transfers, get_asset_balance).
BalanceIsConserved ==
    Quiet /\ Undisturbed =>
        \A a \in Assets :
            Settled(a) = Sum({h \in Holding : h.asset = a}) + Received(a) - Sent(a)

\* The future balance is never negative, which get_asset_balance asserts
\* ("pending outgoing cannot exceed available balance").
FutureIsSound == Undisturbed => \A a \in Assets : Future(a) >= 0

\* the steps that may change what the wallet will have: a transfer begins, is
\* accepted or is given up
Changes(x) ==
    \/ status[x] \in {"None", "Failed"}
    \/ status'[x] \in {"None", "Failed"}
    \/ x \in Incoming /\ status[x] = "WaitingCounterparty"

\* A transfer that merely goes on (broadcast, seen, settled) leaves the future
\* balance as it is: amounts only move between its parts
\* (LocalRgbAllocation::settled, broadcast_psbt, get_asset_balance).
FutureIsKept ==
    [][Undisturbed' /\ (\A x \in Transfers : status'[x] # status[x] => ~Changes(x))
          => \A a \in Assets : Future(a)' = Future(a)]_vars

\* The spendable balance, which get_asset_balance computes from one set of
\* conditions, is what select_rgb_inputs, with another, finds to spend,
\* once the outputs that were received have been found.
SpendableIsUsable ==
    (\A w \in Witness : status[w] = "Settled" => w \in exists) =>
        \A a \in Assets : Spendable(a) = Holds(Usable, a)

-----------------------------------------------------------------------------
(* The inductive invariant behind LedgerProofs                             *)

\* the rows and the maps are about the TXOs and transfers there are
Domains ==
    /\ status \in [Transfers -> Status]
    /\ known \subseteq Txos
    /\ DOMAIN plan = Outgoing
    /\ DOMAIN promised = Blind

\* a transfer that has a row was begun, and so was one that has an output
WasBegun ==
    \A t \in Outgoing : status[t] # "None" \/ t \in known => Begun(t)

\* the colorings of a transfer are there as long as its row is
Colored ==
    \A t \in Outgoing :
        status[t] # "None" =>
            /\ \A u \in RgbInputs(plan[t]) :
                  \E c \in coloring : c.of = t /\ c.txo = u /\ ~Comes(c)
            /\ plan[t].seat # Nowhere =>
                  \E c \in coloring :
                      c.of = t /\ c.txo = plan[t].seat /\ Comes(c)
ColoredInvoice ==
    \A b \in Blind :
        status[b] \in Pending \ {"WaitingCounterparty"} =>
            \E c \in coloring : c.of = b /\ c.txo = promised[b] /\ Comes(c)

\* a TXO that was promised or is to be moved is on chain and keeps its row,
\* which a deletion takes from others
PromisedIsReal ==
    \A b \in Blind : status[b] # "None" => promised[b] \in known \cap exists
\* after the broadcast the inputs are marked spent
InputsAreReal ==
    \A t \in Outgoing :
        /\ RgbInputs(plan[t]) \subseteq known \cap exists
        /\ status[t] = "WaitingConfirmations" => RgbInputs(plan[t]) \subseteq spent
        /\ plan[t].seat # Nowhere => SomethingBack(plan[t])

\* The reservations hold because every transfer under way can be seen in the
\* colorings and flags that get_input_unspents and get_utxo look at.
Reservations ==
    /\ Domains
    /\ WasBegun
    /\ Colored
    /\ ColoredInvoice
    /\ PromisedIsReal
    /\ InputsAreReal
    /\ ReservationIsExclusive
    /\ SeatIsKept

-----------------------------------------------------------------------------
(* The inductive invariant behind the balances                             *)

RowsOf(x) == {c \in coloring : c.of = x}

\* A transfer has exactly the rows that save_transfers or
\* validate_received_consignment gave it, until they are deleted with it.
RowsAreExact ==
    /\ \A t \in Outgoing :
          RowsOf(t) = IF status[t] = "None" THEN {}
                      ELSE InputRows(t, plan[t]) \cup ChangeRows(t, plan[t])
    /\ \A x \in Incoming : \A c \in RowsOf(x) :
          c.type = "Receive" /\ c.txo = Seat(x)
    /\ RowsOf(Issuance) = Issued
    /\ status[Issuance] = "Settled"

\* the statuses of an outgoing transfer
Going == Active \cup {"None", "Settled", "Failed"}
Out == {"WaitingConfirmations", "Settled"}

\* A TXO that has not been found on chain holds nothing but the colorings of
\* the transfer that makes it, and so does one that is pending.
FlagsAreRight ==
    /\ Utxos \subseteq exists
    /\ spent \subseteq exists
    /\ pending \subseteq Witness
    /\ \A c \in coloring : c.txo \notin exists \/ c.txo \in pending => c.txo = c.of
    /\ \A t \in Outgoing :
          /\ status[t] \in Going
          /\ status[t] \in Out =>
                Spends(plan[t]) \subseteq spent /\ (plan[t].own => t \in exists)

\* A plan gives back what it moves beyond its order, on a seat that is there.
PlansAreRight ==
    \A t \in Outgoing :
        /\ Spends(plan[t]) \subseteq exists
        /\ RgbInputs(plan[t]) \cap pending = {}
        /\ plan[t].seat \notin {Nowhere, t} => plan[t].seat \in exists \ pending
        /\ plan[t].seat = t => plan[t].own
        /\ SomethingBack(plan[t]) => plan[t].seat # Nowhere
        /\ \A a \in Assets : Back(plan[t], a) >= 0

\* An invoice is open on a TXO that is not pending, and the output of a
\* witness invoice is pending from when it is known until it is settled.
InvoicesAreRight ==
    /\ \A b \in Blind :
          /\ promised[b] = Nowhere => status[b] = "None"
          /\ status[b] # "None" => promised[b] \in exists \ pending
    /\ \A w \in Witness :
          /\ asked[w] = NotAsked =>
                status[w] = "None" /\ w \notin known /\ w \notin net
          /\ status[w] = "WaitingCounterparty" => w \in pending \/ w \notin known
          /\ status[w] \in {"WaitingSafeHeight", "WaitingBroadcast",
                            "WaitingConfirmations", "Settled"} => w \in known
          /\ status[w] = "Settled" => w \notin pending

\* what has come to a TXO and is settled, and what is moved with the TXOs
Came(u, a) ==
    {c \in Rows(u) : c.asset = a /\ Comes(c) /\ StatusOf(c) = "Settled"}
CameTo(inputs) ==
    UNION {{[txo |-> u, asset |-> a, amount |-> Sum(Came(u, a))] :
               a \in {b \in Assets : Came(u, b) # {}}} : u \in inputs}

\* As long as no send_end came without a reservation and no input was added
\* for a fee: the transfers that are under way or settled move disjoint TXOs,
\* to which nothing more comes, each of them everything that came there, and
\* the TXOs that are spent are theirs.
Moving == {t \in Outgoing : status[t] \in Active \cup {"Settled"}}
MovesAreWhole ==
    /\ spent \subseteq UNION {RgbInputs(plan[t]) :
                                 t \in {x \in Outgoing : status[x] \in Out}}
    /\ \A t1, t2 \in Moving :
          t1 # t2 => RgbInputs(plan[t1]) \cap RgbInputs(plan[t2]) = {}
    /\ \A t \in Moving :
          /\ \A u \in RgbInputs(plan[t]) : ~Awaits(u) /\ PendingBlinded(u) = {}
          /\ plan[t].moved = CameTo(RgbInputs(plan[t]))

Books ==
    /\ TypeOK
    /\ IsFiniteSet(coloring)
    /\ \A t \in Outgoing : IsFiniteSet(plan[t].moved)
    /\ RowsAreExact
    /\ FlagsAreRight
    /\ PlansAreRight
    /\ InvoicesAreRight

Accounts == Books /\ (Undisturbed => MovesAreWhole)

=============================================================================
