-------------------------------- MODULE Supply --------------------------------
(***************************************************************************)
(* The supply of one asset: issued by a wallet, inflated and burned, and   *)
(* what each wallet's asset row says of it (src/wallet/offline.rs,         *)
(* online.rs, singlesig.rs).                                               *)
(*                                                                         *)
(* Amounts are u64: MaxAmount stands for its maximum. The inflation rights *)
(* of the asset are taken as one allocation, which an inflation spends and *)
(* makes anew with what is left: the inflations form a chain, and a wallet *)
(* whose RGB stock knows the first k of them knows Issued(k).              *)
(***************************************************************************)
EXTENDS Integers, Sequences, FiniteSets

CONSTANTS
    Wallets,
    None,          \* no value
    MaxAmount,     \* the largest amount
    MaxPsbts,      \* bound on the inflations that are prepared
    MaxMoves,      \* bound on the transfers of the rights
    MaxPending,    \* bound on the transfers at a time
    MaxBurned      \* bound on what is burned

Schemas == {"Nia", "Uda", "Cfa", "Ifa"}
Amount == 0 .. MaxAmount
Genesis == [schema : Schemas, settled : Amount, max : Amount]
Right == [version : Nat, amount : Amount]
Psbt == [by : Wallets, on : Nat, amount : Amount]

ASSUME SupplyAssumption ==
    /\ MaxAmount \in Nat \ {0}
    /\ {MaxPsbts, MaxMoves, MaxPending, MaxBurned} \subseteq Nat
    /\ None \notin Wallets \cup Int \cup Genesis \cup Right

VARIABLES
    asset,       \* the genesis
    inflated,    \* the inflations on the network
    supplies,    \* what was issued up to the genesis and up to each of them
    burned,      \* the amount burned
    right,       \* the allocation of the inflation rights
    dbRight,     \* the one in each wallet's database, None if it has none
    psbts,       \* the inflations prepared
    counted,     \* those whose end was committed
    stock,       \* how many inflations each wallet's stock has, None: no contract
    known,       \* known_circulating_supply in each wallet's asset row
    pending,     \* transfers that were validated and not settled
    repeated     \* an end was repeated and committed

chain == <<asset, inflated, supplies, burned, right>>
ops == <<psbts, counted, repeated>>
vars == <<chain, dbRight, ops, stock, known, pending>>

\* What was issued up to the first k inflations: total_issued_supply of a
\* contract whose history has them.
Issued(k) == supplies[k + 1]
IssuedSupply == Issued(Len(inflated))

published == {inflated[n] : n \in DOMAIN inflated}

Init ==
    /\ asset = None
    /\ inflated = <<>> /\ supplies = <<>> /\ burned = 0
    /\ right = [version |-> 0, amount |-> 0]
    /\ dbRight = [w \in Wallets |-> None]
    /\ psbts = {} /\ counted = {} /\ repeated = FALSE
    /\ stock = [w \in Wallets |-> None]
    /\ known = [w \in Wallets |-> None]
    /\ pending = {}

----------------------------------------------------------------------------
\* get_total_issue_amount: the checked sum of amounts that are not zero.
TotalIssueAmounts == Amount \ {0}

\* Mutant: each sum is checked and not the two together.
AnyInflation(issued) == Amount

\* get_total_inflation_amount: the sum fits, and with what is issued, too.
TotalInflationAmounts(issued) == {x \in Amount : x = 0 \/ issued + x <= MaxAmount}

\* import_and_save_contract: the contract in the stock, the asset's row.
Issue(w, schema, settled, inflation, supply) ==
    /\ asset = None
    /\ asset' = [schema |-> schema, settled |-> settled, max |-> settled + inflation]
    /\ supplies' = <<settled>>
    /\ right' = [version |-> 0, amount |-> inflation]
    /\ dbRight' = [dbRight EXCEPT ![w] = IF inflation > 0 THEN right' ELSE None]
    /\ stock' = [stock EXCEPT ![w] = 0]
    /\ known' = [known EXCEPT ![w] = supply]
    /\ UNCHANGED <<inflated, burned, ops, pending>>

CreateNiaContract(w) == \E s \in TotalIssueAmounts : Issue(w, "Nia", s, 0, None)
CreateUdaContract(w) == Issue(w, "Uda", 1, 0, None)
CreateCfaContract(w) == \E s \in TotalIssueAmounts : Issue(w, "Cfa", s, 0, None)

\* An asset of inflation rights alone has no amounts.
CreateIfaContract(w) ==
    \E s \in TotalIssueAmounts \cup {0} : \E i \in TotalInflationAmounts(s) :
        s + i > 0 /\ Issue(w, "Ifa", s, i, s)

----------------------------------------------------------------------------
\* inflate_begin_impl, on the rights that the database has. A dry begin
\* reserves nothing, nor does one that was aborted: several may be prepared.
InflateBegin(w, x) ==
    /\ Cardinality(psbts) < MaxPsbts
    /\ dbRight[w] # None
    /\ x \in TotalInflationAmounts(known[w]) \ {0}
    /\ x <= dbRight[w].amount
    /\ psbts' = psbts \cup {[by |-> w, on |-> dbRight[w].version, amount |-> x]}
    /\ UNCHANGED <<chain, dbRight, counted, repeated, stock, known, pending>>

\* broadcast_psbt: the rights are unspent, or this transaction spent them.
BroadcastPsbt(p) ==
    \/ p \in published /\ UNCHANGED <<inflated, supplies, right>>
    \/ /\ p.on = right.version
       /\ inflated' = Append(inflated, p)
       /\ supplies' = Append(supplies, IssuedSupply + p.amount)
       /\ right' = [version |-> right.version + 1, amount |-> right.amount - p.amount]

MaxOf(x, y) == IF x > y THEN x ELSE y

Number(p) == CHOOSE n \in DOMAIN inflated : inflated[n] = p

\* consume_fascia: the stock has the transition from now on.
FasciaConsumed(p) == stock' = [stock EXCEPT ![p.by] = MaxOf(@, Number(p)')]

\* The rows of the transfer, the supply and the change are committed. An end
\* for the second time finds its transfer and updates it.
InflationSaved(p) ==
    /\ known[p.by] + p.amount <= MaxAmount
    /\ FasciaConsumed(p)
    /\ known' = [known EXCEPT ![p.by] = @ + p.amount]
    /\ dbRight' = [dbRight EXCEPT ![p.by] =
                      IF p \in counted THEN @
                      ELSE IF right'.amount = 0 THEN None ELSE right']
    /\ counted' = counted \cup {p}
    /\ repeated' = (repeated \/ p \in published)

\* The call stops after the broadcast: by an error or a crash, or because the
\* sum does not fit ("cannot exceed u64::MAX").
InflationCut(p) ==
    /\ FasciaConsumed(p) \/ UNCHANGED stock
    /\ UNCHANGED <<known, dbRight, counted, repeated>>

\* inflate_end_impl.
InflateEnd(p) ==
    /\ BroadcastPsbt(p)
    /\ InflationSaved(p) \/ InflationCut(p)
    /\ UNCHANGED <<asset, burned, psbts, pending>>

\* burn_begin_impl and burn_end_impl: the supply in the row stays.
Burn(w) ==
    /\ stock[w] # None
    /\ asset.schema = "Ifa"
    /\ burned < MaxBurned /\ burned < IssuedSupply
    /\ burned' = burned + 1
    /\ UNCHANGED <<asset, inflated, supplies, right, dbRight, ops, stock, known, pending>>

----------------------------------------------------------------------------
\* extract_asset_data: the supply that the history of the transfer shows.
SupplyOf(k) == IF asset.schema = "Ifa" THEN Issued(k) ELSE None

\* validate_received_consignment: a row for an asset that had none.
Validated(v, k, rights) ==
    /\ Cardinality(pending) < MaxPending
    /\ pending' = pending \cup {[to |-> v, k |-> k, rights |-> rights]}
    /\ stock' = [stock EXCEPT ![v] = IF @ = None THEN 0 ELSE @]
    /\ known' = [known EXCEPT ![v] = IF stock[v] = None THEN SupplyOf(k) ELSE @]

\* Wallet w pays v with amounts whose history has k inflations.
ReceiveAmount(w, v, k) ==
    /\ w # v /\ stock[w] # None
    /\ k \in 0 .. stock[w]
    /\ Validated(v, k, FALSE)
    /\ UNCHANGED <<chain, dbRight, ops>>

\* Wallet w pays v with its inflation rights, whose history has them all.
ReceiveRights(w, v) ==
    /\ w # v /\ dbRight[w] # None
    /\ dbRight[w].version = right.version
    /\ right.version < Len(inflated) + MaxMoves
    /\ right' = [right EXCEPT !.version = @ + 1]
    /\ dbRight' = [dbRight EXCEPT ![w] = None]
    /\ Validated(v, Len(inflated), TRUE)
    /\ UNCHANGED <<asset, inflated, supplies, burned, ops>>

\* Mutant: what is received is added to what was known.
SupplySummed(supply, total) == supply + total

\* Mutant: only a new asset's supply is read.
SupplyKept(supply, total) == supply

\* wait_confirmations: the supply that the stock shows, if it is higher.
SupplySeen(supply, total) == MaxOf(supply, total)

\* The transfer settles: accept_transfer.
Settle(r) ==
    LET v == r.to
    IN  /\ pending' = pending \ {r}
        /\ stock' = [stock EXCEPT ![v] = MaxOf(@, r.k)]
        /\ known' = [known EXCEPT ![v] =
                        IF asset.schema = "Ifa" THEN SupplySeen(@, Issued(stock'[v])) ELSE @]
        /\ dbRight' = [dbRight EXCEPT ![v] = IF r.rights THEN right ELSE @]
        /\ UNCHANGED <<chain, ops>>

Next ==
    \/ \E w \in Wallets : CreateNiaContract(w) \/ CreateUdaContract(w)
                            \/ CreateCfaContract(w) \/ CreateIfaContract(w)
    \/ \E w \in Wallets, x \in Amount : InflateBegin(w, x)
    \/ \E p \in psbts : InflateEnd(p)
    \/ \E w \in Wallets : Burn(w)
    \/ \E w, v \in Wallets, k \in 0 .. MaxPsbts : ReceiveAmount(w, v, k)
    \/ \E w, v \in Wallets : ReceiveRights(w, v)
    \/ \E r \in pending : Settle(r)

Spec == Init /\ [][Next]_vars

----------------------------------------------------------------------------
\* get_asset_metadata.
Metadata(w) ==
    [max |-> asset.max,
     circulating |-> IF known[w] = None THEN asset.settled ELSE known[w]]

Holders == {w \in Wallets : stock[w] # None}

(* The variables keep their types: the supply of an asset with all of its  *)
(* inflation rights used is still an amount.                               *)
TypeOK ==
    /\ asset \in Genesis \cup {None}
    /\ inflated \in Seq(psbts)
    /\ supplies \in Seq(Nat)
    /\ burned \in Nat
    /\ right \in Right
    /\ dbRight \in [Wallets -> Right \cup {None}]
    /\ psbts \subseteq Psbt
    /\ counted \subseteq published
    /\ stock \in [Wallets -> 0 .. Len(inflated) \cup {None}]
    /\ known \in [Wallets -> Amount \cup {None}]
    /\ pending \subseteq [to : Wallets, k : 0 .. Len(inflated), rights : BOOLEAN]
    /\ repeated \in BOOLEAN

(* No wallet knows of more than was issued, or than may ever be, however   *)
(* late it learns of the others' inflations; so that the sum an            *)
(* inflate_end makes after its broadcast never exceeds a u64. But an end   *)
(* that is repeated adds its amount again, be it counted already or read   *)
(* from the stock since the first was cut short (inflate_end_impl).        *)
KnownIsReal ==
    ~repeated =>
      /\ \A w \in Holders :
           Metadata(w).circulating <= IssuedSupply /\ IssuedSupply <= asset.max
      /\ \A p \in psbts : p.on = right.version => known[p.by] + p.amount <= MaxAmount

(* The wallet that holds the rights knows the whole supply when it         *)
(* inflates, received or own, but for an end that was cut short and has    *)
(* not been repeated; and every wallet knows what its stock shows.         *)
InflatorKnows ==
    published = counted =>
      \A w \in Holders :
        /\ known[w] # None => Issued(stock[w]) <= known[w]
        /\ dbRight[w] # None /\ dbRight[w].version = right.version =>
             IssuedSupply <= known[w]

=============================================================================
