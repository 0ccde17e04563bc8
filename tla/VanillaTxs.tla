----------------------------- MODULE VanillaTxs -----------------------------
(***************************************************************************)
(* The bitcoin transactions a wallet makes for itself: create_utxos,       *)
(* send_btc and drain_to, each in one call or as begin and end, with       *)
(* abort_pending_vanilla_tx, synchronisation, go_online and its            *)
(* consistency check (src/wallet/online.rs, singlesig.rs, core.rs).        *)
(*                                                                         *)
(* Three stores describe the coins: the network, the BDK wallet (in memory *)
(* and its durable copy) and the tables txo, reserved_txo and              *)
(* wallet_transaction. A database transaction that is rolled back takes    *)
(* nothing back from the other two.                                        *)
(*                                                                         *)
(* An output is <<keychain, n>>: n > 0 is the n-th transaction the wallet  *)
(* prepared, n <= 0 one of others. Amounts and fees are left out: which    *)
(* inputs send_btc selects, and whether there is change, is any choice.    *)
(***************************************************************************)
EXTENDS Integers, Sequences, FiniteSets

CONSTANTS
    Deposits,    \* transactions of others that paid a vanilla output
    Receipts,    \* transactions of others that may pay a colored output
    MaxTxs,      \* bound on the transactions the wallet prepares
    Faults,      \* subset of {"crash", "error", "rollback", "skip"}
    MaxKinds     \* bound on the kinds of faults in one behaviour

ASSUME VanillaAssumption ==
    /\ MaxTxs \in Nat
    /\ Deposits \subseteq {n \in Int : n <= 0}
    /\ Receipts \subseteq {n \in Int : n <= 0}
    /\ Faults \subseteq {"crash", "error", "rollback", "skip"}
    /\ MaxKinds \in Nat

VARIABLES
    txs,         \* the prepared transactions, in order
    published,   \* numbers of those on the network
    received,    \* the receipts on the network
    known,       \* what the BDK wallet knows of, in memory
    saved,       \* and what a restart brings back of it
    dbTxos,      \* table txo: the colored outputs that exist
    dbSpent,     \* those with spent set
    reserved,    \* table reserved_txo: transaction -> outputs
    recorded,    \* table wallet_transaction
    online,      \* the application holds an Online of this process
    cut,         \* transactions broadcast by a call that did not commit
    faults       \* the kinds of faults there have been

net == <<published, received>>
bdk == <<known, saved>>
vars == <<txs, net, bdk, dbTxos, dbSpent, reserved, recorded, online, cut, faults>>

TxNumber == 1 .. MaxTxs
Kinds == {"create", "send", "drain"}
Outpoint == ({"vanilla"} \X (TxNumber \cup Deposits)) \cup ({"colored"} \X (TxNumber \cup Receipts))
Tx == [kind : Kinds, ins : SUBSET Outpoint, change : BOOLEAN, held : BOOLEAN, dry : BOOLEAN]

Colored(o) == o[1] = "colored"

Faulty(f) ==
    /\ f \in Faults
    /\ faults' = faults \cup {f}
    /\ Cardinality(faults') <= MaxKinds

----------------------------------------------------------------------------
\* The outputs of the wallet's own transaction t with number n.
OutsOf(n, t) ==
    (IF t.kind = "create" THEN {<<"colored", n>>} ELSE {})
      \cup (IF t.change THEN {<<"vanilla", n>>} ELSE {})

Outs(ts, k) ==
    ({"vanilla"} \X Deposits) \cup ({"colored"} \X (k \cap Receipts))
      \cup UNION {OutsOf(n, ts[n]) : n \in k \cap DOMAIN ts}

Ins(ts, k) == UNION {ts[n].ins : n \in k \cap DOMAIN ts}

\* list_unspent of a BDK wallet that knows the transactions k.
Unspent(ts, k) == Outs(ts, k) \ Ins(ts, k)
ColoredUnspent(ts, k) == {o \in Unspent(ts, k) : Colored(o)}

AllReserved == UNION {reserved[n] : n \in TxNumber}

Init ==
    /\ txs = <<>>
    /\ published = {} /\ received = {}
    /\ known = {} /\ saved = {}
    /\ dbTxos = {} /\ dbSpent = {}
    /\ reserved = [n \in TxNumber |-> {}]
    /\ recorded = {}
    /\ online = FALSE
    /\ cut = {} /\ faults = {}

----------------------------------------------------------------------------
\* A fast sync of a keychain looks at some of its scripts: it shows any part
\* of the transactions that touch it. No sync at all is the empty part.
Touching(keychain) ==
    (IF keychain = "colored" THEN received ELSE {})
      \cup {n \in published : \E o \in txs[n].ins \cup OutsOf(n, txs[n]) : o[1] = keychain}

FastSynced(keychains) ==
    {known \cup s : s \in SUBSET (UNION {Touching(kc) : kc \in keychains})}

SyncsOf(kind) == IF kind = "drain" THEN {"colored", "vanilla"} ELSE {"vanilla"}

\* Mutant: the outputs of both keychains are added.
UpdateDbTxos(db, ts, k) == db \cup Unspent(ts, k)

\* update_db_colored_txos_from_bdk adds what BDK has unspent, and sets no row
\* to spent.
UpdateDbColoredTxos(db, ts, k) == db \cup ColoredUnspent(ts, k)

\* Mutant: create_utxos takes reserved inputs, too.
CreateInputsAny(k) == {{o \in Unspent(txs, k) : ~Colored(o)}}

\* The inputs each kind may select from BDK's unspent outputs.
CreateInputs(k) == {{o \in Unspent(txs, k) : ~Colored(o)} \ AllReserved}
Unspendable(db) == db \cup AllReserved
SendInputs(k, db) == SUBSET (Unspent(txs, k) \ Unspendable(db))
DrainInputs(k) == {Unspent(txs, k)}

\* Mutant: send_btc skips the reserved outputs only.
InputsOfAnyColor(kind, k, db) ==
    CASE kind = "create" -> CreateInputs(k)
      [] kind = "send"   -> SendInputs(k, {})
      [] kind = "drain"  -> DrainInputs(k)

InputsOf(kind, k, db) ==
    CASE kind = "create" -> CreateInputs(k)
      [] kind = "send"   -> SendInputs(k, db)
      [] kind = "drain"  -> DrainInputs(k)

\* A drain leaves no change.
ChangesOf(kind) == IF kind = "drain" THEN {FALSE} ELSE BOOLEAN

\* The PSBT of a *_begin_impl, after the sync that left BDK with k and the
\* table with db.
Prepared(kind, k, db, held, dry) ==
    {[kind |-> kind, ins |-> i, change |-> c, held |-> held, dry |-> dry] :
        i \in InputsOf(kind, k, db) \ {{}}, c \in ChangesOf(kind)}

\* reserve_vanilla_txos: the unique index refuses an output reserved already.
ReserveVanillaTxos(n, t) ==
    /\ t.ins \cap AllReserved = {}
    /\ reserved' = [reserved EXCEPT ![n] = t.ins]
    /\ recorded' = recorded \cup {n}

SyncedTxos(kind, k) ==
    IF kind = "drain" THEN UpdateDbColoredTxos(dbTxos, txs, k) ELSE dbTxos

\* A *_begin method.
Begin(kind, dry) ==
    /\ online
    /\ Len(txs) < MaxTxs
    /\ \E k \in FastSynced(SyncsOf(kind)) :
         /\ known' = k /\ saved' = k
         /\ dbTxos' = SyncedTxos(kind, k)
         /\ \E t \in Prepared(kind, k, dbTxos', TRUE, dry) :
              /\ txs' = Append(txs, t)
              /\ IF dry THEN UNCHANGED <<reserved, recorded>>
                        ELSE ReserveVanillaTxos(Len(txs) + 1, t)
    /\ UNCHANGED <<net, dbSpent, online, cut, faults>>

CreateUtxosBegin(dry) == Begin("create", dry)
SendBtcBegin(dry) == Begin("send", dry)
DrainToBegin(dry) == Begin("drain", dry)

----------------------------------------------------------------------------
\* The network takes a transaction whose inputs nothing else spends, and
\* broadcast_tx takes one it knows already for a success.
Accepts(n, t) == \A m \in published \ {n} : txs[m].ins \cap t.ins = {}

\* Mutant: the reservations outlive the broadcast.
FinalizeKeeping(n) ==
    /\ reserved' = reserved
    /\ recorded' = recorded \cup {n}

\* finalize_vanilla_wallet_transaction.
Finalize(n) ==
    /\ reserved' = [reserved EXCEPT ![n] = {}]
    /\ recorded' = recorded \cup {n}

\* Mutant: the inputs are not marked as spent.
BroadcastTxosUnmarked(n, t, ts, k, db) ==
    /\ dbTxos' = UpdateDbColoredTxos(db, ts, k \cup {n})
    /\ dbSpent' = dbSpent

\* broadcast_psbt: what it leaves in the tables.
BroadcastTxos(n, t, ts, k, db) ==
    /\ dbTxos' = UpdateDbColoredTxos(db, ts, k \cup {n})
    /\ dbSpent' = dbSpent \cup (t.ins \cap dbTxos')

\* The call commits: all of its effects, in the tables and in BDK.
Completed(n, t, ts, k, db) ==
    /\ known' = k \cup {n} /\ saved' = k \cup {n}
    /\ BroadcastTxos(n, t, ts, k, db)
    /\ Finalize(n)
    /\ cut' = cut \ {n}
    /\ UNCHANGED <<online, faults>>

\* The call ends after the broadcast and before its commit: by an error or by
\* a crash, before or after flush_bdk_pending wrote its file.
CutShort(n, k) ==
    /\ \E flushed \in BOOLEAN :
         /\ saved' = IF flushed THEN k \cup {n} ELSE saved
         /\ \/ /\ Faulty("error")
               /\ known' = k \cup {n}
               /\ UNCHANGED online
            \/ /\ Faulty("crash")
               /\ known' = saved'
               /\ online' = FALSE
    /\ cut' = cut \cup {n}
    /\ UNCHANGED <<dbTxos, dbSpent, reserved, recorded>>

Broadcast(n, t, ts, k, db) ==
    /\ Accepts(n, t)
    /\ published' = published \cup {n}
    /\ UNCHANGED received
    /\ \/ Completed(n, t, ts, k, db)
       \/ CutShort(n, k)

\* An *_end method with a PSBT of its begin, perhaps for the second time. An
\* answer of the network that refuses it rolls everything back.
End(kind, n) ==
    /\ online
    /\ txs[n].held /\ txs[n].kind = kind
    /\ Broadcast(n, txs[n], txs, known, dbTxos)
    /\ UNCHANGED txs

CreateUtxosEnd(n) == End("create", n)
SendBtcEnd(n) == End("send", n)
DrainToEnd(n) == End("drain", n)

\* A dry begin and the end in one database transaction.
InOneCall(kind) ==
    /\ online
    /\ Len(txs) < MaxTxs
    /\ \E k \in FastSynced(SyncsOf(kind)) :
         LET db == SyncedTxos(kind, k)
         IN  \E t \in Prepared(kind, k, db, FALSE, TRUE) :
               /\ txs' = Append(txs, t)
               /\ Broadcast(Len(txs) + 1, t, txs', k, db)

CreateUtxos == InOneCall("create")
SendBtc == InOneCall("send")
DrainTo == InOneCall("drain")

\* abort_pending_vanilla_tx: the row goes, and its reservations with it.
AbortPendingVanillaTx(n) ==
    /\ reserved[n] # {}
    /\ reserved' = [reserved EXCEPT ![n] = {}]
    /\ recorded' = recorded \ {n}
    /\ txs' = [txs EXCEPT ![n].dry = TRUE]
    /\ UNCHANGED <<net, bdk, dbTxos, dbSpent, online, cut, faults>>

----------------------------------------------------------------------------
\* sync, list_unspents, get_btc_balance...: a committed colored sync.
SyncColored ==
    /\ online
    /\ \E k \in FastSynced({"colored"}) :
         /\ known' = k /\ saved' = k
         /\ dbTxos' = UpdateDbColoredTxos(dbTxos, txs, k)
    /\ UNCHANGED <<txs, net, dbSpent, reserved, recorded, online, cut, faults>>

\* A call that synced and then failed: an address that does not parse,
\* too few bitcoins, an indexer that breaks off at the second keychain.
RolledBack ==
    /\ Faulty("rollback")
    /\ online
    /\ \E k \in FastSynced({"colored", "vanilla"}) : known' = k
    /\ UNCHANGED <<txs, net, saved, dbTxos, dbSpent, reserved, recorded, online, cut>>

\* wallet_specific_consistency_checks, after a full scan of both keychains.
Scanned == known \cup published \cup received

Consistent ==
    UpdateDbColoredTxos(dbTxos, txs, Scanned) \ dbSpent \subseteq Unspent(txs, Scanned)

GoOnline ==
    /\ known' = Scanned
    /\ \/ /\ Consistent
          /\ saved' = Scanned
          /\ dbTxos' = UpdateDbColoredTxos(dbTxos, txs, Scanned)
          /\ online' = TRUE
       \/ /\ ~Consistent
          /\ UNCHANGED <<saved, dbTxos, online>>
    /\ UNCHANGED <<txs, net, dbSpent, reserved, recorded, cut, faults>>

\* go_online with skip_consistency_check.
GoOnlineUnchecked ==
    /\ Faulty("skip")
    /\ ~online
    /\ online' = TRUE
    /\ UNCHANGED <<txs, net, bdk, dbTxos, dbSpent, reserved, recorded, cut>>

\* The process ends and the wallet is opened again.
Crash ==
    /\ Faulty("crash")
    /\ online
    /\ online' = FALSE
    /\ known' = saved
    /\ UNCHANGED <<txs, net, saved, dbTxos, dbSpent, reserved, recorded, cut>>

\* Another wallet pays a colored output of this one.
Receive(r) ==
    /\ r \notin received
    /\ received' = received \cup {r}
    /\ UNCHANGED <<txs, published, bdk, dbTxos, dbSpent, reserved, recorded, online, cut, faults>>

Next ==
    \/ \E dry \in BOOLEAN : CreateUtxosBegin(dry) \/ SendBtcBegin(dry) \/ DrainToBegin(dry)
    \/ \E n \in DOMAIN txs : CreateUtxosEnd(n) \/ SendBtcEnd(n) \/ DrainToEnd(n)
    \/ CreateUtxos \/ SendBtc \/ DrainTo
    \/ \E n \in DOMAIN txs : AbortPendingVanillaTx(n)
    \/ SyncColored \/ RolledBack
    \/ GoOnline \/ GoOnlineUnchecked \/ Crash
    \/ \E r \in Receipts : Receive(r)

Spec == Init /\ [][Next]_vars

----------------------------------------------------------------------------
(* list_transactions_impl: the type a published transaction is shown with. *)
ListedAs(n) == IF n \in recorded THEN txs[n].kind ELSE "incoming"

(* The variables keep their types; the tables name only transactions there *)
(* are, and BDK knows only what the network has.                           *)
TypeOK ==
    /\ txs \in Seq(Tx) /\ Len(txs) <= MaxTxs
    /\ published \subseteq DOMAIN txs
    /\ received \subseteq Receipts
    /\ known \subseteq published \cup received
    /\ saved \subseteq known
    /\ dbTxos \subseteq {o \in Outpoint : Colored(o)}
    /\ dbSpent \subseteq dbTxos
    /\ reserved \in [TxNumber -> SUBSET Outpoint]
    /\ recorded \subseteq DOMAIN txs
    /\ online \in BOOLEAN
    /\ cut \subseteq published
    /\ faults \subseteq Faults

(* Inputs reserved by a begin stay there for its end: whatever the calls   *)
(* in between, only a drain, or a transaction whose own inputs were never  *)
(* reserved or were released, spends them. (Online again without the       *)
(* consistency check, the wallet may not know what it has broadcast.)      *)
PendingIsSafe ==
    "skip" \notin faults =>
      \A n \in DOMAIN txs : \A m \in published \ {n} :
        reserved[n] \cap txs[m].ins # {} =>
          txs[m].kind = "drain" \/ (txs[m].held /\ txs[m].dry)

(* create_utxos and send_btc spend no colored output, as long as no call   *)
(* failed half-way and the check at go_online is not skipped: then the     *)
(* table knows every colored output BDK can select.                        *)
ColoredIsKept ==
    faults \subseteq {"crash"} =>
      \A n \in published : txs[n].kind # "drain" => \A o \in txs[n].ins : ~Colored(o)

(* "Send bitcoins using the vanilla wallet." (singlesig.rs:1035)           *)
SendIsVanilla ==
    \A n \in published : txs[n].kind = "send" => \A o \in txs[n].ins : ~Colored(o)

(* A colored output the table has as unspent is unspent on the network,    *)
(* unless the call that spent it never committed: but for that, go_online  *)
(* always finds the wallet consistent.                                     *)
UnspentIsUnspent ==
    \A o \in (dbTxos \ dbSpent), n \in published : o \in txs[n].ins => n \in cut

(* A transaction whose broadcast was committed is listed under its type    *)
(* and reserves nothing any more; abort_pending_vanilla_tx refuses it.     *)
BroadcastIsRecorded ==
    \A n \in published \ cut : ListedAs(n) = txs[n].kind /\ reserved[n] = {}

=============================================================================
