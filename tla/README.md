# rgb-lib in TLA+

`rgb-lib` is a wallet library for RGB assets on Bitcoin. An RGB asset lives on a UTXO; a transfer is a
Bitcoin transaction that spends the UTXOs of the assets plus a *consignment*, a proof that travels off
chain from the sender to each recipient. The library keeps everything it knows about its own side in an SQL
database and a BDK wallet, and moves each transfer through a status machine by polling: every `refresh` looks
at the proxy (has the other side posted a consignment or an answer?) and at the indexer (is the transaction
there, how deep is it?).

This directory holds specifications of that machinery, the TLC configurations that check them on small
instances, and TLAPS proofs of what matters most for every instance. `PROJECT.json` lists the components,
the runs, for every property a wrong version of the code that the run notices ("mutants"), which lines each
definition stands for ("map"), the findings, the hazards and the theorems.

Paths below are relative to `src/` of the repository's copy (so `src/wallet/online.rs` is
`src/src/wallet/online.rs` in PROJECT.json).

## 1. Inventory

### Transfer protocol (`wallet/online.rs`, `wallet/offline.rs`, `wallet/singlesig.rs`, `api/proxy.rs`)

*State.* `batch_transfer` rows (status, txid, expiration, `min_confirmations`, direction), `transfer` rows
(recipient, `ack`), `transfer_transport_endpoint` rows (`used`), the transfer directory on disk (signed
PSBT, fascia, consignments: written by `send_begin`, named after the TXID), the downloaded consignment, the
proxy's store (one consignment and at most one answer per recipient ID).

*Operations.* `send_begin`/`send_end` (or `send`), `blind_receive`/`witness_receive`, `refresh`,
`fail_transfers`, `delete_transfers`, `provide_out_of_band_consignment`, `provide_out_of_band_ack`.

*Interaction.* Sender and recipient wallets share nothing but the proxy (or a user who carries files), the
Bitcoin network and the convention that the sender takes over the invoice's expiration. Each wallet runs one
API call at a time, inside one database transaction.

*Hard.* The effects outside the database (a posted consignment, a posted ACK, a broadcast) are not undone by
a rollback; `refresh` swallows the error of one transfer and commits what that transfer had written;
`send_end` works from the directory and may be called again; two clocks decide when a transfer is given up;
answers arrive in any order, late or never.

*Correct when* nothing is published without the consent of every recipient (donations apart); nobody counts
on assets with an unsafe history or shows a transfer as settled early; whatever fails in between, what a
wallet recorded and what it told the others agree; every transfer ends.

### Allocation ledger (`online.rs`, `offline.rs`, `database/mod.rs`, `wallet/objects.rs`, `wallet/core.rs`)

*State.* `txo` rows (`exists`, `spent`, `pending_witness`), `coloring` rows (Issue, Receive, Change, Input),
`pending_witness_script`, the `pending_blinded` count derived from the open blind invoices.

*Operations.* Choosing inputs (`select_rgb_inputs`, `get_input_unspents`), topping up fees, choosing the
change UTXO (`get_utxo`), `save_transfers`, accepting and settling incoming transfers, failing and deleting,
`update_db_colored_txos_from_bdk`, `get_asset_balance`, `list_unspents`.

*Hard.* There is no balance column: settled, future and spendable balances are sums over colorings filtered
by the status of their batch and the flags of their TXO, which five operations change at different moments.
An input is reserved by nothing but a coloring.

*Correct when* the settled balance is what the wallet holds on chain whenever nothing is pending; no two live
transfers move the same allocation; a seat (the UTXO of a blind invoice or of a change) is not spent under
the allocation it waits for; the future balance never goes negative (`get_asset_balance` asserts it) and is
not changed by the mere progress of a transfer.

### Database transactions and BDK persistence (`database/mod.rs`, `wallet/core.rs`, `database/bdk.rs`)

*State.* The open transaction, the staged BDK changes, `bdk_pending.json` and its temporary file.

*Operations.* `begin_transaction`, commit, drop (rollback), `persist_bdk`, `flush_bdk_pending` (before a
broadcast: the changes a rollback must not lose), `setup_bdk` (folds the pending files in at start-up).

*Hard.* A crash between any two of: file written, file renamed, TX broadcast, commit, file removed.

*Correct when* after every crash and restart the wallet still knows the transactions it broadcast and the
addresses it gave out, and the BDK tables and the rest of the database come from the same commit.

### Vanilla transactions (`create_utxos`, `send_btc`, `drain_to`, `abort_pending_vanilla_tx`)

*State.* `wallet_transaction` and `reserved_txo` rows, the colored outputs in `txo`, BDK's view of the coins.
*Hard.* Begin and end are separate calls with the other operations in between; `drain_to` ignores the
reservations of the others; what must not be spent is read from the tables and what may be from BDK, and a
rollback takes things back from the first alone. *Correct when* what a begin reserved stays for its end, no
colored output is spent by accident, and a restart finds the wallet consistent.

### Multisig wallet and hub (`wallet/multisig.rs`, `api/multisig_hub.rs`)

*State.* The hub: a list of operations with the cosigners' votes and status, what each cosigner marked as
processed, the decision on each transfer. Each wallet: the index of the last operation it processed, its own
database. *Operations.* `*_init`, `sync_with_hub`, `respond_to_operation`, the handlers of each operation
type, `refresh`, `fail_transfers`. *Hard.* Wallets act on the same history at different times and must reach the
same database; the mark on the hub and the local commit are two steps; the hub knows a transfer by a row number
of the asking wallet's database. *Correct when* each wallet has processed a prefix of the list, the rows mean
the same in all of them, and cosigners do not contradict one another on a transfer.

### Issuance, inflation, burn (`offline.rs`, `online.rs`)

*State.* `asset.known_circulating_supply`, the RGB stock, the inflation rights. *Hard.* A wallet learns late of
what others inflated, checks against what it knows, and adds up after the broadcast. *Correct when* the supply it
shows was issued, and the holder of the rights knows it all.

### Stores of a wallet: directory, manifest, lock, stock, media, backup (`wallet/core.rs`, `wallet/backup.rs`, `utils.rs`)

*State.* The manifest, the BDK tables, the database, the stock of RGB contracts, the media directory, the lock
file, `backup_info`. *Hard.* Only the database has transactions; every error path must reach the drop of the
lock; the time of a backup is committed before its file is made. *Correct when* the consistency check of
`go_online` passes wherever a call stopped, settings never change, and a backup is asked for when one is needed.

### The rest

The reject list and `check_dag`, the indexer clients, the Rust-only API, migrations, error values, the
bindings: see "Not modelled" (section 10).

## 2. Plan

| # | module | about | state |
|---|--------|-------|-------|
| 1 | `RgbTransfer`, `TransferOutcome` | one batch transfer between sender, recipients, proxy and chain, with crashes and errors; refinement of what a transfer promises | done, safety and refinement proved |
| 2 | `Ledger` | the allocations of one wallet over several transfers: input selection, reservations, change seats, balances | done; reservations and balances proved |
| 3 | `BdkPersist` | how BDK's changes survive rollbacks, I/O errors and crashes | done, proved |
| 4 | `VanillaTxs` | `create_utxos`, `send_btc`, `drain_to` against the network, BDK and the tables | done, proved |
| 5 | `MultisigHub` | cosigners, votes, replay of the operation list, decisions on transfers | done, proved |
| 6 | `WalletStores` | creation, opening, issuance, receipt, backup and restore across the stores of a directory | done, proved |
| 7 | `Supply` | the supply of an asset as each wallet knows it | done, proved |

Each `X` has `MCX` (small instances for TLC), one `.cfg` per run, and `XProofs`. `SumTheorems` has the
lemmas about sums that `LedgerProofs` rests on.

How they fit together. Each module takes from its neighbours a free choice where these have state of their own:
`RgbTransfer` abstracts from which UTXOs a transfer moves, `Ledger` from the messages (an incoming transfer is
accepted, an outgoing one answered, by choice); their common alphabet is the status of a batch. `RgbTransfer`
takes "go on" for the hub's answer; `MultisigHub` has the hub's answers and one choice for what the
counterparty does. `BdkPersist` has every step between two durable states of BDK; `VanillaTxs` takes from it
that a call ends with the flush done or not, with or without its commit. `WalletStores` takes a database commit
as one step, which `BdkPersist` and SQLite justify. They are not composed by conjunction: the product of any two
is out of TLC's reach, and the interface (the status of a row, a commit that happens or does not) is small.

## 3. `RgbTransfer`: one transfer

### State and code

| variable | code |
|---|---|
| `batch`, `rdb[r]` | the committed `batch_transfer` row of the sender and of each recipient; with it the `ack` column of the sender's transfers (`acks`), the recipient's number of Receive colorings (`cols`) and its endpoint's `used` flag |
| `sop`, `rop[r]` | the API call in progress: which one, the next thing it does outside the database (`pc`) and its uncommitted copy of the row (`db`) |
| `prepared`, `donation`, `sends` | the transfer directory, and what `send_begin` wrote into it; calls of `send_end` |
| `posted`, `answer` | the proxy's store: consignment and ACK per recipient; for an out-of-band recipient what the user carried |
| `cached` | consignment and metadata on the recipient's disk |
| `histSafe` | whether the other unsafe transactions of the asset's history are deep enough |
| `conf` | confirmations of the TX, `NoTx` when the network does not know it |
| `expired` | the wallets whose clock is past the expiration |

Grain: an operation that touches only its database is one action. One with an outside effect is opened
(`StartCompletion`, `SendEnd`, `FetchConsignment`, ...), takes one step per effect (`PostConsignment`,
`PostAck`, `SenderBroadcast`, ...) and commits (`SenderCommit`, `ReceiverCommit`). Between two of these steps
the other wallets, the clocks and the miners move, the operation may die (`SenderAbort`, `ReceiverAbort`: a
crash or an error that leaves the call; the transaction rolls back), or, inside `refresh`, fail with its error
swallowed (`SenderSwallowedError`, `ReceiverSwallowedError`, `PollBreaksOff`: what was written so far is
committed). A refresh that finds nothing to do is a stuttering step and has no action.

What is a free choice: whether a consignment is valid (`RefuseConsignment`, `AcceptConsignment`, for each
attempt anew because the reject list may change), which of the answers a poll sees, whether an error happens
before or after the effect it interrupts. What is fixed: the proxy never changes an answer ("Cannot change
ACK"; the client only logs it); an out-of-band recipient answers by telling its user after the call has
returned and has no way to refuse; several transport endpoints of a recipient count as one; transactions are
neither reorganised nor evicted; the multisig hub says "go on".

`TransferOutcome` is what the parties can rely on: each recipient answers once, a TX that is no
donation is published only after every ACK, a recipient owns its assets only after publication.

### Runs

| run | instance | shows |
|---|---|---|
| `transfer_faults` | 2 proxy recipients, 2 faults, 2 `send_end` (2.9M states) | `BroadcastNeedsAcks`, `CreditedHistoryIsSafe`, `SettledIsBuried`, `AcceptedIsCredited`, `ReceiverStatusFlow`, and the refinement `ImplementsOutcome` |
| `transfer_ends` | 1 proxy and 1 out-of-band recipient, 1 fault, 1 `send_end` (271k) | that transfers end (`OutgoingIsResolved`, `PublishedIsReceived`), and what holds as long as there was no fault (`CreditedOnceWithoutFaults`, `FailedIsOffChainWithoutFaults`, `NoLateCompletion`) |
| `transfer_credited_twice` | 1 recipient, 1 fault | the finding below |

Bounds. `MinConf = 1` is the default of the library and has both sides of the comparison (0 and 1
confirmations). Two recipients are what a batch needs to be half answered, half posted, refused by one only;
a third adds nothing the code distinguishes. Two faults are needed for a lost answer followed by a lost
retry. `MaxSendEnds = 2` gives one repeated call. `transfer_ends` has one call only: a second `send_end` takes
a WaitingConfirmations row back to WaitingCounterparty, from where it can fail with its TX on the network,
see "Seen, not run" below. In `transfer_faults` the two recipients are symmetric. `DeadlineGroups`:
sender and recipients share the expiration, as the documentation of `send_begin` (`singlesig.rs:873-878`) asks
of the caller; the theorems hold for any grouping. Deadlock is not checked: a finished transfer has no next
step.

Fairness (`FairSpec`): a call that was made runs on until it returns or dies; wallets are refreshed again and
again, which is how the library is meant to be used ("refresh" is its only scheduler), and expired transfers are
failed; blocks are mined; clocks pass. No fairness for the users' hand-over, `provide_*` or deletion. Faults
are bounded by `MaxFaults`, so they stop, which "keeps failing for ever" would make liveness impossible.

### Finding

* `CreditedOnce`: an error while the ACK is posted commits the Receive colorings; the retry inserts them
  again.

Seen, not run. (1) `send_end` takes a Failed transfer back to WaitingCounterparty: `update_or_save_transfers`
(`online.rs:3182`) never looks at the status it overwrites, although `database/enums.rs:254` calls Failed
final. (2) A crash between broadcast and commit (`online.rs:1788`) lets the sender fail a published transfer;
`FailedIsOffChainWithoutFaults` is what remains. (3) The expiration is compared with the clock before the
broadcast, not with it (`online.rs:1766`), so a recipient that acts in between can have given up a transfer that
is then completed; `NoLateCompletion` states what the check does achieve.

### Proofs (`RgbTransferProofs`)

From `PartiesAssumption` and `BoundsAssumption` only (any set of recipients, any split into proxy and
out-of-band ones, any bounds, any deadlines):

* `TypeCorrect`: `Spec => []TypeOK`, one step per action.
* `Invariant`: `Spec => []Inv`. The safety properties alone are not inductive: a broadcast is justified by the
  uncommitted `sop.db.acks`, which must agree with `answer` (`KnownAnswers`, `ReadyToBroadcast`), and a
  recipient's open operation carries in its `pc` and its `db` what it will commit later (`AcceptedRow`,
  `CreditedRow`, `SettledRow`). `Inv` adds these to the properties.
* `NoBroadcastWithoutAcks`, `NoCreditOnUnsafeHistory`, `SettledIsFinal`, `AcceptedHasAllocation`: the
  safety properties, each from `Inv`.
* `FinalStaysFinal`: the action property `ReceiverStatusFlow`. It needs `OpenRows`: while an operation is open
  the committed row does not change under it, so the copy it commits is not stale.
* `TransferRefinesOutcome`: `Spec => ImplementsOutcome`, the refinement, step by step; `SenderImplements` and
  `ReceiverImplements` map each action to a step of `TransferOutcome` or to a stutter.

* Without faults: `CreditedOnceCorrect`, with the colorings counted along an operation (`CreditsRow`);
  `FailedIsOffChainCorrect` under `MaxSendEnds = 1`, because a transfer that is, or as a donation is sure to be, on
  the network is noted so by the row or by the operation that is open (`NotedWithoutFaults`);
  `NoLateCompletionCorrect`, for `NoLateCompletion` under `SharedDeadline`, because an ACK stands until the recipient's expiration
  (`AckStands`) and the sender's passes no later. That `faults` only grows is `FaultsGrow`.

Model-checked only: liveness, which is beyond the prover.

## 4. `Ledger`: the allocations of one wallet

### State and code

| variable | code |
|---|---|
| `status` | `batch_transfer.status`, "None" without a row |
| `coloring` | the `coloring` rows, each with its TXO, transfer, type, asset and amount |
| `known`, `exists`, `spent`, `pending` | the `txo` rows and their flags `exists`, `spent`, `pending_witness` |
| `plan` | the transfer directory: what the PSBT spends (the allocations it moves and the inputs for the fee), whether it has a BTC change output, the seat of the change, `donation` |
| `promised` | the `unblinded_utxo` of each blind invoice |
| `asked` | the `requested_assignment` of each witness invoice |
| `net` | the TXs that are on the network |
| `strays` | ghost: the transfers for which `send_end` ran without a reservation in place |
| `faults` | ghost: broadcasts whose database transaction was lost |

A TXO is one of `Utxos`, the BTC change output of an outgoing transfer (which has the transfer's name) or the
output of a witness receive (likewise). The colorings of one transfer, asset and type on one TXO are one
record with their sum.

Every API call, or the work of one refresh on one transfer, runs in one database transaction and is one
action. `SendBegin` is `send_begin`, with or without `dry_run`, and `send` (begin and end in one
transaction); it chooses inputs as `select_rgb_inputs` does (`Selects`), takes along everything else that sits
on them (`MovedFrom`), adds inputs for the fee (`TopUps`) and finds a seat (`Seats`, `Pick`). `SendEnd`
works from the plan alone. `Complete` is the refresh that broadcasts; `LoseBroadcast` the same broadcast with
the transaction rolled back. `Accept`, `ReachSafeHeight`, `SeeBroadcast` and `SettleReceived` are the steps of
an incoming transfer, `SyncTxo` is a synchronisation that finds one output, `Delete` is `delete_transfers`.

What is a free choice: whether a TX needs inputs for its fee or has a BTC change output (no BTC amounts),
when the other side answers, publishes or refuses (this is `RgbTransfer`'s subject), whether the
synchronisation has found an output yet, which amount and asset arrive (the code records what the consignment
says, not what the invoice asked).

### Runs

| run | instance | shows |
|---|---|---|
| `ledger_sends` | 2 outgoing, 1 blind; 3 UTXOs, 2 assets, one UTXO holding both; 1 fee input, 1 stray, 1 fault (2.0M states) | `ReservationIsExclusive`, `SeatIsKept`, `BalanceIsConserved`, `FutureIsSound`, `FutureIsKept` |
| `ledger_receives` | 1 outgoing, 1 blind, 1 witness; 2 UTXOs, 2 assets, three slots per UTXO (549k) | `TypeOK`, `SpendableIsUsable` |

Bounds. Two outgoing transfers are what a conflict needs; a blind receive is what a seat needs. Asset b only
ever moves along with a, or is ordered together with it, which is where allocations can be forgotten. Two
slots per UTXO (`ledger_sends`) let a UTXO with one allocation take one more; with three
(`ledger_receives`) a reserved UTXO still has a free slot, so that only the check for reservations keeps an
invoice off it. Amounts are 1 and 2: enough for a transfer with change, without, and one that needs two
inputs. In both runs witness invoices ask for no amount (see (2) below).

Exemptions, each named in the property. `Firm` leaves out strays: a `send_end` whose reservation is not there
(a dry run, or a transfer that was failed and perhaps deleted since) is the user's race, see (3)
below. `Undisturbed` leaves out strays and transfers with fee inputs, whose seats can be lost, see (1). `BalanceIsConserved` is about quiet states: with a transfer under way the settled balance depends on
`spent`, which the broadcast sets for inputs and nothing sets for a TX the wallet gave up on.
`SpendableIsUsable` waits for the synchronisation that finds a received output, because `fail_transfers` can
settle a transfer without one.

### Seen, not run

1. UTXOs added for the fee are not reserved (`online.rs:2331`, `3364`): a blind receive can be given one that the
   next broadcast spends, and what arrives on it is lost.
2. A witness receive with an amount in its invoice is counted twice in the future balance while it waits for
   confirmations, once by its invoice and once by its coloring (`database/mod.rs:757`).
3. A dry-run begin, a second begin of the same allocations and the end of the first make two live transfers of
   one allocation; the future balance goes below zero, upon which `get_asset_balance` panics
   (`database/mod.rs:827`).
4. A transfer of several assets puts one Change coloring per asset on its seat, which may exceed
   `max_allocations_per_utxo` (`offline.rs:126`: the limit is looked at once, before).

### Proofs (`LedgerProofs`)

From `IdentityAssumption` (names are distinct), `AmountAssumption` (an order asks for something),
`BoundAssumption` and `FinitenessAssumption` (a wallet has finitely many TXOs, assets, allocations and transfers:
they are rows of its database), for any wallet, any number of transfers, assets and amounts, any slots and bounds.

*Reservations.*

* `ReservationsHold`: `Spec => []Reservations`.
* `NoDoubleSpend`, `SeatsAreKept`: `ReservationIsExclusive` and `SeatIsKept`, which `Reservations` contains.

The two properties are not inductive: that a new transfer does not touch what an older one moves follows from
what `get_input_unspents` sees, so the invariant must say that everything under way has left something to see.
`Colored` and `ColoredInvoice` say that there are colorings, `InputsAreReal` that a broadcast transfer's
inputs are marked spent, `WasBegun` that a TXO of a transfer is not known before its begin, `PromisedIsReal`
that a deletion cannot take a row that is in use. `MovedIsSeen` and `SeatIsSeen` then give that whatever is
moved or awaited is visible, `PickedIsFree` that `get_utxo` looks, and `NewTransfer`, `NewPromise` and
`NothingNew` put them together; `GoingOn` covers every step that only adds rows.

*Balances.*

* `BooksHold`, `TypeCorrect`, `SpendableCorrect`: `Spec => [](Reservations /\ Books)`, and from it `TypeOK` and
  `SpendableIsUsable`, whatever strays and faults there were.
* `AccountsHold`: `Spec => [](Reservations /\ Accounts)`.
* `FutureSoundCorrect`, `FutureKeptCorrect`, `BalanceCorrect`: `FutureIsSound`, `FutureIsKept` and
  `BalanceIsConserved`, which are about undisturbed wallets as their definitions say.

A balance adds up rows that five operations wrote, so its invariant must say exactly which rows there are.
`Books` does, one concern to a conjunct: a transfer has the rows that saving or accepting it wrote and no
others (`RowsAreExact`); a broadcast has marked what it spends, and an output that has not been found or is
pending holds nothing but the rows of the transfer that makes it (`FlagsAreRight`); a plan spends TXOs that
exist and gives back what it moves beyond its order, on a seat that is there (`PlansAreRight`); an invoice is
open on a TXO that is there (`InvoicesAreRight`). That is enough for `SpendableIsUsable`: the balance subtracts the
allocations of the TXOs that `Blocked` finds, the selection skips those that `Usable` does not, and by
`Books` these are the same.

The other balances add what came and subtract what went, while the rows of a TXO drop out of the sum when it is
spent. `MovesAreWhole` makes the two agree: the transfers under way or settled move disjoint TXOs,
each with *everything* that came there (`plan.moved = CameTo(...)`), nothing more is on its way to them, and
every spent TXO is one of theirs. It holds only where no `send_end` came without a reservation and no
input was added for a fee (`Undisturbed`), and rests on `Reservations`: disjointness is what the colorings protect.
With it the balances have closed forms. The settled balance in a quiet state is what came and is
settled less what the settled transfers took of it; the future balance is the sum of all comings that still
stand less that of all goings that still stand, plus what witness invoices ask for
(`WitnessPending`, which `FutureAddsUp` has as zero). It is
not negative as the goings are part of the comings (`GoingsCame`), and it is kept because a step that merely goes
on changes the status of rows within these sets, never the sets.

`FutureKeptCorrect` has a hypothesis, `Requests \subseteq {0}`: no witness invoice asks for an amount. Without it
the statement is false of the code (see (2) above); both runs have the same restriction.

Both invariants were first checked by TLC on the instances of the two runs, next to their properties.

*Sums* (`SumTheorems`). The model adds up with `MapThenSumSet`, which takes the elements in an order that
`CHOOSE` fixes. `MapThenSumIsTotal` says that the order does not matter, and `TotalFacts` that a sum splits
at any element; `TotalAgrees` and `TotalIsNat` compare sums. These need inductions over finite sets, and the library's
induction theorems take the property as an operator, which the provers cannot instantiate; `SetInduction` and
`SubsetInduction` take it as a *set*, the family of the subsets that have it, and look at a counterexample of the
least size.

Not modelled: sending to oneself (one TX with an outgoing and incoming transfers), unique and inflation-right
assignments, BTC amounts, the retry of `send_begin` after a rejected input, the allocations that issuance,
inflation and burn create or destroy.

## 5. `BdkPersist`: what survives

### State and code

| variable | code |
|---|---|
| `mem`, `staged` | the BDK wallet and its staged `ChangeSet` |
| `pending` | `WalletInternals::bdk_pending` |
| `txn`, `todo` | the open `DbTxn` and the files its `on_commit` callbacks remove |
| `db` | the committed `bdk_*` tables |
| `disk` | `bdk_pending.json`, `.bdk_pending.json.tmp` and the legacy stores `bdk_db`, `bdk_db_watch_only` |
| `up`, `phase` | whether `Wallet::new` has returned, and how far the operation in progress is |
| `syncs`, `asked`, `handed`, `saved` | history: numbers for the entries a sync brings, the addresses an operation revealed and those it returned, the memory at the last acknowledged flush or commit |

| action | code |
|---|---|
| `Setup` | `setup_bdk`, with `import_legacy_bdk_store` |
| `Start`, `Reveal`, `Sync`, `Broadcast` | an operation: `begin_transaction`, `get_new_addresses`, `sync_bdk_and_db_txos`, `broadcast_psbt` |
| `Flush`, `Written`, `Renamed`, `FlushFails` | `flush_bdk_pending` and `atomic_write_with` |
| `Persist`, `RollBack` | `persist_bdk`; an `Err`, which drops the `DbTxn` |
| `Commit`, `CommitFails`, `Remove`, `Return` | `DbTxn::commit`, its callbacks, the end of the operation or of the constructor |
| `Crash` | between any two of these |

A changeset has one field for each way BDK merges: a set of transactions, a greatest index, an entry that is
replaced, a flag that is set. That covers the tables of `database/bdk.rs`; keychains, heights and timestamps
are independent rows, so one of each is enough. Operations that do not touch BDK commit without
`persist_bdk`; here they would be stutters. The callback of `persist_bdk` that empties `bdk_pending` is part
of `Commit`: only a crash could come between, and that empties it too. Callbacks remove files in any order,
which includes the order they were registered in. A legacy store that cannot be read at all makes `Wallet::new` fail
and changes nothing.

### Runs

| run | instance | shows |
|---|---|---|
| `bdk_crashes` | 2 transactions, 2 addresses, 2 syncs, each legacy store absent, whole or truncated (3.4M states) | `TypeOK`, `NothingIsLost`, `SavedIsRecovered`, `AddressIsFresh` |

Bounds. Two transactions and two addresses let one be acknowledged and another be on its way when a crash
comes; two syncs are needed for an entry to be replaced. Crashes, restarts, failed commits and rebroadcasts
are not bounded. No fairness is assumed: all properties are safety.

`SavedIsRecovered` promises what was acknowledged: a crash between the network's answer and the end of the
flush does lose the transaction (it is found again by a sync, if its outputs are at revealed addresses), and
so may a crash in a flush that follows a failed one, which begins by removing the temporary file.

Seen, not run: a pending file that outlives the commit of a newer entry is applied over it at the next start
(`core.rs:341`). The index of revealed addresses is safe (its upsert never lowers it), transactions are too (they
are never removed); a block hash or a timestamp goes back until the next sync.

### Proofs (`BdkPersistProofs`)

From `FileAssumption` and `OldAssumption`, for any transactions, legacy stores and bounds: `PersistTypes`,
`ChangesAreKept`, `SavedSurvives` and `AddressesAreFresh`, one for each property of `bdk_crashes`.

Only `SavedIsRecovered` and `AddressIsFresh` need a strengthening, `Kept`: what was saved is covered three
times, by what a restart would find, by memory, and (while the wallet is up) by the database with the pending
file but without the temporary one, because a flush starts by destroying that. `Shape` ties the phases to the
places: after `Written` the temporary file is exactly the pending changes, after `Commit` the database is
exactly the memory, which is why a callback may remove any file. `RecoveredNext` says that once the database
has anything a restart finds at least what it and the pending file hold; the lemmas on `Merge` and `Upsert`
(associative, growing, equal) make the sum of `NothingIsLost` move from place to place.

## 6. `VanillaTxs`: transactions a wallet makes for itself

### State and code

| variable | code |
|---|---|
| `txs` | the PSBTs prepared so far: kind, inputs, whether there is change, `held` (the caller has it from a begin), `dry` (it has no reservations, or they were released) |
| `published`, `received` | the network: the wallet's transactions, and those of others that pay its colored keychain |
| `known`, `saved` | what BDK's graph has in memory, and what a restart brings back of it |
| `dbTxos`, `dbSpent` | rows of `txo` with `exists`, those with `spent` |
| `reserved`, `recorded` | `reserved_txo` by transaction, `wallet_transaction` |
| `online` | the application holds an `Online` of this process |
| `cut`, `faults` | history: transactions broadcast by a call that did not commit; kinds of faults so far |

An output is a keychain and the number of the transaction that made it: a vanilla or colored output of one of
`txs`, a vanilla deposit, a colored receipt.

| action | code |
|---|---|
| `CreateUtxosBegin`, `SendBtcBegin`, `DrainToBegin` | `*_begin` with and without `dry_run`: sync, input selection, `reserve_vanilla_txos` |
| `CreateUtxosEnd`, `SendBtcEnd`, `DrainToEnd` | `*_end`, also for the second time: `broadcast_psbt`, `finalize_vanilla_wallet_transaction` |
| `CreateUtxos`, `SendBtc`, `DrainTo` | both in one database transaction, nothing reserved |
| `AbortPendingVanillaTx` | `abort_pending_vanilla_tx` |
| `SyncColored`, `RolledBack` | a committed colored sync; a call that syncs and then fails |
| `GoOnline`, `GoOnlineUnchecked` | `go_online`: full scan and `wallet_specific_consistency_checks`, or `skip_consistency_check` |
| `Crash`, `Receive` | end of the process; another wallet pays this one |

`Completed` and `CutShort` are the two ends of a broadcast: commit, or an error or crash after the network has it,
with the flush of BDK's changes done or not (`BdkPersist` has the steps in between). A sync shows any part of the
transactions that touch its keychains: the indexer answers script by script and may be behind.

Free choices: the inputs of `send_btc` are any non-empty part of what it may spend, change is any choice
(amounts and fees decide it in the code); a drain takes everything, `create_utxos` everything vanilla that is
not reserved.

### Runs

| run | instance | shows |
|---|---|---|
| `vanilla_calls` | 3 transactions, a deposit, a receipt, all four faults, one kind per behaviour (967k states) | `TypeOK`, `PendingIsSafe`, `ColoredIsKept`, `UnspentIsUnspent`, `BroadcastIsRecorded` |
| `vanilla_colored` | 2 transactions, rollbacks only | the finding below |

Bounds. Three transactions give a pending one, one that meets it and one whose change both may spend.
`MaxKinds = 1` lets a fault happen any number of times but does not mix kinds; every property names the kinds it
needs to be absent, and the theorems have no such bound. No fairness: all properties are safety. Deadlock is not
checked, as the bounds end every behaviour.

Each property says what it leaves out, and the code decides that: a drain ignores reservations on purpose
(`PendingIsSafe`); a call that synchronised and then failed leaves BDK ahead of the table (`ColoredIsKept`); a
broadcast whose call did not commit is unknown to the tables (`UnspentIsUnspent`, `BroadcastIsRecorded`).

### Finding

* `SendIsVanilla`: a call that syncs the colored keychain and is rolled back leaves an output in BDK's memory that
  the `txo` table does not have; `send_btc` excludes what is in the table, so it may spend the output.

Seen, not run: after a crash between broadcast and commit `go_online` may refuse the wallet ("spent bitcoins with
another wallet"), which `UnspentIsUnspent` gives as the only cause; a transaction whose end was cut short is
still pending to the tables, so `abort_pending_vanilla_tx` accepts it although it is on the network.

### Proofs (`VanillaTxsProofs`)

From `VanillaAssumption`, for any deposits, receipts, faults and number of transactions: `VanillaTypes`,
`ReservedInputsStay`, `ColoredOutputsStay`, `TableIsTruthful`, `CommittedIsListed`, one for each property of
`vanilla_calls`.

`IInv` joins the properties with what makes them inductive. `CommittedIsSaved`: what was committed survives a
restart (a flush precedes the broadcast's commit). `KnowsItsOwn`: unless a check was skipped, an online wallet
knows every transaction it published, which is why a later selection does not meet an earlier input again.
`TableFollows`, `TableExists`: the table has every colored output BDK can select, as long as nothing was rolled
back, and none that never existed. `Reservations`: two transactions never reserve one output, and a pending
begin still has what it reserved. `NoColoredInput` is `ColoredIsKept` for what is prepared and not yet published.

## 7. `MultisigHub`: cosigners and the hub

### State and code

| variable | code |
|---|---|
| `nops`, `op` | the hub's operations: kind, status, who acknowledged and who rejected |
| `marked` | what each cosigner reported with `mark_operation_processed` |
| `decision` | the first of accepted and failed that a cosigner registered for a `batch_transfer` number |
| `answer`, `expired`, `txs` | outside: the recipient's ACK or the sender's consignment, the clock, the network |
| `lastOp` | `backup_info.last_processed_operation_idx` |
| `rows`, `slot`, `status` | the `batch_transfer` rows of a wallet: how many ever, which belongs to which operation, status |
| `applied` | history: the operations whose effects the database holds |
| `pc` | where `sync_with_hub` stands between its commits |
| `failures` | handlers cut short and restores so far |

The hub is a service of another repository; its part is what the client relies on, and is marked external. A
PSBT is the number of its operation; WaitingConfirmations stands for Settled too; Initiated and WaitingSafeHeight are `RgbTransfer`'s
subject.

| action | code |
|---|---|
| `CreateUtxosInit`, `SendBtcInit`, `SendInit`, `InflateInit`, `BurnInit` | the `*_init` methods: post, and wait for votes |
| `IssueAsset`, `BlindReceive`, `WitnessReceive` | posted and approved at once, then executed (`Process`) |
| `RespondToOperation` | `respond_to_operation`, which also executes what its vote decides |
| `SyncBegin`, `SyncNothing`, `SyncProcess`, `SyncEnd` | `sync_with_hub`, from commit to commit |
| `Refresh`, `FailTransfers` | `refresh`, `fail_transfers` with the hub's decisions |
| `RestoreBackup` | a wallet starts again from another cosigner's backup |
| `CounterpartyAnswers`, `CounterpartyBroadcasts`, `Expire` | outside |

`Process` is `process_operation`: broadcast, mark on the hub, commit. `CutShort` ends it before the broadcast,
after it or after the mark, with nothing committed (`CrashPoints`). A refresh without the indexer
(`online = FALSE`) has registered its decision at the hub and done nothing else.

### Run

| run | instance | shows |
|---|---|---|
| `hub_cosigners` | 2 cosigners, 1 watch-only wallet, 2 operations of every kind, 1 failure, threshold 2 (1.3M states) | `TypeOK`, `ProcessedInOrder`, `SameRows`, `CosignersAgree` |

Bounds. Two operations, the first of which adds a row or not, are what a skipped operation needs to shift the rows
of the next. One failure may come anywhere: every finding below needs just one. A third cosigner adds an intermediate
number of votes, which nothing but the hub's counting looks at. Deadlock is not checked (a finished list).

`SyncsFirst = TRUE`: the applications call `sync_with_hub` until it returns nothing before they post or respond, as
`docs/multisig.md` describes. The hub refuses a cosigner whose *marks* are behind, and the client does not look at
its own database; so with `SyncsFirst = FALSE` and a crash between mark and commit, a wallet that posts next
skips an operation for good, and its rows no longer mean what the others' do (`multisig.rs:1257`,
`docs/multisig.md:54`). The theorems hold with `SyncsFirst`, or without if there is no such crash and no restore.

Seen, not run. (1) Two signatures are asked for even when the threshold is one (`multisig.rs:1940`): an operation
approved by one signature cannot be executed by anybody and blocks the list. So does an approved
transaction that the network refuses. (2) A cosigner that refreshes after the expiration a send that another one
accepted and broadcast gets `MultisigTransferStatusMismatch` and keeps it in WaitingCounterparty for good. (3) An
accepted receive in WaitingBroadcast can never be failed, as the hub's decision says accepted. (4) An invalid consignment
is refused without a word to the hub, so that a watch-only wallet waits until it looks itself.

### Proofs (`MultisigHubProofs`)

From `ConstantsAssumption` and `Careful` (`SyncsFirst`, or neither crashes after the
mark nor restores), for any group, thresholds, kinds and number of operations: `TypeCorrect`, `OrderCorrect`,
`RowsCorrect`.

The invariant is `TypeOK`, `Order` (each wallet has processed a prefix whose operations are resolved on the hub),
`Rows` and `Unposted`. `SameRows` alone is not inductive: that two wallets give an operation the same row follows
from both giving it its *rank* among the operations that open a transfer (`Opened`), and ranks are stable
because a resolved operation never changes. The rank is a cardinality; `OpenedNext` says what the next operation
adds to it.

Its second part proves `AgreementCorrect`, that is `CosignersAgree`, under the same `Careful`. A decision
is keyed on the hub by the number of the transfer's row, so agreement rests on that row being the rank. Its
invariant adds: only operations that open a transfer have rows (`Linked`); a row that goes on is backed by
"accepted" on the hub and a cosigner's Failed row by "failed", or by a NACK to a receive (`StatusesFollow`); an
accepted receive was answered with an ACK and a send that is on the network was accepted (`DecisionsFollow`); all
operations but the last are resolved; nothing is decided or sent for a transfer that is not open yet
(`NothingEarly`). `RanksDiffer` makes the hub's key unambiguous; `RefreshSound`, `StoreKeeps` and `OperationKeeps`
carry the invariant over the steps of a refresh, a registration and a new operation.

## 8. `WalletStores`: the directory of a wallet

### State and code

| variable | code |
|---|---|
| `disk[d]` | the wallet's directory in each data directory: `made`, `manifest`, `bdk` (settings the BDK tables were created with), `assets` (rows), `dirty` (`backup_info`: an operation later than the last backup), `contracts` (RGB stock), `files` (media), `lock` (`rgb_runtime.lock`); `whole` and `missed` are history |
| `backups` | the contents of the backup files |
| `wallet`, `call` | the open wallet; the call under way, its next step and the media it has fetched |

| action | code |
|---|---|
| `NewWallet`, `LoadWallet`, `SetupBdk`, `LockForKits`, `SetupRgb`, `WriteManifest` | `Wallet::new`, `Wallet::load` step by step |
| `IssueAsset`, `CopyMediaFile`, `IssueContract`, `LockForImport` | `issue_asset_*`, `finalize_offline_issuance` |
| `ReceiveAsset`, `LockForFetch`, `FetchAttachment`, `FetchedAll`, `RefuseConsignment` | `refresh` of an incoming transfer of a new asset, with its media |
| `ImportContract`, `DropRuntime`, `Commit` | shared by both: stock, lock, database |
| `GoOnline`, `LockForCheck`, `CheckConsistency` | `check_consistency` |
| `Backup`, `BackupRaw`, `BackupFails` | `backup_customize` |
| `RestoreBackup`, `RestoreBreaksOff` | `restore_backup`, and what `unzip` leaves when it breaks off |
| `LockFails`, `Fails`, `Crash` | a lock that stays, an error at any step, the end of the process |

The files are not in a transaction and change one at a time; the database changes in `Commit`. A `Dirs` element is
a data directory (a wallet's directory name is its fingerprint, so one each), which lets a backup be restored
beside the original and used there.

### Runs

| run | instance | shows |
|---|---|---|
| `stores_crashes` | 2 directories, 2 settings, 2 assets that share a medium, 1 backup, all three faults (5.7M states) | `TypeOK`, `StoresAgree`, `SettingsAreFixed`, `LockIsReleased`, `FlagIsSound` |
| `backup_forgotten` | the same | the finding below |

Bounds. Two assets sharing a medium are what a refused consignment needs to take something away from another
asset; two settings what a manifest and a BDK wallet need to differ; one backup, restored any number of times. One
kind of fault per behaviour, as often as it likes. No fairness, and no deadlock check needed: a wallet can always be closed.

### Finding

* `BackupIsRequired`: a backup that fails leaves its time in the database, and `backup_info` says none is required.
  `FlagIsSound` is what holds: only then.

Seen, not run: a crash, or a stock that cannot be read, leaves `rgb_runtime.lock`, after which each opening
waits 3600 seconds and fails until somebody removes the file (`utils.rs:1021`); a backup contains the lock if there
is one. A restore that breaks off leaves a directory that opens as a wallet, perhaps an empty one, and in
the way of a second restore (`whole` exempts it from `StoresAgree`). `decrypt_file` takes a ciphertext cut at a block
boundary for a whole one; the checksums of the archive notice it.

### Proofs (`WalletStoresProofs`)

From `StoresAssumption`, for any directories, settings, assets, media, backups and faults: `StoresTypes`,
`StoresAlwaysAgree`, `SettingsNeverChange`, `NoErrorLeavesTheLock`, `FlagIsAlwaysSound`, one per property.

`IInv` adds `CallInv`, what the call under way has established: `OpensWithOne` (an opening that passed the
database step has the BDK tables of its settings, and a manifest of none or the same), `CommitIsPrepared` (from the
import on the media are there, from the drop on the contract, too), `BackupIsNoted`. `SafeIsLocal` says `Safe` directory by
directory, so that a step has to show it of the one it changes only.

## 9. `Supply`: what is issued and what is known

### State and code

| variable | code |
|---|---|
| `asset`, `inflated`, `supplies`, `burned`, `right` | the contract on chain: genesis, the chain of inflations, what was issued up to each (`total_issued_supply` of a history), the allocation of the rights |
| `dbRight`, `known`, `stock` | each wallet: its coloring of the rights, `known_circulating_supply`, how many inflations its stock has |
| `psbts`, `counted`, `repeated` | inflations prepared, those whose end was committed, whether an end was repeated |
| `pending` | transfers validated and not settled |

| action | code |
|---|---|
| `CreateNiaContract`, `CreateUdaContract`, `CreateCfaContract`, `CreateIfaContract` | `issue_asset_*` |
| `InflateBegin`, `InflateEnd` | `inflate_begin`, `inflate_end`, also repeated or cut short after the broadcast |
| `Burn` | `burn_begin` and `burn_end` |
| `ReceiveAmount`, `ReceiveRights`, `Settle` | a transfer between wallets, as far as it carries a history |

### Run

| run | instance | shows |
|---|---|---|
| `supply_inflations` | 3 wallets, amounts to 3, 3 inflations, 2 moves of the rights (536k states) | `TypeOK`, `KnownIsReal`, `InflatorKnows` |

Bounds. `MaxAmount = 3` stands for `u64::MAX`, small enough that sums reach it. Three wallets are an issuer, a new
inflator and one that learns late. Deadlock is not checked (bounds).

Exemptions: `KnownIsReal` ends with the first repeated end, as `inflate_end` adds its amount each time
(`online.rs:3905`), even if the stock has meanwhile brought it in; beyond `u64::MAX` the wallet gets an error after
the broadcast. `InflatorKnows` is about states in which no end is cut short. Burning does not lower the known
supply, in the code and in the model.

### Proofs (`SupplyProofs`)

From `SupplyAssumption`, for any wallets, width of the amounts and bounds: `SupplyTypes`, `NoSupplyIsInvented`,
`HolderKnowsTheSupply`.

`IInv` needs the whole economy: `ChainAddsUp` (each supply is the one before plus an inflation; supply and rights left
add up to the maximum), `RightIsUnique` (one wallet at most holds the rights of the current version, or they are on
their way), `PsbtsAreOld` (a prepared inflation is on a version at or before the current one), `StockIsKnown`, and for
the properties `NoExcess` (nobody knows of more than was issued) and `NoDelay` (a wallet knows what its stock
shows, but for an inflation of its own that was cut short, and the holder of the rights knows all).

## 10. Limits

*Only model-checked.* Liveness (`OutgoingIsResolved`, `PublishedIsReceived`): beyond the prover. Every invariant
and every other action property of the runs that pass is stated by a theorem.

*Fairness* is assumed in `transfer_ends` alone (section 3). Everything else is safety and holds of `Spec`.

*Not modelled.*

* Rejected history: `check_dag` and the reject list are a search over the ancestors of a consignment, without
  state of their own; the verdict is a choice in `RgbTransfer`.
* Rust-only API: single steps for callers that build their own PSBT; the order of calls, which the properties are
  about, is then the caller's.
* Migrations run once, inside one transaction of the migration library.
* Error values, API objects and bindings have no behaviour of their own.
* Parts of modelled components: sending to oneself, unique assignments, BTC amounts and fees, the retry of
  `send_begin` after a rejected input, the colorings of inflations and burns (`Ledger`); address indices and the
  files of an operation (`MultisigHub`); the encryption and format of a backup (`WalletStores`); reorganisations
  and evictions (everywhere: the code has no handling for them to model).
* Coverage: bindings, error values, objects, and the plumbing of the API layers are about half of the
  implementation's lines; nothing there changes state.
