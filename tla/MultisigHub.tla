---------------------------- MODULE MultisigHub ----------------------------
(***************************************************************************)
(* The multisig wallet: a group of cosigners, and third parties with       *)
(* watch-only access, that run one wallet by processing the operations of  *)
(* a hub, in order (src/src/wallet/multisig.rs, src/src/api/               *)
(* multisig_hub.rs, docs/multisig.md).                                     *)
(*                                                                         *)
(* The hub is a service of another repository.  It is modelled from how    *)
(* the client uses it: it numbers the operations, counts the responses,    *)
(* remembers what each cosigner has marked as processed, refuses a post or *)
(* a response of a cosigner that is behind, and keeps the first decision   *)
(* registered for a batch transfer.  A batch transfer is named to the hub  *)
(* by the row number it has in the database of the wallet that asks.       *)
(*                                                                         *)
(* Simplifications: a PSBT is its operation's number; the consignments,    *)
(* the indexer and the counterparties are one answer per transfer, given   *)
(* to every wallet alike; WaitingConfirmations stands for Settled too;     *)
(* Initiated and WaitingSafeHeight are left to RgbTransfer; the addresses  *)
(* revealed by an operation are not modelled.                              *)
(***************************************************************************)
EXTENDS Naturals, FiniteSets

CONSTANTS
    Cosigners,      \* the wallets that vote
    WatchOnly,      \* the wallets that only follow
    Threshold,      \* signatures an operation needs, for each kind
    SyncsFirst,     \* TRUE if the applications call sync_with_hub until it
                    \* returns None before they post or respond
    CrashPoints,    \* where a handler may be cut short: see CutShort
    Restores,       \* TRUE if a wallet may be restored from a cosigner's backup
    KindsAt,        \* bound: the kinds the n-th operation may have
    MaxOps,         \* bound: operations posted
    MaxFailures     \* bound: handlers cut short by a crash or an error, restores

Wallets == Cosigners \cup WatchOnly
Idx == 1..MaxOps

\* OperationType; a send is split by its donation flag
Voted   == {"CreateUtxos", "SendBtc", "SendRgb", "Donation", "Inflation", "Burn"}
Receive == {"BlindReceive", "WitnessReceive"}
Kinds   == Voted \cup Receive \cup {"Issuance"}

\* kinds whose execution broadcasts the transaction at once
Broadcasts == Voted \ {"SendRgb"}
\* kinds whose execution adds a row to batch_transfer
OpensTransfer == Kinds \ {"CreateUtxos", "SendBtc", "Issuance"}

ASSUME ConstantsAssumption ==
    /\ IsFiniteSet(Cosigners) /\ Cosigners # {}
    /\ WatchOnly \cap Cosigners = {}
    /\ MaxOps \in Nat \ {0} /\ MaxFailures \in Nat
    /\ KindsAt \in [Idx -> SUBSET Kinds]
    /\ SyncsFirst \in BOOLEAN /\ Restores \in BOOLEAN
    /\ CrashPoints \subseteq {"start", "sent", "marked"}
    \* MultisigKeys::build_descriptors refuses any other threshold
    /\ Threshold \in [Voted -> 1..Cardinality(Cosigners)]

VARIABLES
    nops,       \* hub: operations posted
    op,         \* hub: kind, status and responses of each operation
    marked,     \* hub: operations each cosigner reported as processed
    decision,   \* hub: decision registered for each batch transfer row
    answer,     \* counterparty: its ACK or NACK, or the consignment it sent
    expired,    \* operations whose transfer is past its expiration
    txs,        \* operations whose transaction is on the network
    lastOp,     \* wallet: backup_info.last_processed_operation_idx
    applied,    \* wallet: operations whose effects its database holds (history)
    rows,       \* wallet: rows ever added to batch_transfer
    slot,       \* wallet: the row of each operation's transfer, 0 for none
    status,     \* wallet: the status of each operation's transfer
    pc,         \* wallet: where sync_with_hub stands between its commits
    failures    \* handlers cut short so far

hubVars    == <<nops, op, marked, decision>>
worldVars  == <<answer, expired>>
localVars  == <<lastOp, applied, rows, slot, status>>
vars == <<nops, op, marked, decision, answer, expired, txs,
          lastOp, applied, rows, slot, status, pc, failures>>

Statuses == {"none", "WaitingCounterparty", "WaitingBroadcast",
             "WaitingConfirmations", "Failed"}
OpRec == [kind : Kinds, status : {"pending", "approved", "discarded"},
          acked : SUBSET Cosigners, nacked : SUBSET Cosigners]
NoOp == [kind |-> "none", status |-> "none", acked |-> {}, nacked |-> {}]

\* One type invariant: the hub's and the wallets' tables.
TypeOK ==
    /\ nops \in 0..MaxOps
    /\ op \in [Idx -> OpRec \cup {NoOp}]
    /\ marked \in [Cosigners -> SUBSET Idx]
    /\ decision \in [Idx -> {"none", "accepted", "failed"}]
    /\ answer \in [Idx -> {"none", "ack", "nack"}]
    /\ expired \subseteq Idx
    /\ txs \subseteq Idx
    /\ lastOp \in [Wallets -> 0..MaxOps]
    /\ applied \in [Wallets -> SUBSET Idx]
    /\ rows \in [Wallets -> 0..MaxOps]
    /\ slot \in [Wallets -> [Idx -> 0..MaxOps]]
    /\ status \in [Wallets -> [Idx -> Statuses]]
    /\ pc \in [Wallets -> {"idle", "fetch", "refresh"}]
    /\ failures \in 0..MaxFailures

Init ==
    /\ nops = 0
    /\ op = [i \in Idx |-> NoOp]
    /\ marked = [c \in Cosigners |-> {}]
    /\ decision = [i \in Idx |-> "none"]
    /\ answer = [i \in Idx |-> "none"]
    /\ expired = {} /\ txs = {}
    /\ lastOp = [w \in Wallets |-> 0]
    /\ applied = [w \in Wallets |-> {}]
    /\ rows = [w \in Wallets |-> 0]
    /\ slot = [w \in Wallets |-> [i \in Idx |-> 0]]
    /\ status = [w \in Wallets |-> [i \in Idx |-> "none"]]
    /\ pc = [w \in Wallets |-> "idle"]
    /\ failures = 0

-----------------------------------------------------------------------------
(* The hub.                                                                 *)

Resolved(i) == op[i].status \in {"approved", "discarded"}

\* A post is refused while an operation is pending, and to a cosigner behind.
PostAllowed(c) ==
    /\ nops < MaxOps
    /\ \A i \in 1..nops : Resolved(i) /\ i \in marked[c]

\* A response is refused unless the operation is the next one to process.
RespondAllowed(c, i) ==
    /\ op[i].status = "pending"
    /\ c \notin op[i].acked \cup op[i].nacked
    /\ \A j \in 1..(i - 1) : j \in marked[c]

\* Auto-approved kinds are approved when posted.
NewOp(k) ==
    [kind |-> k, status |-> IF k \in Voted THEN "pending" ELSE "approved",
     acked |-> {}, nacked |-> {}]

\* The status follows from the responses.
Counted(r) ==
    [r EXCEPT !.status =
        IF Cardinality(r.acked) >= Threshold[r.kind] THEN "approved"
        ELSE IF Cardinality(r.nacked) > Cardinality(Cosigners) - Threshold[r.kind]
             THEN "discarded"
             ELSE "pending"]

Answered(r, c, ack) ==
    Counted(IF ack THEN [r EXCEPT !.acked = @ \cup {c}]
                   ELSE [r EXCEPT !.nacked = @ \cup {c}])

-----------------------------------------------------------------------------
(* Executing an operation in a wallet.                                      *)

\* combine_psbts_from_files wants two signed PSBTs at least.
Executable(r) ==
    (r.kind \in Voted /\ r.status = "approved") => Cardinality(r.acked) >= 2

Opens(r) == r.status = "approved" /\ r.kind \in OpensTransfer

\* A row of batch_transfer for operation i, in the given status.
AddTransfer(w, i, first) ==
    /\ rows' = [rows EXCEPT ![w] = @ + 1]
    /\ slot' = [slot EXCEPT ![w][i] = rows[w] + 1]
    /\ status' = [status EXCEPT ![w][i] = first]

NoTransfer == UNCHANGED <<rows, slot, status>>

\* create_utxos_end and send_btc_end add no transfer, an imported contract
\* comes with allocations that are settled.
FinalizeVanilla == NoTransfer
AcceptIssuanceConsignment == NoTransfer

FinalizeSend(w, i, r) ==
    AddTransfer(w, i, IF r.kind = "Donation" THEN "WaitingConfirmations"
                                             ELSE "WaitingCounterparty")
FinalizeInflation(w, i) == AddTransfer(w, i, "WaitingConfirmations")
FinalizeBurn(w, i) == AddTransfer(w, i, "WaitingConfirmations")
\* Mutant: a status a receive never starts in.
ImportReceiveDataInitiated(w, i) == AddTransfer(w, i, "Initiated")
ImportReceiveData(w, i) == AddTransfer(w, i, "WaitingCounterparty")

\* The rows an approved operation adds, by its kind.
Execute(w, i, r) ==
    CASE r.kind \in {"CreateUtxos", "SendBtc"} -> FinalizeVanilla
      [] r.kind \in {"SendRgb", "Donation"} -> FinalizeSend(w, i, r)
      [] r.kind = "Inflation" -> FinalizeInflation(w, i)
      [] r.kind = "Burn" -> FinalizeBurn(w, i)
      [] r.kind \in Receive -> ImportReceiveData(w, i)
      [] OTHER -> AcceptIssuanceConsignment

\* What is visible outside before the wallet commits: the transaction ...
Sent(i, r) ==
    txs' = IF r.status = "approved" /\ r.kind \in Broadcasts THEN txs \cup {i} ELSE txs

\* ... and the mark on the hub, which a watch-only wallet does not set.
Marked(w, i) ==
    IF w \in Cosigners THEN [marked EXCEPT ![w] = @ \cup {i}] ELSE marked

\* Mutant: the hub's last operation is recorded as the processed one.
CommitLast(w, i, r) ==
    /\ lastOp' = [lastOp EXCEPT ![w] = IF nops > i THEN nops ELSE i]
    /\ applied' = [applied EXCEPT ![w] = @ \cup {i}]
    /\ IF r.status = "approved" THEN Execute(w, i, r) ELSE NoTransfer

\* The local transaction: the rows of the operation and its number.
Commit(w, i, r) ==
    /\ lastOp' = [lastOp EXCEPT ![w] = i]
    /\ applied' = [applied EXCEPT ![w] = @ \cup {i}]
    /\ IF r.status = "approved" THEN Execute(w, i, r) ELSE NoTransfer

\* Cut short: nothing local, and of the outside effects a prefix.
CutShort(w, i, r) ==
    /\ failures < MaxFailures
    /\ failures' = failures + 1
    /\ \E p \in CrashPoints :
         /\ IF p = "start" THEN txs' = txs ELSE Sent(i, r)
         /\ marked' = IF p = "marked" THEN Marked(w, i) ELSE marked
    /\ UNCHANGED localVars

\* process_operation for operation i with the content r the hub returned.
Process(w, i, r) ==
    \/ /\ Executable(r)
       /\ Sent(i, r)
       /\ marked' = Marked(w, i)
       /\ Commit(w, i, r)
       /\ UNCHANGED failures
    \/ /\ Executable(r)
       /\ CutShort(w, i, r)
    \/ /\ ~Executable(r)
       /\ UNCHANGED <<txs, marked, localVars, failures>>

-----------------------------------------------------------------------------
(* Posting operations.                                                      *)

Post(c, k) ==
    /\ pc[c] = "idle"
    /\ PostAllowed(c)
    /\ SyncsFirst => lastOp[c] = nops
    /\ k \in KindsAt[nops + 1]
    /\ nops' = nops + 1
    /\ op' = [op EXCEPT ![nops + 1] = NewOp(k)]

\* The *_init methods build a PSBT without reserving anything, and post it.
InitOperation(c, k) ==
    /\ Post(c, k)
    /\ UNCHANGED <<marked, decision, worldVars, txs, localVars, pc, failures>>

CreateUtxosInit(c) == InitOperation(c, "CreateUtxos")
SendBtcInit(c)     == InitOperation(c, "SendBtc")
SendInit(c)        == \E k \in {"SendRgb", "Donation"} : InitOperation(c, k)
InflateInit(c)     == InitOperation(c, "Inflation")
BurnInit(c)        == InitOperation(c, "Burn")

\* An issuance or a receive is posted, then executed and marked at once.
PostApproved(c, k) ==
    /\ Post(c, k)
    /\ Process(c, nops + 1, NewOp(k))
    /\ UNCHANGED <<decision, worldVars, pc>>

IssueAsset(c)     == PostApproved(c, "Issuance")
BlindReceive(c)   == PostApproved(c, "BlindReceive")
WitnessReceive(c) == PostApproved(c, "WitnessReceive")

-----------------------------------------------------------------------------
(* respond_to_operation: the response, then the operation it returns.       *)

RespondToOperation(c, i, ack) ==
    /\ pc[c] = "idle"
    /\ i <= nops
    /\ RespondAllowed(c, i)
    /\ SyncsFirst => lastOp[c] = i - 1
    /\ LET r == Answered(op[i], c, ack) IN
         /\ op' = [op EXCEPT ![i] = r]
         /\ IF r.status = "pending"
            THEN UNCHANGED <<txs, marked, localVars, failures>>
            ELSE Process(c, i, r)
    /\ UNCHANGED <<nops, decision, worldVars, pc>>

-----------------------------------------------------------------------------
(* Refreshing the transfers: one pass over the transfer of operation i in   *)
(* wallet w, as a function of its status, the hub's decision on its row     *)
(* and whether its transaction is on the network.                           *)

View(w, i) == [status |-> status[w][i], decision |-> decision[slot[w][i]],
               sent |-> i \in txs]

\* Mutant: the answer of the hub is ignored.
FailBatchTransferAnyway(w, v) ==
    IF w \notin Cosigners THEN [v EXCEPT !.status = "Failed"]
    ELSE [v EXCEPT !.status = "Failed",
                   !.decision = IF @ = "none" THEN "failed" ELSE @]

\* fail_batch_transfer: a cosigner tells the hub first, and gives up when the
\* hub answers that the transfer was accepted.
FailBatchTransfer(w, v) ==
    IF w \notin Cosigners THEN [v EXCEPT !.status = "Failed"]
    ELSE IF v.decision = "accepted" THEN v
    ELSE [v EXCEPT !.status = "Failed", !.decision = "failed"]

\* set_hub_accept_status, then the given effect; without the indexer the
\* decision is registered and nothing else happens.
AcceptThen(w, v, next, sent, online) ==
    IF v.decision = "failed" THEN FailBatchTransfer(w, v)
    ELSE IF w \notin Cosigners /\ v.decision = "none" THEN v
    ELSE IF online THEN [status |-> next, decision |-> "accepted", sent |-> v.sent \/ sent]
    ELSE [v EXCEPT !.decision = "accepted"]

WaitAck(w, i, v, online) ==
    CASE answer[i] = "none" -> v
      [] answer[i] = "nack" -> FailBatchTransfer(w, v)
      [] answer[i] = "ack" /\ i \in expired -> FailBatchTransfer(w, v)
      [] OTHER -> AcceptThen(w, v, "WaitingConfirmations", TRUE, online)

\* An invalid consignment is refused without telling the hub.
WaitConsignment(w, i, v, online) ==
    CASE answer[i] = "none" -> v
      [] answer[i] = "nack" -> [v EXCEPT !.status = "Failed"]
      [] OTHER -> AcceptThen(w, v, "WaitingBroadcast", FALSE, online)

RefreshTransfer(w, i, v, online) ==
    CASE v.status = "WaitingCounterparty" /\ v.decision = "failed" ->
            FailBatchTransfer(w, v)
      [] v.status = "WaitingCounterparty" /\ op[i].kind \in Receive ->
            WaitConsignment(w, i, v, online)
      [] v.status = "WaitingCounterparty" /\ op[i].kind \notin Receive ->
            WaitAck(w, i, v, online)
      [] v.status = "WaitingBroadcast" /\ v.sent ->
            [v EXCEPT !.status = "WaitingConfirmations"]
      [] OTHER -> v

Known(w) == {i \in Idx : slot[w][i] # 0}

\* The transfers of S become after[i]; the outside effects of those in E show.
Store(w, S, E, after) ==
    /\ status' = [status EXCEPT ![w] =
                    [i \in Idx |-> IF i \in S THEN after[i].status ELSE @[i]]]
    /\ decision' = [s \in Idx |->
                    IF \E i \in E : slot[w][i] = s
                    THEN after[CHOOSE i \in E : slot[w][i] = s].decision
                    ELSE decision[s]]
    /\ txs' = txs \cup {i \in E : after[i].sent}

\* refresh_impl twice, then the commit, which a crash may prevent.
RefreshAll(w, next) ==
    \E online \in BOOLEAN, committed \in BOOLEAN :
        LET once(i) == RefreshTransfer(w, i, View(w, i), online)
            after == [i \in Known(w) |-> RefreshTransfer(w, i, once(i), online)]
        IN  /\ (online /\ committed) \/ failures < MaxFailures
            /\ failures' = IF online /\ committed THEN failures ELSE failures + 1
            /\ Store(w, IF committed THEN Known(w) ELSE {}, Known(w), after)
            /\ UNCHANGED <<nops, op, marked, worldVars, lastOp, applied, rows, slot>>
            /\ pc' = [pc EXCEPT ![w] = IF committed THEN next ELSE "idle"]

Refresh(w) ==
    /\ pc[w] = "idle"
    /\ Known(w) # {}
    /\ RefreshAll(w, "idle")

\* A transfer the user, or its expiration, lets fail.
Fallible(c, i) ==
    \/ status[c][i] = "WaitingCounterparty"
    \/ status[c][i] = "WaitingBroadcast" /\ i \in expired

\* try_fail_batch_transfer: a refresh, and the failure if it changed nothing.
TryFail(c, i) ==
    LET r == RefreshTransfer(c, i, View(c, i), TRUE)
    IN IF r.status # status[c][i] THEN r ELSE FailBatchTransfer(c, r)

\* fail_transfers of one transfer, or of every expired one: the first that
\* the hub does not let fail ends the call and rolls the database back.
FailTransfers(c) ==
    /\ pc[c] = "idle"
    /\ \E S \in {{i} : i \in Known(c)} \cup {{i \in Known(c) : i \in expired}} :
         LET T     == {i \in S : Fallible(c, i)}
             after == [i \in T |-> TryFail(c, i)]
             stuck == {i \in T : after[i].status = status[c][i]}
             before == {i \in T : \A s \in stuck : slot[c][i] < slot[c][s]}
         IN /\ T # {}
            /\ Store(c, IF stuck = {} THEN T ELSE {}, before, after)
    /\ UNCHANGED <<nops, op, marked, worldVars, lastOp, applied, rows, slot, pc, failures>>

-----------------------------------------------------------------------------
(* sync_with_hub, from commit to commit.                                    *)

SyncBegin(w) ==
    /\ pc[w] = "idle"
    /\ RefreshAll(w, "fetch")

\* No operation to process, or one still pending: nothing else to do.
SyncNothing(w) ==
    /\ pc[w] = "fetch"
    /\ lastOp[w] < nops => op[lastOp[w] + 1].status = "pending"
    /\ pc' = [pc EXCEPT ![w] = "idle"]
    /\ UNCHANGED <<hubVars, worldVars, txs, localVars, failures>>

\* Mutant: the newest operation is fetched instead of the next one.
SyncProcessNewest(w) ==
    /\ pc[w] = "fetch"
    /\ lastOp[w] < nops
    /\ Resolved(nops)
    /\ Process(w, nops, op[nops])
    /\ pc' = [pc EXCEPT ![w] = IF lastOp'[w] = nops /\ Opens(op[nops]) THEN "refresh" ELSE "idle"]
    /\ UNCHANGED <<nops, op, decision, worldVars>>

\* The refresh that follows belongs to approved operations with a transfer.
SyncProcess(w) ==
    /\ pc[w] = "fetch"
    /\ lastOp[w] < nops
    /\ LET i == lastOp[w] + 1 IN
         /\ Resolved(i)
         /\ Process(w, i, op[i])
         /\ pc' = [pc EXCEPT ![w] =
                     IF lastOp'[w] = i /\ Opens(op[i]) THEN "refresh" ELSE "idle"]
    /\ UNCHANGED <<nops, op, decision, worldVars>>

SyncEnd(w) ==
    /\ pc[w] = "refresh"
    /\ RefreshAll(w, "idle")

-----------------------------------------------------------------------------
(* The counterparties and the clock.                                        *)

\* A recipient answers the consignment posted for a send, or a sender posts
\* the consignment of a receive: either needs some wallet to have the transfer.
CounterpartyAnswers(i) ==
    /\ answer[i] = "none"
    /\ op[i].kind \in Receive \cup {"SendRgb"}
    /\ \E w \in Wallets : slot[w][i] # 0
    /\ \E a \in {"ack", "nack"} : answer' = [answer EXCEPT ![i] = a]
    /\ UNCHANGED <<hubVars, expired, txs, localVars, pc, failures>>

\* The sender of a receive broadcasts once it sees the ACK.
CounterpartyBroadcasts(i) ==
    /\ op[i].kind \in Receive
    /\ \E w \in Wallets : status[w][i] = "WaitingBroadcast"
    /\ i \notin txs
    /\ txs' = txs \cup {i}
    /\ UNCHANGED <<hubVars, worldVars, localVars, pc, failures>>

Expire(i) ==
    /\ i \notin expired
    /\ op[i].kind \in Receive \cup {"SendRgb"}
    /\ expired' = expired \cup {i}
    /\ UNCHANGED <<hubVars, answer, txs, localVars, pc, failures>>

\* A wallet that lost its state starts again from a cosigner's backup: the
\* descriptors are the same, the tables are a copy, the hub's marks stay.
RestoreBackup(w, c) ==
    /\ Restores /\ failures < MaxFailures
    /\ w # c /\ pc[c] = "idle"
    /\ failures' = failures + 1
    /\ lastOp' = [lastOp EXCEPT ![w] = lastOp[c]]
    /\ applied' = [applied EXCEPT ![w] = applied[c]]
    /\ rows' = [rows EXCEPT ![w] = rows[c]]
    /\ slot' = [slot EXCEPT ![w] = slot[c]]
    /\ status' = [status EXCEPT ![w] = status[c]]
    /\ pc' = [pc EXCEPT ![w] = "idle"]
    /\ UNCHANGED <<hubVars, worldVars, txs>>

Sync(w) == SyncBegin(w) \/ SyncNothing(w) \/ SyncProcess(w) \/ SyncEnd(w)

Propose(c) ==
    \/ CreateUtxosInit(c) \/ SendBtcInit(c) \/ SendInit(c) \/ InflateInit(c) \/ BurnInit(c)
    \/ IssueAsset(c) \/ BlindReceive(c) \/ WitnessReceive(c)

Respond(c) == \E i \in Idx, ack \in BOOLEAN : RespondToOperation(c, i, ack)

Next ==
    \/ \E c \in Cosigners : Propose(c) \/ Respond(c) \/ FailTransfers(c)
    \/ \E w \in Wallets : Sync(w) \/ Refresh(w)
    \/ \E w \in Wallets, c \in Cosigners : RestoreBackup(w, c)
    \/ \E i \in Idx :
         CounterpartyAnswers(i) \/ CounterpartyBroadcasts(i) \/ Expire(i)

Spec == Init /\ [][Next]_vars

-----------------------------------------------------------------------------
(* Properties.                                                              *)

\* A wallet's database holds the effects of the hub's first operations, of
\* each of them and of no other: none is skipped, whatever was cut short
\* between the broadcast, the mark on the hub and the commit
\* (mark_operation_as_processed, docs/multisig.md "in order").
ProcessedInOrder == \A w \in Wallets : applied[w] = 1..lastOp[w]

\* The hub knows a batch transfer by its row number in the asking wallet's
\* database, so the row of an operation must be the same in every wallet
\* (set_hub_accept_status, get_hub_fail_status).
SameRows ==
    \A v, w \in Wallets : \A i \in Idx :
        slot[v][i] # 0 /\ slot[w][i] # 0 => slot[v][i] = slot[w][i]

\* No cosigner fails a transfer that another one accepted or broadcast: the
\* first decision registered on the hub binds all of them, whatever happens
\* between asking the hub, calling the proxy or the indexer and committing.
Going == {"WaitingBroadcast", "WaitingConfirmations"}
CosignersAgree ==
    \A c \in Cosigners : \A i \in Idx :
        status[c][i] = "Failed" =>
            /\ \A d \in Cosigners : status[d][i] \notin Going
            /\ op[i].kind = "SendRgb" => i \notin txs
=============================================================================
