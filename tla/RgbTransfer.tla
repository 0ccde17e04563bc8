----------------------------- MODULE RgbTransfer -----------------------------
(***************************************************************************)
(* One RGB batch transfer: the wallet that sends it, the wallets that      *)
(* receive it, the proxy (or the users, when the exchange is out of band)  *)
(* that carries consignments and ACKs, and the Bitcoin transaction that    *)
(* makes it real.                                                          *)
(*                                                                         *)
(* A wallet runs one operation at a time, inside one database transaction  *)
(* (begin_transaction ... persist_and_commit).  Between the two the        *)
(* operation has effects that no rollback undoes: it posts a consignment,  *)
(* posts an ACK, broadcasts.  So an operation that has such an effect is   *)
(* split at each of them: sop and rop hold the open operation and its      *)
(* uncommitted copy of the row, batch and rdb the committed rows.  An      *)
(* operation that touches nothing outside its database is one action.      *)
(*                                                                         *)
(* Both wallets belong to one signer (the multisig hub always answers      *)
(* "go on").                                                               *)
(*                                                                         *)
(* A definition marked "mutant" is a wrong version of the one after it: it *)
(* is used only to see that a property notices.                            *)
(***************************************************************************)
EXTENDS Integers, FiniteSets

CONSTANTS
    Sender,          \* the sending wallet
    Recipients,      \* the recipient IDs of the batch, one wallet each
    OutOfBand,       \* those whose invoice has no transport endpoint
    MinConf,         \* min_confirmations of the transfer
    DeadlineGroups,  \* the sets of wallets whose expirations pass together
    MaxSendEnds,     \* bound: calls of send_end
    MaxFaults        \* bound: crashes, I/O errors and failed network calls

Parties == Recipients \cup {Sender}

ASSUME PartiesAssumption ==
    /\ Sender \notin Recipients
    /\ OutOfBand \subseteq Recipients
    /\ DeadlineGroups \subseteq SUBSET Parties

ASSUME BoundsAssumption ==
    /\ MinConf \in Nat
    /\ MaxSendEnds \in Nat
    /\ MaxFaults \in Nat

VARIABLES
    prepared,  \* send_begin has written the transfer directory
    donation,  \* the donation argument of send_begin
    batch,     \* the sender's committed batch_transfer row
    sop,       \* the sender's open operation
    posted,    \* is the consignment within the recipient's reach?
    answer,    \* the answer recorded by the proxy (or told to the sender)
    rdb,       \* the recipients' committed rows
    rop,       \* the recipients' open operations
    cached,    \* the consignment and meta files of the recipient exist
    histSafe,  \* every unsafe TX of the asset's history is deep enough
    conf,      \* confirmations of the transfer's TX
    expired,   \* the wallets whose expiration has passed
    sends,     \* calls of send_end so far
    faults     \* faults so far

senderVars == <<prepared, donation, batch, sop, sends>>
proxyVars == <<posted, answer>>
receiverVars == <<rdb, rop, cached>>
worldVars == <<histSafe, conf, expired>>
vars == <<senderVars, proxyVars, receiverVars, worldVars, faults>>

-----------------------------------------------------------------------------
(* Rows and operations                                                     *)

Answers == {"none", "ack", "nack"}

\* TransferStatus, as it occurs on each side; "NoBatch" and "Deleted" stand
\* for a row that is not in the database
SenderStatus == {"NoBatch", "Initiated", "WaitingCounterparty",
                 "WaitingConfirmations", "Settled", "Failed"}
ReceiverStatus == {"WaitingCounterparty", "WaitingSafeHeight",
                   "WaitingBroadcast", "WaitingConfirmations", "Settled",
                   "Failed", "Deleted"}

\* the outgoing batch with the ack column of its transfers
SenderRow == [status: SenderStatus, acks: [Recipients -> Answers]]
NoBatch == [status |-> "NoBatch", acks |-> [r \in Recipients |-> "none"]]

\* the incoming batch with the number of times its Receive colorings were
\* inserted and the used flag of its transport endpoint
ReceiverRow == [status: ReceiverStatus, cols: Nat, used: BOOLEAN]
Invoice == [status |-> "WaitingCounterparty", cols |-> 0, used |-> FALSE]

\* update_batch_transfer of a row of either kind
WithStatus(row, status) == [row EXCEPT !.status = status]

SenderOp == [kind: {"idle", "send_end", "refresh", "fail", "provide"},
             pc: {"idle", "post", "broadcast", "commit"},
             db: SenderRow, todo: SUBSET Recipients]
SenderIdle == [kind |-> "idle", pc |-> "idle", db |-> NoBatch, todo |-> {}]

ReceiverOp == [kind: {"idle", "refresh", "fail", "provide"},
               pc: {"idle", "validate", "nack", "ack", "broadcast", "commit"},
               db: ReceiverRow]
ReceiverIdle == [kind |-> "idle", pc |-> "idle", db |-> Invoice]

\* get_tx_confirmations: Option<u64>
NoTx == -1
OnChain == conf # NoTx
\* mutant: a TX that is broadcast again is counted again
PublishCounted == conf' = conf + 1
Publish == conf' = IF OnChain THEN conf ELSE 0

IsExpired(p) == p \in expired

Init ==
    /\ prepared = FALSE
    /\ donation = FALSE
    /\ batch = NoBatch
    /\ sop = SenderIdle
    /\ posted = [r \in Recipients |-> FALSE]
    /\ answer = [r \in Recipients |-> "none"]
    /\ rdb = [r \in Recipients |-> Invoice]
    /\ rop = [r \in Recipients |-> ReceiverIdle]
    /\ cached = [r \in Recipients |-> FALSE]
    /\ histSafe \in BOOLEAN
    /\ conf = NoTx
    /\ expired = {}
    /\ sends = 0
    /\ faults = 0

Fault == faults < MaxFaults /\ faults' = faults + 1

-----------------------------------------------------------------------------
(* The sending wallet                                                      *)

\* send_begin: the PSBT and the transfer directory are written to disk; only
\* a call that is not a dry run persists the batch, to reserve its inputs
SendBegin(dry_run, gift) ==
    /\ ~prepared
    /\ sop = SenderIdle
    /\ prepared' = TRUE
    /\ donation' = gift
    /\ batch' = IF dry_run THEN batch ELSE WithStatus(batch, "Initiated")
    /\ UNCHANGED <<sop, sends, proxyVars, receiverVars, worldVars, faults>>

\* send_end needs the transfer directory and nothing else: the status of the
\* batch is never looked at
SendEnd ==
    /\ prepared
    /\ sop = SenderIdle
    /\ sends < MaxSendEnds
    /\ sends' = sends + 1
    /\ sop' = [kind |-> "send_end", pc |-> "post", db |-> batch,
               todo |-> Recipients \ OutOfBand]
    /\ UNCHANGED <<prepared, donation, batch, proxyVars, receiverVars,
                   worldVars, faults>>

PostConsignment(r) ==
    /\ sop.pc = "post"
    /\ r \in sop.todo
    /\ posted' = [posted EXCEPT ![r] = TRUE]
    /\ sop' = [sop EXCEPT !.todo = @ \ {r}]
    /\ UNCHANGED <<prepared, donation, batch, sends, answer, receiverVars,
                   worldVars, faults>>

\* everything is posted: a donation goes on to its broadcast, any other
\* transfer is saved (or its row updated) to wait for the ACKs
SaveTransfers ==
    /\ sop.pc = "post"
    /\ sop.todo = {}
    /\ sop' = IF donation
              THEN [sop EXCEPT !.pc = "broadcast"]
              ELSE [sop EXCEPT !.pc = "commit",
                               !.db = WithStatus(@, "WaitingCounterparty")]
    /\ UNCHANGED <<prepared, donation, batch, sends, proxyVars, receiverVars,
                   worldVars, faults>>

\* broadcast_and_update_rgb succeeds and the new status is written
SenderBroadcast ==
    /\ sop.pc = "broadcast"
    /\ Publish
    /\ sop' = [sop EXCEPT !.pc = "commit",
                          !.db = WithStatus(@, "WaitingConfirmations")]
    /\ UNCHANGED <<prepared, donation, batch, sends, proxyVars, receiverVars,
                   histSafe, expired, faults>>

SenderCommit ==
    /\ sop.pc = "commit"
    /\ batch' = sop.db
    /\ sop' = SenderIdle
    /\ UNCHANGED <<prepared, donation, sends, proxyVars, receiverVars,
                   worldVars, faults>>

\* a crash, or an Err that leaves the operation: the transaction rolls back
SenderAbort ==
    /\ sop # SenderIdle
    /\ Fault
    /\ sop' = SenderIdle
    /\ UNCHANGED <<prepared, donation, batch, sends, proxyVars, receiverVars,
                   worldVars>>

\* an Err inside refresh_transfer is put in the RefreshResult and the
\* transaction commits what was written so far; the TX may have reached the
\* network before the Err (writing bdk_pending.json, consume_fascia)
SenderSwallowedError ==
    /\ sop.pc = "broadcast"
    /\ sop.kind = "refresh"
    /\ Fault
    /\ Publish \/ UNCHANGED conf
    /\ batch' = sop.db
    /\ sop' = SenderIdle
    /\ UNCHANGED <<prepared, donation, sends, proxyVars, receiverVars,
                   histSafe, expired>>

\* what wait_ack can learn from the proxy: any part of the answers it has not
\* recorded yet (the others are missing, or polling them failed)
Learnable == {r \in Recipients \ OutOfBand :
                 batch.acks[r] = "none" /\ answer[r] # "none"}
Learned(seen) ==
    [batch EXCEPT !.acks = [r \in Recipients |->
                               IF r \in seen THEN answer[r] ELSE @[r]]]

SomeNack(row) == \E r \in Recipients : row.acks[r] = "nack"
\* mutant: a missing answer counts as an ACK
NoneRefused(row) == ~SomeNack(row)
AllAcked(row) == \A r \in Recipients : row.acks[r] = "ack"

\* try_complete_batch decides to fail the batch: a NACK, or every ACK arrived
\* but the sender's own expiration has passed
MustFail(row) == SomeNack(row) \/ (AllAcked(row) /\ IsExpired(Sender))
\* mutant: the expiration is not looked at before the broadcast
CompleteExpired(row) == AllAcked(row)
MayComplete(row) == AllAcked(row) /\ ~IsExpired(Sender)

WaitingForAcks == batch.status = "WaitingCounterparty" /\ sop = SenderIdle

\* refresh or fail_transfers of a batch whose ACKs are all there
StartCompletion(kind, seen) ==
    /\ WaitingForAcks
    /\ MayComplete(Learned(seen))
    /\ sop' = [kind |-> kind, pc |-> "broadcast", db |-> Learned(seen),
               todo |-> {}]
    /\ UNCHANGED <<prepared, donation, batch, sends, proxyVars, receiverVars,
                   worldVars, faults>>

\* refresh (or fail_transfers) meets a NACK or the expiration
RefreshFailsBatch(seen) ==
    /\ WaitingForAcks
    /\ MustFail(Learned(seen))
    /\ batch' = WithStatus(Learned(seen), "Failed")
    /\ UNCHANGED <<prepared, donation, sop, sends, proxyVars, receiverVars,
                   worldVars, faults>>

\* refresh with ACKs still missing records the new ones
RefreshRecordsAcks(seen) ==
    /\ WaitingForAcks
    /\ seen # {}
    /\ ~MustFail(Learned(seen))
    /\ ~MayComplete(Learned(seen))
    /\ batch' = Learned(seen)
    /\ UNCHANGED <<prepared, donation, sop, sends, proxyVars, receiverVars,
                   worldVars, faults>>

\* polling stops at an Err after some answers were recorded, a NACK perhaps:
\* refresh commits them without having looked at them
PollBreaksOff(seen) ==
    /\ WaitingForAcks
    /\ seen # {}
    /\ \E r \in Recipients \ OutOfBand :
          batch.acks[r] = "none" /\ r \notin seen
    /\ Fault
    /\ batch' = Learned(seen)
    /\ UNCHANGED <<prepared, donation, sop, sends, proxyVars, receiverVars,
                   worldVars>>

\* fail_transfers when the refresh it starts with changed nothing
FailUnanswered(seen) ==
    /\ WaitingForAcks
    /\ ~MustFail(Learned(seen))
    /\ ~MayComplete(Learned(seen))
    /\ batch' = WithStatus(Learned(seen), "Failed")
    /\ UNCHANGED <<prepared, donation, sop, sends, proxyVars, receiverVars,
                   worldVars, faults>>

\* mutant: a batch whose TX is out is fallible
FailPending ==
    /\ batch.status \in {"Initiated", "WaitingConfirmations"}
    /\ sop = SenderIdle
    /\ batch' = WithStatus(batch, "Failed")
    /\ UNCHANGED <<prepared, donation, sop, sends, proxyVars, receiverVars,
                   worldVars, faults>>

\* refresh_transfer does nothing for Initiated, so the batch is failed
FailInitiated ==
    /\ batch.status = "Initiated"
    /\ sop = SenderIdle
    /\ batch' = WithStatus(batch, "Failed")
    /\ UNCHANGED <<prepared, donation, sop, sends, proxyVars, receiverVars,
                   worldVars, faults>>

\* MinFeeNotMet or MaxFeeExceeded counts as "not refreshed" in fail_transfers
SenderFeeRejected ==
    /\ sop.pc = "broadcast"
    /\ sop.kind = "fail"
    /\ ~OnChain
    /\ Fault
    /\ batch' = WithStatus(sop.db, "Failed")
    /\ sop' = SenderIdle
    /\ UNCHANGED <<prepared, donation, sends, proxyVars, receiverVars,
                   worldVars>>

Acknowledged(r) == [batch EXCEPT !.acks[r] = "ack"]

\* provide_out_of_band_ack: the user relays the ACK of an out-of-band
\* recipient.  When the batch would have to be failed the call returns an
\* error and nothing is written.
ProvideOutOfBandAck(r) ==
    /\ WaitingForAcks
    /\ r \in OutOfBand
    /\ answer[r] = "ack"
    /\ ~MustFail(Acknowledged(r))
    /\ \/ /\ MayComplete(Acknowledged(r))
          /\ sop' = [kind |-> "provide", pc |-> "broadcast",
                     db |-> Acknowledged(r), todo |-> {}]
          /\ UNCHANGED batch
       \/ /\ ~MayComplete(Acknowledged(r))
          /\ batch' = Acknowledged(r)
          /\ UNCHANGED sop
    /\ UNCHANGED <<prepared, donation, sends, proxyVars, receiverVars,
                   worldVars, faults>>

\* mutant: one confirmation too many
SettleBatchLate ==
    /\ batch.status = "WaitingConfirmations"
    /\ sop = SenderIdle
    /\ OnChain
    /\ conf > MinConf
    /\ batch' = WithStatus(batch, "Settled")
    /\ UNCHANGED <<prepared, donation, sop, sends, proxyVars, receiverVars,
                   worldVars, faults>>

\* wait_confirmations of the sender
SettleBatch ==
    /\ batch.status = "WaitingConfirmations"
    /\ sop = SenderIdle
    /\ OnChain
    /\ conf >= MinConf
    /\ batch' = WithStatus(batch, "Settled")
    /\ UNCHANGED <<prepared, donation, sop, sends, proxyVars, receiverVars,
                   worldVars, faults>>

DeleteBatch ==
    /\ batch.status = "Failed"
    /\ sop = SenderIdle
    /\ batch' = NoBatch
    /\ UNCHANGED <<prepared, donation, sop, sends, proxyVars, receiverVars,
                   worldVars, faults>>

SenderStep ==
    \/ \E dry_run, gift \in BOOLEAN : SendBegin(dry_run, gift)
    \/ SendEnd
    \/ \E r \in Recipients : PostConsignment(r)
    \/ SaveTransfers
    \/ SenderBroadcast
    \/ SenderCommit
    \/ SenderAbort
    \/ SenderSwallowedError
    \/ \E seen \in SUBSET Learnable :
          \/ \E kind \in {"refresh", "fail"} : StartCompletion(kind, seen)
          \/ RefreshFailsBatch(seen)
          \/ RefreshRecordsAcks(seen)
          \/ PollBreaksOff(seen)
          \/ FailUnanswered(seen)
    \/ FailInitiated
    \/ SenderFeeRejected
    \/ \E r \in OutOfBand : ProvideOutOfBandAck(r)
    \/ SettleBatch
    \/ DeleteBatch

-----------------------------------------------------------------------------
(* The receiving wallets                                                   *)

Idle(r) == rop[r] = ReceiverIdle
Status(r) == rdb[r].status
Open(r, kind, pc, row) ==
    rop' = [rop EXCEPT ![r] = [kind |-> kind, pc |-> pc, db |-> row]]
Commit(r, row) ==
    /\ rdb' = [rdb EXCEPT ![r] = row]
    /\ rop' = [rop EXCEPT ![r] = ReceiverIdle]

\* the endpoint marked used and the files on disk: no second download
HasCached(r) == rdb[r].used /\ cached[r]

\* mutant: a consignment is processed again while its history is unsafe
FetchAgain(r, kind) ==
    /\ r \notin OutOfBand
    /\ Idle(r)
    /\ Status(r) \in {"WaitingCounterparty", "WaitingSafeHeight"}
    /\ HasCached(r) \/ posted[r]
    /\ cached' = [cached EXCEPT ![r] = TRUE]
    /\ Open(r, kind, "validate", [rdb[r] EXCEPT !.used = TRUE])
    /\ UNCHANGED <<senderVars, proxyVars, rdb, worldVars, faults>>

\* refresh or fail_transfers gets the consignment, from the proxy or from
\* the files a previous attempt left
FetchConsignment(r, kind) ==
    /\ r \notin OutOfBand
    /\ Idle(r)
    /\ Status(r) = "WaitingCounterparty"
    /\ HasCached(r) \/ posted[r]
    /\ cached' = [cached EXCEPT ![r] = TRUE]
    /\ Open(r, kind, "validate", [rdb[r] EXCEPT !.used = TRUE])
    /\ UNCHANGED <<senderVars, proxyVars, rdb, worldVars, faults>>

\* provide_out_of_band_consignment
ProvideOutOfBandConsignment(r) ==
    /\ r \in OutOfBand
    /\ Idle(r)
    /\ Status(r) = "WaitingCounterparty"
    /\ posted[r]
    /\ cached' = [cached EXCEPT ![r] = TRUE]
    /\ Open(r, "provide", "validate", rdb[r])
    /\ UNCHANGED <<senderVars, proxyVars, rdb, worldVars, faults>>

\* the consignment is refused: invalid, wrong asset or amount, rejected
\* history, missing media.  The reject list can change between two attempts,
\* so nothing ties the outcome to that of an earlier attempt.
RefuseConsignment(r) ==
    /\ rop[r].pc = "validate"
    /\ Open(r, rop[r].kind, "nack", rop[r].db)
    /\ UNCHANGED <<senderVars, proxyVars, rdb, cached, worldVars, faults>>

\* mutant: the warnings of the validation are ignored
AcceptUnsafe(r) ==
    /\ rop[r].pc = "validate"
    /\ Open(r, rop[r].kind, "ack", [rop[r].db EXCEPT !.cols = @ + 1])
    /\ UNCHANGED <<senderVars, proxyVars, rdb, cached, worldVars, faults>>

\* mutant: the colorings are left to wait_safe_height
AcceptUncredited(r) ==
    /\ rop[r].pc = "validate"
    /\ IF histSafe
       THEN Open(r, rop[r].kind, "ack", [rop[r].db EXCEPT !.cols = @ + 1])
       ELSE Open(r, rop[r].kind, "commit",
                 WithStatus(rop[r].db, "WaitingSafeHeight"))
    /\ UNCHANGED <<senderVars, proxyVars, rdb, cached, worldVars, faults>>

\* the consignment is valid: the Receive colorings are inserted, and the
\* transfer waits if its history is not safe yet
AcceptConsignment(r) ==
    /\ rop[r].pc = "validate"
    /\ LET row == [rop[r].db EXCEPT !.cols = @ + 1]
       IN  IF histSafe
           THEN Open(r, rop[r].kind, "ack", row)
           ELSE Open(r, rop[r].kind, "commit",
                     WithStatus(row, "WaitingSafeHeight"))
    /\ UNCHANGED <<senderVars, proxyVars, rdb, cached, worldVars, faults>>

\* mutant: the proxy lets an answer be changed
RecordLatest(r, ans) ==
    answer' = IF r \in OutOfBand THEN answer ELSE [answer EXCEPT ![r] = ans]

\* the proxy never changes a recorded answer ("Cannot change ACK"), and the
\* wallet goes on as if it had
Record(r, ans) ==
    answer' = IF r \in OutOfBand \/ answer[r] # "none" THEN answer
              ELSE [answer EXCEPT ![r] = ans]

PostNack(r) ==
    /\ rop[r].pc = "nack"
    /\ Record(r, "nack")
    /\ Open(r, rop[r].kind, "commit", WithStatus(rop[r].db, "Failed"))
    /\ UNCHANGED <<senderVars, posted, rdb, cached, worldVars, faults>>

\* the consignment of a donation carries the signed TX, to be broadcast by
\* the recipient too
PostAck(r) ==
    /\ rop[r].pc = "ack"
    /\ Record(r, "ack")
    /\ IF donation
       THEN Open(r, rop[r].kind, "broadcast", rop[r].db)
       ELSE Open(r, rop[r].kind, "commit",
                 WithStatus(rop[r].db, "WaitingBroadcast"))
    /\ UNCHANGED <<senderVars, posted, rdb, cached, worldVars, faults>>

ReceiverBroadcast(r) ==
    /\ rop[r].pc = "broadcast"
    /\ Publish
    /\ Open(r, rop[r].kind, "commit",
            WithStatus(rop[r].db, "WaitingConfirmations"))
    /\ UNCHANGED <<senderVars, proxyVars, rdb, cached, histSafe, expired,
                   faults>>

Accepted == {"WaitingBroadcast", "WaitingConfirmations", "Settled"}

\* an out-of-band recipient tells the sender once the call has returned
ReceiverCommit(r) ==
    /\ rop[r].pc = "commit"
    /\ Commit(r, rop[r].db)
    /\ answer' = IF r \in OutOfBand /\ rop[r].db.status \in Accepted
                 THEN [answer EXCEPT ![r] = "ack"] ELSE answer
    /\ UNCHANGED <<senderVars, posted, cached, worldVars, faults>>

ReceiverAbort(r) ==
    /\ ~Idle(r)
    /\ Fault
    /\ rop' = [rop EXCEPT ![r] = ReceiverIdle]
    /\ UNCHANGED <<senderVars, proxyVars, rdb, cached, worldVars>>

\* an Err inside refresh_transfer: validation or the proxy or the indexer
\* failed, and what was written so far is committed.  The proxy may have
\* recorded the answer, the network may have got the TX.
ReceiverSwallowedError(r) ==
    /\ rop[r].kind = "refresh"
    /\ Fault
    /\ \/ /\ rop[r].pc = "validate"
          /\ UNCHANGED <<answer, conf>>
       \/ /\ rop[r].pc = "nack"
          /\ Record(r, "nack") \/ UNCHANGED answer
          /\ UNCHANGED conf
       \/ /\ rop[r].pc = "ack"
          /\ Record(r, "ack") \/ UNCHANGED answer
          /\ UNCHANGED conf
       \/ /\ rop[r].pc = "broadcast"
          /\ Publish \/ UNCHANGED conf
          /\ UNCHANGED answer
    /\ Commit(r, rop[r].db)
    /\ UNCHANGED <<senderVars, posted, cached, histSafe, expired>>

ReceiverFeeRejected(r) ==
    /\ rop[r].pc = "broadcast"
    /\ rop[r].kind = "fail"
    /\ ~OnChain
    /\ Fault
    /\ Commit(r, WithStatus(rop[r].db, "Failed"))
    /\ UNCHANGED <<senderVars, proxyVars, cached, worldVars>>

\* fail_transfers finds no consignment: there is none, the exchange is out of
\* band, or the proxy does not answer (get_consignment turns every error into
\* NoConsignment)
FailWithoutConsignment(r) ==
    /\ Idle(r)
    /\ Status(r) = "WaitingCounterparty"
    /\ \/ /\ r \in OutOfBand \/ ~posted[r]
          /\ UNCHANGED faults
       \/ r \notin OutOfBand /\ posted[r] /\ Fault
    /\ ~HasCached(r)
    /\ Commit(r, WithStatus(rdb[r], "Failed"))
    /\ UNCHANGED <<senderVars, proxyVars, cached, worldVars>>

\* wait_safe_height
ReachSafeHeight(r, kind) ==
    /\ Idle(r)
    /\ Status(r) = "WaitingSafeHeight"
    /\ histSafe
    /\ Open(r, kind, "ack", rdb[r])
    /\ UNCHANGED <<senderVars, proxyVars, rdb, cached, worldVars, faults>>

FailUnsafe(r) ==
    /\ Idle(r)
    /\ Status(r) = "WaitingSafeHeight"
    /\ ~histSafe
    /\ Commit(r, WithStatus(rdb[r], "Failed"))
    /\ UNCHANGED <<senderVars, proxyVars, cached, worldVars, faults>>

\* wait_confirmations of a recipient
SeeBroadcast(r) ==
    /\ Idle(r)
    /\ Status(r) = "WaitingBroadcast"
    /\ OnChain
    /\ conf < MinConf
    /\ Commit(r, WithStatus(rdb[r], "WaitingConfirmations"))
    /\ UNCHANGED <<senderVars, proxyVars, cached, worldVars, faults>>

\* mutant: one confirmation too few
SettleEarly(r) ==
    /\ Idle(r)
    /\ Status(r) \in {"WaitingBroadcast", "WaitingConfirmations"}
    /\ OnChain
    /\ conf + 1 >= MinConf
    /\ Commit(r, WithStatus(rdb[r], "Settled"))
    /\ UNCHANGED <<senderVars, proxyVars, cached, worldVars, faults>>

\* mutant: a TX first seen when it is deep enough is not settled
SettleSeen(r) ==
    /\ Idle(r)
    /\ Status(r) = "WaitingConfirmations"
    /\ OnChain
    /\ conf >= MinConf
    /\ Commit(r, WithStatus(rdb[r], "Settled"))
    /\ UNCHANGED <<senderVars, proxyVars, cached, worldVars, faults>>

SettleReceived(r) ==
    /\ Idle(r)
    /\ Status(r) \in {"WaitingBroadcast", "WaitingConfirmations"}
    /\ OnChain
    /\ conf >= MinConf
    /\ Commit(r, WithStatus(rdb[r], "Settled"))
    /\ UNCHANGED <<senderVars, proxyVars, cached, worldVars, faults>>

\* mutant: the indexer is not asked before giving up
FailExpired(r) ==
    /\ Idle(r)
    /\ Status(r) \in {"WaitingBroadcast", "WaitingConfirmations"}
    /\ IsExpired(r)
    /\ Commit(r, WithStatus(rdb[r], "Failed"))
    /\ UNCHANGED <<senderVars, proxyVars, cached, worldVars, faults>>

\* fail_transfers gives up on the broadcast, once expired and only if the
\* indexer does not know the TX
FailUnbroadcast(r) ==
    /\ Idle(r)
    /\ Status(r) = "WaitingBroadcast"
    /\ IsExpired(r)
    /\ ~OnChain
    /\ Commit(r, WithStatus(rdb[r], "Failed"))
    /\ UNCHANGED <<senderVars, proxyVars, cached, worldVars, faults>>

DeleteReceived(r) ==
    /\ Idle(r)
    /\ Status(r) = "Failed"
    /\ Commit(r, WithStatus(Invoice, "Deleted"))
    /\ UNCHANGED <<senderVars, proxyVars, cached, worldVars, faults>>

ReceiverStep(r) ==
    \/ \E kind \in {"refresh", "fail"} :
          FetchConsignment(r, kind) \/ ReachSafeHeight(r, kind)
    \/ ProvideOutOfBandConsignment(r)
    \/ RefuseConsignment(r)
    \/ AcceptConsignment(r)
    \/ PostNack(r)
    \/ PostAck(r)
    \/ ReceiverBroadcast(r)
    \/ ReceiverCommit(r)
    \/ ReceiverAbort(r)
    \/ ReceiverSwallowedError(r)
    \/ ReceiverFeeRejected(r)
    \/ FailWithoutConsignment(r)
    \/ FailUnsafe(r)
    \/ SeeBroadcast(r)
    \/ SettleReceived(r)
    \/ FailUnbroadcast(r)
    \/ DeleteReceived(r)

-----------------------------------------------------------------------------
(* The world: users, blocks and clocks                                     *)

\* the user carries the consignment of an out-of-band recipient, written by
\* send_end before anything else
HandOver(r) ==
    /\ r \in OutOfBand
    /\ sends > 0
    /\ posted' = [posted EXCEPT ![r] = TRUE]
    /\ UNCHANGED <<senderVars, answer, receiverVars, worldVars, faults>>

Mine ==
    /\ OnChain
    /\ conf < MinConf
    /\ conf' = conf + 1
    /\ UNCHANGED <<senderVars, proxyVars, receiverVars, histSafe, expired,
                   faults>>

BuryHistory ==
    /\ ~histSafe
    /\ histSafe' = TRUE
    /\ UNCHANGED <<senderVars, proxyVars, receiverVars, conf, expired, faults>>

Expire(group) ==
    /\ ~(group \subseteq expired)
    /\ expired' = expired \cup group
    /\ UNCHANGED <<senderVars, proxyVars, receiverVars, histSafe, conf, faults>>

WorldStep ==
    \/ \E r \in Recipients : HandOver(r)
    \/ Mine
    \/ BuryHistory
    \/ \E group \in DeadlineGroups : Expire(group)

Next ==
    \/ SenderStep
    \/ \E r \in Recipients : ReceiverStep(r)
    \/ WorldStep

Spec == Init /\ [][Next]_vars

-----------------------------------------------------------------------------
(* Fairness                                                                *)

\* an operation that was started runs on
SenderRuns ==
    \/ \E r \in Recipients : PostConsignment(r)
    \/ SaveTransfers
    \/ SenderBroadcast
    \/ SenderCommit
ReceiverRuns(r) ==
    \/ RefuseConsignment(r) \/ AcceptConsignment(r)
    \/ PostNack(r) \/ PostAck(r) \/ ReceiverBroadcast(r)
    \/ ReceiverCommit(r)

\* each wallet is refreshed again and again
SenderRefreshes ==
    \/ \E seen \in SUBSET Learnable :
          \/ StartCompletion("refresh", seen)
          \/ RefreshFailsBatch(seen)
          \/ RefreshRecordsAcks(seen)
    \/ SettleBatch
ReceiverRefreshes(r) ==
    \/ FetchConsignment(r, "refresh") \/ ReachSafeHeight(r, "refresh")
    \/ SeeBroadcast(r) \/ SettleReceived(r)

\* and asked to fail what has expired
SenderFailsExpired ==
    /\ IsExpired(Sender)
    /\ FailInitiated \/ \E seen \in SUBSET Learnable : FailUnanswered(seen)

Fairness ==
    /\ WF_vars(SenderRuns)
    /\ WF_vars(SenderRefreshes)
    /\ WF_vars(SenderFailsExpired)
    /\ \A r \in Recipients :
          WF_vars(ReceiverRuns(r)) /\ WF_vars(ReceiverRefreshes(r))
    /\ WF_vars(Mine)
    /\ WF_vars(BuryHistory)
    /\ \A group \in DeadlineGroups : WF_vars(Expire(group))

FairSpec == Spec /\ Fairness

-----------------------------------------------------------------------------
(* Properties                                                              *)

\* The variables have their types: the rows only the columns and statuses the
\* database can hold (DbBatchTransfer, TransferStatus).
TypeOK ==
    /\ prepared \in BOOLEAN
    /\ donation \in BOOLEAN
    /\ batch \in SenderRow
    /\ sop \in SenderOp
    /\ posted \in [Recipients -> BOOLEAN]
    /\ answer \in [Recipients -> Answers]
    /\ rdb \in [Recipients -> ReceiverRow]
    /\ rop \in [Recipients -> ReceiverOp]
    /\ cached \in [Recipients -> BOOLEAN]
    /\ histSafe \in BOOLEAN
    /\ conf \in {NoTx} \cup 0..MinConf
    /\ expired \subseteq Parties
    /\ sends \in Nat
    /\ faults \in Nat

\* A transfer that is not a donation reaches the network only when every
\* recipient has accepted its consignment, whatever crashes, network errors
\* and repeated calls of send_end happen on the way (try_complete_batch).
BroadcastNeedsAcks ==
    OnChain /\ ~donation => \A r \in Recipients : answer[r] = "ack"

\* A recipient counts on a transfer, or tells the sender to go on, only when
\* the whole history of the asset is deep enough, also when the wallet
\* crashed or lost an answer in between (validate_received_consignment,
\* wait_safe_height).
CreditedHistoryIsSafe ==
    \A r \in Recipients :
        Status(r) \in Accepted \/ answer[r] = "ack" => histSafe

\* Nobody shows a transfer as Settled before its TX has the confirmations it
\* asked for (wait_confirmations), a stale copy committed late included.
SettledIsBuried ==
    /\ batch.status = "Settled" => conf >= MinConf
    /\ \A r \in Recipients : Status(r) = "Settled" => conf >= MinConf

\* A recipient that waits for the TX or saw it has its allocation recorded
\* and has answered: no error path leaves one without the other.
AcceptedIsCredited ==
    \A r \in Recipients :
        Status(r) \in Accepted => rdb[r].cols >= 1 /\ answer[r] # "none"

\* The Receive colorings of a transfer are in the database at most once: its
\* future balance counts the incoming assets once.
CreditedOnce == \A r \in Recipients : rdb[r].cols <= 1

\* A recipient's transfer never leaves a final status and never fails after
\* its TX was seen, whichever operation commits last.
ReceiverStatusFlow ==
    [][\A r \in Recipients :
          /\ Status(r) = "WaitingConfirmations" =>
                Status(r)' \in {"WaitingConfirmations", "Settled"}
          /\ Status(r) = "Settled" => Status(r)' = "Settled"
          /\ Status(r) = "Failed" => Status(r)' \in {"Failed", "Deleted"}]_vars

\* The colorings are inserted once as long as nothing crashes and no call fails
\* (validate_received_consignment).
CreditedOnceWithoutFaults == faults = 0 => CreditedOnce

\* Without faults the sender gives up only on a transfer whose TX is not on the
\* network: its inputs are really free again (fail_transfers,
\* try_complete_batch).
FailedIsOffChainWithoutFaults ==
    faults = 0 /\ batch.status = "Failed" /\ sop = SenderIdle => ~OnChain

\* Without faults the sender never starts to complete a transfer that a
\* recipient has given up on, which is what the expiration both enforce is for
\* (try_complete_batch).
NoLateCompletion ==
    [][faults' = 0 /\ sop.pc # "broadcast" /\ sop'.pc = "broadcast" /\ ~donation =>
          \A r \in Recipients : Status(r) \notin {"Failed", "Deleted"}]_vars

\* An outgoing transfer does not stay without an answer for ever: it settles
\* or its inputs are freed.
OutgoingIsResolved ==
    batch.status = "WaitingCounterparty" ~>
        batch.status \in {"Settled", "Failed", "NoBatch"}

\* A recipient that accepted a transfer whose TX is on the network gets it.
PublishedIsReceived ==
    \A r \in Recipients :
        OnChain /\ Status(r) \in {"WaitingBroadcast", "WaitingConfirmations"}
            ~> Status(r) = "Settled"

-----------------------------------------------------------------------------
(* The abstract specification                                              *)

Outcome == INSTANCE TransferOutcome WITH
    gift <- donation,
    verdict <- answer,
    published <- OnChain,
    settled <- {r \in Recipients : Status(r) = "Settled"}

\* The wallets, the proxy and the users together keep the promise of
\* TransferOutcome: answers are final, nothing is published without the
\* consent of every recipient, nobody owns what was not published
\* (send_end_impl, refresh_transfer, ack_consignment, try_complete_batch).
ImplementsOutcome == Outcome!Spec

-----------------------------------------------------------------------------
(* The inductive invariant                                                 *)

\* the sender never remembers an answer that was not given
KnownAnswers ==
    /\ \A r \in Recipients :
          batch.acks[r] # "none" => answer[r] = batch.acks[r]
    /\ \A r \in Recipients :
          sop.db.acks[r] # "none" => answer[r] = sop.db.acks[r]

\* a sender about to broadcast has every ACK
ReadyToBroadcast ==
    sop.pc = "broadcast" /\ ~donation => AllAcked(sop.db)

\* nothing has left the sender before send_begin
NothingBeforeBegin ==
    ~prepared =>
        /\ ~donation
        /\ ~OnChain
        /\ batch = NoBatch
        /\ sop = SenderIdle
        /\ sends = 0
        /\ \A r \in Recipients :
              /\ answer[r] = "none"
              /\ ~posted[r]
              /\ ~cached[r]
              /\ Idle(r)
              /\ Status(r) # "WaitingSafeHeight"

\* what a recipient's answer, row and open operation stand for
AcceptedRow(r) ==
    /\ Status(r) \in Accepted => histSafe /\ answer[r] # "none"
    /\ rop[r].db.status \in Accepted =>
          /\ rop[r].pc = "commit"
          /\ histSafe
          /\ r \in OutOfBand \/ answer[r] # "none"
    /\ rop[r].pc \in {"ack", "broadcast"} => histSafe
    /\ rop[r].pc = "broadcast" =>
          donation /\ (r \in OutOfBand \/ answer[r] # "none")
    /\ answer[r] = "ack" => histSafe
    /\ r \in OutOfBand => answer[r] # "nack"
CreditedRow(r) ==
    /\ Status(r) \in Accepted \cup {"WaitingSafeHeight"} => rdb[r].cols >= 1
    /\ rop[r].db.status \in Accepted \cup {"WaitingSafeHeight"} =>
          rop[r].db.cols >= 1
    /\ rop[r].pc \in {"ack", "broadcast"} => rop[r].db.cols >= 1
SettledRow(r) ==
    /\ rop[r].db.status # "Settled"
    /\ Status(r) = "Settled" => conf >= MinConf
RecipientOK(r) == AcceptedRow(r) /\ CreditedRow(r) /\ SettledRow(r)

SettledRows == "Settled" \in {batch.status, sop.db.status} => conf >= MinConf

\* The inductive invariant behind the theorems of RgbTransferProofs.
Inv ==
    /\ TypeOK
    /\ KnownAnswers
    /\ ReadyToBroadcast
    /\ BroadcastNeedsAcks
    /\ NothingBeforeBegin
    /\ SettledRows
    /\ \A r \in Recipients : RecipientOK(r)

=============================================================================
