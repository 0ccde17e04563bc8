-------------------------- MODULE RgbTransferProofs --------------------------
(* The inductive invariant of RgbTransfer, for any set of recipients, any  *)
(* number of confirmations and any bound on faults and calls, and the      *)
(* theorems that follow from it.                                           *)
EXTENDS RgbTransfer, TLAPS

USE PartiesAssumption, BoundsAssumption

(***************************************************************************)
(* Rows                                                                    *)
(***************************************************************************)

\* The rows the program writes are rows, also with another status.
LEMMA RowTypes ==
    /\ NoBatch \in SenderRow
    /\ SenderIdle \in SenderOp
    /\ Invoice \in ReceiverRow
    /\ ReceiverIdle \in ReceiverOp
    /\ \A row \in SenderRow, st \in SenderStatus :
          WithStatus(row, st) \in SenderRow
    /\ \A row \in ReceiverRow, st \in ReceiverStatus :
          WithStatus(row, st) \in ReceiverRow
  <1>1. NoBatch \in SenderRow
    BY DEF NoBatch, SenderRow, SenderStatus, Answers
  <1>2. SenderIdle \in SenderOp
    BY <1>1 DEF SenderIdle, SenderOp
  <1>3. Invoice \in ReceiverRow
    BY DEF Invoice, ReceiverRow, ReceiverStatus
  <1>4. ReceiverIdle \in ReceiverOp
    BY <1>3 DEF ReceiverIdle, ReceiverOp
  <1>5. ASSUME NEW row \in SenderRow, NEW st \in SenderStatus
        PROVE  WithStatus(row, st) \in SenderRow
    BY DEF SenderRow, WithStatus
  <1>6. ASSUME NEW row \in ReceiverRow, NEW st \in ReceiverStatus
        PROVE  WithStatus(row, st) \in ReceiverRow
    BY DEF ReceiverRow, WithStatus
  <1> QED
    BY <1>1, <1>2, <1>3, <1>4, <1>5, <1>6

\* So are the rows with the answers the sender has just learned.
LEMMA LearnedTypes ==
    ASSUME TypeOK
    PROVE  /\ \A seen \in SUBSET Recipients : Learned(seen) \in SenderRow
           /\ \A r \in Recipients : Acknowledged(r) \in SenderRow
  BY DEF Learned, Acknowledged, SenderRow, TypeOK, Answers

(***************************************************************************)
(* Type correctness                                                        *)
(***************************************************************************)

\* The initial state has the types.
LEMMA TypeInit == Init => TypeOK
  <1> SUFFICES ASSUME Init PROVE TypeOK
    OBVIOUS
  <1>1. rdb \in [Recipients -> ReceiverRow] /\ rop \in [Recipients -> ReceiverOp]
    BY RowTypes DEF Init
  <1>2. batch \in SenderRow /\ sop \in SenderOp
    BY RowTypes DEF Init
  <1> QED
    BY <1>1, <1>2 DEF Init, TypeOK, Answers, NoTx

\* Each action of the sending wallet keeps the types.
LEMMA TypeSender ==
    ASSUME TypeOK, SenderStep
    PROVE  TypeOK'
  <1> USE RowTypes, LearnedTypes DEF TypeOK, senderVars, proxyVars, receiverVars, worldVars
  <1>1. ASSUME NEW dry_run \in BOOLEAN, NEW gift \in BOOLEAN,
               SendBegin(dry_run, gift)
        PROVE  TypeOK'
    BY <1>1 DEF SendBegin, SenderStatus
  <1>2. CASE SendEnd
    BY <1>2 DEF SendEnd, SenderOp
  <1>3. ASSUME NEW r \in Recipients, PostConsignment(r) PROVE TypeOK'
    BY <1>3 DEF PostConsignment, SenderOp
  <1>4. CASE SaveTransfers
    BY <1>4 DEF SaveTransfers, SenderOp, SenderStatus, SenderRow
  <1>5. CASE SenderBroadcast
    <2>1. sop' \in SenderOp
      BY <1>5 DEF SenderBroadcast, SenderOp, SenderStatus
    <2>2. conf' \in {NoTx} \cup 0..MinConf
      BY <1>5 DEF SenderBroadcast, Publish, OnChain, NoTx
    <2> QED
      BY <1>5, <2>1, <2>2 DEF SenderBroadcast
  <1>6. CASE SenderCommit
    BY <1>6 DEF SenderCommit, SenderOp
  <1>7. CASE SenderAbort
    BY <1>7 DEF SenderAbort, Fault
  <1>8. CASE SenderSwallowedError
    BY <1>8 DEF SenderSwallowedError, Fault, SenderOp, Publish, OnChain, NoTx
  <1>9. ASSUME NEW kind \in {"refresh", "fail"}, NEW seen \in SUBSET Learnable,
               StartCompletion(kind, seen)
        PROVE  TypeOK'
    BY <1>9 DEF StartCompletion, SenderOp, Learnable
  <1>10. ASSUME NEW seen \in SUBSET Learnable,
                RefreshFailsBatch(seen) \/ RefreshRecordsAcks(seen)
                  \/ PollBreaksOff(seen) \/ FailUnanswered(seen)
         PROVE  TypeOK'
    BY <1>10 DEF RefreshFailsBatch, RefreshRecordsAcks, PollBreaksOff, Fault,
       FailUnanswered, Learnable, SenderStatus
  <1>11. CASE FailInitiated
    BY <1>11 DEF FailInitiated, SenderStatus
  <1>12. CASE SenderFeeRejected
    BY <1>12 DEF SenderFeeRejected, Fault, SenderOp, SenderStatus
  <1>13. ASSUME NEW r \in OutOfBand, ProvideOutOfBandAck(r) PROVE TypeOK'
    BY <1>13 DEF ProvideOutOfBandAck, SenderOp
  <1>14. CASE SettleBatch
    BY <1>14 DEF SettleBatch, SenderStatus
  <1>15. CASE DeleteBatch
    BY <1>15 DEF DeleteBatch
  <1> QED
    BY <1>1, <1>2, <1>3, <1>4, <1>5, <1>6, <1>7, <1>8, <1>9, <1>10, <1>11,
       <1>12, <1>13, <1>14, <1>15 DEF SenderStep

\* Each action of a receiving wallet keeps the types.
LEMMA TypeReceiver ==
    ASSUME TypeOK, NEW r \in Recipients, ReceiverStep(r)
    PROVE  TypeOK'
  <1> USE RowTypes DEF TypeOK, senderVars, proxyVars, receiverVars, worldVars,
          Open, Commit, Record, Status, ReceiverOp
  <1>1. ASSUME NEW kind \in {"refresh", "fail"}, FetchConsignment(r, kind)
        PROVE  TypeOK'
    BY <1>1 DEF FetchConsignment, ReceiverRow
  <1>2. ASSUME NEW kind \in {"refresh", "fail"}, ReachSafeHeight(r, kind)
        PROVE  TypeOK'
    BY <1>2 DEF ReachSafeHeight
  <1>3. CASE ProvideOutOfBandConsignment(r)
    BY <1>3 DEF ProvideOutOfBandConsignment
  <1>4. CASE RefuseConsignment(r)
    BY <1>4 DEF RefuseConsignment
  <1>5. CASE AcceptConsignment(r)
    <2>1. [rop[r].db EXCEPT !.cols = @ + 1] \in ReceiverRow
      BY DEF ReceiverRow
    <2> QED
      BY <1>5, <2>1 DEF AcceptConsignment, ReceiverStatus
  <1>6. CASE PostNack(r)
    BY <1>6 DEF PostNack, ReceiverStatus, Answers
  <1>7. CASE PostAck(r)
    <2>1. answer' \in [Recipients -> Answers]
      BY <1>7 DEF PostAck, Answers
    <2>2. rop' \in [Recipients -> ReceiverOp]
      BY <1>7 DEF PostAck, ReceiverStatus
    <2> QED
      BY <1>7, <2>1, <2>2 DEF PostAck
  <1>8. CASE ReceiverBroadcast(r)
    BY <1>8 DEF ReceiverBroadcast, ReceiverStatus, Publish, OnChain, NoTx
  <1>9. CASE ReceiverCommit(r)
    BY <1>9 DEF ReceiverCommit, Answers
  <1>10. CASE ReceiverAbort(r)
    BY <1>10 DEF ReceiverAbort, Fault
  <1>11. CASE ReceiverSwallowedError(r)
    BY <1>11 DEF ReceiverSwallowedError, Fault, Publish, OnChain, NoTx, Answers
  <1>12. CASE ReceiverFeeRejected(r)
    BY <1>12 DEF ReceiverFeeRejected, Fault, ReceiverStatus
  <1>13. CASE FailWithoutConsignment(r)
    BY <1>13 DEF FailWithoutConsignment, Fault, ReceiverStatus
  <1>14. CASE FailUnsafe(r) \/ FailUnbroadcast(r) \/ DeleteReceived(r)
    BY <1>14 DEF FailUnsafe, FailUnbroadcast, DeleteReceived, ReceiverStatus
  <1>15. CASE SeeBroadcast(r) \/ SettleReceived(r)
    BY <1>15 DEF SeeBroadcast, SettleReceived, ReceiverStatus
  <1> QED
    BY <1>1, <1>2, <1>3, <1>4, <1>5, <1>6, <1>7, <1>8, <1>9, <1>10, <1>11,
       <1>12, <1>13, <1>14, <1>15 DEF ReceiverStep

\* So do the users, the blocks and the clocks.
LEMMA TypeWorld ==
    ASSUME TypeOK, WorldStep
    PROVE  TypeOK'
  <1> USE DEF TypeOK, senderVars, proxyVars, receiverVars, worldVars
  <1>1. ASSUME NEW r \in Recipients, HandOver(r) PROVE TypeOK'
    BY <1>1 DEF HandOver
  <1>2. CASE Mine
    BY <1>2 DEF Mine, OnChain, NoTx
  <1>3. CASE BuryHistory
    BY <1>3 DEF BuryHistory
  <1>4. ASSUME NEW group \in DeadlineGroups, Expire(group) PROVE TypeOK'
    BY <1>4 DEF Expire
  <1> QED
    BY <1>1, <1>2, <1>3, <1>4 DEF WorldStep

\* Every step, a stuttering one included, keeps the types.
LEMMA TypeNext == TypeOK /\ [Next]_vars => TypeOK'
  <1> SUFFICES ASSUME TypeOK, [Next]_vars PROVE TypeOK'
    OBVIOUS
  <1>1. CASE SenderStep
    BY <1>1, TypeSender
  <1>2. ASSUME NEW r \in Recipients, ReceiverStep(r) PROVE TypeOK'
    BY <1>2, TypeReceiver
  <1>3. CASE WorldStep
    BY <1>3, TypeWorld
  <1>4. CASE UNCHANGED vars
    BY <1>4 DEF vars, senderVars, proxyVars, receiverVars, worldVars, TypeOK
  <1> QED
    BY <1>1, <1>2, <1>3, <1>4 DEF Next

\* The variables of RgbTransfer always have their types.
THEOREM TypeCorrect == Spec => []TypeOK
  BY TypeInit, TypeNext, PTL DEF Spec

(***************************************************************************)
(* The inductive invariant                                                 *)
(***************************************************************************)

\* The inductive invariant holds at the start.
LEMMA InvInit == Init => Inv
  <1> SUFFICES ASSUME Init PROVE Inv
    OBVIOUS
  <1>1. TypeOK
    BY TypeInit
  <1>2. KnownAnswers
    BY DEF Init, KnownAnswers, NoBatch, SenderIdle
  <1>3. /\ ReadyToBroadcast /\ BroadcastNeedsAcks /\ NothingBeforeBegin
        /\ SettledRows
    BY DEF Init, ReadyToBroadcast, BroadcastNeedsAcks, NothingBeforeBegin,
       SettledRows, OnChain, SenderIdle, NoBatch, ReceiverIdle, Idle, Status,
       Invoice
  <1>4. ASSUME NEW r \in Recipients PROVE RecipientOK(r)
    BY DEF Init, RecipientOK, AcceptedRow, CreditedRow, SettledRow, Accepted,
       Status, Invoice, ReceiverIdle
  <1> QED
    BY <1>1, <1>2, <1>3, <1>4 DEF Inv

\* The part of the invariant that the sender's actions can disturb.
SenderPart ==
    /\ KnownAnswers
    /\ ReadyToBroadcast
    /\ BroadcastNeedsAcks
    /\ NothingBeforeBegin
    /\ SettledRows

\* The sender touches no recipient's wallet and gives no answer.
LEMMA SenderFrame ==
    SenderStep => UNCHANGED <<answer, receiverVars, histSafe, expired>>
  BY DEF SenderStep, SendBegin, SendEnd, PostConsignment, SaveTransfers,
     SenderBroadcast, SenderCommit, SenderAbort, SenderSwallowedError,
     StartCompletion, RefreshFailsBatch, RefreshRecordsAcks, FailUnanswered,
     FailInitiated, SenderFeeRejected, ProvideOutOfBandAck, SettleBatch,
     DeleteBatch, PollBreaksOff, proxyVars, worldVars

\* Confirmations are only ever added, and a donation stays one.
LEMMA SenderMonotone ==
    ASSUME TypeOK, NothingBeforeBegin, SenderStep
    PROVE  /\ conf' >= conf
           /\ donation => donation'
  BY DEF SenderStep, SendBegin, SendEnd, PostConsignment, SaveTransfers,
     SenderBroadcast, SenderCommit, SenderAbort, SenderSwallowedError,
     StartCompletion, RefreshFailsBatch, RefreshRecordsAcks, FailUnanswered,
     FailInitiated, SenderFeeRejected, ProvideOutOfBandAck, SettleBatch,
     DeleteBatch, PollBreaksOff, proxyVars, worldVars, TypeOK, NothingBeforeBegin, Publish,
     OnChain, NoTx

\* Each action of the sender keeps what the sender can disturb.
LEMMA SenderPartStep ==
    ASSUME Inv, SenderStep
    PROVE  SenderPart'
  <1>0. TypeOK'
    BY TypeSender DEF Inv
  <1> USE <1>0 DEF Inv, TypeOK, SenderPart, SenderRow, SenderOp,
          KnownAnswers, ReadyToBroadcast, BroadcastNeedsAcks,
          NothingBeforeBegin, SettledRows, AllAcked, Status,
          Idle, OnChain, NoTx, senderVars, proxyVars, receiverVars, worldVars
  <1>1. ASSUME NEW dry_run \in BOOLEAN, NEW gift \in BOOLEAN,
               SendBegin(dry_run, gift)
        PROVE  SenderPart'
    BY <1>1 DEF SendBegin, WithStatus, SenderIdle
  <1>2. CASE SendEnd
    BY <1>2 DEF SendEnd
  <1>3. ASSUME NEW r \in Recipients, PostConsignment(r) PROVE SenderPart'
    <2>1. prepared /\ prepared'
      BY <1>3 DEF PostConsignment, SenderIdle
    <2> QED
      BY <1>3, <2>1 DEF PostConsignment
  <1>4. CASE SaveTransfers
    <2>1. prepared /\ prepared'
      BY <1>4 DEF SaveTransfers, SenderIdle
    <2> QED
      BY <1>4, <2>1 DEF SaveTransfers, WithStatus
  <1>5. CASE SenderBroadcast
    <2>1. prepared /\ prepared'
      BY <1>5 DEF SenderBroadcast, SenderIdle
    <2>2. ~donation' => \A r \in Recipients : answer'[r] = "ack"
      BY <1>5 DEF SenderBroadcast
    <2> QED
      BY <1>5, <2>1, <2>2 DEF SenderBroadcast, WithStatus, Publish
  <1>6. CASE SenderCommit
    BY <1>6 DEF SenderCommit, SenderIdle, NoBatch
  <1>7. CASE SenderAbort
    BY <1>7 DEF SenderAbort, Fault, SenderIdle, NoBatch
  <1>8. CASE SenderSwallowedError
    BY <1>8 DEF SenderSwallowedError, Fault, Publish, SenderIdle, NoBatch
  <1>9. ASSUME NEW kind \in {"refresh", "fail"}, NEW seen \in SUBSET Learnable,
               StartCompletion(kind, seen)
        PROVE  SenderPart'
    <2>1. \A r \in Recipients : answer[r] = "ack"
      BY <1>9 DEF StartCompletion, MayComplete, Learned, Learnable
    <2>2. prepared
      BY <1>9 DEF StartCompletion, WaitingForAcks, NoBatch
    <2> QED
      BY <1>9, <2>1, <2>2
         DEF StartCompletion, WaitingForAcks, MayComplete, Learned
  <1>10. ASSUME NEW seen \in SUBSET Learnable,
                RefreshFailsBatch(seen) \/ RefreshRecordsAcks(seen)
                  \/ PollBreaksOff(seen) \/ FailUnanswered(seen)
         PROVE  SenderPart'
    <2>1. /\ batch'.acks = Learned(seen).acks
          /\ batch'.status # "Settled"
          /\ UNCHANGED <<prepared, donation, sop, sends, proxyVars,
                          receiverVars, worldVars>>
      BY <1>10 DEF RefreshFailsBatch, RefreshRecordsAcks, PollBreaksOff,
         FailUnanswered, Learned, WithStatus, WaitingForAcks
    <2>2. \A r \in Recipients :
             batch'.acks[r] # "none" => answer[r] = batch'.acks[r]
      BY <2>1 DEF Learned
    <2>3. prepared
      BY <1>10 DEF RefreshFailsBatch, RefreshRecordsAcks, PollBreaksOff,
         FailUnanswered, WaitingForAcks, NoBatch
    <2> QED
      BY <2>1, <2>2, <2>3
  <1>11. CASE FailInitiated
    <2>1. batch'.acks = batch.acks /\ batch'.status # "Settled"
      BY <1>11 DEF FailInitiated, WithStatus
    <2>2. prepared
      BY <1>11 DEF FailInitiated, NoBatch
    <2> QED
      BY <1>11, <2>1, <2>2 DEF FailInitiated
  <1>12. CASE SenderFeeRejected
    BY <1>12 DEF SenderFeeRejected, Fault, WithStatus, SenderIdle, NoBatch
  <1>13. ASSUME NEW r \in OutOfBand, ProvideOutOfBandAck(r) PROVE SenderPart'
    <2>1. \A q \in Recipients : Acknowledged(r).acks[q] # "none" =>
                                   answer[q] = Acknowledged(r).acks[q]
      BY <1>13 DEF ProvideOutOfBandAck, Acknowledged
    <2>2. Acknowledged(r).status = batch.status
      BY DEF Acknowledged
    <2>3. Acknowledged(r) \in SenderRow
      BY LearnedTypes
    <2> QED
      BY <1>13, <2>1, <2>2, <2>3
         DEF ProvideOutOfBandAck, WaitingForAcks, MayComplete
  <1>14. CASE SettleBatch
    BY <1>14 DEF SettleBatch, WithStatus
  <1>15. CASE DeleteBatch
    BY <1>15 DEF DeleteBatch, NoBatch
  <1> QED
    BY <1>1, <1>2, <1>3, <1>4, <1>5, <1>6, <1>7, <1>8, <1>9, <1>10, <1>11,
       <1>12, <1>13, <1>14, <1>15 DEF SenderStep

\* Each action of the sending wallet keeps the invariant: its own part by
\* SenderPartStep, the recipients' because it leaves their wallets alone.
LEMMA InvSender ==
    ASSUME Inv, SenderStep
    PROVE  Inv'
  <1>1. TypeOK' /\ SenderPart'
    BY TypeSender, SenderPartStep DEF Inv
  <1>2. UNCHANGED <<answer, rdb, rop, cached, histSafe, expired>>
    BY SenderFrame DEF receiverVars
  <1>3. conf' >= conf /\ (donation => donation')
    BY SenderMonotone DEF Inv
  <1>4. ASSUME NEW r \in Recipients PROVE RecipientOK(r)'
    BY <1>2, <1>3 DEF Inv, RecipientOK, AcceptedRow, CreditedRow, SettledRow,
       Status, TypeOK, NoTx
  <1> QED
    BY <1>1, <1>4 DEF Inv, SenderPart

\* A recipient leaves the sender's wallet alone and no recipient acts before
\* send_begin other than to give up.
LEMMA ReceiverFrame ==
    ASSUME NEW r \in Recipients, ReceiverStep(r)
    PROVE  UNCHANGED <<senderVars, posted, histSafe, expired>>
  BY DEF ReceiverStep, FetchConsignment, ReachSafeHeight,
     ProvideOutOfBandConsignment, RefuseConsignment, AcceptConsignment,
     PostNack, PostAck, ReceiverBroadcast, ReceiverCommit, ReceiverAbort,
     ReceiverSwallowedError, ReceiverFeeRejected, FailWithoutConsignment,
     FailUnsafe, SeeBroadcast, SettleReceived, FailUnbroadcast,
     DeleteReceived, proxyVars, worldVars

\* Answers are final and the TX only gains confirmations; a recipient puts
\* it on the network only in a donation.
LEMMA ReceiverMonotone ==
    ASSUME Inv, NEW r \in Recipients, ReceiverStep(r)
    PROVE  /\ conf' >= conf
           /\ OnChain' => OnChain \/ donation
           /\ \A q \in Recipients : answer[q] # "none" => answer'[q] = answer[q]
           /\ \A q \in Recipients \ {r} : rdb'[q] = rdb[q] /\ rop'[q] = rop[q]
                                           /\ answer'[q] = answer[q]
                                           /\ cached'[q] = cached[q]
  <1> USE DEF Inv, TypeOK, senderVars, proxyVars, receiverVars, worldVars,
          Open, Commit, Record, Publish, OnChain, NoTx, RecipientOK,
          AcceptedRow, Answers
  <1>1. CASE \E kind \in {"refresh", "fail"} :
               FetchConsignment(r, kind) \/ ReachSafeHeight(r, kind)
    BY <1>1 DEF FetchConsignment, ReachSafeHeight
  <1>2. CASE ProvideOutOfBandConsignment(r) \/ RefuseConsignment(r)
               \/ AcceptConsignment(r) \/ ReceiverAbort(r)
    BY <1>2 DEF ProvideOutOfBandConsignment, RefuseConsignment,
       AcceptConsignment, ReceiverAbort
  <1>3. CASE PostNack(r) \/ PostAck(r)
    BY <1>3 DEF PostNack, PostAck
  <1>4. CASE ReceiverBroadcast(r)
    BY <1>4 DEF ReceiverBroadcast
  <1>5. CASE ReceiverCommit(r)
    BY <1>5 DEF ReceiverCommit
  <1>6. CASE ReceiverSwallowedError(r)
    BY <1>6 DEF ReceiverSwallowedError
  <1>7. CASE ReceiverFeeRejected(r) \/ FailWithoutConsignment(r) \/ FailUnsafe(r)
               \/ SeeBroadcast(r) \/ SettleReceived(r) \/ FailUnbroadcast(r)
               \/ DeleteReceived(r)
    BY <1>7 DEF ReceiverFeeRejected, FailWithoutConsignment, FailUnsafe,
       SeeBroadcast, SettleReceived, FailUnbroadcast, DeleteReceived
  <1> QED
    BY <1>1, <1>2, <1>3, <1>4, <1>5, <1>6, <1>7 DEF ReceiverStep

\* Each action of a recipient keeps its own part of the invariant.
LEMMA ReceiverRowStep ==
    ASSUME Inv, NEW r \in Recipients, ReceiverStep(r)
    PROVE  RecipientOK(r)'
  <1> USE DEF Inv, TypeOK, ReceiverRow, ReceiverOp, RecipientOK, AcceptedRow,
          CreditedRow, SettledRow, Accepted, Status, Open, Commit, Record,
          WithStatus, OnChain, NoTx, Publish, senderVars, proxyVars,
          receiverVars, worldVars
  <1>1. ASSUME NEW kind \in {"refresh", "fail"}, FetchConsignment(r, kind)
        PROVE  RecipientOK(r)'
    BY <1>1 DEF FetchConsignment
  <1>2. ASSUME NEW kind \in {"refresh", "fail"}, ReachSafeHeight(r, kind)
        PROVE  RecipientOK(r)'
    BY <1>2 DEF ReachSafeHeight
  <1>3. CASE ProvideOutOfBandConsignment(r)
    BY <1>3 DEF ProvideOutOfBandConsignment
  <1>4. CASE RefuseConsignment(r)
    BY <1>4 DEF RefuseConsignment
  <1>5. CASE AcceptConsignment(r)
    <2> DEFINE row == [rop[r].db EXCEPT !.cols = @ + 1]
    <2>1. row \in ReceiverRow /\ row.cols >= 1 /\ row.status = rop[r].db.status
      OBVIOUS
    <2>2. /\ UNCHANGED <<answer, rdb, conf, histSafe, donation>>
          /\ \/ histSafe /\ rop'[r].pc = "ack" /\ rop'[r].db = row
             \/ /\ rop'[r].pc = "commit"
                /\ rop'[r].db = WithStatus(row, "WaitingSafeHeight")
      <3>1. CASE histSafe
        BY <1>5, <3>1 DEF AcceptConsignment
      <3>2. CASE ~histSafe
        BY <1>5, <3>2 DEF AcceptConsignment
      <3> QED
        BY <3>1, <3>2
    <2>3. rop[r].db.status \notin Accepted
      BY <1>5 DEF AcceptConsignment
    <2>4. /\ rop'[r].db.cols >= 1
          /\ rop'[r].db.status \notin Accepted \cup {"Settled"}
          /\ rop'[r].pc \in {"ack", "broadcast"} => histSafe
          /\ rop'[r].pc # "broadcast"
      BY <2>1, <2>2, <2>3
    <2> HIDE DEF row
    <2> QED
      BY <2>2, <2>4
  <1>6. CASE PostNack(r)
    BY <1>6 DEF PostNack
  <1>7. CASE PostAck(r)
    <2>1. /\ UNCHANGED <<rdb, conf, histSafe, donation>>
          /\ histSafe
          /\ rop[r].db.cols >= 1
          /\ rop'[r].db.cols = rop[r].db.cols
          /\ r \notin OutOfBand => answer'[r] # "none"
          /\ answer[r] # "none" \/ r \in OutOfBand => answer'[r] = answer[r]
      BY <1>7 DEF PostAck
    <2>2. /\ rop'[r].pc \in {"broadcast", "commit"}
          /\ rop'[r].pc = "broadcast" =>
                donation /\ rop'[r].db.status = rop[r].db.status
          /\ rop'[r].pc = "commit" => rop'[r].db.status = "WaitingBroadcast"
      BY <1>7 DEF PostAck
    <2>3. rop[r].db.status \notin Accepted
      BY <1>7 DEF PostAck
    <2> QED
      BY <2>1, <2>2, <2>3
  <1>8. CASE ReceiverBroadcast(r)
    BY <1>8 DEF ReceiverBroadcast
  <1>9. CASE ReceiverCommit(r)
    BY <1>9 DEF ReceiverCommit, ReceiverIdle, Invoice
  <1>10. CASE ReceiverAbort(r)
    BY <1>10 DEF ReceiverAbort, ReceiverIdle, Invoice
  <1>11. CASE ReceiverSwallowedError(r)
    <2>1. /\ UNCHANGED <<histSafe, donation>>
          /\ rdb'[r] = rop[r].db
          /\ rop'[r] = ReceiverIdle
      BY <1>11 DEF ReceiverSwallowedError
    <2>2. conf' \in Int /\ conf' >= conf
      BY <1>11 DEF ReceiverSwallowedError
    <2>3. \/ answer'[r] = answer[r]
          \/ r \notin OutOfBand /\ answer'[r] = "nack"
          \/ r \notin OutOfBand /\ answer'[r] = "ack" /\ rop[r].pc = "ack"
      BY <1>11 DEF ReceiverSwallowedError
    <2>4. rop[r].db.status \notin Accepted
      BY <1>11 DEF ReceiverSwallowedError
    <2> QED
      BY <2>1, <2>2, <2>3, <2>4 DEF ReceiverIdle, Invoice
  <1>12. CASE ReceiverFeeRejected(r)
    BY <1>12 DEF ReceiverFeeRejected, ReceiverIdle, Invoice
  <1>13. CASE FailWithoutConsignment(r)
    BY <1>13 DEF FailWithoutConsignment, ReceiverIdle, Invoice
  <1>14. CASE FailUnsafe(r) \/ FailUnbroadcast(r) \/ DeleteReceived(r)
    BY <1>14 DEF FailUnsafe, FailUnbroadcast, DeleteReceived, ReceiverIdle,
       Invoice
  <1>15. CASE SeeBroadcast(r)
    BY <1>15 DEF SeeBroadcast, ReceiverIdle, Invoice
  <1>16. CASE SettleReceived(r)
    BY <1>16 DEF SettleReceived, ReceiverIdle, Invoice
  <1> QED
    BY <1>1, <1>2, <1>3, <1>4, <1>5, <1>6, <1>7, <1>8, <1>9, <1>10, <1>11,
       <1>12, <1>13, <1>14, <1>15, <1>16 DEF ReceiverStep

\* Before send_begin a recipient can only give up on its invoice.
LEMMA NothingReceivedBeforeBegin ==
    ASSUME Inv, ~prepared, NEW r \in Recipients, ReceiverStep(r)
    PROVE  UNCHANGED <<answer, cached, conf>> /\ Idle(r)' /\
           Status(r)' # "WaitingSafeHeight"
  <1> USE DEF Inv, TypeOK, ReceiverRow, ReceiverOp, NothingBeforeBegin, Idle,
          Status, HasCached, Commit, ReceiverIdle, WithStatus, Invoice,
          proxyVars, worldVars
  <1>1. rop[r].pc = "idle" /\ rop[r].kind = "idle"
    OBVIOUS
  <1>2. \/ FailWithoutConsignment(r) \/ SeeBroadcast(r) \/ SettleReceived(r)
        \/ FailUnbroadcast(r) \/ DeleteReceived(r) \/ FailUnsafe(r)
    BY <1>1 DEF ReceiverStep, FetchConsignment, ReachSafeHeight,
       ProvideOutOfBandConsignment, RefuseConsignment, AcceptConsignment,
       PostNack, PostAck, ReceiverBroadcast, ReceiverCommit, ReceiverAbort,
       ReceiverSwallowedError, ReceiverFeeRejected
  <1>3. ~SeeBroadcast(r) /\ ~SettleReceived(r)
    BY DEF SeeBroadcast, SettleReceived
  <1>4. CASE FailWithoutConsignment(r)
    BY <1>4 DEF FailWithoutConsignment
  <1>5. CASE FailUnbroadcast(r)
    BY <1>5 DEF FailUnbroadcast
  <1>6. CASE DeleteReceived(r)
    BY <1>6 DEF DeleteReceived
  <1>7. CASE FailUnsafe(r)
    BY <1>7 DEF FailUnsafe
  <1> QED
    BY <1>2, <1>3, <1>4, <1>5, <1>6, <1>7

\* Each action of a receiving wallet keeps the invariant: its own part by
\* ReceiverRowStep, the rest because answers are final and confirmations grow.
LEMMA InvReceiver ==
    ASSUME Inv, NEW r \in Recipients, ReceiverStep(r)
    PROVE  Inv'
  <1>1. TypeOK'
    BY TypeReceiver DEF Inv
  <1>2. UNCHANGED <<prepared, donation, batch, sop, sends, posted, histSafe>>
    BY ReceiverFrame DEF senderVars
  <1>3. /\ conf' >= conf
        /\ OnChain' => OnChain \/ donation
        /\ \A q \in Recipients : answer[q] # "none" => answer'[q] = answer[q]
        /\ \A q \in Recipients \ {r} :
              /\ rdb'[q] = rdb[q]
              /\ rop'[q] = rop[q]
              /\ answer'[q] = answer[q]
              /\ cached'[q] = cached[q]
    BY ReceiverMonotone
  <1>4. ASSUME NEW q \in Recipients PROVE RecipientOK(q)'
    <2>1. CASE q = r
      BY <2>1, ReceiverRowStep
    <2>2. CASE q # r
      BY <1>1, <1>2, <1>3, <2>2 DEF Inv, RecipientOK, AcceptedRow, CreditedRow,
         SettledRow, Status, TypeOK, NoTx
    <2> QED
      BY <2>1, <2>2
  <1>5. KnownAnswers' /\ ReadyToBroadcast' /\ BroadcastNeedsAcks' /\ SettledRows'
    BY <1>2, <1>3 DEF Inv, KnownAnswers, ReadyToBroadcast, BroadcastNeedsAcks,
       SettledRows, AllAcked, TypeOK, NoTx
  <1>6. NothingBeforeBegin'
    BY <1>2, <1>3, NothingReceivedBeforeBegin
       DEF Inv, NothingBeforeBegin, Idle, Status, OnChain
  <1> QED
    BY <1>1, <1>4, <1>5, <1>6 DEF Inv

\* Users, blocks and clocks keep the invariant.
LEMMA InvWorld ==
    ASSUME Inv, WorldStep
    PROVE  Inv'
  <1>1. TypeOK'
    BY TypeWorld DEF Inv
  <1>2. /\ UNCHANGED <<senderVars, answer, receiverVars>>
        /\ histSafe => histSafe'
        /\ conf' >= conf
        /\ OnChain' => OnChain
        /\ \A r \in Recipients : posted'[r] = posted[r] \/ sends > 0
    BY DEF Inv, TypeOK, WorldStep, HandOver, Mine, BuryHistory, Expire,
       proxyVars, worldVars, OnChain, NoTx
  <1>3. ASSUME NEW r \in Recipients PROVE RecipientOK(r)'
    BY <1>1, <1>2 DEF Inv, RecipientOK, AcceptedRow, CreditedRow, SettledRow,
       Status, receiverVars, senderVars, TypeOK, NoTx
  <1>4. /\ KnownAnswers' /\ ReadyToBroadcast' /\ BroadcastNeedsAcks'
        /\ SettledRows'
    BY <1>1, <1>2 DEF Inv, KnownAnswers, ReadyToBroadcast, BroadcastNeedsAcks,
       SettledRows, AllAcked, senderVars, TypeOK, NoTx
  <1>5. NothingBeforeBegin'
    BY <1>2 DEF Inv, NothingBeforeBegin, Idle, Status, senderVars, receiverVars
  <1> QED
    BY <1>1, <1>3, <1>4, <1>5 DEF Inv

\* The invariant is inductive.
LEMMA InvNext == Inv /\ [Next]_vars => Inv'
  <1> SUFFICES ASSUME Inv, [Next]_vars PROVE Inv'
    OBVIOUS
  <1>1. CASE SenderStep
    BY <1>1, InvSender
  <1>2. ASSUME NEW r \in Recipients, ReceiverStep(r) PROVE Inv'
    BY <1>2, InvReceiver
  <1>3. CASE WorldStep
    BY <1>3, InvWorld
  <1>4. CASE UNCHANGED vars
    BY <1>4 DEF vars, senderVars, proxyVars, receiverVars, worldVars, Inv,
       TypeOK, KnownAnswers, ReadyToBroadcast, BroadcastNeedsAcks,
       NothingBeforeBegin, SettledRows, RecipientOK, AcceptedRow, CreditedRow,
       SettledRow, Status, Idle, AllAcked, OnChain
  <1> QED
    BY <1>1, <1>2, <1>3, <1>4 DEF Next

\* The inductive invariant holds in every reachable state.
THEOREM Invariant == Spec => []Inv
  BY InvInit, InvNext, PTL DEF Spec

(***************************************************************************)
(* Safety                                                                  *)
(***************************************************************************)

\* No transfer other than a donation is broadcast without the ACK of every
\* recipient, for any batch and any faults.
THEOREM NoBroadcastWithoutAcks == Spec => []BroadcastNeedsAcks
  <1>1. Inv => BroadcastNeedsAcks
    BY DEF Inv
  <1> QED
    BY Invariant, <1>1, PTL

\* No recipient counts on an asset, or ACKs it, while its history is unsafe.
THEOREM NoCreditOnUnsafeHistory == Spec => []CreditedHistoryIsSafe
  <1>1. Inv => CreditedHistoryIsSafe
    BY DEF Inv, CreditedHistoryIsSafe, RecipientOK, AcceptedRow
  <1> QED
    BY Invariant, <1>1, PTL

\* A settled transfer has its confirmations, on both sides.
THEOREM SettledIsFinal == Spec => []SettledIsBuried
  <1>1. Inv => SettledIsBuried
    BY DEF Inv, SettledIsBuried, SettledRows, RecipientOK, SettledRow
  <1> QED
    BY Invariant, <1>1, PTL

\* A recipient that accepted a transfer has recorded its allocation and has
\* answered.
THEOREM AcceptedHasAllocation == Spec => []AcceptedIsCredited
  <1>1. Inv => AcceptedIsCredited
    BY DEF Inv, AcceptedIsCredited, RecipientOK, AcceptedRow, CreditedRow
  <1> QED
    BY Invariant, <1>1, PTL

(***************************************************************************)
(* What a recipient's row goes through                                     *)
(***************************************************************************)

\* An operation that is open started from a row that waits, and no other
\* operation has changed that row since: wallets run one at a time.
OpenRows ==
    \A r \in Recipients :
        rop[r] # ReceiverIdle =>
            Status(r) \in {"WaitingCounterparty", "WaitingSafeHeight"}

\* A recipient's row changes only when its operation commits, along the
\* status flow.
LEMMA OpenRowsStep ==
    ASSUME Inv, OpenRows, NEW r \in Recipients, ReceiverStep(r)
    PROVE  /\ rop'[r] # ReceiverIdle => rdb'[r] = rdb[r] /\
                 Status(r) \in {"WaitingCounterparty", "WaitingSafeHeight"}
           /\ Status(r)' = "Settled" /\ Status(r) # "Settled" =>
                 /\ Status(r) \in {"WaitingBroadcast", "WaitingConfirmations"}
                 /\ OnChain
                 /\ UNCHANGED <<conf, answer>>
           /\ Status(r) = "WaitingConfirmations" =>
                 Status(r)' \in {"WaitingConfirmations", "Settled"}
           /\ Status(r) = "Settled" => Status(r)' = "Settled"
           /\ Status(r) = "Failed" => Status(r)' \in {"Failed", "Deleted"}
  <1> USE DEF Inv, TypeOK, ReceiverRow, ReceiverOp, OpenRows, RecipientOK,
          SettledRow, Status, Idle, Open, Commit, WithStatus, proxyVars,
          worldVars
  <1>1. CASE rop[r] = ReceiverIdle
    <2>1. rop[r].pc = "idle" /\ rop[r].kind = "idle"
      BY <1>1 DEF ReceiverIdle
    <2>2. CASE \E kind \in {"refresh", "fail"} :
                 FetchConsignment(r, kind) \/ ReachSafeHeight(r, kind)
      BY <2>2 DEF FetchConsignment, ReachSafeHeight
    <2>3. CASE ProvideOutOfBandConsignment(r)
      BY <2>3 DEF ProvideOutOfBandConsignment
    <2>4. CASE FailWithoutConsignment(r) \/ FailUnsafe(r) \/ SeeBroadcast(r)
                 \/ SettleReceived(r) \/ FailUnbroadcast(r) \/ DeleteReceived(r)
      BY <2>4 DEF FailWithoutConsignment, FailUnsafe, SeeBroadcast,
         SettleReceived, FailUnbroadcast, DeleteReceived, Invoice
    <2>5. /\ ~RefuseConsignment(r) /\ ~AcceptConsignment(r) /\ ~PostNack(r)
          /\ ~PostAck(r) /\ ~ReceiverBroadcast(r) /\ ~ReceiverCommit(r)
          /\ ~ReceiverAbort(r) /\ ~ReceiverSwallowedError(r)
          /\ ~ReceiverFeeRejected(r)
      BY <1>1, <2>1 DEF RefuseConsignment, AcceptConsignment, PostNack,
         PostAck, ReceiverBroadcast, ReceiverCommit, ReceiverAbort,
         ReceiverSwallowedError, ReceiverFeeRejected
    <2> QED
      BY <2>2, <2>3, <2>4, <2>5 DEF ReceiverStep
  <1>2. CASE rop[r] # ReceiverIdle
    <2>1. Status(r) \in {"WaitingCounterparty", "WaitingSafeHeight"}
      BY <1>2
    <2>2. CASE rdb'[r] = rdb[r]
      BY <2>1, <2>2
    <2>3. CASE rdb'[r] = rop[r].db /\ rop'[r] = ReceiverIdle
      BY <2>1, <2>3
    <2>4. CASE ReceiverFeeRejected(r)
      BY <2>1, <2>4 DEF ReceiverFeeRejected
    <2> QED
      BY <1>2, <2>2, <2>3, <2>4 DEF ReceiverStep, FetchConsignment,
         ReachSafeHeight, ProvideOutOfBandConsignment, RefuseConsignment,
         AcceptConsignment, PostNack, PostAck, ReceiverBroadcast,
         ReceiverCommit, ReceiverAbort, ReceiverSwallowedError,
         FailWithoutConsignment, FailUnsafe, SeeBroadcast, SettleReceived,
         FailUnbroadcast, DeleteReceived
  <1> QED
    BY <1>1, <1>2

\* No step leaves an open operation behind on a row that moved on.
LEMMA OpenRowsNext == Inv /\ OpenRows /\ [Next]_vars => OpenRows'
  <1> SUFFICES ASSUME Inv, OpenRows, [Next]_vars PROVE OpenRows'
    OBVIOUS
  <1>1. CASE SenderStep
    BY <1>1, SenderFrame DEF OpenRows, receiverVars, Status
  <1>2. ASSUME NEW r \in Recipients, ReceiverStep(r) PROVE OpenRows'
    BY <1>2, OpenRowsStep, ReceiverMonotone DEF OpenRows, Status
  <1>3. CASE WorldStep
    BY <1>3 DEF OpenRows, Status, WorldStep, HandOver, Mine, BuryHistory,
       Expire, receiverVars
  <1>4. CASE UNCHANGED vars
    BY <1>4 DEF OpenRows, Status, vars, receiverVars
  <1> QED
    BY <1>1, <1>2, <1>3, <1>4 DEF Next

\* Both invariants together hold for ever.
LEMMA BothInvariants == Spec => [](Inv /\ OpenRows)
  <1>1. Init => OpenRows
    BY DEF Init, OpenRows
  <1> QED
    BY Invariant, OpenRowsNext, <1>1, PTL DEF Spec

\* A recipient's transfer never leaves a final status and never fails after
\* its TX was seen, whichever operation commits last.
THEOREM FinalStaysFinal == Spec => ReceiverStatusFlow
  <1>1. ASSUME Inv, OpenRows, [Next]_vars
        PROVE  [\A r \in Recipients :
          /\ Status(r) = "WaitingConfirmations" =>
                Status(r)' \in {"WaitingConfirmations", "Settled"}
          /\ Status(r) = "Settled" => Status(r)' = "Settled"
          /\ Status(r) = "Failed" => Status(r)' \in {"Failed", "Deleted"}]_vars
    <2>1. CASE SenderStep \/ WorldStep \/ UNCHANGED vars
      BY <2>1, SenderFrame DEF Status, WorldStep, HandOver, Mine, BuryHistory,
         Expire, receiverVars, vars
    <2>2. ASSUME NEW q \in Recipients, ReceiverStep(q),
                 NEW r \in Recipients
          PROVE  /\ Status(r) = "WaitingConfirmations" =>
                        Status(r)' \in {"WaitingConfirmations", "Settled"}
                 /\ Status(r) = "Settled" => Status(r)' = "Settled"
                 /\ Status(r) = "Failed" => Status(r)' \in {"Failed", "Deleted"}
      <3>1. CASE q = r
        BY <1>1, <2>2, <3>1, OpenRowsStep
      <3>2. CASE q # r
        BY <1>1, <2>2, <3>2, ReceiverMonotone DEF Status
      <3> QED
        BY <3>1, <3>2
    <2> QED
      BY <1>1, <2>1, <2>2 DEF Next
  <1> QED
    BY <1>1, BothInvariants, PTL DEF Spec, ReceiverStatusFlow

(***************************************************************************)
(* Without faults                                                          *)
(***************************************************************************)

\* As long as nothing went wrong the colorings are inserted only by the
\* operation that takes the row out of WaitingCounterparty.
CreditsRow(r) ==
    /\ rdb[r].cols <= 1
    /\ rop[r].db.cols <= 1
    /\ Status(r) = "WaitingCounterparty" => rdb[r].cols = 0
    /\ rop[r].pc = "validate" => rop[r].db.cols = 0
    /\ rop[r].pc = "commit" => rop[r].db.status # "WaitingCounterparty"
Credits == faults = 0 => \A r \in Recipients : CreditsRow(r)

\* Each action of a recipient that does not fail inserts them once.
LEMMA CreditsRowStep ==
    ASSUME Inv, NEW r \in Recipients, CreditsRow(r), ReceiverStep(r),
           faults = 0, faults' = 0
    PROVE  CreditsRow(r)'
  <1> USE DEF Inv, TypeOK, ReceiverRow, ReceiverOp, CreditsRow, Status, Open,
          Commit, WithStatus, ReceiverIdle, Invoice
  <1>1. ASSUME NEW kind \in {"refresh", "fail"}, FetchConsignment(r, kind)
        PROVE  CreditsRow(r)'
    BY <1>1 DEF FetchConsignment
  <1>2. ASSUME NEW kind \in {"refresh", "fail"}, ReachSafeHeight(r, kind)
        PROVE  CreditsRow(r)'
    BY <1>2 DEF ReachSafeHeight
  <1>3. CASE ProvideOutOfBandConsignment(r)
    BY <1>3 DEF ProvideOutOfBandConsignment
  <1>4. CASE RefuseConsignment(r)
    BY <1>4 DEF RefuseConsignment
  <1>5. CASE AcceptConsignment(r)
    <2> DEFINE row == [rop[r].db EXCEPT !.cols = @ + 1]
    <2>1. row \in ReceiverRow /\ row.cols = rop[r].db.cols + 1
      OBVIOUS
    <2>2. /\ rdb' = rdb
          /\ \/ rop'[r].pc = "ack" /\ rop'[r].db = row
             \/ /\ rop'[r].pc = "commit"
                /\ rop'[r].db = WithStatus(row, "WaitingSafeHeight")
      <3>1. CASE histSafe
        BY <1>5, <3>1 DEF AcceptConsignment
      <3>2. CASE ~histSafe
        BY <1>5, <3>2 DEF AcceptConsignment
      <3> QED
        BY <3>1, <3>2
    <2>3. rop[r].db.cols = 0
      BY <1>5 DEF AcceptConsignment
    <2> HIDE DEF row
    <2>4. /\ rop'[r].db.cols = 1
          /\ rop'[r].pc = "commit" => rop'[r].db.status = "WaitingSafeHeight"
          /\ rop'[r].pc # "validate"
      BY <2>1, <2>2, <2>3
    <2> QED
      BY <2>2, <2>4
  <1>6. CASE PostNack(r)
    BY <1>6 DEF PostNack
  <1>7. CASE PostAck(r)
    BY <1>7 DEF PostAck
  <1>8. CASE ReceiverBroadcast(r)
    BY <1>8 DEF ReceiverBroadcast
  <1>9. CASE ReceiverCommit(r)
    BY <1>9 DEF ReceiverCommit
  <1>10. CASE ReceiverAbort(r) \/ ReceiverSwallowedError(r)
                \/ ReceiverFeeRejected(r)
    BY <1>10 DEF ReceiverAbort, ReceiverSwallowedError, ReceiverFeeRejected,
       Fault
  <1>11. CASE FailWithoutConsignment(r)
    BY <1>11 DEF FailWithoutConsignment
  <1>12. CASE FailUnsafe(r) \/ FailUnbroadcast(r) \/ DeleteReceived(r)
    BY <1>12 DEF FailUnsafe, FailUnbroadcast, DeleteReceived
  <1>13. CASE SeeBroadcast(r) \/ SettleReceived(r)
    BY <1>13 DEF SeeBroadcast, SettleReceived
  <1> QED
    BY <1>1, <1>2, <1>3, <1>4, <1>5, <1>6, <1>7, <1>8, <1>9, <1>10, <1>11,
       <1>12, <1>13 DEF ReceiverStep

\* Faults are counted and never forgotten.
LEMMA FaultsGrow ==
    ASSUME TypeOK, [Next]_vars, faults' = 0
    PROVE  faults = 0
  <1> USE DEF TypeOK, Fault, senderVars, proxyVars, receiverVars, worldVars
  <1>1. CASE SenderStep
    BY <1>1 DEF SenderStep, SendBegin, SendEnd, PostConsignment,
       SaveTransfers, SenderBroadcast, SenderCommit, SenderAbort,
       SenderSwallowedError, StartCompletion, RefreshFailsBatch,
       RefreshRecordsAcks, FailUnanswered, FailInitiated, SenderFeeRejected,
       ProvideOutOfBandAck, SettleBatch, DeleteBatch, PollBreaksOff
  <1>2. ASSUME NEW r \in Recipients, ReceiverStep(r) PROVE faults = 0
    BY <1>2 DEF ReceiverStep, FetchConsignment, ReachSafeHeight,
       ProvideOutOfBandConsignment, RefuseConsignment, AcceptConsignment,
       PostNack, PostAck, ReceiverBroadcast, ReceiverCommit, ReceiverAbort,
       ReceiverSwallowedError, ReceiverFeeRejected, FailWithoutConsignment,
       FailUnsafe, SeeBroadcast, SettleReceived, FailUnbroadcast,
       DeleteReceived
  <1>3. CASE WorldStep
    BY <1>3 DEF WorldStep, HandOver, Mine, BuryHistory, Expire
  <1>4. CASE UNCHANGED vars
    BY <1>4 DEF vars
  <1> QED
    BY <1>1, <1>2, <1>3, <1>4 DEF Next

\* Every step keeps the count of the colorings.
LEMMA CreditsNext == Inv /\ Credits /\ [Next]_vars => Credits'
  <1> SUFFICES ASSUME Inv, Credits, [Next]_vars, faults' = 0,
                      NEW r \in Recipients
               PROVE  CreditsRow(r)'
    BY DEF Credits
  <1>0. faults = 0 /\ CreditsRow(r)
    BY FaultsGrow DEF Inv, Credits
  <1>1. CASE SenderStep \/ WorldStep \/ UNCHANGED vars
    <2>1. UNCHANGED <<rdb, rop>>
      BY <1>1, SenderFrame DEF WorldStep, HandOver, Mine, BuryHistory, Expire,
         receiverVars, vars
    <2> QED
      BY <1>0, <2>1 DEF CreditsRow, Status
  <1>2. ASSUME NEW q \in Recipients, ReceiverStep(q) PROVE CreditsRow(r)'
    <2>1. CASE q = r
      BY <1>0, <1>2, <2>1, CreditsRowStep
    <2>2. CASE q # r
      BY <1>0, <1>2, <2>2, ReceiverMonotone DEF CreditsRow, Status
    <2> QED
      BY <2>1, <2>2
  <1> QED
    BY <1>1, <1>2 DEF Next

\* The Receive colorings of a transfer are inserted at most once as long as
\* nothing crashes and no call fails, for any batch and any order of the
\* calls of the wallets.
THEOREM CreditedOnceCorrect == Spec => []CreditedOnceWithoutFaults
  <1>1. Init => Credits
    BY DEF Init, Credits, CreditsRow, Status, Invoice, ReceiverIdle
  <1>2. Credits => CreditedOnceWithoutFaults
    BY DEF Credits, CreditsRow, CreditedOnceWithoutFaults, CreditedOnce
  <1> QED
    BY Invariant, CreditsNext, <1>1, <1>2, PTL DEF Spec

\* Nothing has left the sender before send_end.
NothingBeforeEnd ==
    sends = 0 =>
        /\ ~OnChain
        /\ sop = SenderIdle
        /\ batch.status \in {"NoBatch", "Initiated", "Failed"}
        /\ \A r \in Recipients :
              /\ ~posted[r] /\ ~cached[r] /\ Idle(r)
              /\ Status(r) # "WaitingSafeHeight"

\* The row of a transfer that is, or is sure to be, on the network says so,
\* or will when the operation that is open commits.
OutIsNoted ==
    IF sop = SenderIdle
    THEN batch.status \in {"WaitingConfirmations", "Settled"}
    ELSE sop.pc = "commit" => sop.db.status = "WaitingConfirmations"

NotedWithoutFaults ==
    faults = 0 =>
        /\ OnChain \/ (donation /\ sends > 0) => OutIsNoted
        /\ sop.pc = "post" /\ ~donation => ~OnChain
        /\ sop.pc = "idle" <=> sop = SenderIdle

SentOnce == NothingBeforeEnd /\ NotedWithoutFaults

\* Before send_end a recipient can only give up on its invoice.
LEMMA NothingReceivedBeforeEnd ==
    ASSUME Inv, NothingBeforeEnd, sends = 0, NEW r \in Recipients,
           ReceiverStep(r)
    PROVE  UNCHANGED <<cached, conf>> /\ Idle(r)' /\
           Status(r)' # "WaitingSafeHeight"
  <1> USE DEF Inv, TypeOK, ReceiverRow, ReceiverOp, NothingBeforeEnd, Idle,
          Status, HasCached, Commit, ReceiverIdle, WithStatus, Invoice,
          proxyVars, worldVars
  <1>1. rop[r].pc = "idle" /\ rop[r].kind = "idle"
    OBVIOUS
  <1>2. \/ FailWithoutConsignment(r) \/ SeeBroadcast(r) \/ SettleReceived(r)
        \/ FailUnbroadcast(r) \/ DeleteReceived(r) \/ FailUnsafe(r)
    BY <1>1 DEF ReceiverStep, FetchConsignment, ReachSafeHeight,
       ProvideOutOfBandConsignment, RefuseConsignment, AcceptConsignment,
       PostNack, PostAck, ReceiverBroadcast, ReceiverCommit, ReceiverAbort,
       ReceiverSwallowedError, ReceiverFeeRejected
  <1>3. ~SeeBroadcast(r) /\ ~SettleReceived(r)
    BY DEF SeeBroadcast, SettleReceived
  <1>4. CASE FailWithoutConsignment(r)
    BY <1>4 DEF FailWithoutConsignment
  <1>5. CASE FailUnbroadcast(r)
    BY <1>5 DEF FailUnbroadcast
  <1>6. CASE DeleteReceived(r)
    BY <1>6 DEF DeleteReceived
  <1>7. CASE FailUnsafe(r)
    BY <1>7 DEF FailUnsafe
  <1> QED
    BY <1>2, <1>3, <1>4, <1>5, <1>6, <1>7

\* An operation that has posted everything may only be about to note that
\* the TX is out.
LEMMA NotedWhileOpen ==
    ASSUME TypeOK', sends' > 0, sop' # SenderIdle,
           sop'.pc \in {"broadcast", "commit"},
           faults' = 0 /\ (OnChain \/ donation)' /\ sop'.pc = "commit" =>
              sop'.db.status = "WaitingConfirmations"
    PROVE  SentOnce'
  <1>1. NothingBeforeEnd'
    BY DEF NothingBeforeEnd, TypeOK
  <1>2. NotedWithoutFaults'
    BY DEF NotedWithoutFaults, OutIsNoted
  <1> QED
    BY <1>1, <1>2 DEF SentOnce

\* Each action of the sender keeps what it wrote about the network in step
\* with the network, if send_end runs once and nothing fails.
LEMMA SentOnceSender ==
    ASSUME MaxSendEnds = 1, Inv, SentOnce, SenderStep
    PROVE  SentOnce'
  <1>0. TypeOK'
    BY TypeSender DEF Inv
  <1> USE <1>0 DEF Inv, TypeOK, SenderRow, SenderOp, SentOnce,
          NothingBeforeEnd, NotedWithoutFaults, OutIsNoted,
          NothingBeforeBegin, WithStatus, SenderIdle, NoBatch, OnChain, NoTx,
          Idle, Status, Fault, senderVars, proxyVars, receiverVars, worldVars
  <1>1. ASSUME NEW dry_run \in BOOLEAN, NEW gift \in BOOLEAN,
               SendBegin(dry_run, gift)
        PROVE  SentOnce'
    BY <1>1 DEF SendBegin
  <1>2. CASE SendEnd
    BY <1>2 DEF SendEnd
  <1>3. ASSUME NEW r \in Recipients, PostConsignment(r) PROVE SentOnce'
    BY <1>3 DEF PostConsignment
  <1>4. CASE SaveTransfers
    <2>1. /\ sop.pc = "post" /\ sop # SenderIdle
          /\ UNCHANGED <<donation, sends, conf, faults>>
      BY <1>4 DEF SaveTransfers
    <2>2. donation => sop'.pc = "broadcast"
      BY <1>4 DEF SaveTransfers
    <2>3. ~donation => sop'.pc = "commit"
      BY <1>4 DEF SaveTransfers
    <2>4. sends' > 0 /\ (~donation' /\ faults' = 0 => ~OnChain')
      BY <2>1
    <2>5. sop'.pc \in {"broadcast", "commit"}
      BY <2>2, <2>3
    <2>6. faults' = 0 /\ (OnChain \/ donation)' /\ sop'.pc = "commit" =>
             sop'.db.status = "WaitingConfirmations"
      BY <2>1, <2>2, <2>4
    <2>7. sop' # SenderIdle
      BY <2>5
    <2> HIDE DEF Inv, TypeOK, SenderRow, SenderOp, SentOnce, SenderIdle,
             NoBatch, OnChain, NoTx
    <2> QED
      BY <1>0, <2>1, <2>4, <2>5, <2>6, <2>7, NotedWhileOpen
  <1>5. CASE SenderBroadcast
    <2>1. sop # SenderIdle /\ UNCHANGED sends
      BY <1>5 DEF SenderBroadcast
    <2>2. sends' > 0
      BY <2>1
    <2>3. sop'.pc = "commit"
      BY <1>5 DEF SenderBroadcast
    <2>4. sop'.db.status = "WaitingConfirmations"
      BY <1>5 DEF SenderBroadcast
    <2>5. sop' # SenderIdle
      BY <2>3
    <2> HIDE DEF Inv, TypeOK, SenderRow, SenderOp, SentOnce, SenderIdle,
             NoBatch, OnChain, NoTx
    <2> QED
      BY <1>0, <2>2, <2>3, <2>4, <2>5, NotedWhileOpen
  <1>6. CASE SenderCommit
    BY <1>6 DEF SenderCommit
  <1>7. CASE SenderAbort \/ SenderSwallowedError \/ SenderFeeRejected
    BY <1>7 DEF SenderAbort, SenderSwallowedError, SenderFeeRejected, Publish
  <1>8. ASSUME NEW kind \in {"refresh", "fail"}, NEW seen \in SUBSET Learnable,
               StartCompletion(kind, seen)
        PROVE  SentOnce'
    BY <1>8 DEF StartCompletion, WaitingForAcks, Learned
  <1>9. ASSUME NEW seen \in SUBSET Learnable,
               RefreshFailsBatch(seen) \/ RefreshRecordsAcks(seen)
                  \/ PollBreaksOff(seen) \/ FailUnanswered(seen)
        PROVE  SentOnce'
    BY <1>9 DEF RefreshFailsBatch, RefreshRecordsAcks, PollBreaksOff,
       FailUnanswered, WaitingForAcks
  <1>10. CASE FailInitiated
    BY <1>10 DEF FailInitiated
  <1>11. ASSUME NEW r \in OutOfBand, ProvideOutOfBandAck(r) PROVE SentOnce'
    BY <1>11 DEF ProvideOutOfBandAck, WaitingForAcks
  <1>12. CASE SettleBatch
    BY <1>12 DEF SettleBatch
  <1>13. CASE DeleteBatch
    BY <1>13 DEF DeleteBatch
  <1> QED
    BY <1>1, <1>2, <1>3, <1>4, <1>5, <1>6, <1>7, <1>8, <1>9, <1>10, <1>11,
       <1>12, <1>13 DEF SenderStep

\* A recipient publishes donations only, which send_end has taken on.
LEMMA SentOnceNext ==
    ASSUME MaxSendEnds = 1
    PROVE  Inv /\ SentOnce /\ [Next]_vars => SentOnce'
  <1> SUFFICES ASSUME Inv, SentOnce, [Next]_vars PROVE SentOnce'
    OBVIOUS
  <1>0. faults' = 0 => faults = 0
    BY FaultsGrow DEF Inv
  <1>1. CASE SenderStep
    BY <1>1, SentOnceSender
  <1>2. ASSUME NEW r \in Recipients, ReceiverStep(r) PROVE SentOnce'
    <2>1. UNCHANGED <<batch, sop, sends, donation, posted>>
      BY <1>2, ReceiverFrame DEF senderVars
    <2>2. /\ OnChain' => OnChain \/ donation
          /\ \A q \in Recipients \ {r} : rdb'[q] = rdb[q] /\ rop'[q] = rop[q]
                                          /\ cached'[q] = cached[q]
      BY <1>2, ReceiverMonotone
    <2>3. NothingBeforeEnd'
      BY <1>2, <2>1, <2>2, NothingReceivedBeforeEnd
         DEF SentOnce, NothingBeforeEnd, Idle, Status, OnChain
    <2>4. OnChain' => OnChain \/ (donation /\ sends > 0)
      BY <2>1, <2>2, <2>3 DEF NothingBeforeEnd, Inv, TypeOK
    <2> QED
      BY <1>0, <2>1, <2>3, <2>4 DEF SentOnce, NotedWithoutFaults, OutIsNoted
  <1>3. CASE WorldStep
    <2>1. /\ UNCHANGED <<senderVars, receiverVars>>
          /\ OnChain' <=> OnChain
          /\ \A r \in Recipients : posted'[r] = posted[r] \/ sends > 0
      BY <1>3 DEF Inv, TypeOK, WorldStep, HandOver, Mine, BuryHistory, Expire,
         proxyVars, worldVars, OnChain, NoTx
    <2> QED
      BY <1>0, <2>1 DEF SentOnce, NothingBeforeEnd, NotedWithoutFaults,
         OutIsNoted, Idle, Status, senderVars, receiverVars
  <1>4. CASE UNCHANGED vars
    BY <1>4 DEF vars, senderVars, proxyVars, receiverVars, worldVars, SentOnce,
       NothingBeforeEnd, NotedWithoutFaults, OutIsNoted, Idle, Status, OnChain
  <1> QED
    BY <1>1, <1>2, <1>3, <1>4 DEF Next

\* If send_end runs once and nothing crashes or fails, the sender gives up
\* only on a transfer whose TX is not on the network, for any batch and any
\* order of the calls of the wallets.
THEOREM FailedIsOffChainCorrect ==
    ASSUME MaxSendEnds = 1
    PROVE  Spec => []FailedIsOffChainWithoutFaults
  <1>1. Init => SentOnce
    BY DEF Init, SentOnce, NothingBeforeEnd, NotedWithoutFaults, OnChain,
       SenderIdle, NoBatch, ReceiverIdle, Idle, Status, Invoice
  <1>2. SentOnce => FailedIsOffChainWithoutFaults
    BY DEF SentOnce, NotedWithoutFaults, OutIsNoted,
       FailedIsOffChainWithoutFaults
  <1> QED
    BY Invariant, SentOnceNext, <1>1, <1>2, PTL DEF Spec

\* An ACK is withdrawn only after the recipient's expiration.
AckStands(r) ==
    answer[r] = "ack" /\ ~IsExpired(r) =>
        \/ Status(r) \in Accepted
        \/ rop[r].pc = "broadcast"
        \/ rop[r].pc = "commit" /\ rop[r].db.status \in Accepted
AcksStand == faults = 0 => \A r \in Recipients : AckStands(r)

\* The sender's expiration passes no later than a recipient's.
SharedDeadline == \A group \in DeadlineGroups :
                      group \cap Recipients # {} => Sender \in group
SenderExpiresToo == \A r \in Recipients : IsExpired(r) => IsExpired(Sender)

\* Each action of a recipient that does not fail leaves its ACK standing.
LEMMA AckStandsStep ==
    ASSUME Inv, OpenRows, NEW r \in Recipients, AckStands(r), ReceiverStep(r),
           faults = 0, faults' = 0
    PROVE  AckStands(r)'
  <1> USE DEF Inv, TypeOK, OpenRows, ReceiverRow, ReceiverOp, AckStands,
          Accepted, Idle, Status, Open, Commit, Record, WithStatus, IsExpired,
          ReceiverIdle, Invoice, proxyVars, worldVars
  <1>1. ASSUME NEW kind \in {"refresh", "fail"}, FetchConsignment(r, kind)
        PROVE  AckStands(r)'
    BY <1>1 DEF FetchConsignment
  <1>2. ASSUME NEW kind \in {"refresh", "fail"}, ReachSafeHeight(r, kind)
        PROVE  AckStands(r)'
    BY <1>2 DEF ReachSafeHeight
  <1>3. CASE ProvideOutOfBandConsignment(r)
    BY <1>3 DEF ProvideOutOfBandConsignment
  <1>4. CASE RefuseConsignment(r)
    BY <1>4 DEF RefuseConsignment
  <1>5. CASE AcceptConsignment(r)
    <2>1. rop[r].pc = "validate" /\ rop[r] # ReceiverIdle
          /\ UNCHANGED <<rdb, answer, expired>>
      BY <1>5 DEF AcceptConsignment
    <2> QED
      BY <2>1
  <1>6. CASE PostNack(r)
    BY <1>6 DEF PostNack
  <1>7. CASE PostAck(r)
    BY <1>7 DEF PostAck
  <1>8. CASE ReceiverBroadcast(r)
    BY <1>8 DEF ReceiverBroadcast
  <1>9. CASE ReceiverCommit(r)
    BY <1>9 DEF ReceiverCommit
  <1>10. CASE ReceiverAbort(r) \/ ReceiverSwallowedError(r)
                \/ ReceiverFeeRejected(r)
    BY <1>10 DEF ReceiverAbort, ReceiverSwallowedError, ReceiverFeeRejected,
       Fault
  <1>11. CASE FailWithoutConsignment(r)
    BY <1>11 DEF FailWithoutConsignment
  <1>12. CASE FailUnsafe(r) \/ FailUnbroadcast(r) \/ DeleteReceived(r)
    BY <1>12 DEF FailUnsafe, FailUnbroadcast, DeleteReceived
  <1>13. CASE SeeBroadcast(r) \/ SettleReceived(r)
    BY <1>13 DEF SeeBroadcast, SettleReceived
  <1> QED
    BY <1>1, <1>2, <1>3, <1>4, <1>5, <1>6, <1>7, <1>8, <1>9, <1>10, <1>11,
       <1>12, <1>13 DEF ReceiverStep

\* Every step leaves the ACKs standing.
LEMMA AcksStandNext ==
    Inv /\ OpenRows /\ AcksStand /\ [Next]_vars => AcksStand'
  <1> SUFFICES ASSUME Inv, OpenRows, AcksStand, [Next]_vars, faults' = 0,
                      NEW r \in Recipients
               PROVE  AckStands(r)'
    BY DEF AcksStand
  <1>0. faults = 0 /\ AckStands(r)
    BY FaultsGrow DEF Inv, AcksStand
  <1>1. CASE SenderStep \/ WorldStep \/ UNCHANGED vars
    <2>1. UNCHANGED <<rdb, rop, answer>> /\ expired \subseteq expired'
      BY <1>1, SenderFrame DEF WorldStep, HandOver, Mine, BuryHistory, Expire,
         receiverVars, proxyVars, worldVars, vars
    <2> QED
      BY <1>0, <2>1 DEF AckStands, Status, IsExpired
  <1>2. ASSUME NEW q \in Recipients, ReceiverStep(q) PROVE AckStands(r)'
    <2>1. CASE q = r
      BY <1>0, <1>2, <2>1, AckStandsStep
    <2>2. CASE q # r
      BY <1>0, <1>2, <2>2, ReceiverMonotone, ReceiverFrame
         DEF AckStands, Status, IsExpired
    <2> QED
      BY <2>1, <2>2
  <1> QED
    BY <1>1, <1>2 DEF Next

\* Clocks keep the order of the expirations.
LEMMA SenderExpiresNext ==
    ASSUME SharedDeadline
    PROVE  SenderExpiresToo /\ [Next]_vars => SenderExpiresToo'
  <1> SUFFICES ASSUME SenderExpiresToo, [Next]_vars PROVE SenderExpiresToo'
    OBVIOUS
  <1>1. ASSUME NEW group \in DeadlineGroups, Expire(group)
        PROVE  SenderExpiresToo'
    BY <1>1 DEF Expire, SharedDeadline, SenderExpiresToo, IsExpired
  <1>2. CASE UNCHANGED expired
    BY <1>2 DEF SenderExpiresToo, IsExpired
  <1>3. SenderStep \/ UNCHANGED vars => UNCHANGED expired
    BY SenderFrame DEF vars, worldVars
  <1>4. ASSUME NEW r \in Recipients, ReceiverStep(r) PROVE UNCHANGED expired
    BY <1>4, ReceiverFrame
  <1>5. WorldStep => UNCHANGED expired \/
                     \E group \in DeadlineGroups : Expire(group)
    BY DEF WorldStep, HandOver, Mine, BuryHistory, worldVars
  <1> QED
    BY <1>1, <1>2, <1>3, <1>4, <1>5 DEF Next

\* Without faults, and with an expiration that all share, the sender never
\* starts to complete a transfer that a recipient has given up on.
THEOREM NoLateCompletionCorrect ==
    ASSUME SharedDeadline
    PROVE  Spec => NoLateCompletion
  <1> DEFINE Timely ==
          faults' = 0 /\ sop.pc # "broadcast" /\ sop'.pc = "broadcast"
             /\ ~donation =>
          \A r \in Recipients : Status(r) \notin {"Failed", "Deleted"}
  <1>1. ASSUME Inv, OpenRows, AcksStand, SenderExpiresToo, [Next]_vars
        PROVE  [Timely]_vars
    <2> SUFFICES ASSUME faults' = 0, sop.pc # "broadcast",
                        sop'.pc = "broadcast", ~donation,
                        NEW r \in Recipients
                 PROVE  Status(r) \notin {"Failed", "Deleted"}
      OBVIOUS
    <2>1. SenderStep
      BY <1>1, ReceiverFrame
         DEF Next, WorldStep, HandOver, Mine, BuryHistory, Expire, senderVars,
             vars
    <2>2. \/ \E kind \in {"refresh", "fail"} : \E seen \in SUBSET Learnable :
                StartCompletion(kind, seen)
          \/ \E q \in OutOfBand : ProvideOutOfBandAck(q)
      <3>1. sop \in SenderOp
        BY <1>1 DEF Inv, TypeOK
      <3>2. ~SaveTransfers
        BY <3>1 DEF SaveTransfers, SenderOp
      <3>3. \A q \in Recipients : ~PostConsignment(q)
        BY <3>1 DEF PostConsignment, SenderOp
      <3> QED
        BY <2>1, <3>2, <3>3
           DEF SenderStep, SendBegin, SendEnd, SenderBroadcast, SenderCommit,
               SenderAbort, SenderSwallowedError, RefreshFailsBatch,
               RefreshRecordsAcks, FailUnanswered, FailInitiated,
               SenderFeeRejected, SettleBatch, DeleteBatch, PollBreaksOff,
               SenderIdle
    <2>3. answer[r] = "ack" /\ ~IsExpired(Sender)
      <3>1. ASSUME NEW kind \in {"refresh", "fail"},
                   NEW seen \in SUBSET Learnable, StartCompletion(kind, seen)
            PROVE  answer[r] = "ack" /\ ~IsExpired(Sender)
        BY <1>1, <3>1 DEF StartCompletion, MayComplete, AllAcked, Learned,
           Learnable, Inv, TypeOK, SenderRow, KnownAnswers
      <3>2. ASSUME NEW q \in OutOfBand, ProvideOutOfBandAck(q)
            PROVE  answer[r] = "ack" /\ ~IsExpired(Sender)
        <4>1. MayComplete(Acknowledged(q)) /\ answer[q] = "ack"
          BY <3>2 DEF ProvideOutOfBandAck
        <4> QED
          BY <1>1, <4>1 DEF MayComplete, AllAcked, Acknowledged, Inv, TypeOK,
             SenderRow, KnownAnswers
      <3> QED
        BY <2>2, <3>1, <3>2
    <2>4. faults = 0
      BY <1>1, FaultsGrow DEF Inv
    <2>5. AckStands(r) /\ ~IsExpired(r)
      BY <1>1, <2>3, <2>4 DEF AcksStand, SenderExpiresToo
    <2>6. rop[r].pc \in {"broadcast", "commit"} =>
             Status(r) \in {"WaitingCounterparty", "WaitingSafeHeight"}
      BY <1>1 DEF OpenRows, ReceiverIdle
    <2> QED
      BY <2>3, <2>5, <2>6 DEF AckStands, Accepted
  <1>2. Init => AcksStand /\ SenderExpiresToo
    BY DEF Init, AcksStand, AckStands, SenderExpiresToo, IsExpired
  <1> HIDE DEF Timely
  <1>3. Spec => [][Timely]_vars
    BY <1>1, <1>2, BothInvariants, AcksStandNext, SenderExpiresNext, PTL
       DEF Spec
  <1> QED
    BY <1>3 DEF NoLateCompletion, Timely

(***************************************************************************)
(* Refinement                                                              *)
(***************************************************************************)

\* The recipients that are done, in the refinement mapping.
Done == {r \in Recipients : Status(r) = "Settled"}

\* The sender decides to give the assets away, publishes the TX or does
\* nothing that TransferOutcome sees.
LEMMA SenderImplements ==
    ASSUME Inv, SenderStep
    PROVE  [Outcome!Next]_(Outcome!vars)
  <1>1. UNCHANGED <<answer, Done>>
    BY SenderFrame DEF Done, Status, receiverVars
  <1>2. CASE UNCHANGED <<donation, conf>>
    BY <1>1, <1>2 DEF Outcome!vars, OnChain, Done
  <1>3. ASSUME NEW dry_run \in BOOLEAN, NEW gift \in BOOLEAN,
               SendBegin(dry_run, gift)
        PROVE  [Outcome!Next]_(Outcome!vars)
    <2>1. /\ donation = FALSE /\ donation' = gift
          /\ answer = [r \in Recipients |-> "none"]
          /\ ~OnChain /\ OnChain' = OnChain
      BY <1>3 DEF SendBegin, Inv, TypeOK, NothingBeforeBegin, worldVars, OnChain
    <2>2. CASE gift = TRUE
      BY <1>1, <2>1, <2>2 DEF Outcome!Next, Outcome!GiveAway, Done
    <2>3. CASE gift = FALSE
      BY <1>1, <2>1, <2>3 DEF Outcome!vars, Done
    <2> QED
      BY <2>2, <2>3
  <1>4. CASE sop.pc = "broadcast" /\ Publish /\ UNCHANGED donation
    <2>1. donation \/ \A r \in Recipients : answer[r] = "ack"
      BY <1>4 DEF Inv, ReadyToBroadcast, AllAcked, KnownAnswers
    <2>2. OnChain'
      BY <1>4 DEF Publish, OnChain, NoTx
    <2> QED
      BY <1>1, <1>4, <2>1, <2>2 DEF Outcome!Next, Outcome!PublishTx, Done
  <1> QED
    BY <1>2, <1>3, <1>4 DEF SenderStep, SendEnd, PostConsignment,
       SaveTransfers, SenderBroadcast, SenderCommit, SenderAbort,
       SenderSwallowedError, StartCompletion, RefreshFailsBatch,
       RefreshRecordsAcks, PollBreaksOff, FailUnanswered, FailInitiated,
       SenderFeeRejected, ProvideOutOfBandAck, SettleBatch, DeleteBatch,
       worldVars

\* What a step of a recipient does to its answer and to the TX: one of them
\* changes at most.
LEMMA ReceiverEffect ==
    ASSUME Inv, NEW r \in Recipients, ReceiverStep(r)
    PROVE  \/ UNCHANGED <<answer, OnChain>>
           \/ /\ answer[r] = "none"
              /\ \E v \in {"ack", "nack"} : answer' = [answer EXCEPT ![r] = v]
              /\ UNCHANGED OnChain
           \/ donation /\ OnChain' /\ UNCHANGED answer
  <1> USE DEF Inv, TypeOK, RecipientOK, AcceptedRow, Record, Publish, OnChain,
          NoTx, Answers, proxyVars, worldVars
  <1>1. CASE PostNack(r)
    BY <1>1 DEF PostNack
  <1>2. CASE PostAck(r)
    BY <1>2 DEF PostAck
  <1>3. CASE ReceiverBroadcast(r)
    BY <1>3 DEF ReceiverBroadcast
  <1>4. CASE ReceiverCommit(r)
    BY <1>4 DEF ReceiverCommit
  <1>5. CASE ReceiverSwallowedError(r)
    BY <1>5 DEF ReceiverSwallowedError
  <1>6. CASE UNCHANGED <<answer, conf>>
    BY <1>6
  <1> QED
    BY <1>1, <1>2, <1>3, <1>4, <1>5, <1>6 DEF ReceiverStep, FetchConsignment,
       ReachSafeHeight, ProvideOutOfBandConsignment, RefuseConsignment,
       AcceptConsignment, ReceiverAbort, ReceiverFeeRejected,
       FailWithoutConsignment, FailUnsafe, SeeBroadcast, SettleReceived,
       FailUnbroadcast, DeleteReceived

\* A recipient answers, broadcasts a donation, settles or does nothing that
\* TransferOutcome sees.
LEMMA ReceiverImplements ==
    ASSUME Inv, OpenRows, NEW r \in Recipients, ReceiverStep(r)
    PROVE  [Outcome!Next]_(Outcome!vars)
  <1>1. UNCHANGED donation
    BY ReceiverFrame DEF senderVars
  <1>2. \A q \in Recipients \ {r} : Status(q)' = Status(q)
    BY ReceiverMonotone DEF Status
  <1>3. CASE Status(r)' = "Settled" /\ Status(r) # "Settled"
    <2>1. /\ Status(r) \in {"WaitingBroadcast", "WaitingConfirmations"}
          /\ OnChain
          /\ UNCHANGED <<conf, answer>>
      BY <1>3, OpenRowsStep
    <2>2. answer[r] # "none"
      BY <2>1 DEF Inv, RecipientOK, AcceptedRow, Accepted
    <2>3. Done' = Done \cup {r}
      BY <1>2, <1>3 DEF Done
    <2> QED
      BY <1>1, <2>1, <2>2, <2>3 DEF Outcome!Next, Outcome!Settle, Done, OnChain
  <1>4. CASE ~(Status(r)' = "Settled" /\ Status(r) # "Settled")
    <2>1. Status(r)' = "Settled" <=> Status(r) = "Settled"
      BY <1>4, OpenRowsStep
    <2>2. UNCHANGED Done
      BY <1>2, <2>1 DEF Done
    <2>3. CASE UNCHANGED <<answer, OnChain>>
      BY <1>1, <2>2, <2>3 DEF Outcome!vars, Done
    <2>4. CASE /\ answer[r] = "none"
               /\ \E v \in {"ack", "nack"} : answer' = [answer EXCEPT ![r] = v]
               /\ UNCHANGED OnChain
      BY <1>1, <2>2, <2>4 DEF Outcome!Next, Outcome!Answer, Done
    <2>5. CASE donation /\ OnChain' /\ UNCHANGED answer
      BY <1>1, <2>2, <2>5 DEF Outcome!Next, Outcome!PublishTx, Done
    <2> QED
      BY <2>3, <2>4, <2>5, ReceiverEffect
  <1> QED
    BY <1>3, <1>4

\* The wallets, the proxy and the users keep the promise of TransferOutcome:
\* for any batch and any faults answers are final, nothing is published
\* without the consent of every recipient and nobody owns what was not.
THEOREM TransferRefinesOutcome == Spec => ImplementsOutcome
  <1>1. Init => Outcome!Init
    BY DEF Init, Outcome!Init, OnChain, Status, Invoice
  <1>2. ASSUME Inv, OpenRows, [Next]_vars
        PROVE  [Outcome!Next]_(Outcome!vars)
    <2>1. CASE SenderStep
      BY <1>2, <2>1, SenderImplements
    <2>2. ASSUME NEW r \in Recipients, ReceiverStep(r)
          PROVE  [Outcome!Next]_(Outcome!vars)
      BY <1>2, <2>2, ReceiverImplements
    <2>3. CASE WorldStep
      <3>1. UNCHANGED <<donation, answer, rdb>>
        BY <2>3 DEF WorldStep, HandOver, Mine, BuryHistory, Expire, senderVars,
           receiverVars, proxyVars
      <3>2. OnChain' = OnChain
        BY <1>2, <2>3 DEF WorldStep, HandOver, Mine, BuryHistory, Expire,
           worldVars, OnChain, NoTx, Inv, TypeOK
      <3> QED
        BY <3>1, <3>2 DEF Outcome!vars, Status
    <2>4. CASE UNCHANGED vars
      BY <2>4 DEF vars, senderVars, receiverVars, proxyVars, worldVars,
         Outcome!vars, Status, OnChain
    <2> QED
      BY <1>2, <2>1, <2>2, <2>3, <2>4 DEF Next
  <1> QED
    BY <1>1, <1>2, BothInvariants, PTL DEF Spec, ImplementsOutcome, Outcome!Spec

=============================================================================
