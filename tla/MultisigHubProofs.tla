------------------------- MODULE MultisigHubProofs -------------------------
(***************************************************************************)
(* Every wallet of a multisig group processes the hub's operations in      *)
(* order, and gives each batch transfer the row that every other wallet    *)
(* gives it: for any number of cosigners, watch-only wallets, operations   *)
(* and failures, when the applications sync before they act or no handler  *)
(* is cut short between the mark on the hub and the local commit.          *)
(***************************************************************************)
EXTENDS MultisigHub, FiniteSetTheorems, TLAPS

\* The condition under which the code keeps its order.
Careful == SyncsFirst \/ ("marked" \notin CrashPoints /\ ~Restores)

\* The operations among the first i that added a row, given the table o.
Opened(o, i) == {j \in 1..i : Opens(o[j])}

\* Each wallet has processed a prefix, which is resolved on the hub; what a
\* cosigner marked it also committed, unless a crash can come in between.
Order ==
    /\ \A w \in Wallets : lastOp[w] <= nops /\ applied[w] = 1..lastOp[w]
    /\ \A w \in Wallets : \A i \in 1..lastOp[w] : Resolved(i)
    /\ "marked" \notin CrashPoints /\ ~Restores =>
           \A c \in Cosigners : marked[c] \subseteq 1..lastOp[c]

\* The row of an operation is its rank among those that add a row.
Rows ==
    /\ \A w \in Wallets : rows[w] = Cardinality(Opened(op, lastOp[w]))
    /\ \A w \in Wallets : \A i \in Idx :
           slot[w][i] # 0 => i <= lastOp[w] /\ slot[w][i] = Cardinality(Opened(op, i))

\* What is not posted yet is empty.
Unposted == \A i \in Idx : i > nops => op[i] = NoOp

IInv == TypeOK /\ Order /\ Rows /\ Unposted

-----------------------------------------------------------------------------
(* Ranks.                                                                   *)

\* A prefix is finite, and has as many operations that add a row at most.
LEMMA OpenedFinite ==
    ASSUME NEW o, NEW i \in Nat
    PROVE  IsFiniteSet(Opened(o, i)) /\ Cardinality(Opened(o, i)) \in 0..i
  <1>1. IsFiniteSet(1..i) /\ Cardinality(1..i) = i
    <2>1. IsFiniteSet(1..i) /\ Cardinality(1..i) = IF 1 > i THEN 0 ELSE i - 1 + 1
      BY FS_Interval
    <2> QED BY <2>1
  <1>2. Opened(o, i) \subseteq 1..i
    BY DEF Opened
  <1>3. IsFiniteSet(Opened(o, i)) /\ Cardinality(Opened(o, i)) <= Cardinality(1..i)
    BY <1>1, <1>2, FS_Subset
  <1>4. Cardinality(Opened(o, i)) \in Nat
    BY <1>3, FS_CardinalityType
  <1> QED BY <1>1, <1>3, <1>4

\* The next operation adds one to the rank if it adds a row.
LEMMA OpenedNext ==
    ASSUME NEW o, NEW i \in Nat
    PROVE  Cardinality(Opened(o, i + 1)) =
             IF Opens(o[i + 1]) THEN Cardinality(Opened(o, i)) + 1
                                ELSE Cardinality(Opened(o, i))
  <1>1. IsFiniteSet(Opened(o, i))
    BY OpenedFinite
  <1>2. CASE Opens(o[i + 1])
    <2>1. Opened(o, i + 1) = Opened(o, i) \cup {i + 1}
      BY <1>2 DEF Opened
    <2>2. i + 1 \notin Opened(o, i)
      BY DEF Opened
    <2>3. Cardinality(Opened(o, i) \cup {i + 1}) = Cardinality(Opened(o, i)) + 1
      BY <1>1, <2>2, FS_AddElement
    <2> QED BY <1>2, <2>1, <2>3
  <1>3. CASE ~Opens(o[i + 1])
    <2>1. Opened(o, i + 1) = Opened(o, i)
      BY <1>3 DEF Opened
    <2> QED BY <1>3, <2>1
  <1> QED BY <1>2, <1>3

\* A rank depends on the operations up to it only.
LEMMA OpenedSame ==
    ASSUME NEW o, NEW p, NEW i \in Nat, \A j \in 1..i : o[j] = p[j]
    PROVE  Opened(o, i) = Opened(p, i)
  BY DEF Opened

-----------------------------------------------------------------------------
(* Types.                                                                   *)

Views == [status : Statuses, decision : {"none", "accepted", "failed"}, sent : BOOLEAN]

\* A pass over a transfer yields a status, a decision and a flag.
LEMMA RefreshTyped ==
    ASSUME NEW w, NEW i, NEW v \in Views, NEW online \in BOOLEAN
    PROVE  RefreshTransfer(w, i, v, online) \in Views /\ FailBatchTransfer(w, v) \in Views
  <1>1. FailBatchTransfer(w, v) \in Views
    BY DEF FailBatchTransfer, Views, Statuses
  <1>2. ASSUME NEW next \in Statuses, NEW sent \in BOOLEAN
        PROVE  AcceptThen(w, v, next, sent, online) \in Views
    <2>1. (v.sent \/ sent) \in BOOLEAN
      OBVIOUS
    <2>2. [status |-> next, decision |-> "accepted", sent |-> v.sent \/ sent] \in Views
      BY <2>1 DEF Views
    <2>3. [v EXCEPT !.decision = "accepted"] \in Views
      BY DEF Views
    <2> QED BY <1>1, <2>2, <2>3 DEF AcceptThen
  <1>3. WaitAck(w, i, v, online) \in Views
    <2>1. AcceptThen(w, v, "WaitingConfirmations", TRUE, online) \in Views
      BY <1>2 DEF Statuses
    <2> QED BY <1>1, <2>1 DEF WaitAck
  <1>4. WaitConsignment(w, i, v, online) \in Views
    <2>1. AcceptThen(w, v, "WaitingBroadcast", FALSE, online) \in Views
      BY <1>2 DEF Statuses
    <2>2. [v EXCEPT !.status = "Failed"] \in Views
      BY DEF Views, Statuses
    <2> QED BY <2>1, <2>2 DEF WaitConsignment
  <1>5. [v EXCEPT !.status = "WaitingConfirmations"] \in Views
    BY DEF Views, Statuses
  <1> QED BY <1>1, <1>3, <1>4, <1>5 DEF RefreshTransfer

\* So the tables keep their types when such results are stored.
LEMMA StoreTyped ==
    ASSUME TypeOK, NEW w \in Wallets, NEW S \in SUBSET Idx, NEW E \in SUBSET Idx,
           NEW T \in SUBSET Idx, S \subseteq T, E \subseteq T,
           NEW after \in [T -> Views], Store(w, S, E, after)
    PROVE  /\ status' \in [Wallets -> [Idx -> Statuses]]
           /\ decision' \in [Idx -> {"none", "accepted", "failed"}]
           /\ txs' \subseteq Idx
  <1>1. \A i \in T : after[i].status \in Statuses
                     /\ after[i].decision \in {"none", "accepted", "failed"}
    BY DEF Views
  <1>2. status' \in [Wallets -> [Idx -> Statuses]]
    BY <1>1 DEF TypeOK, Store
  <1>3. decision' \in [Idx -> {"none", "accepted", "failed"}]
    <2>1. ASSUME NEW s \in Idx, \E i \in E : slot[w][i] = s
          PROVE  (CHOOSE i \in E : slot[w][i] = s) \in E
      BY <2>1
    <2> QED BY <1>1, <2>1 DEF TypeOK, Store
  <1>4. txs' \subseteq Idx
    BY DEF TypeOK, Store
  <1> QED BY <1>2, <1>3, <1>4

\* What a wallet sees of a transfer it knows.
LEMMA ViewTyped ==
    ASSUME TypeOK, NEW w \in Wallets, NEW i \in Known(w)
    PROVE  View(w, i) \in Views
  <1>1. i \in Idx /\ slot[w][i] \in 0..MaxOps /\ slot[w][i] # 0
    BY DEF Known, TypeOK
  <1>2. slot[w][i] \in Idx
    BY <1>1, ConstantsAssumption DEF Idx
  <1>3. decision[slot[w][i]] \in {"none", "accepted", "failed"}
    BY <1>2 DEF TypeOK
  <1>4. status[w][i] \in Statuses
    BY <1>1 DEF TypeOK
  <1> QED BY <1>3, <1>4 DEF View, Views

\* The steps that refresh or fail transfers keep the types.
LEMMA RefreshAllTyped ==
    ASSUME TypeOK, NEW w \in Wallets, NEW next \in {"idle", "fetch", "refresh"},
           RefreshAll(w, next)
    PROVE  TypeOK'
  <1>1. PICK online \in BOOLEAN, committed \in BOOLEAN :
          LET once(i) == RefreshTransfer(w, i, View(w, i), online)
              after == [i \in Known(w) |-> RefreshTransfer(w, i, once(i), online)]
          IN  /\ (online /\ committed) \/ failures < MaxFailures
              /\ failures' = IF online /\ committed THEN failures ELSE failures + 1
              /\ Store(w, IF committed THEN Known(w) ELSE {}, Known(w), after)
              /\ UNCHANGED <<nops, op, marked, worldVars, lastOp, applied, rows, slot>>
              /\ pc' = [pc EXCEPT ![w] = IF committed THEN next ELSE "idle"]
    BY DEF RefreshAll
  <1> DEFINE once(i) == RefreshTransfer(w, i, View(w, i), online)
             after == [i \in Known(w) |-> RefreshTransfer(w, i, once(i), online)]
             S == IF committed THEN Known(w) ELSE {}
  <1>2. after \in [Known(w) -> Views]
    <2> SUFFICES ASSUME NEW i \in Known(w)
                 PROVE  RefreshTransfer(w, i, once(i), online) \in Views
      OBVIOUS
    <2>1. View(w, i) \in Views
      BY ViewTyped
    <2>2. once(i) \in Views
      BY <2>1, RefreshTyped
    <2> HIDE DEF once
    <2> QED BY <2>2, RefreshTyped
  <1>3. Known(w) \in SUBSET Idx /\ S \in SUBSET Idx /\ S \subseteq Known(w)
    BY DEF Known
  <1>4. Store(w, S, Known(w), after)
    BY <1>1
  <1> HIDE DEF after, S, once
  <1>5. /\ status' \in [Wallets -> [Idx -> Statuses]]
        /\ decision' \in [Idx -> {"none", "accepted", "failed"}]
        /\ txs' \subseteq Idx
    BY <1>2, <1>3, <1>4, StoreTyped
  <1>6. failures' \in 0..MaxFailures
    BY <1>1, ConstantsAssumption DEF TypeOK
  <1>7. pc' \in [Wallets -> {"idle", "fetch", "refresh"}]
    BY <1>1 DEF TypeOK
  <1> QED BY <1>1, <1>5, <1>6, <1>7 DEF TypeOK, worldVars

LEMMA FailTransfersTyped ==
    ASSUME TypeOK, NEW c \in Cosigners, FailTransfers(c)
    PROVE  TypeOK'
  <1>1. PICK S \in {{i} : i \in Known(c)} \cup {{i \in Known(c) : i \in expired}} :
          LET T     == {i \in S : Fallible(c, i)}
              after == [i \in T |-> TryFail(c, i)]
              stuck == {i \in T : after[i].status = status[c][i]}
              before == {i \in T : \A s \in stuck : slot[c][i] < slot[c][s]}
          IN /\ T # {}
             /\ Store(c, IF stuck = {} THEN T ELSE {}, before, after)
    BY DEF FailTransfers
  <1> DEFINE T     == {i \in S : Fallible(c, i)}
             after == [i \in T |-> TryFail(c, i)]
             stuck == {i \in T : after[i].status = status[c][i]}
             before == {i \in T : \A s \in stuck : slot[c][i] < slot[c][s]}
             kept == IF stuck = {} THEN T ELSE {}
  <1>2. c \in Wallets /\ T \subseteq Known(c) /\ Known(c) \subseteq Idx
    BY <1>1 DEF Known, Wallets
  <1>3. after \in [T -> Views]
    <2> SUFFICES ASSUME NEW i \in T
                 PROVE  TryFail(c, i) \in Views
      OBVIOUS
    <2>1. View(c, i) \in Views
      BY <1>2, ViewTyped
    <2>2. RefreshTransfer(c, i, View(c, i), TRUE) \in Views
      BY <2>1, RefreshTyped
    <2>3. FailBatchTransfer(c, RefreshTransfer(c, i, View(c, i), TRUE)) \in Views
      BY <2>2, RefreshTyped
    <2> QED BY <2>2, <2>3 DEF TryFail
  <1>4. Store(c, kept, before, after)
    BY <1>1
  <1>5. kept \subseteq T /\ before \subseteq T /\ T \in SUBSET Idx
    BY <1>2
  <1> HIDE DEF T, after, stuck, before, kept
  <1>6. /\ status' \in [Wallets -> [Idx -> Statuses]]
        /\ decision' \in [Idx -> {"none", "accepted", "failed"}]
        /\ txs' \subseteq Idx
    BY <1>2, <1>3, <1>4, <1>5, StoreTyped
  <1> QED BY <1>6 DEF TypeOK, FailTransfers, worldVars

-----------------------------------------------------------------------------
(* Order.                                                                   *)

\* A step that leaves the wallets' rows alone, and of the hub's operations
\* those that are resolved, keeps the order and the ranks.
LEMMA AsideKeeps ==
    ASSUME IInv, UNCHANGED <<lastOp, applied, rows, slot>>,
           nops' \in Nat, nops <= nops',
           \A i \in Idx : Resolved(i) => op'[i] = op[i],
           "marked" \notin CrashPoints => marked' = marked
    PROVE  Order' /\ Rows'
  <1>1. \A w \in Wallets : lastOp[w] \in 0..MaxOps /\ lastOp[w] <= nops'
    BY DEF IInv, TypeOK, Order
  <1>2. ASSUME NEW w \in Wallets, NEW i \in 1..lastOp[w]
        PROVE  i \in Idx /\ Resolved(i) /\ op'[i] = op[i]
    BY <1>1, ConstantsAssumption DEF IInv, Order, Idx
  <1>3. ASSUME NEW w \in Wallets, NEW i \in Nat, i <= lastOp[w]
        PROVE  Opened(op', i) = Opened(op, i)
    <2>1. \A j \in 1..i : op'[j] = op[j]
      BY <1>1, <1>2, <1>3
    <2> QED BY <2>1, OpenedSame
  <1>4. Order'
    BY <1>1, <1>2 DEF IInv, Order, Resolved
  <1>5. ASSUME NEW w \in Wallets
        PROVE  rows'[w] = Cardinality(Opened(op', lastOp'[w]))
    BY <1>1, <1>3 DEF IInv, Rows
  <1>6. ASSUME NEW w \in Wallets, NEW i \in Idx, slot'[w][i] # 0
        PROVE  i <= lastOp'[w] /\ slot'[w][i] = Cardinality(Opened(op', i))
    <2>1. i <= lastOp[w] /\ slot[w][i] = Cardinality(Opened(op, i))
      BY <1>6 DEF IInv, Rows
    <2>2. i \in Nat
      BY DEF Idx
    <2> QED BY <1>3, <2>1, <2>2
  <1> QED BY <1>4, <1>5, <1>6 DEF Rows

\* The status of a new transfer.
FirstStatus(r) ==
    IF r.kind \in Broadcasts THEN "WaitingConfirmations" ELSE "WaitingCounterparty"

\* An operation adds one row if it is approved and of a kind with a transfer,
\* none otherwise.
LEMMA CommitRows ==
    ASSUME NEW w, NEW i, NEW r, Commit(w, i, r)
    PROVE  IF Opens(r) THEN AddTransfer(w, i, FirstStatus(r)) ELSE NoTransfer
  <1>1. CASE r.status # "approved"
    BY <1>1 DEF Commit, Opens
  <1>2. CASE r.status = "approved"
    <2>1. Execute(w, i, r)
      BY <1>2 DEF Commit
    <2>2. Opens(r) <=> r.kind \in {"SendRgb", "Donation", "Inflation", "Burn"} \cup Receive
      BY <1>2 DEF Opens, OpensTransfer, Kinds, Voted, Receive
    <2>3. CASE r.kind \in {"SendRgb", "Donation"}
      BY <2>1, <2>2, <2>3 DEF Execute, FinalizeSend, FirstStatus, Broadcasts, Voted, Receive
    <2>4. CASE r.kind \in {"Inflation", "Burn"}
      BY <2>1, <2>2, <2>4 DEF Execute, FinalizeInflation, FinalizeBurn, FirstStatus,
                              Broadcasts, Voted, Receive
    <2>5. CASE r.kind \in Receive
      BY <2>1, <2>2, <2>5 DEF Execute, ImportReceiveData, FirstStatus, Broadcasts,
                              Voted, Receive
    <2>6. CASE r.kind \notin {"SendRgb", "Donation", "Inflation", "Burn"} \cup Receive
      BY <2>1, <2>2, <2>6 DEF Execute, FinalizeVanilla, AcceptIssuanceConsignment
    <2> QED BY <2>3, <2>4, <2>5, <2>6
  <1> QED BY <1>1, <1>2

\* The commit of the next operation keeps them, and the types of the rows.
LEMMA CommitKeeps ==
    ASSUME IInv, NEW w \in Wallets, NEW i \in Idx, NEW r,
           i = lastOp[w] + 1, Commit(w, i, r),
           nops' \in Nat, nops <= nops', i <= nops',
           \A j \in Idx : Resolved(j) => op'[j] = op[j],
           op'[i] = r, r.status \in {"approved", "discarded"},
           marked' = Marked(w, i)
    PROVE  /\ Order' /\ Rows'
           /\ lastOp' \in [Wallets -> 0..MaxOps]
           /\ applied' \in [Wallets -> SUBSET Idx]
           /\ rows' \in [Wallets -> 0..MaxOps]
           /\ slot' \in [Wallets -> [Idx -> 0..MaxOps]]
           /\ status' \in [Wallets -> [Idx -> Statuses]]
  <1>1. i \in Nat /\ i <= MaxOps /\ i \in 0..MaxOps /\ MaxOps \in Nat
    BY ConstantsAssumption DEF Idx
  <1>2. lastOp' = [lastOp EXCEPT ![w] = i] /\ applied' = [applied EXCEPT ![w] = @ \cup {i}]
    BY DEF Commit
  <1>0. IF Opens(r) THEN AddTransfer(w, i, FirstStatus(r)) ELSE NoTransfer
    BY CommitRows
  <1>3. lastOp' \in [Wallets -> 0..MaxOps] /\ applied' \in [Wallets -> SUBSET Idx]
    BY <1>1, <1>2 DEF IInv, TypeOK
  <1>4. ASSUME NEW v \in Wallets, NEW j \in Nat, j <= lastOp[v]
        PROVE  Opened(op', j) = Opened(op, j)
    <2>1. lastOp[v] \in 0..MaxOps
      BY DEF IInv, TypeOK
    <2>2. \A k \in 1..j : k \in Idx /\ Resolved(k)
      BY <1>4, <2>1, ConstantsAssumption DEF IInv, Order, Idx
    <2> QED BY <2>2, OpenedSame
  <1>5. lastOp[w] \in Nat /\ lastOp[w] <= MaxOps
    BY DEF IInv, TypeOK
  <1>6. rows[w] = Cardinality(Opened(op', lastOp[w])) /\ rows[w] \in 0..lastOp[w]
    BY <1>4, <1>5, OpenedFinite DEF IInv, Rows
  <1>7. Cardinality(Opened(op', i)) = IF Opens(r) THEN rows[w] + 1 ELSE rows[w]
    BY <1>5, <1>6, OpenedNext
  <1>8. rows[w] + 1 \in 0..MaxOps
    BY <1>1, <1>5, <1>6
  <1>9. FirstStatus(r) \in Statuses
    BY DEF FirstStatus, Statuses
  <1>10. /\ rows' \in [Wallets -> 0..MaxOps]
         /\ slot' \in [Wallets -> [Idx -> 0..MaxOps]]
         /\ status' \in [Wallets -> [Idx -> Statuses]]
    <2>1. CASE Opens(r)
      <3>1. rows' = [rows EXCEPT ![w] = @ + 1] /\ rows \in [Wallets -> 0..MaxOps]
        BY <1>0, <2>1 DEF AddTransfer, NoTransfer, IInv, TypeOK
      <3>2. slot' = [slot EXCEPT ![w][i] = rows[w] + 1] /\ slot \in [Wallets -> [Idx -> 0..MaxOps]]
        BY <1>0, <2>1 DEF AddTransfer, NoTransfer, IInv, TypeOK
      <3>3. /\ status' = [status EXCEPT ![w][i] = FirstStatus(r)]
            /\ status \in [Wallets -> [Idx -> Statuses]]
        BY <1>0, <2>1 DEF AddTransfer, NoTransfer, IInv, TypeOK
      <3>4. rows' \in [Wallets -> 0..MaxOps]
        BY <1>8, <3>1
      <3>5. slot' \in [Wallets -> [Idx -> 0..MaxOps]]
        BY <1>8, <3>2
      <3> QED BY <1>9, <3>3, <3>4, <3>5
    <2>2. CASE ~Opens(r)
      BY <1>0, <2>2 DEF AddTransfer, NoTransfer, IInv, TypeOK
    <2> QED BY <2>1, <2>2
  <1>11. Order'
    <2>1. ASSUME NEW v \in Wallets
          PROVE  lastOp'[v] <= nops' /\ applied'[v] = 1..lastOp'[v]
      <3>1. lastOp[v] \in Nat /\ lastOp[v] <= nops /\ applied[v] = 1..lastOp[v] /\ nops \in Nat
        BY DEF IInv, TypeOK, Order
      <3>2. 1..(lastOp[w] + 1) = (1..lastOp[w]) \cup {lastOp[w] + 1}
        BY <1>5
      <3>3. CASE v = w
        <4>1. lastOp'[v] = i /\ applied'[v] = applied[w] \cup {i}
          BY <1>2, <3>3 DEF IInv, TypeOK
        <4> QED BY <3>1, <3>2, <3>3, <4>1
      <3>4. CASE v # w
        <4>1. lastOp'[v] = lastOp[v] /\ applied'[v] = applied[v]
          BY <1>2, <3>4 DEF IInv, TypeOK
        <4> QED BY <3>1, <4>1
      <3> QED BY <3>3, <3>4
    <2>2. ASSUME NEW v \in Wallets, NEW j \in 1..lastOp'[v]
          PROVE  op'[j].status \in {"approved", "discarded"}
      <3>1. CASE v = w /\ j = i
        BY <3>1
      <3>2. CASE ~(v = w /\ j = i)
        <4>1. lastOp[v] \in 0..MaxOps
          BY DEF IInv, TypeOK
        <4>0. lastOp'[v] = IF v = w THEN i ELSE lastOp[v]
          BY <1>2 DEF IInv, TypeOK
        <4>2. j \in 1..lastOp[v]
          BY <1>1, <1>5, <3>2, <4>0, <4>1
        <4>3. j \in Idx /\ Resolved(j)
          BY <4>1, <4>2, ConstantsAssumption DEF IInv, Order, Idx
        <4> QED BY <4>3 DEF Resolved
      <3> QED BY <3>1, <3>2
    <2>3. ASSUME "marked" \notin CrashPoints, ~Restores, NEW c \in Cosigners
          PROVE  marked'[c] \subseteq 1..lastOp'[c]
      <3>1. c \in Wallets /\ marked[c] \subseteq 1..lastOp[c] /\ lastOp[c] \in Nat
        BY <2>3 DEF Wallets, IInv, Order, TypeOK
      <3>2. CASE c = w
        <4>1. lastOp'[c] = i /\ marked'[c] = marked[c] \cup {i}
          BY <1>2, <3>1, <3>2 DEF Marked, IInv, TypeOK
        <4> QED BY <1>1, <1>5, <3>1, <3>2, <4>1
      <3>3. CASE c # w
        BY <1>2, <3>1, <3>3 DEF Marked, IInv, TypeOK
      <3> QED BY <3>2, <3>3
    <2> QED BY <2>1, <2>2, <2>3 DEF Order, Resolved
  <1>12. Rows'
    <2>1. ASSUME NEW v \in Wallets
          PROVE  rows'[v] = Cardinality(Opened(op', lastOp'[v]))
      <3>1. CASE v = w
        <4>1. lastOp'[v] = i
          BY <1>2, <3>1 DEF IInv, TypeOK
        <4>2. rows'[v] = IF Opens(r) THEN rows[w] + 1 ELSE rows[w]
          BY <1>0, <3>1 DEF AddTransfer, NoTransfer, IInv, TypeOK
        <4> QED BY <1>7, <4>1, <4>2
      <3>2. CASE v # w
        <4>1. lastOp'[v] = lastOp[v] /\ rows'[v] = rows[v] /\ lastOp[v] \in Nat
          BY <1>0, <1>2, <3>2 DEF AddTransfer, NoTransfer, IInv, TypeOK
        <4> QED BY <1>4, <4>1 DEF IInv, Rows
      <3> QED BY <3>1, <3>2
    <2>2. ASSUME NEW v \in Wallets, NEW j \in Idx, slot'[v][j] # 0
          PROVE  j <= lastOp'[v] /\ slot'[v][j] = Cardinality(Opened(op', j))
      <3>0. j \in Nat
        BY DEF Idx
      <3>1. CASE v = w /\ j = i /\ Opens(r)
        <4>1. slot'[v][j] = rows[w] + 1
          BY <1>0, <3>1 DEF AddTransfer, NoTransfer, IInv, TypeOK
        <4>2. lastOp'[v] = i
          BY <1>2, <3>1 DEF IInv, TypeOK
        <4> QED BY <1>1, <1>7, <3>1, <4>1, <4>2
      <3>2. CASE ~(v = w /\ j = i /\ Opens(r))
        <4>1. slot'[v][j] = slot[v][j]
          BY <1>0, <3>2 DEF AddTransfer, NoTransfer, IInv, TypeOK
        <4>2. j <= lastOp[v] /\ slot[v][j] = Cardinality(Opened(op, j))
          BY <2>2, <4>1 DEF IInv, Rows
        <4>3. lastOp[v] <= lastOp'[v]
          BY <1>1, <1>2, <1>5 DEF IInv, TypeOK
        <4>4. lastOp[v] \in Nat /\ lastOp'[v] \in Nat
          BY <1>3 DEF IInv, TypeOK
        <4> QED BY <1>4, <3>0, <4>1, <4>2, <4>3, <4>4
      <3> QED BY <3>1, <3>2
    <2> QED BY <2>1, <2>2 DEF Rows
  <1> QED BY <1>3, <1>10, <1>11, <1>12

\* Processing the next operation keeps them, cut short or not.
LEMMA ProcessKeeps ==
    ASSUME IInv, NEW w \in Wallets, NEW i \in Idx, NEW r \in OpRec,
           i = lastOp[w] + 1, Process(w, i, r),
           nops' \in Nat, nops <= nops', i <= nops',
           \A j \in Idx : Resolved(j) => op'[j] = op[j],
           op'[i] = r, r.status \in {"approved", "discarded"}
    PROVE  /\ Order' /\ Rows'
           /\ lastOp' \in [Wallets -> 0..MaxOps]
           /\ applied' \in [Wallets -> SUBSET Idx]
           /\ rows' \in [Wallets -> 0..MaxOps]
           /\ slot' \in [Wallets -> [Idx -> 0..MaxOps]]
           /\ status' \in [Wallets -> [Idx -> Statuses]]
           /\ marked' \in [Cosigners -> SUBSET Idx]
           /\ txs' \subseteq Idx
           /\ failures' \in 0..MaxFailures
  <1>1. Marked(w, i) \in [Cosigners -> SUBSET Idx]
    BY DEF Marked, IInv, TypeOK
  <1>2. Sent(i, r) => txs' \subseteq Idx
    BY DEF Sent, IInv, TypeOK
  <1>3. CASE Executable(r) /\ Sent(i, r) /\ marked' = Marked(w, i) /\ Commit(w, i, r)
             /\ UNCHANGED failures
    BY <1>1, <1>2, <1>3, CommitKeeps DEF IInv, TypeOK
  <1>4. CASE CutShort(w, i, r)
    <2>1. PICK p \in CrashPoints :
            /\ IF p = "start" THEN txs' = txs ELSE Sent(i, r)
            /\ marked' = IF p = "marked" THEN Marked(w, i) ELSE marked
      BY <1>4 DEF CutShort
    <2>2. UNCHANGED <<lastOp, applied, rows, slot, status>>
      BY <1>4 DEF CutShort, localVars
    <2>3. Order' /\ Rows'
      BY <2>1, <2>2, AsideKeeps
    <2>4. failures' \in 0..MaxFailures
      BY <1>4, ConstantsAssumption DEF CutShort, IInv, TypeOK
    <2>5. txs' \subseteq Idx /\ marked' \in [Cosigners -> SUBSET Idx]
      BY <1>1, <1>2, <2>1 DEF IInv, TypeOK
    <2> QED BY <2>2, <2>3, <2>4, <2>5 DEF IInv, TypeOK
  <1>5. CASE UNCHANGED <<txs, marked, localVars, failures>>
    <2>1. UNCHANGED <<txs, marked, lastOp, applied, rows, slot, status, failures>>
      BY <1>5 DEF localVars
    <2>2. Order' /\ Rows'
      BY <2>1, AsideKeeps
    <2> QED BY <2>1, <2>2 DEF IInv, TypeOK
  <1> QED BY <1>3, <1>4, <1>5 DEF Process

\* Posting touches the next, empty, entry of the hub's table only.
LEMMA PostKeeps ==
    ASSUME IInv, NEW c \in Cosigners, NEW k \in Kinds, Post(c, k), Careful
    PROVE  /\ nops' = nops + 1 /\ nops' \in 0..MaxOps /\ nops + 1 \in Idx
           /\ nops \in Nat /\ lastOp[c] = nops
           /\ op' \in [Idx -> OpRec \cup {NoOp}] /\ NewOp(k) \in OpRec
           /\ op'[nops + 1] = NewOp(k)
           /\ \A j \in Idx : Resolved(j) => op'[j] = op[j]
           /\ Unposted'
  <1>1. nops \in Nat /\ nops < MaxOps /\ nops' = nops + 1
    BY DEF IInv, TypeOK, Post, PostAllowed
  <1>2. nops' \in 0..MaxOps /\ nops + 1 \in Idx
    BY <1>1, ConstantsAssumption DEF Idx
  <1>3. NewOp(k) \in OpRec
    BY DEF NewOp, OpRec
  <1>4. op' = [op EXCEPT ![nops + 1] = NewOp(k)] /\ op \in [Idx -> OpRec \cup {NoOp}]
    BY DEF IInv, TypeOK, Post
  <1>5. ~Resolved(nops + 1)
    <2>1. op[nops + 1] = NoOp
      BY <1>1, <1>2 DEF IInv, Unposted
    <2> QED BY <2>1 DEF Resolved, NoOp
  <1>6. \A j \in Idx : Resolved(j) => op'[j] = op[j]
    BY <1>4, <1>5
  <1>7. Unposted'
    <2>1. ASSUME NEW j \in Idx, j > nops'
          PROVE  op'[j] = NoOp
      <3>1. j \in Nat /\ j > nops /\ j # nops + 1
        BY <1>1, <2>1 DEF Idx
      <3> QED BY <1>4, <3>1 DEF IInv, Unposted
    <2> QED BY <2>1 DEF Unposted
  <1>8. lastOp[c] = nops
    <2>1. c \in Wallets /\ lastOp[c] \in Nat /\ lastOp[c] <= nops
      BY DEF Wallets, IInv, TypeOK, Order
    <2>2. CASE SyncsFirst
      BY <2>2 DEF Post
    <2>3. CASE "marked" \notin CrashPoints /\ ~Restores
      <3>1. nops # 0 => nops \in 1..nops
        BY <1>1
      <3>2. nops # 0 => nops \in marked[c]
        BY <3>1 DEF Post, PostAllowed
      <3>3. nops # 0 => nops \in 1..lastOp[c]
        BY <2>3, <3>2 DEF IInv, Order
      <3> QED BY <1>1, <2>1, <3>3
    <2> QED BY <2>2, <2>3 DEF Careful
  <1> QED BY <1>1, <1>2, <1>3, <1>4, <1>6, <1>7, <1>8

LEMMA InitOperationKeeps ==
    ASSUME IInv, NEW c \in Cosigners, NEW k \in Kinds, InitOperation(c, k), Careful
    PROVE  IInv'
  <1>1. Post(c, k) /\ UNCHANGED <<marked, decision, worldVars, txs, localVars, pc, failures>>
    BY DEF InitOperation
  <1>2. UNCHANGED <<marked, decision, answer, expired, txs, lastOp, applied, rows, slot,
                    status, pc, failures>>
    BY <1>1 DEF worldVars, localVars
  <1>3. Order' /\ Rows'
    BY <1>1, <1>2, PostKeeps, AsideKeeps
  <1>4. TypeOK'
    BY <1>1, <1>2, PostKeeps DEF IInv, TypeOK
  <1> QED BY <1>1, <1>3, <1>4, PostKeeps DEF IInv

LEMMA PostApprovedKeeps ==
    ASSUME IInv, NEW c \in Cosigners, NEW k \in Kinds \ Voted, PostApproved(c, k), Careful
    PROVE  IInv'
  <1>1. Post(c, k) /\ Process(c, nops + 1, NewOp(k)) /\ UNCHANGED <<decision, worldVars, pc>>
    BY DEF PostApproved
  <1>2. UNCHANGED <<decision, answer, expired, pc>>
    BY <1>1 DEF worldVars
  <1>3. c \in Wallets /\ NewOp(k).status = "approved"
    BY DEF Wallets, NewOp
  <1>4. /\ Order' /\ Rows'
        /\ lastOp' \in [Wallets -> 0..MaxOps]
        /\ applied' \in [Wallets -> SUBSET Idx]
        /\ rows' \in [Wallets -> 0..MaxOps]
        /\ slot' \in [Wallets -> [Idx -> 0..MaxOps]]
        /\ status' \in [Wallets -> [Idx -> Statuses]]
        /\ marked' \in [Cosigners -> SUBSET Idx]
        /\ txs' \subseteq Idx
        /\ failures' \in 0..MaxFailures
    <2>1. nops' \in Nat /\ nops <= nops' /\ nops + 1 <= nops' /\ nops + 1 = lastOp[c] + 1
      BY <1>1, PostKeeps
    <2> QED BY <1>1, <1>3, <2>1, PostKeeps, ProcessKeeps
  <1>5. TypeOK'
    BY <1>1, <1>2, <1>4, PostKeeps DEF IInv, TypeOK
  <1> QED BY <1>1, <1>4, <1>5, PostKeeps DEF IInv

\* A response counts on the hub and keeps the content of the operation.
LEMMA AnsweredTyped ==
    ASSUME NEW r \in OpRec, NEW c \in Cosigners, NEW ack \in BOOLEAN
    PROVE  Answered(r, c, ack) \in OpRec
  <1>1. ASSUME NEW q \in OpRec
        PROVE  Counted(q) \in OpRec
    BY DEF Counted, OpRec
  <1>2. [r EXCEPT !.acked = @ \cup {c}] \in OpRec /\ [r EXCEPT !.nacked = @ \cup {c}] \in OpRec
    BY DEF OpRec
  <1> QED BY <1>1, <1>2 DEF Answered

LEMMA RespondKeeps ==
    ASSUME IInv, NEW c \in Cosigners, NEW i \in Idx, NEW ack \in BOOLEAN,
           RespondToOperation(c, i, ack), Careful
    PROVE  IInv'
  <1> DEFINE r == Answered(op[i], c, ack)
  <1>1. /\ i <= nops /\ RespondAllowed(c, i) /\ (SyncsFirst => lastOp[c] = i - 1)
        /\ op' = [op EXCEPT ![i] = r]
        /\ IF r.status = "pending" THEN UNCHANGED <<txs, marked, localVars, failures>>
                                   ELSE Process(c, i, r)
        /\ UNCHANGED <<nops, decision, answer, expired, pc>>
    BY DEF RespondToOperation, worldVars
  <1>2. c \in Wallets /\ i \in Nat /\ nops \in Nat /\ lastOp[c] \in Nat /\ lastOp[c] <= nops
    BY DEF Wallets, Idx, IInv, TypeOK, Order
  <1>3. op[i].status = "pending" /\ op[i] \in OpRec /\ ~Resolved(i)
    BY <1>1 DEF RespondAllowed, IInv, TypeOK, NoOp, Resolved
  <1>4. r \in OpRec
    BY <1>3, AnsweredTyped
  <1> HIDE DEF r
  <1>5. op'[i] = r /\ op' \in [Idx -> OpRec \cup {NoOp}]
    BY <1>1, <1>4 DEF IInv, TypeOK
  <1>6. \A j \in Idx : Resolved(j) => op'[j] = op[j]
    BY <1>1, <1>3 DEF IInv, TypeOK
  <1>7. Unposted'
    <2>1. ASSUME NEW j \in Idx, j > nops
          PROVE  op'[j] = NoOp
      <3>1. j # i
        BY <1>1, <1>2, <2>1 DEF Idx
      <3> QED BY <1>1, <2>1, <3>1 DEF IInv, TypeOK, Unposted
    <2> QED BY <1>1, <2>1 DEF Unposted
  <1>8. i = lastOp[c] + 1
    <2>1. ~(i <= lastOp[c])
      <3>1. i <= lastOp[c] => i \in 1..lastOp[c]
        BY <1>2 DEF Idx
      <3> QED BY <1>2, <1>3, <3>1 DEF IInv, Order
    <2>2. CASE SyncsFirst
      BY <1>1, <1>2, <2>2
    <2>3. CASE "marked" \notin CrashPoints /\ ~Restores
      <3>1. i # 1 => i - 1 \in 1..(i - 1)
        BY <1>2 DEF Idx
      <3>2. i # 1 => i - 1 \in marked[c]
        BY <1>1, <3>1 DEF RespondAllowed
      <3>3. i # 1 => i - 1 \in 1..lastOp[c]
        BY <2>3, <3>2 DEF IInv, Order
      <3> QED BY <1>2, <2>1, <3>3 DEF Idx
    <2> QED BY <2>2, <2>3 DEF Careful
  <1>9. CASE r.status = "pending"
    <2>1. UNCHANGED <<txs, marked, lastOp, applied, rows, slot, status, failures>>
      BY <1>1, <1>9 DEF localVars
    <2>2. Order' /\ Rows'
      BY <1>1, <1>2, <1>6, <2>1, AsideKeeps
    <2>3. TypeOK'
      BY <1>1, <1>5, <2>1 DEF IInv, TypeOK
    <2> QED BY <1>7, <2>2, <2>3 DEF IInv
  <1>10. CASE r.status # "pending"
    <2>1. Process(c, i, r) /\ r.status \in {"approved", "discarded"}
      BY <1>1, <1>4, <1>10 DEF OpRec
    <2>2. nops' \in Nat /\ nops <= nops' /\ i <= nops'
      BY <1>1, <1>2
    <2>3. /\ Order' /\ Rows'
          /\ lastOp' \in [Wallets -> 0..MaxOps]
          /\ applied' \in [Wallets -> SUBSET Idx]
          /\ rows' \in [Wallets -> 0..MaxOps]
          /\ slot' \in [Wallets -> [Idx -> 0..MaxOps]]
          /\ status' \in [Wallets -> [Idx -> Statuses]]
          /\ marked' \in [Cosigners -> SUBSET Idx]
          /\ txs' \subseteq Idx
          /\ failures' \in 0..MaxFailures
      BY <1>2, <1>4, <1>5, <1>6, <1>8, <2>1, <2>2, ProcessKeeps
    <2>4. TypeOK'
      BY <1>1, <1>5, <2>3 DEF IInv, TypeOK
    <2> QED BY <1>7, <2>3, <2>4 DEF IInv
  <1> QED BY <1>9, <1>10

LEMMA SyncProcessKeeps ==
    ASSUME IInv, NEW w \in Wallets, SyncProcess(w)
    PROVE  IInv'
  <1> DEFINE i == lastOp[w] + 1
  <1>1. /\ lastOp[w] < nops /\ Resolved(i) /\ Process(w, i, op[i])
        /\ UNCHANGED <<nops, op, decision, answer, expired>>
    BY DEF SyncProcess, worldVars
  <1>2. pc' = [pc EXCEPT ![w] = "refresh"] \/ pc' = [pc EXCEPT ![w] = "idle"]
    BY DEF SyncProcess
  <1>3. lastOp[w] \in Nat /\ nops \in Nat /\ nops <= MaxOps
    BY DEF IInv, TypeOK
  <1>4. i \in Idx /\ i <= nops
    BY <1>1, <1>3, ConstantsAssumption DEF Idx
  <1>5. op[i] \in OpRec /\ op[i].status \in {"approved", "discarded"}
    BY <1>1, <1>4 DEF Resolved, IInv, TypeOK, NoOp
  <1>6. /\ Order' /\ Rows'
        /\ lastOp' \in [Wallets -> 0..MaxOps]
        /\ applied' \in [Wallets -> SUBSET Idx]
        /\ rows' \in [Wallets -> 0..MaxOps]
        /\ slot' \in [Wallets -> [Idx -> 0..MaxOps]]
        /\ status' \in [Wallets -> [Idx -> Statuses]]
        /\ marked' \in [Cosigners -> SUBSET Idx]
        /\ txs' \subseteq Idx
        /\ failures' \in 0..MaxFailures
    <2>1. nops' = nops /\ op' = op /\ nops' \in Nat /\ i <= nops'
      BY <1>1, <1>3, <1>4
    <2> HIDE DEF i
    <2>2. i = lastOp[w] + 1
      BY DEF i
    <2> QED BY <1>1, <1>3, <1>4, <1>5, <2>1, <2>2, ProcessKeeps
  <1>7. TypeOK'
    BY <1>1, <1>2, <1>6 DEF IInv, TypeOK
  <1> QED BY <1>1, <1>6, <1>7 DEF IInv, Unposted

\* The other steps change no operation and no row.
LEMMA RestKeeps ==
    ASSUME IInv, TypeOK', UNCHANGED <<nops, op, marked, lastOp, applied, rows, slot>>
    PROVE  IInv'
  <1>1. nops \in Nat
    BY DEF IInv, TypeOK
  <1>2. Order' /\ Rows'
    BY <1>1, AsideKeeps
  <1> QED BY <1>2 DEF IInv, Unposted

\* A restored wallet is in the state another wallet is in.
LEMMA RestoreKeeps ==
    ASSUME IInv, NEW w \in Wallets, NEW c \in Cosigners, RestoreBackup(w, c)
    PROVE  IInv'
  <1>0. c \in Wallets
    BY DEF Wallets
  <1>1. UNCHANGED <<nops, op, marked, decision, answer, expired, txs>>
    BY DEF RestoreBackup, hubVars, worldVars
  <1>2. \A v \in Wallets :
            /\ lastOp'[v] = IF v = w THEN lastOp[c] ELSE lastOp[v]
            /\ applied'[v] = IF v = w THEN applied[c] ELSE applied[v]
            /\ rows'[v] = IF v = w THEN rows[c] ELSE rows[v]
            /\ slot'[v] = IF v = w THEN slot[c] ELSE slot[v]
    BY DEF RestoreBackup, IInv, TypeOK
  <1>3. TypeOK'
    <2>1. /\ lastOp' \in [Wallets -> 0..MaxOps]
          /\ applied' \in [Wallets -> SUBSET Idx]
          /\ rows' \in [Wallets -> 0..MaxOps]
          /\ pc' \in [Wallets -> {"idle", "fetch", "refresh"}]
      BY <1>0 DEF RestoreBackup, IInv, TypeOK
    <2>2. slot' \in [Wallets -> [Idx -> 0..MaxOps]]
      BY <1>0 DEF RestoreBackup, IInv, TypeOK
    <2>3. status' \in [Wallets -> [Idx -> Statuses]]
      BY <1>0 DEF RestoreBackup, IInv, TypeOK
    <2>4. failures' \in 0..MaxFailures
      BY ConstantsAssumption DEF RestoreBackup, IInv, TypeOK
    <2> QED BY <1>1, <2>1, <2>2, <2>3, <2>4 DEF IInv, TypeOK
  <1>4. Restores
    BY DEF RestoreBackup
  <1>5. Order'
    <2>1. ASSUME NEW v \in Wallets
          PROVE  /\ lastOp'[v] <= nops' /\ applied'[v] = 1..lastOp'[v]
                 /\ \A i \in 1..lastOp'[v] : Resolved(i)
      BY <1>0, <1>1, <1>2 DEF IInv, Order
    <2> QED BY <1>1, <1>4, <2>1 DEF Order, Resolved
  <1>6. Rows'
    <2>1. op' = op
      BY <1>1
    <2>3. ASSUME NEW v \in Wallets
          PROVE  rows'[v] = Cardinality(Opened(op', lastOp'[v]))
      BY <1>0, <1>2, <2>1 DEF IInv, Rows
    <2>4. ASSUME NEW v \in Wallets, NEW i \in Idx, slot'[v][i] # 0
          PROVE  i <= lastOp'[v] /\ slot'[v][i] = Cardinality(Opened(op', i))
      BY <1>0, <1>2, <2>1, <2>4 DEF IInv, Rows
    <2> QED BY <2>3, <2>4 DEF Rows
  <1>7. Unposted'
    BY <1>1 DEF IInv, Unposted
  <1> QED BY <1>3, <1>5, <1>6, <1>7 DEF IInv

\* IInv holds initially.
LEMMA InitEstablishes == Init => IInv
  <1> SUFFICES ASSUME Init PROVE IInv
    OBVIOUS
  <1>1. TypeOK
    BY ConstantsAssumption DEF Init, TypeOK, Statuses
  <1>2. Order
    BY DEF Init, Order
  <1>3. Cardinality(Opened(op, 0)) = 0
    BY OpenedFinite
  <1>4. Rows
    BY <1>3 DEF Init, Rows
  <1>5. Unposted
    BY DEF Init, Unposted
  <1> QED BY <1>1, <1>2, <1>4, <1>5 DEF IInv

\* And every step keeps it.
LEMMA NextKeeps == Careful /\ IInv /\ [Next]_vars => IInv'
  <1> SUFFICES ASSUME Careful, IInv, [Next]_vars PROVE IInv'
    OBVIOUS
  <1>0. TypeOK
    BY DEF IInv
  <1>1. ASSUME NEW c \in Cosigners, Propose(c)
        PROVE  IInv'
    <2>1. CASE \E k \in Voted : InitOperation(c, k)
      BY <2>1, InitOperationKeeps DEF Kinds
    <2>2. CASE IssueAsset(c) \/ BlindReceive(c) \/ WitnessReceive(c)
      <3>1. PICK k \in Kinds \ Voted : PostApproved(c, k)
        BY <2>2 DEF IssueAsset, BlindReceive, WitnessReceive, Kinds, Voted, Receive
      <3> QED BY <3>1, PostApprovedKeeps
    <2> QED BY <1>1, <2>1, <2>2 DEF Propose, CreateUtxosInit, SendBtcInit, SendInit,
                                   InflateInit, BurnInit, Voted
  <1>2. ASSUME NEW c \in Cosigners, Respond(c)
        PROVE  IInv'
    BY <1>2, RespondKeeps DEF Respond
  <1>3. ASSUME NEW c \in Cosigners, FailTransfers(c)
        PROVE  IInv'
    <2>1. UNCHANGED <<nops, op, marked, lastOp, applied, rows, slot>>
      BY <1>3 DEF FailTransfers
    <2> QED BY <1>0, <1>3, <2>1, FailTransfersTyped, RestKeeps
  <1>4. ASSUME NEW w \in Wallets, NEW next \in {"idle", "fetch", "refresh"}, RefreshAll(w, next)
        PROVE  IInv'
    <2>1. UNCHANGED <<nops, op, marked, lastOp, applied, rows, slot>>
      BY <1>4 DEF RefreshAll
    <2> QED BY <1>0, <1>4, <2>1, RefreshAllTyped, RestKeeps
  <1>5. ASSUME NEW w \in Wallets, Sync(w) \/ Refresh(w)
        PROVE  IInv'
    <2>1. CASE SyncNothing(w)
      <3>1. UNCHANGED <<nops, op, marked, decision, answer, expired, txs, lastOp, applied,
                        rows, slot, status, failures>>
        BY <2>1 DEF SyncNothing, hubVars, worldVars, localVars
      <3>2. pc' \in [Wallets -> {"idle", "fetch", "refresh"}]
        BY <2>1 DEF SyncNothing, IInv, TypeOK
      <3>3. TypeOK'
        BY <3>1, <3>2 DEF IInv, TypeOK
      <3> QED BY <3>1, <3>3, RestKeeps
    <2>2. CASE SyncProcess(w)
      BY <2>2, SyncProcessKeeps
    <2> QED BY <1>4, <1>5, <2>1, <2>2 DEF Sync, SyncBegin, SyncEnd, Refresh
  <1>6. ASSUME NEW i \in Idx,
               CounterpartyAnswers(i) \/ CounterpartyBroadcasts(i) \/ Expire(i)
        PROVE  IInv'
    <2>1. UNCHANGED <<nops, op, marked, decision, lastOp, applied, rows, slot, status, pc, failures>>
      BY <1>6 DEF CounterpartyAnswers, CounterpartyBroadcasts, Expire, hubVars, localVars
    <2>2. /\ answer' \in [Idx -> {"none", "ack", "nack"}]
          /\ expired' \subseteq Idx /\ txs' \subseteq Idx
      BY <1>6 DEF CounterpartyAnswers, CounterpartyBroadcasts, Expire, worldVars, IInv, TypeOK
    <2>3. TypeOK'
      BY <2>1, <2>2 DEF IInv, TypeOK
    <2> QED BY <2>1, <2>3, RestKeeps
  <1>8. ASSUME NEW w \in Wallets, NEW c \in Cosigners, RestoreBackup(w, c)
        PROVE  IInv'
    BY <1>8, RestoreKeeps
  <1>7. CASE UNCHANGED vars
    <2>1. TypeOK'
      BY <1>7 DEF vars, IInv, TypeOK
    <2> QED BY <1>7, <2>1, RestKeeps DEF vars
  <1> QED BY <1>1, <1>2, <1>3, <1>5, <1>6, <1>7, <1>8 DEF Next

\* Every wallet's tables keep their types.
THEOREM TypeCorrect ==
    ASSUME Careful PROVE Spec => []TypeOK
  <1>1. IInv => TypeOK
    BY DEF IInv
  <1>2. IInv /\ [Next]_vars => IInv'
    BY NextKeeps
  <1> QED BY <1>1, <1>2, InitEstablishes, PTL DEF Spec

\* Every wallet processes each operation of the hub, in the hub's order: the
\* mark on the hub and last_processed_operation_idx never leave one behind.
THEOREM OrderCorrect ==
    ASSUME Careful PROVE Spec => []ProcessedInOrder
  <1>1. IInv => ProcessedInOrder
    BY DEF IInv, Order, ProcessedInOrder
  <1>2. IInv /\ [Next]_vars => IInv'
    BY NextKeeps
  <1> QED BY <1>1, <1>2, InitEstablishes, PTL DEF Spec

\* The number a wallet names a batch transfer by means the same transfer to
\* every other wallet.
THEOREM RowsCorrect ==
    ASSUME Careful PROVE Spec => []SameRows
  <1>1. IInv => SameRows
    BY DEF IInv, Rows, SameRows
  <1>2. IInv /\ [Next]_vars => IInv'
    BY NextKeeps
  <1> QED BY <1>1, <1>2, InitEstablishes, PTL DEF Spec

(***************************************************************************)
(* The first decision registered on the hub binds every cosigner: none     *)
(* fails a transfer that another one accepted, for any group, thresholds,  *)
(* operations and failures, under the condition above.  The row of a       *)
(* transfer is the key of its decision, so the proof rests on the ranks.   *)
(***************************************************************************)

\* The key of operation i on the hub.
Rank(i) == Cardinality(Opened(op, i))

\* The kinds whose transfer waits for a counterparty.
Contested(i) == op[i].kind \in Receive \cup {"SendRgb"}

\* A status of wallet w is backed by the decision, or by a refusal.
StatusSound(w, i, v) ==
    /\ v.status \in {"WaitingCounterparty", "WaitingBroadcast", "Failed"} => Contested(i)
    /\ v.status \in Going /\ Contested(i) => v.decision = "accepted"
    /\ v.status = "Failed" /\ w \in Cosigners =>
         v.decision = "failed" \/ (op[i].kind \in Receive /\ answer[i] = "nack")

\* A decision is backed by the answer, a broadcast by the decision.
AnswerSound(i, v) ==
    /\ v.decision = "accepted" /\ op[i].kind \in Receive => answer[i] = "ack"
    /\ v.sent /\ op[i].kind = "SendRgb" => v.decision = "accepted"

Shared(i) == [decision |-> decision[Rank(i)], sent |-> i \in txs]

\* Only operations that open a transfer have a row.
Linked ==
    \A w \in Wallets : \A i \in Idx :
        IF slot[w][i] = 0 THEN status[w][i] = "none" ELSE Opens(op[i])

StatusesFollow == \A w \in Wallets : \A i \in Known(w) : StatusSound(w, i, View(w, i))

DecisionsFollow == \A i \in Idx : Opens(op[i]) => AnswerSound(i, Shared(i))

AllButLastResolved == \A i \in 1..nops : i < nops => Resolved(i)

\* Nothing was decided, nor sent, for a transfer that is not open yet.
NothingEarly ==
    /\ txs \subseteq 1..nops
    /\ \A i \in txs : op[i].kind = "SendRgb" => Opens(op[i])
    /\ \A s \in Idx : s > Rank(nops) => decision[s] = "none"

AInv == Linked /\ StatusesFollow /\ DecisionsFollow /\ AllButLastResolved /\ NothingEarly

\* What was decided or sent stays so.
Keeps(u, v) ==
    /\ u.decision # "none" => v.decision = u.decision
    /\ u.sent => v.sent

-----------------------------------------------------------------------------
(* Ranks, again.                                                            *)

\* An operation that opens a transfer outranks all before it.
LEMMA OpenedGrows ==
    ASSUME NEW o, NEW p, NEW i \in Nat, NEW j \in Nat, i <= j,
           \A k \in 1..i : Opens(o[k]) => Opens(p[k])
    PROVE  /\ Cardinality(Opened(o, i)) <= Cardinality(Opened(p, j))
           /\ j \notin Opened(o, i) /\ j \in 1..j /\ Opens(p[j]) =>
                Cardinality(Opened(o, i)) < Cardinality(Opened(p, j))
  <1>1. /\ IsFiniteSet(Opened(o, i)) /\ Cardinality(Opened(o, i)) \in Nat
        /\ IsFiniteSet(Opened(p, j)) /\ Cardinality(Opened(p, j)) \in Nat
    BY OpenedFinite
  <1>2. Opened(o, i) \subseteq Opened(p, j)
    BY DEF Opened
  <1>3. Cardinality(Opened(o, i)) <= Cardinality(Opened(p, j))
    BY <1>1, <1>2, FS_Subset
  <1>4. ASSUME j \notin Opened(o, i), j \in 1..j, Opens(p[j])
        PROVE  Cardinality(Opened(o, i)) < Cardinality(Opened(p, j))
    <2>1. j \in Opened(p, j)
      BY <1>4 DEF Opened
    <2>2. Opened(o, i) \cup {j} \subseteq Opened(p, j)
      BY <1>2, <2>1
    <2>3. /\ IsFiniteSet(Opened(o, i) \cup {j})
          /\ Cardinality(Opened(o, i) \cup {j}) = Cardinality(Opened(o, i)) + 1
      BY <1>1, <1>4, FS_AddElement
    <2>4. Cardinality(Opened(o, i) \cup {j}) <= Cardinality(Opened(p, j))
      BY <1>1, <2>2, FS_Subset
    <2> QED BY <1>1, <2>3, <2>4
  <1> QED BY <1>3, <1>4

\* So two of them have different ranks, and no rank is above the last one's.
LEMMA RanksDiffer ==
    ASSUME IInv, NEW i \in Idx, NEW j \in Idx, Opens(op[i]), Opens(op[j]), Rank(i) = Rank(j)
    PROVE  i = j
  <1>1. ASSUME NEW k \in Idx, NEW l \in Idx, k < l, Opens(op[l])
        PROVE  Rank(k) < Rank(l)
    <2>1. k \in Nat /\ l \in Nat /\ k <= l /\ l \notin Opened(op, k) /\ l \in 1..l
      BY <1>1 DEF Opened, Idx
    <2> QED BY <1>1, <2>1, OpenedGrows DEF Rank
  <1>2. i \in Nat /\ j \in Nat /\ Rank(i) \in Nat /\ Rank(j) \in Nat
    BY OpenedFinite DEF Idx, Rank
  <1> QED BY <1>1, <1>2

\* The row of a known transfer is its rank.
LEMMA KnownFacts ==
    ASSUME IInv, Linked, NEW w \in Wallets, NEW i \in Known(w)
    PROVE  /\ i \in Idx /\ i \in 1..nops /\ Opens(op[i])
           /\ slot[w][i] = Rank(i) /\ Rank(i) \in Idx /\ Rank(i) <= Rank(nops)
           /\ View(w, i).decision = decision[Rank(i)]
  <1>1. i \in Idx /\ i \in Nat /\ slot[w][i] # 0
    BY DEF Known, Idx
  <1>2. i <= lastOp[w] /\ slot[w][i] = Rank(i)
    BY <1>1 DEF IInv, Rows, Rank
  <1>3. lastOp[w] <= nops /\ lastOp[w] \in Nat /\ nops \in Nat
    BY DEF IInv, Order, TypeOK
  <1>4. i <= nops /\ i \in 1..nops
    BY <1>1, <1>2, <1>3 DEF Idx
  <1>5. slot[w][i] \in 1..MaxOps
    BY <1>1, ConstantsAssumption DEF IInv, TypeOK
  <1>6. Rank(i) <= Rank(nops)
    BY <1>1, <1>3, <1>4, OpenedGrows DEF Rank
  <1> QED BY <1>1, <1>2, <1>4, <1>5, <1>6 DEF Linked, Idx, View

-----------------------------------------------------------------------------
(* One transfer.                                                            *)

\* Failing a transfer that waits asks the hub.
LEMMA FailSound ==
    ASSUME NEW w, NEW i, NEW v \in Views, Contested(i), StatusSound(w, i, v), AnswerSound(i, v)
    PROVE  LET r == FailBatchTransfer(w, v)
           IN  StatusSound(w, i, r) /\ AnswerSound(i, r) /\ Keeps(v, r)
  BY DEF FailBatchTransfer, Views, Statuses, StatusSound, AnswerSound, Keeps, Going, Contested, Receive

\* Accepting it does, too.
LEMMA AcceptSound ==
    ASSUME NEW w, NEW i, NEW v \in Views, NEW next \in Going, NEW sent \in BOOLEAN,
           NEW online \in BOOLEAN, Contested(i), StatusSound(w, i, v), AnswerSound(i, v),
           op[i].kind \in Receive => answer[i] = "ack"
    PROVE  LET r == AcceptThen(w, v, next, sent, online)
           IN  StatusSound(w, i, r) /\ AnswerSound(i, r) /\ Keeps(v, r)
  <1> DEFINE r == AcceptThen(w, v, next, sent, online)
  <1>1. CASE v.decision = "failed"
    BY <1>1, FailSound DEF AcceptThen
  <1>2. CASE v.decision # "failed" /\ w \notin Cosigners /\ v.decision = "none"
    BY <1>2 DEF AcceptThen, Keeps
  <1>3. CASE v.decision # "failed" /\ ~(w \notin Cosigners /\ v.decision = "none")
    <2>1. v.decision \in {"none", "accepted"}
      BY <1>3 DEF Views
    <2>2. CASE online
      <3>1. r = [status |-> next, decision |-> "accepted", sent |-> v.sent \/ sent]
        BY <1>3, <2>2 DEF AcceptThen
      <3>2. r.status = next /\ r.decision = "accepted" /\ r.sent = (v.sent \/ sent)
        BY <3>1
      <3> HIDE DEF r
      <3>3. StatusSound(w, i, r) /\ AnswerSound(i, r)
        BY <3>2 DEF StatusSound, AnswerSound, Going
      <3> QED BY <2>1, <3>2, <3>3 DEF Keeps, r
    <2>3. CASE ~online
      <3>1. r = [v EXCEPT !.decision = "accepted"]
        BY <1>3, <2>3 DEF AcceptThen
      <3>2. r.status = v.status /\ r.decision = "accepted" /\ r.sent = v.sent
        BY <3>1 DEF Views
      <3> HIDE DEF r
      <3>3. v.status = "Failed" /\ w \in Cosigners =>
                op[i].kind \in Receive /\ answer[i] = "nack"
        BY <1>3 DEF StatusSound
      <3>4. StatusSound(w, i, r) /\ AnswerSound(i, r)
        BY <3>2, <3>3 DEF StatusSound, AnswerSound
      <3> QED BY <2>1, <3>2, <3>4 DEF Keeps, r
    <2> QED BY <2>2, <2>3
  <1> QED BY <1>1, <1>2, <1>3

\* So does a pass over it, in whatever state it is.
LEMMA RefreshSound ==
    ASSUME NEW w, NEW i, NEW v \in Views, NEW online \in BOOLEAN,
           answer[i] \in {"none", "ack", "nack"}, StatusSound(w, i, v), AnswerSound(i, v)
    PROVE  LET r == RefreshTransfer(w, i, v, online)
           IN  StatusSound(w, i, r) /\ AnswerSound(i, r) /\ Keeps(v, r)
  <1> DEFINE Good(r) == StatusSound(w, i, r) /\ AnswerSound(i, r) /\ Keeps(v, r)
  <1>1. Good(v)
    BY DEF Keeps
  <1>2. Contested(i) => Good(FailBatchTransfer(w, v))
    BY FailSound
  <1>3. ASSUME v.status = "WaitingCounterparty", op[i].kind \in Receive
        PROVE  Good(WaitConsignment(w, i, v, online))
    <2>1. Contested(i)
      BY <1>3 DEF Contested
    <2>2. answer[i] = "ack" => Good(AcceptThen(w, v, "WaitingBroadcast", FALSE, online))
      BY <2>1, AcceptSound DEF Going
    <2>3. answer[i] = "nack" => Good([v EXCEPT !.status = "Failed"])
      BY <1>3, <2>1 DEF Views, StatusSound, AnswerSound, Keeps, Going
    <2> HIDE DEF Good
    <2> QED BY <1>1, <2>2, <2>3 DEF WaitConsignment
  <1>4. ASSUME v.status = "WaitingCounterparty", op[i].kind \notin Receive
        PROVE  Good(WaitAck(w, i, v, online))
    <2>1. Contested(i)
      BY <1>4 DEF StatusSound
    <2>2. Good(AcceptThen(w, v, "WaitingConfirmations", TRUE, online))
      BY <1>4, <2>1, AcceptSound DEF Going
    <2> HIDE DEF Good
    <2> QED BY <1>1, <1>2, <2>1, <2>2 DEF WaitAck
  <1>5. v.status = "WaitingBroadcast" => Good([v EXCEPT !.status = "WaitingConfirmations"])
    BY DEF Views, StatusSound, AnswerSound, Keeps, Going
  <1>6. v.status = "WaitingCounterparty" => Contested(i)
    BY DEF StatusSound
  <1> HIDE DEF Good
  <1>7. Good(RefreshTransfer(w, i, v, online))
    BY <1>1, <1>2, <1>3, <1>4, <1>5, <1>6 DEF RefreshTransfer
  <1> QED BY <1>7 DEF Good

-----------------------------------------------------------------------------
(* All the transfers of a wallet.                                           *)

\* The rank of an operation that opens a transfer is a row number.
LEMMA RankIsRow ==
    ASSUME IInv, NEW i \in Idx, Opens(op[i])
    PROVE  Rank(i) \in Idx /\ i <= nops
  <1>1. i \in Nat /\ 1 <= i /\ i <= MaxOps /\ MaxOps \in Nat /\ 0 \in Nat /\ i \in 1..i
    BY ConstantsAssumption DEF Idx
  <1>2. Rank(i) \in 0..i /\ Cardinality(Opened(op, 0)) = 0
    BY <1>1, OpenedFinite DEF Rank
  <1>3. i \notin Opened(op, 0)
    BY <1>1 DEF Opened
  <1>4. Cardinality(Opened(op, 0)) < Cardinality(Opened(op, i))
    BY <1>1, <1>3, OpenedGrows
  <1>5. i <= nops
    <2>1. nops \in Nat
      BY DEF IInv, TypeOK
    <2>2. i > nops => op[i] = NoOp
      BY DEF IInv, Unposted
    <2> QED BY <1>1, <2>1, <2>2 DEF Opens, NoOp
  <1> QED BY <1>1, <1>2, <1>4, <1>5 DEF Rank, Idx

\* Storing sound results keeps everything sound, in every wallet.
LEMMA StoreKeeps ==
    ASSUME IInv, AInv, NEW w \in Wallets, NEW T \in SUBSET Known(w),
           NEW S \in SUBSET T, NEW E \in SUBSET T, S \subseteq E,
           NEW after \in [T -> Views],
           \A i \in E : /\ StatusSound(w, i, after[i]) /\ AnswerSound(i, after[i])
                        /\ Keeps(View(w, i), after[i]),
           Store(w, S, E, after), UNCHANGED <<nops, op, answer, slot>>
    PROVE  AInv'
  <1>0. Linked /\ AllButLastResolved
    BY DEF AInv
  <1>1. \A i \in E : /\ i \in Idx /\ i \in 1..nops /\ Opens(op[i])
                     /\ slot[w][i] = Rank(i) /\ Rank(i) \in Idx /\ Rank(i) <= Rank(nops)
                     /\ View(w, i).decision = decision[Rank(i)]
    BY <1>0, KnownFacts
  <1>2. \A i \in E : View(w, i).sent = (i \in txs) /\ after[i] \in Views
    BY DEF View
  <1>3. ASSUME NEW j \in Idx, Opens(op[j])
        PROVE  decision'[Rank(j)] = IF j \in E THEN after[j].decision ELSE decision[Rank(j)]
    <2>1. Rank(j) \in Idx
      BY <1>3, RankIsRow
    <2>2. ASSUME NEW k \in E, slot[w][k] = Rank(j)
          PROVE  k = j
      BY <1>1, <1>3, <2>2, RanksDiffer
    <2>3. j \in E => (CHOOSE k \in E : slot[w][k] = Rank(j)) = j
      BY <1>1, <2>2
    <2>4. decision'[Rank(j)] = IF \E k \in E : slot[w][k] = Rank(j)
                               THEN after[CHOOSE k \in E : slot[w][k] = Rank(j)].decision
                               ELSE decision[Rank(j)]
      BY <2>1 DEF Store
    <2> QED BY <1>1, <2>2, <2>3, <2>4
  <1>4. ASSUME NEW j \in Idx, Opens(op[j]), decision[Rank(j)] # "none"
        PROVE  decision'[Rank(j)] = decision[Rank(j)]
    BY <1>1, <1>3, <1>4 DEF Keeps
  <1>5. ASSUME NEW j \in txs'
        PROVE  j \in txs \/ (j \in E /\ after[j].sent)
    BY <1>5 DEF Store
  <1>6. ASSUME NEW v \in Wallets, NEW j \in Idx
        PROVE  status'[v][j] = IF v = w /\ j \in S THEN after[j].status ELSE status[v][j]
    BY <1>6 DEF Store, IInv, TypeOK
  <1>7. /\ \A j : Rank(j)' = Rank(j) /\ Contested(j)' = Contested(j)
        /\ \A v : Known(v)' = Known(v)
    BY DEF Rank, Contested, Known
  <1>8. Linked'
    <2>1. ASSUME NEW v \in Wallets, NEW j \in Idx
          PROVE  IF slot'[v][j] = 0 THEN status'[v][j] = "none" ELSE Opens(op'[j])
      <3>1. v = w /\ j \in S => slot[v][j] # 0
        BY DEF Known
      <3> QED BY <1>0, <1>6, <3>1 DEF Linked
    <2> QED BY <2>1 DEF Linked
  <1>9. StatusesFollow'
    <2> SUFFICES ASSUME NEW v \in Wallets, NEW j \in Known(v)
                 PROVE  StatusSound(v, j, View(v, j))'
      BY <1>7 DEF StatusesFollow
    <2>1. j \in Idx /\ Opens(op[j]) /\ slot[v][j] = Rank(j)
      BY <1>0, KnownFacts
    <2>2. View(v, j).decision = decision[Rank(j)] /\ View(v, j).status = status[v][j]
      BY <2>1 DEF View
    <2>3. View(v, j)'.decision = decision'[Rank(j)] /\ View(v, j)'.status = status'[v][j]
      BY <2>1 DEF View
    <2>4. CASE v = w /\ j \in S
      <3>1. StatusSound(v, j, after[j])
        BY <2>4
      <3>2. status'[v][j] = after[j].status /\ decision'[Rank(j)] = after[j].decision
        BY <1>3, <1>6, <2>1, <2>4
      <3> QED BY <1>7, <2>3, <3>1, <3>2 DEF StatusSound
    <2>5. CASE ~(v = w /\ j \in S)
      <3>1. StatusSound(v, j, View(v, j))
        BY DEF AInv, StatusesFollow
      <3>2. status'[v][j] = status[v][j]
        BY <1>6, <2>1, <2>5
      <3>3. decision[Rank(j)] # "none" => decision'[Rank(j)] = decision[Rank(j)]
        BY <1>4, <2>1
      <3> QED BY <1>7, <2>2, <2>3, <3>1, <3>2, <3>3 DEF StatusSound
    <2> QED BY <2>4, <2>5
  <1>10. DecisionsFollow'
    <2> SUFFICES ASSUME NEW j \in Idx, Opens(op[j])
                 PROVE  AnswerSound(j, Shared(j))'
      BY DEF DecisionsFollow
    <2>1. Shared(j).decision = decision[Rank(j)] /\ Shared(j).sent = (j \in txs)
      BY DEF Shared
    <2>2. Shared(j)'.decision = decision'[Rank(j)] /\ Shared(j)'.sent = (j \in txs')
      BY <1>7 DEF Shared
    <2>3. CASE j \in E
      <3>1. AnswerSound(j, after[j]) /\ decision'[Rank(j)] = after[j].decision
        BY <1>3, <2>3
      <3>2. j \in txs' => after[j].sent
        BY <1>2, <1>5, <2>3 DEF Keeps
      <3> QED BY <2>2, <3>1, <3>2 DEF AnswerSound
    <2>4. CASE j \notin E
      <3>1. AnswerSound(j, Shared(j))
        BY DEF AInv, DecisionsFollow
      <3>2. decision'[Rank(j)] = decision[Rank(j)] /\ (j \in txs' => j \in txs)
        BY <1>3, <1>5, <2>4
      <3> QED BY <2>1, <2>2, <3>1, <3>2 DEF AnswerSound
    <2> QED BY <2>3, <2>4
  <1>11. NothingEarly'
    <2>1. txs' \subseteq 1..nops /\ \A j \in txs' : op[j].kind = "SendRgb" => Opens(op[j])
      BY <1>1, <1>5 DEF AInv, NothingEarly
    <2>2. ASSUME NEW s \in Idx, s > Rank(nops)
          PROVE  decision'[s] = "none"
      <3>1. Rank(nops) \in Nat
        BY OpenedFinite DEF Rank, IInv, TypeOK
      <3>2. \A k \in E : slot[w][k] # s
        BY <1>1, <2>2, <3>1 DEF Idx
      <3>3. decision'[s] = decision[s]
        BY <3>2 DEF Store
      <3> QED BY <2>2, <3>3 DEF AInv, NothingEarly
    <2> QED BY <1>7, <2>1, <2>2 DEF NothingEarly
  <1>12. AllButLastResolved'
    BY <1>0 DEF AllButLastResolved, Resolved
  <1> QED BY <1>8, <1>9, <1>10, <1>11, <1>12 DEF AInv

\* What a wallet sees of its transfers is sound.
LEMMA ViewSound ==
    ASSUME IInv, AInv, NEW w \in Wallets, NEW i \in Known(w)
    PROVE  /\ View(w, i) \in Views
           /\ StatusSound(w, i, View(w, i)) /\ AnswerSound(i, View(w, i))
           /\ answer[i] \in {"none", "ack", "nack"}
  <1>1. /\ i \in Idx /\ Opens(op[i])
        /\ View(w, i).decision = decision[Rank(i)]
    BY KnownFacts DEF AInv
  <1>2. View(w, i).sent = (i \in txs) /\ Shared(i).sent = (i \in txs)
        /\ Shared(i).decision = decision[Rank(i)]
    BY DEF View, Shared
  <1>3. AnswerSound(i, View(w, i))
    BY <1>1, <1>2 DEF AInv, DecisionsFollow, AnswerSound
  <1>4. StatusSound(w, i, View(w, i))
    BY DEF AInv, StatusesFollow
  <1>5. View(w, i) \in Views
    BY ViewTyped DEF IInv
  <1> QED BY <1>1, <1>3, <1>4, <1>5 DEF IInv, TypeOK

\* refresh, and the refreshes of sync_with_hub.
LEMMA RefreshAllAgrees ==
    ASSUME IInv, AInv, NEW w \in Wallets, NEW next, RefreshAll(w, next)
    PROVE  AInv'
  <1>1. PICK online \in BOOLEAN, committed \in BOOLEAN :
          LET once(i) == RefreshTransfer(w, i, View(w, i), online)
              after == [i \in Known(w) |-> RefreshTransfer(w, i, once(i), online)]
          IN  /\ Store(w, IF committed THEN Known(w) ELSE {}, Known(w), after)
              /\ UNCHANGED <<nops, op, marked, worldVars, lastOp, applied, rows, slot>>
    BY DEF RefreshAll
  <1> DEFINE once(i) == RefreshTransfer(w, i, View(w, i), online)
             after == [i \in Known(w) |-> RefreshTransfer(w, i, once(i), online)]
             S == IF committed THEN Known(w) ELSE {}
  <1>2. ASSUME NEW i \in Known(w)
        PROVE  /\ after[i] \in Views
               /\ StatusSound(w, i, after[i]) /\ AnswerSound(i, after[i])
               /\ Keeps(View(w, i), after[i])
    <2>1. /\ View(w, i) \in Views /\ answer[i] \in {"none", "ack", "nack"}
          /\ StatusSound(w, i, View(w, i)) /\ AnswerSound(i, View(w, i))
      BY ViewSound
    <2>2. /\ once(i) \in Views /\ StatusSound(w, i, once(i)) /\ AnswerSound(i, once(i))
          /\ Keeps(View(w, i), once(i))
      BY <2>1, RefreshSound, RefreshTyped
    <2>3. after[i] = RefreshTransfer(w, i, once(i), online)
      OBVIOUS
    <2> HIDE DEF once, after
    <2>4. /\ after[i] \in Views /\ StatusSound(w, i, after[i]) /\ AnswerSound(i, after[i])
          /\ Keeps(once(i), after[i])
      BY <2>1, <2>2, <2>3, RefreshSound, RefreshTyped
    <2>5. Keeps(View(w, i), after[i])
      BY <2>2, <2>4 DEF Keeps
    <2> QED BY <2>4, <2>5
  <1>3. after \in [Known(w) -> Views]
    <2>1. after = [i \in Known(w) |-> after[i]]
      OBVIOUS
    <2> HIDE DEF after
    <2> QED BY <1>2, <2>1
  <1>4. Store(w, S, Known(w), after) /\ UNCHANGED <<nops, op, answer, slot>>
    BY <1>1 DEF worldVars
  <1>5. S \in SUBSET Known(w) /\ Known(w) \in SUBSET Known(w) /\ S \subseteq Known(w)
    OBVIOUS
  <1> HIDE DEF after, S, once
  <1> QED BY <1>2, <1>3, <1>4, <1>5, StoreKeeps

\* fail_transfers.
LEMMA FailTransfersAgrees ==
    ASSUME IInv, AInv, NEW c \in Cosigners, FailTransfers(c)
    PROVE  AInv'
  <1>1. PICK S \in {{i} : i \in Known(c)} \cup {{i \in Known(c) : i \in expired}} :
          LET T     == {i \in S : Fallible(c, i)}
              after == [i \in T |-> TryFail(c, i)]
              stuck == {i \in T : after[i].status = status[c][i]}
              before == {i \in T : \A s \in stuck : slot[c][i] < slot[c][s]}
          IN /\ T # {}
             /\ Store(c, IF stuck = {} THEN T ELSE {}, before, after)
    BY DEF FailTransfers
  <1> DEFINE T     == {i \in S : Fallible(c, i)}
             after == [i \in T |-> TryFail(c, i)]
             stuck == {i \in T : after[i].status = status[c][i]}
             before == {i \in T : \A s \in stuck : slot[c][i] < slot[c][s]}
             kept == IF stuck = {} THEN T ELSE {}
  <1>2. c \in Wallets /\ T \subseteq Known(c)
    BY <1>1 DEF Known, Wallets
  <1>3. ASSUME NEW i \in T
        PROVE  /\ after[i] \in Views
               /\ StatusSound(c, i, after[i]) /\ AnswerSound(i, after[i])
               /\ Keeps(View(c, i), after[i])
    <2> DEFINE r == RefreshTransfer(c, i, View(c, i), TRUE)
               f == FailBatchTransfer(c, r)
    <2>1. /\ View(c, i) \in Views /\ answer[i] \in {"none", "ack", "nack"}
          /\ StatusSound(c, i, View(c, i)) /\ AnswerSound(i, View(c, i))
      BY <1>2, ViewSound
    <2>2. Contested(i)
      BY <2>1 DEF Fallible, StatusSound, View
    <2>3. r \in Views /\ StatusSound(c, i, r) /\ AnswerSound(i, r) /\ Keeps(View(c, i), r)
      BY <2>1, RefreshSound, RefreshTyped
    <2>4. after[i] = r \/ after[i] = f
      BY DEF TryFail
    <2> HIDE DEF r, after
    <2>5. f \in Views /\ StatusSound(c, i, f) /\ AnswerSound(i, f) /\ Keeps(r, f)
      BY <2>2, <2>3, FailSound, RefreshTyped
    <2> HIDE DEF f
    <2>6. Keeps(View(c, i), f)
      BY <2>3, <2>5 DEF Keeps
    <2> QED BY <2>3, <2>4, <2>5, <2>6
  <1>4. after \in [T -> Views]
    <2>1. after = [i \in T |-> after[i]]
      OBVIOUS
    <2> HIDE DEF after
    <2> QED BY <1>3, <2>1
  <1>5. Store(c, kept, before, after) /\ UNCHANGED <<nops, op, answer, slot>>
    BY <1>1 DEF FailTransfers, worldVars
  <1>6. kept \subseteq T /\ before \subseteq T /\ kept \subseteq before
    OBVIOUS
  <1> HIDE DEF T, after, stuck, before, kept
  <1> QED BY <1>2, <1>3, <1>4, <1>5, <1>6, StoreKeeps

-----------------------------------------------------------------------------
(* Operations.                                                              *)

\* A row of a wallet stays as it is, or belongs to an operation that was
\* just executed.
RowSteps(v, j) ==
    \/ slot'[v][j] = slot[v][j] /\ status'[v][j] = status[v][j]
    \/ slot'[v][j] # 0 /\ Opens(op[j])' /\ status'[v][j] = FirstStatus(op'[j])

\* A step of the hub's list, and of the wallets that execute it, keeps what
\* was decided: an operation that comes to open a transfer has a new rank.
LEMMA OperationKeeps ==
    ASSUME IInv, IInv', AInv, UNCHANGED <<decision, answer>>,
           nops <= nops', AllButLastResolved',
           \A j \in Idx : Resolved(j) => op'[j] = op[j],
           \A j \in 1..nops : op'[j].kind = op[j].kind,
           \A j \in txs' \ txs : j \in 1..nops' /\ op'[j].kind \in Broadcasts,
           \A v \in Wallets : \A j \in Idx : RowSteps(v, j)
    PROVE  AInv'
  <1>1. nops \in Nat /\ nops' \in Nat /\ nops' <= MaxOps /\ MaxOps \in Nat /\ nops <= MaxOps
    BY ConstantsAssumption DEF IInv, TypeOK
  <1>2. ASSUME NEW j \in Idx, Opens(op[j])
        PROVE  Resolved(j) /\ j \in 1..nops /\ Opens(op'[j]) /\ op'[j] = op[j]
    BY <1>2, RankIsRow DEF Opens, Resolved, Idx
  <1>3. ASSUME NEW j \in Idx, Opens(op[j])
        PROVE  Rank(j)' = Rank(j)
    <2>1. j \in Nat /\ \A k \in 1..j : k \in Idx /\ Resolved(k)
      BY <1>1, <1>2, <1>3 DEF AInv, AllButLastResolved, Idx
    <2>2. Opened(op, j) = Opened(op', j)
      BY <2>1, OpenedSame
    <2> QED BY <2>2 DEF Rank
  <1>4. \A k \in 1..nops : Opens(op[k]) => Opens(op'[k])
    BY <1>1, <1>2 DEF Idx
  <1>5. Rank(nops) <= Rank(nops)'
    BY <1>1, <1>4, OpenedGrows DEF Rank
  <1>6. ASSUME NEW j \in Idx, Opens(op'[j]), ~Opens(op[j])
        PROVE  Rank(nops) < Rank(j)' /\ Rank(j)' \in Idx
    <2>1. j \in Nat /\ j \in 1..j /\ ~Resolved(j)
      BY <1>6 DEF Idx
    <2>2. nops <= j
      BY <1>1, <2>1 DEF AInv, AllButLastResolved, Idx
    <2>3. j \notin Opened(op, nops)
      BY <1>6 DEF Opened
    <2>4. Cardinality(Opened(op, nops)) < Cardinality(Opened(op', j))
      BY <1>1, <1>4, <1>6, <2>1, <2>2, <2>3, OpenedGrows
    <2>5. Rank(nops) \in 0..nops /\ Cardinality(Opened(op', j)) \in 0..j
      BY <1>1, <2>1, OpenedFinite DEF Rank
    <2>6. j <= MaxOps
      BY DEF Idx
    <2> QED BY <1>1, <2>1, <2>4, <2>5, <2>6 DEF Rank, Idx
  <1>7. ASSUME NEW j \in txs, op'[j].kind = "SendRgb"
        PROVE  Opens(op[j])
    BY <1>7 DEF AInv, NothingEarly
  <1>8. Linked'
    <2>1. ASSUME NEW v \in Wallets, NEW j \in Idx
          PROVE  IF slot'[v][j] = 0 THEN status'[v][j] = "none" ELSE Opens(op'[j])
      <3>1. IF slot[v][j] = 0 THEN status[v][j] = "none" ELSE Opens(op[j])
        BY DEF AInv, Linked
      <3>2. RowSteps(v, j)
        OBVIOUS
      <3> QED BY <1>2, <3>1, <3>2 DEF RowSteps
    <2> QED BY <2>1 DEF Linked
  <1>9. StatusesFollow'
    <2> SUFFICES ASSUME NEW v \in Wallets, NEW j \in Known(v)'
                 PROVE  StatusSound(v, j, View(v, j))'
      BY DEF StatusesFollow
    <2>0. j \in Idx /\ slot'[v][j] # 0 /\ RowSteps(v, j)
      BY DEF Known
    <2>1. View(v, j)'.status = status'[v][j] /\ View(v, j)'.decision = decision[slot'[v][j]]
      BY DEF View
    <2>2. CASE slot'[v][j] = slot[v][j] /\ status'[v][j] = status[v][j]
      <3>1. j \in Known(v)
        BY <2>0, <2>2 DEF Known
      <3>2. StatusSound(v, j, View(v, j)) /\ op'[j] = op[j]
        BY <1>2, <3>1, KnownFacts DEF AInv, StatusesFollow
      <3>3. View(v, j).status = status[v][j] /\ View(v, j).decision = decision[slot[v][j]]
        BY DEF View
      <3> QED BY <2>1, <2>2, <3>2, <3>3 DEF StatusSound, Contested
    <2>3. CASE Opens(op'[j]) /\ status'[v][j] = FirstStatus(op'[j])
      <3>1. op'[j].kind \notin Broadcasts => op'[j].kind \in Receive \cup {"SendRgb"}
        BY <2>3 DEF Opens, OpensTransfer, Kinds, Broadcasts, Voted
      <3>2. op'[j].kind \in Broadcasts => op'[j].kind \notin Receive \cup {"SendRgb"}
        BY DEF Receive, Broadcasts, Voted
      <3> QED BY <2>1, <2>3, <3>1, <3>2 DEF StatusSound, Contested, FirstStatus, Going
    <2> QED BY <2>0, <2>2, <2>3 DEF RowSteps
  <1>10. DecisionsFollow'
    <2> SUFFICES ASSUME NEW j \in Idx, Opens(op'[j])
                 PROVE  AnswerSound(j, Shared(j))'
      BY DEF DecisionsFollow
    <2>1. Shared(j)'.decision = decision[Rank(j)'] /\ Shared(j)'.sent = (j \in txs')
      BY DEF Shared
    <2>2. op'[j].kind = "SendRgb" /\ j \in txs' => j \in txs
      BY DEF Broadcasts
    <2>3. CASE Opens(op[j])
      <3>1. AnswerSound(j, Shared(j)) /\ op'[j] = op[j] /\ Rank(j)' = Rank(j)
        BY <1>2, <1>3, <2>3 DEF AInv, DecisionsFollow
      <3>2. Shared(j).decision = decision[Rank(j)] /\ Shared(j).sent = (j \in txs)
        BY DEF Shared
      <3> QED BY <2>1, <2>2, <3>1, <3>2 DEF AnswerSound
    <2>4. CASE ~Opens(op[j])
      <3>1. decision[Rank(j)'] = "none"
        BY <1>6, <2>4 DEF AInv, NothingEarly
      <3>2. ~(op'[j].kind = "SendRgb" /\ j \in txs)
        BY <1>7, <2>4
      <3> QED BY <2>1, <2>2, <3>1, <3>2 DEF AnswerSound
    <2> QED BY <2>3, <2>4
  <1>11. NothingEarly'
    <2>1. txs' \subseteq 1..nops'
      <3>1. \A j \in txs : j \in 1..nops'
        BY <1>1 DEF AInv, NothingEarly
      <3> QED BY <3>1
    <2>2. ASSUME NEW j \in txs', op'[j].kind = "SendRgb"
          PROVE  Opens(op'[j])
      <3>1. j \in txs
        BY <2>2 DEF Broadcasts
      <3> QED BY <1>1, <1>2, <1>7, <2>1, <2>2, <3>1 DEF Idx
    <2>3. ASSUME NEW s \in Idx, s > Rank(nops)'
          PROVE  decision[s] = "none"
      <3>1. Rank(nops) \in Nat /\ Rank(nops)' \in Nat
        BY <1>1, OpenedFinite DEF Rank
      <3>2. s > Rank(nops)
        BY <1>5, <2>3, <3>1 DEF Idx
      <3> QED BY <3>2 DEF AInv, NothingEarly
    <2> QED BY <2>1, <2>2, <2>3 DEF NothingEarly
  <1> QED BY <1>8, <1>9, <1>10, <1>11 DEF AInv

\* The hub's list is not longer than the bound.
LEMMA ListLength ==
    ASSUME IInv
    PROVE  nops \in Nat /\ 1..nops \subseteq Idx
  <1>1. nops \in Nat /\ nops <= MaxOps /\ MaxOps \in Nat
    BY ConstantsAssumption DEF IInv, TypeOK
  <1> QED BY <1>1 DEF Idx

\* Processing an operation touches its own row, and sends its own transaction.
LEMMA ProcessRows ==
    ASSUME TypeOK, NEW w \in Wallets, NEW i \in Idx, NEW r, Process(w, i, r), op'[i] = r
    PROVE  /\ \A v \in Wallets : \A j \in Idx : RowSteps(v, j)
           /\ \A j \in txs' \ txs : j = i /\ r.kind \in Broadcasts
  <1>1. Sent(i, r) \/ txs' = txs => \A j \in txs' \ txs : j = i /\ r.kind \in Broadcasts
    BY DEF Sent
  <1>2. UNCHANGED <<slot, status>> => \A v \in Wallets : \A j \in Idx : RowSteps(v, j)
    BY DEF RowSteps
  <1>3. CASE Sent(i, r) /\ Commit(w, i, r)
    <2>1. CASE Opens(r)
      <3>1. AddTransfer(w, i, FirstStatus(r))
        BY <1>3, <2>1, CommitRows
      <3>2. rows[w] + 1 # 0
        BY DEF TypeOK
      <3>3. ASSUME NEW v \in Wallets, NEW j \in Idx
            PROVE  RowSteps(v, j)
        <4>1. CASE v = w /\ j = i
          <5>1. slot'[v][j] = rows[w] + 1 /\ status'[v][j] = FirstStatus(r)
            BY <3>1, <4>1 DEF AddTransfer, TypeOK
          <5> QED BY <2>1, <3>2, <4>1, <5>1 DEF RowSteps
        <4>2. CASE ~(v = w /\ j = i)
          <5>1. slot'[v][j] = slot[v][j] /\ status'[v][j] = status[v][j]
            BY <3>1, <4>2 DEF AddTransfer, TypeOK
          <5> QED BY <5>1 DEF RowSteps
        <4> QED BY <4>1, <4>2
      <3> QED BY <1>1, <1>3, <3>3
    <2>2. CASE ~Opens(r)
      BY <1>1, <1>2, <1>3, <2>2, CommitRows DEF NoTransfer
    <2> QED BY <2>1, <2>2
  <1>4. CASE CutShort(w, i, r)
    BY <1>1, <1>2, <1>4 DEF CutShort, localVars
  <1>5. CASE UNCHANGED <<txs, marked, localVars, failures>>
    BY <1>1, <1>2, <1>5 DEF localVars
  <1> QED BY <1>3, <1>4, <1>5 DEF Process

\* A post touches the next entry of the hub's list only.
LEMMA PostList ==
    ASSUME IInv, IInv', AInv, NEW c \in Cosigners, NEW k \in Kinds, Post(c, k), Careful
    PROVE  /\ nops <= nops' /\ nops + 1 \in 1..nops' /\ AllButLastResolved'
           /\ \A j \in Idx : Resolved(j) => op'[j] = op[j]
           /\ \A j \in 1..nops : op'[j].kind = op[j].kind
           /\ op'[nops + 1] = NewOp(k) /\ nops + 1 \in Idx
  <1>1. /\ nops' = nops + 1 /\ nops \in Nat /\ nops + 1 \in Idx
        /\ op'[nops + 1] = NewOp(k)
        /\ \A j \in Idx : Resolved(j) => op'[j] = op[j]
    BY PostKeeps
  <1>2. \A j \in 1..nops : j \in Idx /\ Resolved(j)
    <2>1. \A j \in 1..nops : j \in Idx
      BY <1>1, ListLength
    <2> QED BY <2>1 DEF Post, PostAllowed
  <1>3. AllButLastResolved'
    <2>1. ASSUME NEW j \in 1..nops', j < nops'
          PROVE  op'[j] = op[j] /\ Resolved(j)
      BY <1>1, <1>2, <2>1
    <2> QED BY <2>1 DEF AllButLastResolved, Resolved
  <1> QED BY <1>1, <1>2, <1>3

LEMMA InitOperationAgrees ==
    ASSUME IInv, IInv', AInv, NEW c \in Cosigners, NEW k \in Kinds, InitOperation(c, k), Careful
    PROVE  AInv'
  <1>1. Post(c, k) /\ UNCHANGED <<decision, answer, txs, slot, status>>
    BY DEF InitOperation, worldVars, localVars
  <1>2. \A v \in Wallets : \A j \in Idx : RowSteps(v, j)
    BY <1>1 DEF RowSteps
  <1> QED BY <1>1, <1>2, PostList, OperationKeeps

LEMMA PostApprovedAgrees ==
    ASSUME IInv, IInv', AInv, NEW c \in Cosigners, NEW k \in Kinds, PostApproved(c, k), Careful
    PROVE  AInv'
  <1>1. /\ Post(c, k) /\ Process(c, nops + 1, NewOp(k))
        /\ UNCHANGED <<decision, answer>> /\ c \in Wallets /\ TypeOK
    BY DEF PostApproved, worldVars, Wallets, IInv
  <1>2. /\ \A v \in Wallets : \A j \in Idx : RowSteps(v, j)
        /\ \A j \in txs' \ txs : j = nops + 1 /\ op'[nops + 1].kind \in Broadcasts
    BY <1>1, PostList, ProcessRows
  <1> QED BY <1>1, <1>2, PostList, OperationKeeps

\* A response changes the pending entry, and not its kind.
LEMMA RespondAgrees ==
    ASSUME IInv, IInv', AInv, NEW c \in Cosigners, NEW i \in Idx, NEW ack \in BOOLEAN,
           RespondToOperation(c, i, ack)
    PROVE  AInv'
  <1> DEFINE r == Answered(op[i], c, ack)
  <1>1. /\ i <= nops /\ op[i].status = "pending"
        /\ op' = [op EXCEPT ![i] = r] /\ nops' = nops
        /\ IF r.status = "pending" THEN UNCHANGED <<txs, marked, localVars, failures>>
                                   ELSE Process(c, i, r)
        /\ UNCHANGED <<decision, answer>>
    BY DEF RespondToOperation, RespondAllowed, worldVars
  <1>2. c \in Wallets /\ TypeOK /\ nops \in Nat /\ i \in 1..nops /\ ~Resolved(i) /\ op[i] \in OpRec
    <2>1. c \in Wallets /\ TypeOK /\ nops \in Nat
      BY ListLength DEF Wallets, IInv
    <2>2. i \in 1..nops /\ ~Resolved(i)
      BY <1>1, <2>1 DEF Idx, Resolved
    <2>3. op[i] \in OpRec
      BY <1>1 DEF IInv, TypeOK, NoOp
    <2> QED BY <2>1, <2>2, <2>3
  <1>3. r.kind = op[i].kind
    BY <1>2 DEF Answered, Counted, OpRec
  <1> HIDE DEF r
  <1>4. \A j \in Idx : op'[j] = IF j = i THEN r ELSE op[j]
    BY <1>1 DEF IInv, TypeOK
  <1>5. /\ \A j \in Idx : Resolved(j) => op'[j] = op[j]
        /\ \A j \in 1..nops : j \in Idx /\ op'[j].kind = op[j].kind
    <2>1. \A j \in Idx : op'[j].kind = op[j].kind
      BY <1>3, <1>4
    <2> QED BY <1>2, <1>4, <2>1, ListLength
  <1>6. AllButLastResolved'
    <2>1. ASSUME NEW j \in 1..nops, j < nops
          PROVE  op'[j].status \in {"approved", "discarded"}
      BY <1>5, <2>1 DEF AInv, AllButLastResolved, Resolved
    <2> QED BY <1>1, <2>1 DEF AllButLastResolved, Resolved
  <1>7. /\ \A v \in Wallets : \A j \in Idx : RowSteps(v, j)
        /\ \A j \in txs' \ txs : j = i /\ op'[i].kind \in Broadcasts
    <2>1. CASE r.status = "pending"
      BY <1>1, <2>1 DEF localVars, RowSteps
    <2>2. CASE r.status # "pending"
      BY <1>1, <1>2, <1>4, <2>2, ProcessRows
    <2> QED BY <2>1, <2>2
  <1>8. nops <= nops'
    BY <1>1, <1>2
  <1> QED BY <1>1, <1>2, <1>5, <1>6, <1>7, <1>8, OperationKeeps

LEMMA SyncProcessAgrees ==
    ASSUME IInv, IInv', AInv, NEW w \in Wallets, SyncProcess(w)
    PROVE  AInv'
  <1> DEFINE i == lastOp[w] + 1
  <1>1. /\ lastOp[w] < nops /\ Process(w, i, op[i])
        /\ UNCHANGED <<nops, op, decision, answer>>
    BY DEF SyncProcess, worldVars
  <1>2. nops \in Nat /\ i \in 1..nops /\ i \in Idx /\ TypeOK
    <2>1. lastOp[w] \in Nat
      BY DEF IInv, TypeOK
    <2> QED BY <1>1, <2>1, ListLength DEF IInv
  <1> HIDE DEF i
  <1>3. /\ \A v \in Wallets : \A j \in Idx : RowSteps(v, j)
        /\ \A j \in txs' \ txs : j = i /\ op'[i].kind \in Broadcasts
    BY <1>1, <1>2, ProcessRows
  <1>4. AllButLastResolved' /\ nops <= nops'
    BY <1>1, <1>2 DEF AInv, AllButLastResolved, Resolved
  <1>5. /\ \A j \in Idx : Resolved(j) => op'[j] = op[j]
        /\ \A j \in 1..nops : op'[j].kind = op[j].kind
    BY <1>1
  <1> QED BY <1>1, <1>2, <1>3, <1>4, <1>5, OperationKeeps

-----------------------------------------------------------------------------
(* The rest.                                                                *)

\* Restored tables are sound: the backup is a cosigner's.
LEMMA RestoreAgrees ==
    ASSUME IInv, AInv, NEW w \in Wallets, NEW c \in Cosigners, RestoreBackup(w, c)
    PROVE  AInv'
  <1>1. UNCHANGED <<nops, op, decision, answer, txs>> /\ c \in Wallets
    BY DEF RestoreBackup, hubVars, worldVars, Wallets
  <1>2. ASSUME NEW v \in Wallets
        PROVE  /\ slot'[v] = IF v = w THEN slot[c] ELSE slot[v]
               /\ status'[v] = IF v = w THEN status[c] ELSE status[v]
    BY <1>2 DEF RestoreBackup, IInv, TypeOK
  <1>3. Linked'
    <2>1. ASSUME NEW v \in Wallets, NEW j \in Idx
          PROVE  IF slot'[v][j] = 0 THEN status'[v][j] = "none" ELSE Opens(op[j])
      BY <1>1, <1>2 DEF AInv, Linked
    <2> QED BY <1>1, <2>1 DEF Linked
  <1>4. StatusesFollow'
    <2> SUFFICES ASSUME NEW v \in Wallets, NEW j \in Known(v)'
                 PROVE  StatusSound(v, j, View(v, j))'
      BY DEF StatusesFollow
    <2> DEFINE u == IF v = w THEN c ELSE v
    <2>1. u \in Wallets /\ (v \in Cosigners => u \in Cosigners)
      BY <1>1
    <2>2. slot'[v] = slot[u] /\ status'[v] = status[u]
      BY <1>2
    <2> HIDE DEF u
    <2>3. j \in Known(u)
      BY <2>2 DEF Known
    <2>4. StatusSound(u, j, View(u, j))
      BY <2>1, <2>3 DEF AInv, StatusesFollow
    <2>5. View(v, j)' = View(u, j)
      BY <1>1, <2>2 DEF View
    <2> QED BY <1>1, <2>1, <2>4, <2>5 DEF StatusSound, Contested
  <1>5. DecisionsFollow' /\ AllButLastResolved' /\ NothingEarly'
    BY <1>1 DEF AInv, DecisionsFollow, AnswerSound, Shared, AllButLastResolved, Resolved,
                NothingEarly, Rank
  <1> QED BY <1>3, <1>4, <1>5 DEF AInv

\* An answer, a transaction of others or the clock changes no decision.
LEMMA OutsideAgrees ==
    ASSUME IInv, AInv, UNCHANGED <<nops, op, decision, slot, status>>,
           \A i \in Idx : answer'[i] = answer[i] \/ answer[i] = "none",
           \A i \in txs' \ txs : i \in Idx /\ op[i].kind \in Receive, txs \subseteq txs'
    PROVE  AInv'
  <1>1. Linked'
    BY DEF AInv, Linked
  <1>2. StatusesFollow'
    <2> SUFFICES ASSUME NEW v \in Wallets, NEW j \in Known(v)
                 PROVE  StatusSound(v, j, View(v, j))'
      BY DEF StatusesFollow, Known
    <2>1. StatusSound(v, j, View(v, j)) /\ j \in Idx
      BY DEF AInv, StatusesFollow, Known
    <2>2. View(v, j)'.status = View(v, j).status /\ View(v, j)'.decision = View(v, j).decision
      BY DEF View
    <2>3. answer[j] = "nack" => answer'[j] = "nack"
      BY <2>1
    <2> QED BY <2>1, <2>2, <2>3 DEF StatusSound, Contested
  <1>3. DecisionsFollow'
    <2> SUFFICES ASSUME NEW j \in Idx, Opens(op[j])
                 PROVE  AnswerSound(j, Shared(j))'
      BY DEF DecisionsFollow
    <2>1. AnswerSound(j, Shared(j))
      BY DEF AInv, DecisionsFollow
    <2>2. /\ Shared(j).decision = decision[Rank(j)] /\ Shared(j).sent = (j \in txs)
          /\ Shared(j)'.decision = decision[Rank(j)] /\ Shared(j)'.sent = (j \in txs')
      BY DEF Shared, Rank
    <2>3. op[j].kind = "SendRgb" /\ j \in txs' => j \in txs
      BY DEF Receive
    <2>4. answer[j] = "ack" => answer'[j] = "ack"
      OBVIOUS
    <2> QED BY <2>1, <2>2, <2>3, <2>4 DEF AnswerSound
  <1>4. AllButLastResolved'
    BY DEF AInv, AllButLastResolved, Resolved
  <1>5. NothingEarly'
    <2>1. ASSUME NEW j \in txs' \ txs
          PROVE  j \in 1..nops
      <3>1. j \in Idx /\ op[j] # NoOp /\ j \in Nat /\ 1 <= j
        BY <2>1 DEF Receive, NoOp, Idx
      <3>2. ~(j > nops)
        BY <3>1 DEF IInv, Unposted
      <3> QED BY <3>1, <3>2, ListLength
    <2>2. \A j \in txs' : j \in txs \/ op[j].kind # "SendRgb"
      BY DEF Receive
    <2>3. txs' \subseteq 1..nops
      BY <2>1 DEF AInv, NothingEarly
    <2> QED BY <2>2, <2>3 DEF AInv, NothingEarly, Rank
  <1> QED BY <1>1, <1>2, <1>3, <1>4, <1>5 DEF AInv

LEMMA InitAgrees == Init => AInv
  <1> SUFFICES ASSUME Init PROVE AInv
    OBVIOUS
  <1>1. \A i \in Idx : ~Opens(op[i])
    BY DEF Init, NoOp, Opens
  <1>2. \A w \in Wallets : \A i \in Idx : slot[w][i] = 0 /\ status[w][i] = "none"
    BY DEF Init
  <1>3. \A w \in Wallets : Known(w) = {}
    BY <1>2 DEF Known
  <1>4. nops = 0 /\ txs = {} /\ \A s \in Idx : decision[s] = "none"
    BY DEF Init
  <1>5. AllButLastResolved
    BY <1>4 DEF AllButLastResolved
  <1> QED BY <1>1, <1>2, <1>3, <1>4, <1>5
          DEF AInv, Linked, StatusesFollow, DecisionsFollow, NothingEarly

LEMMA NextAgrees == Careful /\ IInv /\ IInv' /\ AInv /\ [Next]_vars => AInv'
  <1> SUFFICES ASSUME Careful, IInv, IInv', AInv, [Next]_vars PROVE AInv'
    OBVIOUS
  <1>1. ASSUME NEW c \in Cosigners, Propose(c)
        PROVE  AInv'
    <2>1. CASE \E k \in Voted : InitOperation(c, k)
      BY <2>1, InitOperationAgrees DEF Kinds
    <2>2. CASE IssueAsset(c) \/ BlindReceive(c) \/ WitnessReceive(c)
      <3>1. PICK k \in Kinds : PostApproved(c, k)
        BY <2>2 DEF IssueAsset, BlindReceive, WitnessReceive, Kinds, Receive
      <3> QED BY <3>1, PostApprovedAgrees
    <2> QED BY <1>1, <2>1, <2>2 DEF Propose, CreateUtxosInit, SendBtcInit, SendInit,
                                   InflateInit, BurnInit, Voted
  <1>2. ASSUME NEW c \in Cosigners, Respond(c)
        PROVE  AInv'
    BY <1>2, RespondAgrees DEF Respond
  <1>3. ASSUME NEW c \in Cosigners, FailTransfers(c)
        PROVE  AInv'
    BY <1>3, FailTransfersAgrees
  <1>4. ASSUME NEW w \in Wallets, Sync(w) \/ Refresh(w)
        PROVE  AInv'
    <2>1. CASE SyncNothing(w)
      <3>1. UNCHANGED <<nops, op, decision, answer, txs, slot, status>>
        BY <2>1 DEF SyncNothing, hubVars, worldVars, localVars
      <3> QED BY <3>1, OutsideAgrees
    <2>2. CASE SyncProcess(w)
      BY <2>2, SyncProcessAgrees
    <2> QED BY <1>4, <2>1, <2>2, RefreshAllAgrees DEF Sync, SyncBegin, SyncEnd, Refresh
  <1>5. ASSUME NEW w \in Wallets, NEW c \in Cosigners, RestoreBackup(w, c)
        PROVE  AInv'
    BY <1>5, RestoreAgrees
  <1>6. ASSUME NEW i \in Idx,
               CounterpartyAnswers(i) \/ CounterpartyBroadcasts(i) \/ Expire(i)
        PROVE  AInv'
    <2>1. UNCHANGED <<nops, op, decision, slot, status>>
      BY <1>6 DEF CounterpartyAnswers, CounterpartyBroadcasts, Expire, hubVars, localVars
    <2>2. \A j \in Idx : answer'[j] = answer[j] \/ answer[j] = "none"
      BY <1>6 DEF CounterpartyAnswers, CounterpartyBroadcasts, Expire, worldVars, IInv, TypeOK
    <2>3. txs \subseteq txs' /\ \A j \in txs' \ txs : j \in Idx /\ op[j].kind \in Receive
      BY <1>6 DEF CounterpartyAnswers, CounterpartyBroadcasts, Expire
    <2> QED BY <2>1, <2>2, <2>3, OutsideAgrees
  <1>7. CASE UNCHANGED vars
    <2>1. UNCHANGED <<nops, op, decision, answer, txs, slot, status>>
      BY <1>7 DEF vars
    <2> QED BY <2>1, OutsideAgrees
  <1> QED BY <1>1, <1>2, <1>3, <1>4, <1>5, <1>6, <1>7 DEF Next

\* No cosigner fails a transfer that another one accepted, or that is on the
\* network: whoever asks the hub first decides for all of them
\* (set_hub_accept_status, fail_batch_transfer).
THEOREM AgreementCorrect ==
    ASSUME Careful PROVE Spec => []CosignersAgree
  <1>1. IInv /\ AInv => CosignersAgree
    <2> SUFFICES ASSUME IInv, AInv, NEW c \in Cosigners, NEW i \in Idx, status[c][i] = "Failed"
                 PROVE  /\ \A d \in Cosigners : status[d][i] \notin Going
                        /\ op[i].kind = "SendRgb" => i \notin txs
      BY DEF CosignersAgree
    <2>1. ASSUME NEW d \in Cosigners, status[d][i] # "none"
          PROVE  /\ StatusSound(d, i, View(d, i)) /\ Opens(op[i]) /\ View(d, i).status = status[d][i]
                 /\ View(d, i).decision = Shared(i).decision
      <3>1. d \in Wallets /\ i \in Known(d)
        BY <2>1 DEF Wallets, AInv, Linked, Known
      <3>2. View(d, i).decision = Shared(i).decision /\ Opens(op[i])
        BY <3>1, KnownFacts DEF AInv, Shared
      <3> QED BY <3>1, <3>2 DEF AInv, StatusesFollow, View
    <2>2. /\ Contested(i) /\ Opens(op[i])
          /\ Shared(i).decision = "failed" \/ (op[i].kind \in Receive /\ answer[i] = "nack")
      BY <2>1 DEF StatusSound
    <2>3. AnswerSound(i, Shared(i))
      BY <2>2 DEF AInv, DecisionsFollow
    <2>4. Shared(i).decision # "accepted"
      BY <2>2, <2>3 DEF AnswerSound
    <2>5. \A d \in Cosigners : status[d][i] \notin Going
      BY <2>1, <2>2, <2>4 DEF StatusSound, Going
    <2>6. op[i].kind = "SendRgb" => i \notin txs
      BY <2>3, <2>4 DEF AnswerSound, Shared
    <2> QED BY <2>5, <2>6
  <1>2. IInv /\ [Next]_vars => IInv'
    BY NextKeeps
  <1>3. IInv /\ IInv' /\ AInv /\ [Next]_vars => AInv'
    BY NextAgrees
  <1> QED BY <1>1, <1>2, <1>3, InitEstablishes, InitAgrees, PTL DEF Spec

=============================================================================
