-------------------------- MODULE VanillaTxsProofs --------------------------
(***************************************************************************)
(* Whatever calls the application makes and whatever fails, broadcast      *)
(* transactions are listed and release their inputs, the table txo calls   *)
(* unspent only what is, reserved inputs stay for the transaction that     *)
(* reserved them and create_utxos and send_btc keep away from colored      *)
(* outputs: each up to the faults the property names, for any number of    *)
(* transactions, deposits and receipts.                                    *)
(***************************************************************************)
EXTENDS VanillaTxs, SequenceTheorems, TLAPS

\* What was broadcast by a call that committed is durable in BDK.
CommittedIsSaved == published \ cut \subseteq saved

\* Online, the wallet knows all that it broadcast.
KnowsItsOwn == "skip" \notin faults /\ online => published \subseteq known

\* While no call fails half-way the table follows BDK.
TableFollows ==
    faults \subseteq {"crash"} /\ online =>
        /\ ColoredUnspent(txs, known) \subseteq dbTxos
        /\ \A o \in (dbTxos \ dbSpent), n \in published : o \notin txs[n].ins

\* The table has outputs of published transactions only.
TableExists == dbTxos \subseteq Outs(txs, published \cup received)

\* No transaction but a drain is prepared with a colored input.
NoColoredInput ==
    faults \subseteq {"crash"} =>
        \A n \in DOMAIN txs : txs[n].kind # "drain" => \A o \in txs[n].ins : ~Colored(o)

\* A begun transaction has its inputs reserved, for itself alone.
Reservations ==
    /\ \A n \in TxNumber \ DOMAIN txs : reserved[n] = {}
    /\ \A n, m \in TxNumber : n # m => reserved[n] \cap reserved[m] = {}
    /\ \A n \in DOMAIN txs :
         txs[n].held /\ ~txs[n].dry /\ n \notin published => reserved[n] = txs[n].ins

IInv ==
    /\ TypeOK
    /\ CommittedIsSaved /\ KnowsItsOwn
    /\ TableFollows /\ TableExists /\ NoColoredInput
    /\ Reservations
    /\ PendingIsSafe /\ UnspentIsUnspent /\ BroadcastIsRecorded

-----------------------------------------------------------------------------
(* Outputs, syncs and preparations.                                         *)

\* The transactions are a function, on whose domain the variables speak.
LEMMA TxsType ==
    ASSUME TypeOK
    PROVE  /\ DOMAIN txs = 1 .. Len(txs) /\ Len(txs) \in Nat /\ DOMAIN txs \subseteq TxNumber
           /\ \A n \in DOMAIN txs : txs[n] \in Tx
           /\ Len(txs) + 1 \notin DOMAIN txs
           /\ \A n \in Deposits \cup Receipts : n \notin DOMAIN txs /\ n # Len(txs) + 1
  BY VanillaAssumption DEF TypeOK, TxNumber

\* What is unspent depends on the inputs, kinds and changes of the known only.
LEMMA SameOutputs ==
    ASSUME NEW k, k \cap DOMAIN txs' = k \cap DOMAIN txs,
           \A n \in k \cap DOMAIN txs :
               /\ txs'[n].kind = txs[n].kind
               /\ txs'[n].change = txs[n].change
               /\ txs'[n].ins = txs[n].ins
    PROVE  /\ Outs(txs', k) = Outs(txs, k)
           /\ ColoredUnspent(txs', k) = ColoredUnspent(txs, k)
  <1>1. \A n \in k \cap DOMAIN txs : OutsOf(n, txs'[n]) = OutsOf(n, txs[n])
    BY DEF OutsOf
  <1>2. Outs(txs', k) = Outs(txs, k)
    BY <1>1 DEF Outs
  <1>3. Ins(txs', k) = Ins(txs, k)
    BY DEF Ins
  <1> QED BY <1>2, <1>3 DEF ColoredUnspent, Unspent

\* More transactions have more outputs.
LEMMA OutsGrow ==
    ASSUME NEW ts, NEW k, NEW j, k \subseteq j
    PROVE  Outs(ts, k) \subseteq Outs(ts, j)
  BY DEF Outs

\* Outputs are outputs.
LEMMA OutsType ==
    ASSUME NEW ts \in Seq(Tx), Len(ts) <= MaxTxs, NEW k
    PROVE  Outs(ts, k) \subseteq Outpoint
  <1>1. \A n \in DOMAIN ts : n \in TxNumber
    BY VanillaAssumption DEF TxNumber
  <1>2. \A n \in DOMAIN ts : OutsOf(n, ts[n]) \subseteq Outpoint
    BY <1>1 DEF OutsOf, Outpoint
  <1>3. ({"vanilla"} \X Deposits) \cup ({"colored"} \X (k \cap Receipts)) \subseteq Outpoint
    BY DEF Outpoint
  <1> QED BY <1>2, <1>3 DEF Outs

\* What is unspent for a set of known transactions no known one spends.
LEMMA UnspentIsNotSpent ==
    ASSUME NEW ts, NEW k, NEW o \in Unspent(ts, k), NEW n \in k \cap DOMAIN ts
    PROVE  o \notin ts[n].ins /\ o \in Outs(ts, k)
  BY DEF Unspent, Ins

\* A sync shows transactions that are on the network; one of the vanilla
\* keychain shows no receipt.
LEMMA SyncType ==
    ASSUME TypeOK, NEW keychains, NEW k \in FastSynced(keychains)
    PROVE  /\ known \subseteq k /\ k \subseteq published \cup received
           /\ keychains = {"vanilla"} => k \subseteq known \cup published
  <1>1. \A kc : Touching(kc) \subseteq published \cup received
    BY DEF Touching
  <1>2. Touching("vanilla") \subseteq published
    BY DEF Touching
  <1>3. PICK s \in SUBSET (UNION {Touching(kc) : kc \in keychains}) : k = known \cup s
    BY DEF FastSynced
  <1>4. s \subseteq published \cup received
    BY <1>1, <1>3
  <1>5. keychains = {"vanilla"} => s \subseteq published
    BY <1>2, <1>3
  <1> QED BY <1>3, <1>4, <1>5 DEF TypeOK

\* What a preparation may select.
LEMMA InputsType ==
    ASSUME NEW kind \in Kinds, NEW k, NEW db, NEW i \in InputsOf(kind, k, db)
    PROVE  /\ i \subseteq Unspent(txs, k)
           /\ kind = "create" => \A o \in i : ~Colored(o)
           /\ kind = "send" => i \cap db = {}
           /\ kind # "drain" => i \cap AllReserved = {}
  <1>1. CASE kind = "create"
    BY <1>1 DEF InputsOf, CreateInputs
  <1>2. CASE kind = "send"
    BY <1>2 DEF InputsOf, SendInputs, Unspendable
  <1>3. CASE kind = "drain"
    BY <1>3 DEF InputsOf, DrainInputs
  <1> QED BY <1>1, <1>2, <1>3 DEF Kinds

\* A transaction that is begun, to be ended later.
LEMMA BegunType ==
    ASSUME TypeOK, NEW kind \in Kinds, NEW k, NEW db, NEW dry \in BOOLEAN,
           NEW t \in Prepared(kind, k, db, TRUE, dry)
    PROVE  /\ t \in Tx /\ t.kind = kind /\ t.held /\ t.dry = dry
           /\ t.ins \in InputsOf(kind, k, db)
  <1>1. PICK i \in InputsOf(kind, k, db), c \in ChangesOf(kind) :
            t = [kind |-> kind, ins |-> i, change |-> c, held |-> TRUE, dry |-> dry]
    BY DEF Prepared
  <1>2. c \in BOOLEAN
    BY DEF ChangesOf
  <1>3. i \subseteq Outpoint
    BY InputsType, OutsType DEF Unspent, TypeOK
  <1> QED BY <1>1, <1>2, <1>3 DEF Tx

\* A transaction that is made in one call.
LEMMA AloneType ==
    ASSUME TypeOK, NEW kind \in Kinds, NEW k, NEW db,
           NEW t \in Prepared(kind, k, db, FALSE, TRUE)
    PROVE  /\ t \in Tx /\ t.kind = kind /\ ~t.held
           /\ t.ins \in InputsOf(kind, k, db)
  <1>1. PICK i \in InputsOf(kind, k, db), c \in ChangesOf(kind) :
            t = [kind |-> kind, ins |-> i, change |-> c, held |-> FALSE, dry |-> TRUE]
    BY DEF Prepared
  <1>2. c \in BOOLEAN
    BY DEF ChangesOf
  <1>3. i \subseteq Outpoint
    BY InputsType, OutsType DEF Unspent, TypeOK
  <1> QED BY <1>1, <1>2, <1>3 DEF Tx

\* A prepared transaction is appended.
LEMMA AppendType ==
    ASSUME TypeOK, Len(txs) < MaxTxs, NEW t \in Tx, txs' = Append(txs, t)
    PROVE  /\ txs' \in Seq(Tx) /\ Len(txs') = Len(txs) + 1 /\ Len(txs') <= MaxTxs
           /\ DOMAIN txs' = DOMAIN txs \cup {Len(txs) + 1}
           /\ Len(txs) + 1 \in TxNumber
           /\ txs'[Len(txs) + 1] = t
           /\ \A n \in DOMAIN txs : txs'[n] = txs[n]
  BY VanillaAssumption DEF TypeOK, TxNumber

\* It changes no output or input of the others.
LEMMA AppendOutputs ==
    ASSUME TypeOK, Len(txs) < MaxTxs, NEW t \in Tx, txs' = Append(txs, t), NEW k,
           k \subseteq published \cup received
    PROVE  /\ Outs(txs', k) = Outs(txs, k)
           /\ ColoredUnspent(txs', k) = ColoredUnspent(txs, k)
  <1>1. k \cap DOMAIN txs' = k \cap DOMAIN txs
    BY AppendType, TxsType DEF TypeOK
  <1>2. \A n \in k \cap DOMAIN txs :
            /\ txs'[n].kind = txs[n].kind /\ txs'[n].change = txs[n].change
            /\ txs'[n].ins = txs[n].ins
    BY AppendType
  <1> QED BY <1>1, <1>2, SameOutputs

-----------------------------------------------------------------------------
(* The end of a call.                                                       *)

\* A broadcast of transaction n, which may be new, by a call that then commits
\* or is cut short.
LEMMA BroadcastStep ==
    ASSUME IInv, online, NEW ts \in Seq(Tx), txs' = ts, Len(ts) <= MaxTxs,
           NEW n \in TxNumber, DOMAIN ts = DOMAIN txs \cup {n},
           \A m \in DOMAIN txs : ts[m] = txs[m],
           NEW t \in Tx, t = ts[n], n \in DOMAIN txs \/ ~t.held,
           NEW k, known \subseteq k, k \subseteq published \cup received,
           NEW db, dbTxos \subseteq db, db \subseteq dbTxos \cup ColoredUnspent(ts, k),
           faults \subseteq {"crash"} /\ t.kind # "drain" => \A o \in t.ins : ~Colored(o),
           "skip" \notin faults =>
               \A m \in DOMAIN txs \ {n} :
                   reserved[m] \cap t.ins # {} => t.kind = "drain" \/ (t.held /\ t.dry),
           Broadcast(n, t, ts, k, db)
    PROVE  IInv'
  <1> USE DEF IInv
  <1>1. /\ published' = published \cup {n} /\ received' = received
        /\ Completed(n, t, ts, k, db) \/ CutShort(n, k)
    BY DEF Broadcast
  <1>2. /\ published \subseteq DOMAIN txs /\ received \subseteq Receipts
        /\ saved \subseteq known /\ cut \subseteq published /\ recorded \subseteq DOMAIN txs
        /\ DOMAIN txs \subseteq TxNumber
        /\ reserved \in [TxNumber -> SUBSET Outpoint]
        /\ faults \subseteq Faults
    BY TxsType DEF TypeOK
  <1>3. n \notin received
    BY <1>2, VanillaAssumption DEF TxNumber
  <1>4. Outs(ts, published \cup received) = Outs(txs, published \cup received)
    <2>1. (published \cup received) \cap DOMAIN txs' = (published \cup received) \cap DOMAIN txs
      BY <1>2, <1>3
    <2>2. \A m \in (published \cup received) \cap DOMAIN txs :
              /\ txs'[m].kind = txs[m].kind /\ txs'[m].change = txs[m].change
              /\ txs'[m].ins = txs[m].ins
      OBVIOUS
    <2> QED BY <2>1, <2>2, SameOutputs
  <1>5. /\ ColoredUnspent(ts, k) \subseteq Outs(ts, published \cup received)
        /\ ColoredUnspent(ts, k \cup {n}) \subseteq Outs(ts, published' \cup received)
        /\ Outs(ts, published \cup received) \subseteq Outs(ts, published' \cup received)
    BY <1>1, OutsGrow DEF ColoredUnspent, Unspent
  <1>6. NoColoredInput' /\ (faults \subseteq faults')
    BY <1>1 DEF NoColoredInput, Completed, CutShort, Faulty
  <1>7. CASE Completed(n, t, ts, k, db)
    <2>1. /\ known' = k \cup {n} /\ saved' = k \cup {n}
          /\ dbTxos' = db \cup ColoredUnspent(ts, k \cup {n})
          /\ dbSpent' = dbSpent \cup (t.ins \cap dbTxos')
          /\ reserved' = [reserved EXCEPT ![n] = {}]
          /\ recorded' = recorded \cup {n} /\ cut' = cut \ {n}
          /\ UNCHANGED <<online, faults>>
      BY <1>7 DEF Completed, BroadcastTxos, UpdateDbColoredTxos, Finalize
    <2>2. dbTxos' \subseteq Outs(ts, published' \cup received)
      BY <1>4, <1>5, <2>1 DEF TableExists
    <2>3. \A o \in ColoredUnspent(ts, k) \cup ColoredUnspent(ts, k \cup {n}) : Colored(o)
      BY DEF ColoredUnspent
    <2>4. TypeOK'
      BY <1>1, <1>2, <2>1, <2>2, <2>3, OutsType DEF TypeOK
    <2>5. CommittedIsSaved' /\ KnowsItsOwn'
      BY <1>1, <1>2, <2>1 DEF CommittedIsSaved, KnowsItsOwn
    <2>6. /\ \A m \in DOMAIN ts : m # n => reserved'[m] = reserved[m]
          /\ reserved'[n] = {}
          /\ \A m \in TxNumber : reserved'[m] \subseteq reserved[m]
      BY <1>2, <2>1
    <2>7. Reservations'
      BY <1>1, <1>2, <2>1, <2>6 DEF Reservations
    <2>8. \A m \in published : m \in k =>
              \A o \in ColoredUnspent(ts, k) \cup ColoredUnspent(ts, k \cup {n}) :
                  o \notin ts[m].ins
      BY <1>2, UnspentIsNotSpent DEF ColoredUnspent
    <2>9. UnspentIsUnspent'
      <3> SUFFICES ASSUME NEW o \in (dbTxos' \ dbSpent'), NEW m \in published',
                          o \in ts[m].ins
                   PROVE  m \in cut'
        BY DEF UnspentIsUnspent
      <3>1. m # n
        BY <2>1
      <3>2. CASE o \in dbTxos
        BY <1>1, <1>2, <2>1, <3>1, <3>2 DEF UnspentIsUnspent
      <3>3. CASE o \notin dbTxos
        BY <1>1, <1>2, <2>1, <2>8, <3>1, <3>3 DEF CommittedIsSaved
      <3> QED BY <3>2, <3>3
    <2>10. TableFollows'
      <3> SUFFICES ASSUME faults \subseteq {"crash"}
                   PROVE  \A o \in (dbTxos' \ dbSpent'), m \in published' : o \notin ts[m].ins
        BY <2>1 DEF TableFollows
      <3>1. published \subseteq k
        BY DEF KnowsItsOwn
      <3> SUFFICES ASSUME NEW o \in (dbTxos' \ dbSpent'), NEW m \in published',
                          o \in ts[m].ins
                   PROVE  FALSE
        OBVIOUS
      <3>2. m # n
        BY <2>1
      <3>3. CASE o \in dbTxos
        BY <1>1, <1>2, <2>1, <3>2, <3>3 DEF TableFollows
      <3>4. CASE o \notin dbTxos
        BY <1>1, <2>1, <2>8, <3>1, <3>2, <3>4
      <3> QED BY <3>3, <3>4
    <2>11. TableExists'
      BY <1>1, <2>2 DEF TableExists
    <2>12. PendingIsSafe'
      BY <1>1, <1>2, <2>1, <2>6 DEF PendingIsSafe
    <2>13. BroadcastIsRecorded'
      BY <1>1, <1>2, <2>1, <2>6 DEF BroadcastIsRecorded, ListedAs, Tx, Kinds
    <2> QED BY <1>6, <2>4, <2>5, <2>7, <2>9, <2>10, <2>11, <2>12, <2>13
  <1>8. CASE CutShort(n, k)
    <2>1. /\ saved' = k \cup {n} \/ saved' = saved
          /\ saved' \subseteq known' /\ known' \subseteq k \cup {n}
          /\ \/ known' = k \cup {n} /\ UNCHANGED online /\ "error" \in faults'
             \/ ~online'
          /\ online' \in BOOLEAN
          /\ cut' = cut \cup {n} /\ UNCHANGED <<dbTxos, dbSpent, reserved, recorded>>
          /\ faults \subseteq faults' /\ faults' \subseteq Faults
      BY <1>8, <1>2 DEF CutShort, Faulty, TypeOK
    <2>2. TypeOK'
      BY <1>1, <1>2, <2>1 DEF TypeOK
    <2>3. CommittedIsSaved' /\ KnowsItsOwn'
      BY <1>1, <1>2, <2>1 DEF CommittedIsSaved, KnowsItsOwn
    <2>4. Reservations'
      BY <1>1, <1>2, <2>1 DEF Reservations
    <2>5. UnspentIsUnspent' /\ TableFollows'
      BY <1>1, <1>2, <2>1 DEF UnspentIsUnspent, TableFollows
    <2>6. TableExists'
      BY <1>1, <1>4, <1>5, <2>1 DEF TableExists
    <2>7. PendingIsSafe'
      BY <1>1, <1>2, <2>1 DEF PendingIsSafe, Reservations
    <2>8. BroadcastIsRecorded'
      BY <1>1, <1>2, <2>1 DEF BroadcastIsRecorded, ListedAs
    <2> QED BY <1>6, <2>2, <2>3, <2>4, <2>5, <2>6, <2>7, <2>8
  <1> QED BY <1>1, <1>7, <1>8

LEMMA EndStep ==
    ASSUME IInv, NEW n \in DOMAIN txs, NEW kind \in Kinds, End(kind, n)
    PROVE  IInv'
  <1> USE DEF IInv
  <1>1. /\ online /\ txs[n].held /\ Broadcast(n, txs[n], txs, known, dbTxos) /\ txs' = txs
    BY DEF End
  <1>2. /\ txs \in Seq(Tx) /\ Len(txs) <= MaxTxs /\ n \in TxNumber
        /\ DOMAIN txs = DOMAIN txs \cup {n} /\ txs[n] \in Tx
        /\ known \subseteq published \cup received
    BY TxsType DEF TypeOK
  <1>3. faults \subseteq {"crash"} /\ txs[n].kind # "drain" =>
            \A o \in txs[n].ins : ~Colored(o)
    BY DEF NoColoredInput
  <1>4. "skip" \notin faults =>
            \A m \in DOMAIN txs \ {n} :
                reserved[m] \cap txs[n].ins # {} =>
                    txs[n].kind = "drain" \/ (txs[n].held /\ txs[n].dry)
    <2>1. CASE n \in published
      BY <2>1 DEF PendingIsSafe
    <2>2. CASE n \notin published
      BY <1>1, <2>2, TxsType DEF Reservations
    <2> QED BY <2>1, <2>2
  <1> HIDE DEF IInv
  <1> QED BY <1>1, <1>2, <1>3, <1>4, BroadcastStep

LEMMA InOneCallStep ==
    ASSUME IInv, NEW kind \in Kinds, InOneCall(kind)
    PROVE  IInv'
  <1> USE DEF IInv
  <1>1. PICK k \in FastSynced(SyncsOf(kind)) :
            \E t \in Prepared(kind, k, SyncedTxos(kind, k), FALSE, TRUE) :
                /\ txs' = Append(txs, t)
                /\ Broadcast(Len(txs) + 1, t, txs', k, SyncedTxos(kind, k))
    BY DEF InOneCall
  <1> DEFINE db == SyncedTxos(kind, k)
             n == Len(txs) + 1
  <1>2. PICK t \in Prepared(kind, k, db, FALSE, TRUE) :
            txs' = Append(txs, t) /\ Broadcast(n, t, txs', k, db)
    BY <1>1
  <1>3. online /\ Len(txs) < MaxTxs
    BY DEF InOneCall
  <1>4. /\ known \subseteq k /\ k \subseteq published \cup received
        /\ kind # "drain" => k \subseteq known \cup published
    BY SyncType DEF SyncsOf
  <1>5. /\ t \in Tx /\ t.kind = kind /\ ~t.held
        /\ kind = "create" => \A o \in t.ins : ~Colored(o)
        /\ kind = "send" => t.ins \cap db = {}
        /\ kind # "drain" => t.ins \cap AllReserved = {}
        /\ t.ins \subseteq Unspent(txs, k)
    <2>1. t \in Tx /\ t.kind = kind /\ ~t.held /\ t.ins \in InputsOf(kind, k, db)
      BY <1>2, AloneType
    <2> QED BY <2>1, InputsType
  <1>6. /\ txs' \in Seq(Tx) /\ Len(txs') <= MaxTxs /\ n \in TxNumber
        /\ DOMAIN txs' = DOMAIN txs \cup {n} /\ t = txs'[n]
        /\ \A m \in DOMAIN txs : txs'[m] = txs[m]
    BY <1>2, <1>3, <1>5, AppendType
  <1>7. /\ dbTxos \subseteq db /\ db \subseteq dbTxos \cup ColoredUnspent(txs', k)
        /\ kind # "drain" => db = dbTxos
    <2>1. ColoredUnspent(txs', k) = ColoredUnspent(txs, k)
      BY <1>2, <1>3, <1>4, <1>5, AppendOutputs
    <2> QED BY <2>1 DEF SyncedTxos, UpdateDbColoredTxos
  <1>8. faults \subseteq {"crash"} /\ t.kind # "drain" => \A o \in t.ins : ~Colored(o)
    <2> SUFFICES ASSUME faults \subseteq {"crash"}, kind = "send", NEW o \in t.ins, Colored(o)
                 PROVE  FALSE
      BY <1>5 DEF Kinds
    <2>1. k = known
      BY <1>3, <1>4 DEF KnowsItsOwn
    <2>2. o \in dbTxos
      BY <1>3, <1>5, <2>1 DEF TableFollows, ColoredUnspent
    <2> QED BY <1>5, <1>7, <2>2
  <1>9. \A m \in DOMAIN txs \ {n} : reserved[m] \cap t.ins # {} => t.kind = "drain"
    BY <1>5, TxsType DEF AllReserved
  <1> HIDE DEF IInv, db, n
  <1> QED BY <1>2, <1>3, <1>4, <1>5, <1>6, <1>7, <1>8, <1>9, BroadcastStep

-----------------------------------------------------------------------------
(* The other calls.                                                         *)

\* A sync that commits what it saw, with or without an update of the table.
LEMMA SyncedFacts ==
    ASSUME IInv, NEW k, known \subseteq k, k \subseteq published \cup received,
           NEW db, db = dbTxos \/ db = UpdateDbColoredTxos(dbTxos, txs, k)
    PROVE  /\ dbTxos \subseteq db /\ db \subseteq {o \in Outpoint : Colored(o)}
           /\ db \subseteq Outs(txs, published \cup received)
           /\ \A o \in (db \ dbSpent), n \in published : o \in txs[n].ins => n \in cut
           /\ faults \subseteq {"crash"} /\ online =>
                \A o \in (db \ dbSpent), n \in published : o \notin txs[n].ins
  <1> USE DEF IInv
  <1>1. \A o \in ColoredUnspent(txs, k) :
            /\ o \in Outs(txs, published \cup received) /\ Colored(o)
            /\ \A n \in k \cap DOMAIN txs : o \notin txs[n].ins
    <2> SUFFICES ASSUME NEW o \in Unspent(txs, k)
                 PROVE  /\ o \in Outs(txs, published \cup received)
                        /\ \A n \in k \cap DOMAIN txs : o \notin txs[n].ins
      BY DEF ColoredUnspent
    <2>1. o \in Outs(txs, k)
      BY DEF Unspent
    <2>2. \A n \in k \cap DOMAIN txs : o \notin txs[n].ins
      BY UnspentIsNotSpent
    <2>3. Outs(txs, k) \subseteq Outs(txs, published \cup received)
      BY OutsGrow
    <2> QED BY <2>1, <2>2, <2>3
  <1>2. Outs(txs, published \cup received) \subseteq Outpoint
    BY OutsType DEF TypeOK
  <1>3. db \subseteq dbTxos \cup ColoredUnspent(txs, k) /\ dbTxos \subseteq db
    BY DEF UpdateDbColoredTxos
  <1>4. \A o \in (db \ dbSpent), n \in published : o \in txs[n].ins => n \in cut
    BY <1>1, <1>3 DEF UnspentIsUnspent, CommittedIsSaved, TypeOK
  <1>5. faults \subseteq {"crash"} /\ online =>
            \A o \in (db \ dbSpent), n \in published : o \notin txs[n].ins
    BY <1>1, <1>3 DEF TableFollows, KnowsItsOwn, TypeOK
  <1>6. db \subseteq {o \in Outpoint : Colored(o)} /\ db \subseteq Outs(txs, published \cup received)
    BY <1>1, <1>2, <1>3 DEF TypeOK, TableExists
  <1> QED BY <1>3, <1>4, <1>5, <1>6

LEMMA BeginStep ==
    ASSUME IInv, NEW kind \in Kinds, NEW dry \in BOOLEAN, Begin(kind, dry)
    PROVE  IInv'
  <1> USE DEF IInv
  <1>1. PICK k \in FastSynced(SyncsOf(kind)) :
            /\ known' = k /\ saved' = k
            /\ dbTxos' = SyncedTxos(kind, k)
            /\ \E t \in Prepared(kind, k, dbTxos', TRUE, dry) :
                 /\ txs' = Append(txs, t)
                 /\ IF dry THEN UNCHANGED <<reserved, recorded>>
                           ELSE ReserveVanillaTxos(Len(txs) + 1, t)
    BY DEF Begin
  <1> DEFINE n == Len(txs) + 1
  <1>2. PICK t \in Prepared(kind, k, dbTxos', TRUE, dry) :
            /\ txs' = Append(txs, t)
            /\ IF dry THEN UNCHANGED <<reserved, recorded>> ELSE ReserveVanillaTxos(n, t)
    BY <1>1
  <1>3. online /\ Len(txs) < MaxTxs /\ UNCHANGED <<net, dbSpent, online, cut, faults>>
    BY DEF Begin
  <1>4. /\ known \subseteq k /\ k \subseteq published \cup received
        /\ kind # "drain" => k \subseteq known \cup published
    BY SyncType DEF SyncsOf
  <1>5. /\ t \in Tx /\ t.kind = kind /\ t.held /\ t.dry = dry
        /\ kind = "create" => \A o \in t.ins : ~Colored(o)
        /\ kind = "send" => t.ins \cap dbTxos' = {}
        /\ t.ins \subseteq Unspent(txs, k)
    <2>1. t \in Tx /\ t.kind = kind /\ t.held /\ t.dry = dry /\ t.ins \in InputsOf(kind, k, dbTxos')
      BY <1>2, BegunType
    <2> QED BY <2>1, InputsType
  <1>6. /\ txs' \in Seq(Tx) /\ Len(txs') <= MaxTxs /\ n \in TxNumber
        /\ DOMAIN txs' = DOMAIN txs \cup {n} /\ t = txs'[n]
        /\ \A m \in DOMAIN txs : txs'[m] = txs[m]
    BY <1>2, <1>3, <1>5, AppendType
  <1>7. /\ n \notin DOMAIN txs /\ published \subseteq DOMAIN txs /\ recorded \subseteq DOMAIN txs
        /\ DOMAIN txs \subseteq TxNumber /\ reserved \in [TxNumber -> SUBSET Outpoint]
        /\ t.ins \in SUBSET Outpoint
    BY <1>5, TxsType DEF TypeOK, Tx
  <1>8. dbTxos' = dbTxos \/ dbTxos' = UpdateDbColoredTxos(dbTxos, txs, k)
    BY <1>1 DEF SyncedTxos
  <1>9. /\ dbTxos \subseteq dbTxos' /\ dbTxos' \subseteq {o \in Outpoint : Colored(o)}
        /\ dbTxos' \subseteq Outs(txs, published \cup received)
        /\ \A o \in (dbTxos' \ dbSpent), m \in published : o \in txs[m].ins => m \in cut
        /\ faults \subseteq {"crash"} =>
             \A o \in (dbTxos' \ dbSpent), m \in published : o \notin txs[m].ins
    BY <1>3, <1>4, <1>8, SyncedFacts
  <1>10. /\ Outs(txs', published \cup received) = Outs(txs, published \cup received)
         /\ ColoredUnspent(txs', k) = ColoredUnspent(txs, k)
    BY <1>2, <1>3, <1>4, <1>5, AppendOutputs
  <1>11. /\ \/ dry /\ UNCHANGED <<reserved, recorded>>
            \/ /\ ~dry /\ reserved' = [reserved EXCEPT ![n] = t.ins]
               /\ recorded' = recorded \cup {n} /\ t.ins \cap AllReserved = {}
         /\ \A m \in TxNumber : m # n => reserved'[m] = reserved[m]
         /\ reserved'[n] = IF dry THEN {} ELSE t.ins
    BY <1>2, <1>6, <1>7 DEF ReserveVanillaTxos, Reservations
  <1>12. TypeOK'
    BY <1>1, <1>3, <1>4, <1>6, <1>7, <1>9, <1>11 DEF TypeOK, net
  <1>13. CommittedIsSaved' /\ KnowsItsOwn'
    BY <1>1, <1>3, <1>4 DEF CommittedIsSaved, KnowsItsOwn, TypeOK, net
  <1>14. faults \subseteq {"crash"} => ColoredUnspent(txs, k) \subseteq dbTxos'
    <2>1. CASE kind = "drain"
      BY <1>1, <2>1 DEF SyncedTxos, UpdateDbColoredTxos
    <2>2. CASE kind # "drain"
      BY <1>3, <1>4, <1>9, <2>2 DEF KnowsItsOwn, TableFollows
    <2> QED BY <2>1, <2>2
  <1>15. TableFollows'
    BY <1>1, <1>3, <1>6, <1>7, <1>9, <1>10, <1>14 DEF TableFollows, net
  <1>16. TableExists'
    BY <1>3, <1>9, <1>10 DEF TableExists, net
  <1>17. NoColoredInput'
    <2>1. faults \subseteq {"crash"} /\ kind = "send" => \A o \in t.ins : ~Colored(o)
      BY <1>5, <1>14 DEF ColoredUnspent
    <2> QED BY <1>3, <1>5, <1>6, <2>1 DEF NoColoredInput, Kinds
  <1>18. Reservations'
    <2>1. \A m \in TxNumber : m # n => reserved'[m] \cap reserved'[n] = {}
      BY <1>11 DEF AllReserved
    <2>2. \A l, m \in TxNumber : l # m => reserved'[l] \cap reserved'[m] = {}
      BY <1>11, <2>1 DEF Reservations
    <2> QED BY <1>3, <1>5, <1>6, <1>7, <1>11, <2>2 DEF Reservations, net
  <1>19. PendingIsSafe'
    <2>1. "skip" \notin faults => \A m \in published : t.ins \cap txs[m].ins = {}
      BY <1>3, <1>4, <1>5, <1>7, UnspentIsNotSpent DEF KnowsItsOwn
    <2> QED BY <1>3, <1>6, <1>7, <1>11, <2>1 DEF PendingIsSafe, net
  <1>20. UnspentIsUnspent'
    BY <1>3, <1>6, <1>7, <1>9 DEF UnspentIsUnspent, net
  <1>21. BroadcastIsRecorded'
    BY <1>3, <1>6, <1>7, <1>11 DEF BroadcastIsRecorded, ListedAs, net
  <1> QED BY <1>12, <1>13, <1>15, <1>16, <1>17, <1>18, <1>19, <1>20, <1>21

LEMMA AbortStep ==
    ASSUME IInv, NEW n \in DOMAIN txs, AbortPendingVanillaTx(n)
    PROVE  IInv'
  <1> USE DEF IInv
  <1>1. /\ reserved[n] # {} /\ reserved' = [reserved EXCEPT ![n] = {}]
        /\ recorded' = recorded \ {n} /\ txs' = [txs EXCEPT ![n].dry = TRUE]
        /\ UNCHANGED <<published, received, known, saved, dbTxos, dbSpent, online, cut, faults>>
    BY DEF AbortPendingVanillaTx, net, bdk
  <1>2. /\ txs \in Seq(Tx) /\ DOMAIN txs \subseteq TxNumber /\ published \subseteq DOMAIN txs
        /\ reserved \in [TxNumber -> SUBSET Outpoint] /\ n \in TxNumber /\ txs[n] \in Tx
        /\ known \subseteq published \cup received
    BY TxsType DEF TypeOK
  <1>3. [txs[n] EXCEPT !.dry = TRUE] \in Tx
    BY <1>2 DEF Tx
  <1>4. /\ txs' \in Seq(Tx) /\ Len(txs') = Len(txs) /\ DOMAIN txs' = DOMAIN txs
        /\ \A m \in DOMAIN txs :
             /\ txs'[m].kind = txs[m].kind /\ txs'[m].change = txs[m].change
             /\ txs'[m].ins = txs[m].ins /\ txs'[m].held = txs[m].held
             /\ txs[m].dry => txs'[m].dry
             /\ m # n => txs'[m] = txs[m]
        /\ txs'[n].dry
    <2> DEFINE u == [txs[n] EXCEPT !.dry = TRUE]
    <2>1. txs' = [txs EXCEPT ![n] = u] /\ u \in Tx
      BY <1>1, <1>3
    <2>2. n \in 1 .. Len(txs)
      BY TxsType
    <2> HIDE DEF u
    <2>3. txs' \in Seq(Tx) /\ Len(txs') = Len(txs) /\ DOMAIN txs' = DOMAIN txs
      BY <1>2, <2>1, <2>2, ExceptSeq
    <2> USE DEF u
    <2>4. /\ \A m \in DOMAIN txs : m # n => txs'[m] = txs[m]
          /\ txs'[n] = [txs[n] EXCEPT !.dry = TRUE]
      BY <2>1
    <2>5. /\ txs'[n].kind = txs[n].kind /\ txs'[n].change = txs[n].change
          /\ txs'[n].ins = txs[n].ins /\ txs'[n].held = txs[n].held /\ txs'[n].dry
      BY <1>2, <2>4 DEF Tx
    <2> QED BY <2>3, <2>4, <2>5
  <1>5. /\ \A m \in TxNumber : m # n => reserved'[m] = reserved[m]
        /\ reserved'[n] = {}
    BY <1>1, <1>2
  <1>6. \A k : Outs(txs', k) = Outs(txs, k) /\ ColoredUnspent(txs', k) = ColoredUnspent(txs, k)
    BY <1>4, SameOutputs
  <1>7. TypeOK'
    BY <1>1, <1>2, <1>4 DEF TypeOK
  <1>8. CommittedIsSaved' /\ KnowsItsOwn'
    BY <1>1 DEF CommittedIsSaved, KnowsItsOwn
  <1>9. TableFollows' /\ TableExists'
    BY <1>1, <1>2, <1>4, <1>6 DEF TableFollows, TableExists
  <1>10. NoColoredInput'
    BY <1>1, <1>4 DEF NoColoredInput
  <1>11. Reservations'
    BY <1>1, <1>2, <1>4, <1>5 DEF Reservations
  <1>12. PendingIsSafe'
    BY <1>1, <1>2, <1>4, <1>5 DEF PendingIsSafe
  <1>13. UnspentIsUnspent'
    BY <1>1, <1>2, <1>4 DEF UnspentIsUnspent
  <1>14. BroadcastIsRecorded'
    BY <1>1, <1>2, <1>4, <1>5 DEF BroadcastIsRecorded, ListedAs
  <1> QED BY <1>7, <1>8, <1>9, <1>10, <1>11, <1>12, <1>13, <1>14

\* A sync of either keychain, or the scan of go_online, that commits.
LEMMA SyncStep ==
    ASSUME IInv, NEW k, known \subseteq k, k \subseteq published \cup received,
           known' = k, saved' = k, dbTxos' = UpdateDbColoredTxos(dbTxos, txs, k),
           UNCHANGED <<txs, net, dbSpent, reserved, recorded, cut, faults>>,
           \/ online /\ UNCHANGED online
           \/ /\ online' = TRUE /\ published \subseteq k
              /\ \A o \in (dbTxos' \ dbSpent), n \in published : o \notin txs[n].ins
    PROVE  IInv'
  <1> USE DEF IInv
  <1>1. /\ dbTxos \subseteq dbTxos' /\ dbTxos' \subseteq {o \in Outpoint : Colored(o)}
        /\ dbTxos' \subseteq Outs(txs, published \cup received)
        /\ \A o \in (dbTxos' \ dbSpent), n \in published : o \in txs[n].ins => n \in cut
        /\ faults \subseteq {"crash"} /\ online =>
             \A o \in (dbTxos' \ dbSpent), n \in published : o \notin txs[n].ins
    BY SyncedFacts
  <1>2. TypeOK'
    BY <1>1 DEF TypeOK, net
  <1>3. CommittedIsSaved' /\ KnowsItsOwn'
    BY DEF CommittedIsSaved, KnowsItsOwn, TypeOK, net
  <1>4. ColoredUnspent(txs, k) \subseteq dbTxos'
    BY DEF UpdateDbColoredTxos
  <1>5. TableFollows' /\ TableExists'
    BY <1>1, <1>4 DEF TableFollows, TableExists, net
  <1>6. NoColoredInput' /\ Reservations' /\ PendingIsSafe' /\ BroadcastIsRecorded'
    BY DEF NoColoredInput, Reservations, PendingIsSafe, BroadcastIsRecorded, ListedAs, net
  <1>7. UnspentIsUnspent'
    BY <1>1 DEF UnspentIsUnspent, net
  <1> QED BY <1>2, <1>3, <1>5, <1>6, <1>7

LEMMA GoOnlineStep ==
    ASSUME IInv, GoOnline
    PROVE  IInv'
  <1> USE DEF IInv
  <1>1. /\ known' = Scanned
        /\ UNCHANGED <<txs, net, dbSpent, reserved, recorded, cut, faults>>
        /\ known \subseteq Scanned /\ Scanned \subseteq published \cup received
        /\ published \subseteq Scanned
    BY DEF GoOnline, Scanned, TypeOK
  <1>2. \A n \in published : n \in Scanned \cap DOMAIN txs
    BY <1>1 DEF TypeOK
  <1>3. CASE /\ Consistent /\ saved' = Scanned /\ online' = TRUE
             /\ dbTxos' = UpdateDbColoredTxos(dbTxos, txs, Scanned)
    <2>1. \A o \in (dbTxos' \ dbSpent), n \in published : o \notin txs[n].ins
      BY <1>2, <1>3, UnspentIsNotSpent DEF Consistent
    <2> QED BY <1>1, <1>3, <2>1, SyncStep
  <1>4. CASE ~Consistent /\ UNCHANGED <<saved, dbTxos, online>>
    <2>1. ~(faults \subseteq {"crash"} /\ online)
      <3> SUFFICES ASSUME faults \subseteq {"crash"}, online,
                          NEW o \in UpdateDbColoredTxos(dbTxos, txs, Scanned) \ dbSpent
                   PROVE  o \in Unspent(txs, Scanned)
        BY <1>4 DEF Consistent
      <3>1. CASE o \in ColoredUnspent(txs, Scanned)
        BY <3>1 DEF ColoredUnspent
      <3>2. CASE o \in dbTxos
        <4>1. o \in Outs(txs, Scanned)
          BY <1>1, <3>2, OutsGrow DEF TableExists, Scanned
        <4>2. \A n \in Scanned \cap DOMAIN txs : n \in published
          BY <1>1, TxsType DEF TypeOK
        <4>3. o \notin Ins(txs, Scanned)
          BY <3>2, <4>2 DEF TableFollows, Ins
        <4> QED BY <4>1, <4>3 DEF Unspent
      <3> QED BY <3>1, <3>2 DEF UpdateDbColoredTxos
    <2>2. TypeOK'
      BY <1>1, <1>4 DEF TypeOK, net
    <2>3. CommittedIsSaved' /\ KnowsItsOwn'
      BY <1>1, <1>4 DEF CommittedIsSaved, KnowsItsOwn, net
    <2>4. TableFollows' /\ TableExists'
      BY <1>1, <1>4, <2>1 DEF TableFollows, TableExists, net
    <2>5. NoColoredInput' /\ Reservations' /\ PendingIsSafe'
      BY <1>1, <1>4 DEF NoColoredInput, Reservations, PendingIsSafe, net
    <2>6. UnspentIsUnspent' /\ BroadcastIsRecorded'
      BY <1>1, <1>4 DEF UnspentIsUnspent, BroadcastIsRecorded, ListedAs, net
    <2> QED BY <2>2, <2>3, <2>4, <2>5, <2>6
  <1> QED BY <1>3, <1>4 DEF GoOnline

\* A rolled back call, a crash, a go_online without its check, a payment: the
\* tables stay, and what changes is what BDK knows.
LEMMA OtherStep ==
    ASSUME IInv, RolledBack \/ GoOnlineUnchecked \/ Crash \/ \E r \in Receipts : Receive(r)
    PROVE  IInv'
  <1> USE DEF IInv
  <1>1. /\ UNCHANGED <<txs, published, saved, dbTxos, dbSpent, reserved, recorded, cut>>
        /\ received \subseteq received' /\ received' \subseteq Receipts
        /\ saved \subseteq known' /\ known' \subseteq published \cup received'
        /\ online' \in BOOLEAN /\ faults \subseteq faults' /\ faults' \subseteq Faults
        /\ \/ ~online'
           \/ known' = known /\ (online \/ "skip" \in faults')
           \/ known \subseteq known' /\ online /\ "rollback" \in faults'
    <2>1. CASE RolledBack
      BY <2>1, SyncType DEF RolledBack, Faulty, TypeOK, net
    <2>2. CASE GoOnlineUnchecked
      BY <2>2 DEF GoOnlineUnchecked, Faulty, TypeOK, net, bdk
    <2>3. CASE Crash
      BY <2>3 DEF Crash, Faulty, TypeOK, net
    <2>4. CASE \E r \in Receipts : Receive(r)
      BY <2>4 DEF Receive, TypeOK, bdk
    <2> QED BY <2>1, <2>2, <2>3, <2>4
  <1>2. TypeOK'
    BY <1>1 DEF TypeOK
  <1>3. CommittedIsSaved' /\ KnowsItsOwn'
    BY <1>1 DEF CommittedIsSaved, KnowsItsOwn
  <1>4. TableFollows'
    BY <1>1 DEF TableFollows
  <1>5. TableExists'
    <2>1. Outs(txs, published \cup received) \subseteq Outs(txs, published \cup received')
      BY <1>1, OutsGrow
    <2> QED BY <1>1, <2>1 DEF TableExists
  <1>6. NoColoredInput' /\ Reservations' /\ PendingIsSafe'
    BY <1>1 DEF NoColoredInput, Reservations, PendingIsSafe
  <1>7. UnspentIsUnspent' /\ BroadcastIsRecorded'
    BY <1>1 DEF UnspentIsUnspent, BroadcastIsRecorded, ListedAs
  <1> QED BY <1>2, <1>3, <1>4, <1>5, <1>6, <1>7

-----------------------------------------------------------------------------
LEMMA InitIInv == Init => IInv
  <1> SUFFICES ASSUME Init PROVE IInv
    OBVIOUS
  <1>1. txs = <<>> /\ txs \in Seq(Tx) /\ Len(txs) = 0 /\ DOMAIN txs = {}
    BY DEF Init
  <1>2. TypeOK
    <2>1. reserved \in [TxNumber -> SUBSET Outpoint]
      BY DEF Init
    <2>2. txs \in Seq(Tx) /\ Len(txs) <= MaxTxs
      BY <1>1, VanillaAssumption
    <2>3. /\ published = {} /\ received = {} /\ known = {} /\ saved = {} /\ dbTxos = {}
          /\ dbSpent = {} /\ recorded = {} /\ cut = {} /\ faults = {} /\ online \in BOOLEAN
      BY DEF Init
    <2> QED BY <2>1, <2>2, <2>3 DEF TypeOK
  <1>3. ColoredUnspent(txs, known) = {}
    BY <1>1 DEF Init, ColoredUnspent, Unspent, Outs, Colored
  <1>4. Reservations
    BY <1>1 DEF Init, Reservations
  <1> QED BY <1>1, <1>2, <1>3, <1>4
          DEF Init, IInv, CommittedIsSaved, KnowsItsOwn, TableFollows, TableExists,
              NoColoredInput, PendingIsSafe, UnspentIsUnspent, BroadcastIsRecorded

LEMMA NextIInv == IInv /\ [Next]_vars => IInv'
  <1> SUFFICES ASSUME IInv, [Next]_vars PROVE IInv'
    OBVIOUS
  <1>1. ASSUME NEW dry \in BOOLEAN,
               CreateUtxosBegin(dry) \/ SendBtcBegin(dry) \/ DrainToBegin(dry)
        PROVE  IInv'
    BY <1>1, BeginStep DEF CreateUtxosBegin, SendBtcBegin, DrainToBegin, Kinds
  <1>2. ASSUME NEW n \in DOMAIN txs, CreateUtxosEnd(n) \/ SendBtcEnd(n) \/ DrainToEnd(n)
        PROVE  IInv'
    BY <1>2, EndStep DEF CreateUtxosEnd, SendBtcEnd, DrainToEnd, Kinds
  <1>3. CASE CreateUtxos \/ SendBtc \/ DrainTo
    BY <1>3, InOneCallStep DEF CreateUtxos, SendBtc, DrainTo, Kinds
  <1>4. ASSUME NEW n \in DOMAIN txs, AbortPendingVanillaTx(n)
        PROVE  IInv'
    BY <1>4, AbortStep
  <1>5. CASE SyncColored
    <2>1. PICK k \in FastSynced({"colored"}) :
              known' = k /\ saved' = k /\ dbTxos' = UpdateDbColoredTxos(dbTxos, txs, k)
      BY <1>5 DEF SyncColored
    <2>2. known \subseteq k /\ k \subseteq published \cup received
      BY SyncType DEF IInv
    <2> QED BY <1>5, <2>1, <2>2, SyncStep DEF SyncColored
  <1>6. CASE UNCHANGED vars
    BY <1>6 DEF vars, IInv, TypeOK, CommittedIsSaved, KnowsItsOwn, TableFollows, TableExists, NoColoredInput,
                Reservations, PendingIsSafe, UnspentIsUnspent, BroadcastIsRecorded, ListedAs, net, bdk
  <1> QED BY <1>1, <1>2, <1>3, <1>4, <1>5, <1>6, GoOnlineStep, OtherStep DEF Next

\* The inductive invariant.
LEMMA Inductive == Spec => []IInv
  BY InitIInv, NextIInv, PTL DEF Spec

-----------------------------------------------------------------------------
\* The tables name transactions there are and BDK knows what the network has.
THEOREM VanillaTypes == Spec => []TypeOK
  <1>1. IInv => TypeOK
    BY DEF IInv
  <1> QED BY <1>1, Inductive, PTL

\* What a begin reserved stays for its end, but for drains and for PSBTs that
\* were never reserved (reserve_vanilla_txos, create_utxos_begin_impl).
THEOREM ReservedInputsStay == Spec => []PendingIsSafe
  <1>1. IInv => PendingIsSafe
    BY DEF IInv
  <1> QED BY <1>1, Inductive, PTL

\* create_utxos and send_btc spend no colored output, as long as no call fails
\* half-way (update_db_colored_txos_from_bdk, get_unspendable_bdk_outpoints).
THEOREM ColoredOutputsStay == Spec => []ColoredIsKept
  <1>1. IInv => ColoredIsKept
    BY DEF IInv, NoColoredInput, ColoredIsKept, TypeOK
  <1> QED BY <1>1, Inductive, PTL

\* The table txo calls unspent only what is unspent on the network, but for the
\* inputs of a call that was cut short (broadcast_psbt, go_online).
THEOREM TableIsTruthful == Spec => []UnspentIsUnspent
  <1>1. IInv => UnspentIsUnspent
    BY DEF IInv
  <1> QED BY <1>1, Inductive, PTL

\* A broadcast that committed is listed under its type and reserves nothing
\* (finalize_vanilla_wallet_transaction).
THEOREM CommittedIsListed == Spec => []BroadcastIsRecorded
  <1>1. IInv => BroadcastIsRecorded
    BY DEF IInv
  <1> QED BY <1>1, Inductive, PTL
=============================================================================
