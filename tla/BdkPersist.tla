------------------------------ MODULE BdkPersist ------------------------------
(***************************************************************************)
(* How the BDK wallet inside an rgb-lib wallet survives rolled back        *)
(* transactions, failing I/O and crashes.                                  *)
(*                                                                         *)
(* BDK keeps its state in memory and stages what changes.  rgb-lib writes  *)
(* the changes in the database transaction of the operation that made them *)
(* (persist_and_commit).  A broadcast cannot wait for that commit, which   *)
(* may never come: it first saves a copy in bdk_pending.json, by way of a  *)
(* temporary file (flush_bdk_pending), for setup_bdk to fold back in.      *)
(*                                                                         *)
(* A crash may come between any two steps.  Of a changeset the model keeps *)
(* what BDK merges in different ways: the descriptors ("made"), an index   *)
(* that only grows ("revealed": how many addresses), a set ("txs"), and an *)
(* entry that the later write replaces ("tip": the block at some height or *)
(* the time a TX was last seen, numbered in the order of the syncs that    *)
(* brought them; 0 is no entry).  The keychains have independent rows: one *)
(* is modelled.                                                            *)
(*                                                                         *)
(* A definition marked "mutant" is a wrong version of the one after it,    *)
(* used only to see that a property notices.                               *)
(***************************************************************************)
EXTENDS Naturals

CONSTANTS
    Txs,        \* transactions the wallet broadcasts
    Gone,       \* what a path without a file holds
    Old,        \* the legacy BDK stores there may be at the first start
    MaxReveal,  \* bound: addresses
    MaxSyncs    \* bound: syncs that find something new

ChangeSet == [made: BOOLEAN, revealed: Nat, txs: SUBSET Txs, tip: Nat]
Nothing == [made |-> FALSE, revealed |-> 0, txs |-> {}, tip |-> 0]
Fresh == [Nothing EXCEPT !.made = TRUE]

\* a file: what can be read from it, and whether it was written to its end;
\* nothing can be read from a pending file that was not
File == [content: ChangeSet, whole: BOOLEAN]
Whole(cs) == [content |-> cs, whole |-> TRUE]
Torn == [content |-> Nothing, whole |-> FALSE]

Legacy == {"bdk_db", "bdk_db_watch_only"}
Copies == {"bdk_pending.json", ".bdk_pending.json.tmp"}
Paths == Legacy \cup Copies

ASSUME FileAssumption == Gone \notin File
ASSUME OldAssumption == \A f \in Old : f \in File /\ f.content.made
ASSUME BoundAssumption == MaxReveal \in Nat /\ MaxSyncs \in Nat

VARIABLES
    up,       \* whether there is a Wallet object
    phase,    \* what it, or its constructor, is doing
    mem,      \* the state of the BDK wallet in memory
    staged,   \* its changes that were not taken yet
    pending,  \* bdk_pending: changes taken and not known to be committed
    txn,      \* the database as the open transaction sees it
    todo,     \* the files to remove once it is committed
    db,       \* the committed database
    disk,     \* the files
    syncs,    \* how many syncs found something new
    asked,    \* the addresses revealed for the running operation
    handed,   \* the addresses given to a caller, ever
    saved     \* mem, when rgb-lib last said it was safe

memory == <<mem, staged, pending>>
promises == <<asked, handed, saved>>
vars == <<up, phase, memory, txn, todo, db, disk, syncs, promises>>

Phase == {"down", "idle", "working", "flushing", "writing", "written",
          "committing", "committed"}

-----------------------------------------------------------------------------
(* Changesets                                                              *)

Greater(m, n) == IF m > n THEN m ELSE n
Later(m, n) == IF n = 0 THEN m ELSE n

Empty(cs) == cs = Nothing

\* ChangeSet::merge of BDK
Merge(cs, more) ==
    [made     |-> cs.made \/ more.made,
     revealed |-> Greater(cs.revealed, more.revealed),
     txs      |-> cs.txs \cup more.txs,
     tip      |-> Later(cs.tip, more.tip)]

\* mutant: the last writer sets the index
UpsertIndex(rows, cs) ==
    [made     |-> rows.made \/ cs.made,
     revealed |-> Later(rows.revealed, cs.revealed),
     txs      |-> rows.txs \cup cs.txs,
     tip      |-> Later(rows.tip, cs.tip)]

\* persist_changeset: upserts, of which that of last_revealed never lowers
\* the stored index
Upsert(rows, cs) ==
    [made     |-> rows.made \/ cs.made,
     revealed |-> Greater(rows.revealed, cs.revealed),
     txs      |-> rows.txs \cup cs.txs,
     tip      |-> Later(rows.tip, cs.tip)]

Content(path) == IF disk[path] = Gone THEN Nothing ELSE disk[path].content

\* import_legacy_bdk_store, for which there is no need once the database has
\* anything
Imported ==
    IF Empty(db)
    THEN Upsert(Upsert(db, Content("bdk_db")), Content("bdk_db_watch_only"))
    ELSE db

\* what the database transaction of setup_bdk holds before it loads the wallet
Recovered ==
    Upsert(Upsert(Imported, Content("bdk_pending.json")),
           Content(".bdk_pending.json.tmp"))

-----------------------------------------------------------------------------
(* Starting                                                                *)

Init ==
    /\ up = FALSE /\ phase = "down"
    /\ mem = Nothing /\ staged = Nothing /\ pending = Nothing
    /\ txn = Nothing /\ todo = {}
    /\ db = Nothing
    /\ disk \in {d \in [Paths -> Old \cup {Gone}] : \A f \in Copies : d[f] = Gone}
    /\ syncs = 0
    /\ asked = {} /\ handed = 1 .. Recovered.revealed
    /\ saved = Recovered

\* setup_bdk: fold in what the last run left, load BDK from that or create it;
\* an Err on the way leaves all as it was
Setup ==
    LET loaded == IF Empty(Recovered) THEN Fresh ELSE Recovered
    IN  /\ phase = "down"
        /\ phase' = "committing"
        /\ txn' = loaded
        /\ mem' = loaded
        /\ todo' = {f \in Copies : disk[f] # Gone} \cup
                   {f \in Legacy : Empty(db) /\ disk[f] # Gone /\ disk[f].whole}
        /\ UNCHANGED <<up, staged, pending, db, disk, syncs, promises>>

-----------------------------------------------------------------------------
(* Operations                                                              *)

\* an operation of the wallet starts, with its database transaction
Start ==
    /\ phase = "idle"
    /\ phase' = "working"
    /\ UNCHANGED <<up, memory, txn, todo, db, disk, syncs, promises>>

Stage(cs) ==
    /\ mem' = Merge(mem, cs)
    /\ staged' = Merge(staged, cs)
    /\ UNCHANGED pending

\* get_new_addresses
Reveal ==
    /\ phase = "working"
    /\ mem.revealed < MaxReveal
    /\ Stage([Nothing EXCEPT !.revealed = mem.revealed + 1])
    /\ asked' = asked \cup {mem.revealed + 1}
    /\ UNCHANGED <<up, phase, txn, todo, db, disk, syncs, handed, saved>>

\* sync_bdk_and_db_txos: apply_update
Sync ==
    /\ phase = "working"
    /\ syncs < MaxSyncs
    /\ syncs' = syncs + 1
    /\ Stage([Nothing EXCEPT !.tip = syncs'])
    /\ UNCHANGED <<up, phase, txn, todo, db, disk, promises>>

\* broadcast_psbt, up to its call of flush_bdk_pending; again, perhaps, for a
\* TX that was broadcast before
Broadcast(t) ==
    /\ phase = "working"
    /\ phase' = "flushing"
    /\ Stage([Nothing EXCEPT !.txs = {t}])
    /\ UNCHANGED <<up, txn, todo, db, disk, syncs, promises>>

TakeStaged ==
    /\ pending' = Merge(pending, staged)
    /\ staged' = Nothing
    /\ UNCHANGED mem

\* mutant: the file is written in place
FlushInPlace ==
    /\ phase = "flushing"
    /\ phase' = "writing"
    /\ TakeStaged
    /\ disk' = [disk EXCEPT ![".bdk_pending.json.tmp"] = Torn,
                            !["bdk_pending.json"] = Torn]
    /\ UNCHANGED <<up, txn, todo, db, syncs, promises>>

\* flush_bdk_pending: the TX just applied is in the changeset, which is thus
\* not empty; a temporary file from before is lost as the new one is begun
Flush ==
    /\ phase = "flushing"
    /\ phase' = "writing"
    /\ TakeStaged
    /\ disk' = [disk EXCEPT ![".bdk_pending.json.tmp"] = Torn]
    /\ UNCHANGED <<up, txn, todo, db, syncs, promises>>

\* the temporary file is complete and synced
Written ==
    /\ phase = "writing"
    /\ phase' = "written"
    /\ disk' = [disk EXCEPT ![".bdk_pending.json.tmp"] = Whole(pending)]
    /\ UNCHANGED <<up, memory, txn, todo, db, syncs, promises>>

\* it takes its place; the sync of the directory may still fail
Renamed ==
    /\ phase = "written"
    /\ phase' = "working"
    /\ disk' = [disk EXCEPT !["bdk_pending.json"] = disk[".bdk_pending.json.tmp"],
                            ![".bdk_pending.json.tmp"] = Gone]
    /\ saved' \in {mem, saved}
    /\ UNCHANGED <<up, memory, txn, todo, db, syncs, asked, handed>>

\* an I/O error; the operation fails, or goes on if it is a refresh and this
\* was the Err of one of its transfers
FlushFails ==
    /\ phase \in {"writing", "written"}
    /\ phase' = "working"
    /\ UNCHANGED <<up, memory, txn, todo, db, disk, syncs, promises>>

\* mutant: what was written is not pending any more
PersistAndForget ==
    /\ phase = "working"
    /\ phase' = "committing"
    /\ txn' = Upsert(db, Merge(pending, staged))
    /\ mem' = mem /\ staged' = Nothing /\ pending' = Nothing
    /\ todo' = IF Empty(Merge(pending, staged)) THEN {} ELSE {"bdk_pending.json"}
    /\ UNCHANGED <<up, db, disk, syncs, promises>>

\* persist_bdk: the changes stay pending until the transaction is committed
Persist ==
    /\ phase = "working"
    /\ phase' = "committing"
    /\ TakeStaged
    /\ txn' = Upsert(db, pending')
    /\ todo' = IF Empty(pending') THEN {} ELSE {"bdk_pending.json"}
    /\ UNCHANGED <<up, db, disk, syncs, promises>>

\* the operation returns an Err and its transaction is rolled back, before
\* persist_bdk or in it
RollBack ==
    /\ phase = "working"
    /\ phase' = "idle"
    /\ TakeStaged \/ UNCHANGED memory
    /\ asked' = {}
    /\ UNCHANGED <<up, txn, todo, db, disk, syncs, handed, saved>>

-----------------------------------------------------------------------------
(* DbTxn::commit                                                           *)

\* the callback of persist_bdk empties the pending changes; a crash between
\* the commit and that would lose them anyhow
Commit ==
    /\ phase = "committing"
    /\ phase' = "committed"
    /\ db' = txn
    /\ txn' = Nothing
    /\ pending' = Nothing
    /\ UNCHANGED <<up, mem, staged, todo, disk, syncs, promises>>

\* mutant: the callbacks stay registered
CommitFailsRegistered ==
    /\ phase = "committing"
    /\ phase' = IF up THEN "idle" ELSE "down"
    /\ mem' = IF up THEN mem ELSE Nothing
    /\ txn' = Nothing /\ asked' = {}
    /\ UNCHANGED <<up, staged, pending, todo, db, disk, syncs, handed, saved>>

\* nothing is committed and the callbacks are dropped; there is no wallet if
\* this was its constructor
CommitFails ==
    /\ phase = "committing"
    /\ phase' = IF up THEN "idle" ELSE "down"
    /\ mem' = IF up THEN mem ELSE Nothing
    /\ txn' = Nothing /\ todo' = {} /\ asked' = {}
    /\ UNCHANGED <<up, staged, pending, db, disk, syncs, handed, saved>>

\* a callback removes its file, or fails to and says nothing; the order they
\* run in does not show
Remove(path) ==
    /\ path \in todo
    /\ todo' = todo \ {path}
    /\ phase = "committed"
    /\ disk' \in {disk, [disk EXCEPT ![path] = Gone]}
    /\ UNCHANGED <<up, phase, memory, txn, db, syncs, promises>>

\* the operation returns Ok, the constructor a wallet
Return ==
    /\ phase = "committed" /\ todo = {}
    /\ phase' = "idle"
    /\ up' = TRUE
    /\ handed' = handed \cup asked
    /\ asked' = {}
    /\ saved' = mem
    /\ UNCHANGED <<memory, txn, todo, db, disk, syncs>>

\* the process ends; only what is on disk stays
Crash ==
    /\ phase # "down"
    /\ up' = FALSE /\ phase' = "down"
    /\ mem' = Nothing /\ staged' = Nothing /\ pending' = Nothing
    /\ txn' = Nothing /\ todo' = {} /\ asked' = {}
    /\ UNCHANGED <<db, disk, syncs, handed, saved>>

Next ==
    \/ Setup
    \/ Start
    \/ Reveal
    \/ Sync
    \/ \E t \in Txs : Broadcast(t)
    \/ Flush
    \/ Written
    \/ Renamed
    \/ FlushFails
    \/ Persist
    \/ RollBack
    \/ Commit
    \/ CommitFails
    \/ \E path \in Paths : Remove(path)
    \/ Return
    \/ Crash

Spec == Init /\ [][Next]_vars

-----------------------------------------------------------------------------
(* Properties                                                              *)

\* The variables have their types, callbacks are registered only with a
\* transaction that can still run them, and memory is empty without a wallet.
TypeOK ==
    /\ up \in BOOLEAN /\ phase \in Phase
    /\ mem \in ChangeSet /\ staged \in ChangeSet /\ pending \in ChangeSet
    /\ txn \in ChangeSet /\ db \in ChangeSet
    /\ disk \in [Paths -> File \cup {Gone}]
    /\ todo \subseteq Paths
    /\ todo # {} => phase \in {"committing", "committed"}
    /\ syncs \in Nat
    /\ asked \subseteq Nat /\ handed \subseteq Nat
    /\ saved \in ChangeSet

\* Neither a failed write nor a rollback loses a change: as long as the process
\* lives, what BDK has in memory is what the database, the pending changes and
\* the staged ones add up to (core.rs, persist_bdk).
NothingIsLost ==
    up => mem = Upsert(db, Merge(pending, staged))

\* A crash at any moment, with any file half written or left behind, loses no
\* TX whose broadcast was acknowledged, no address revealed before that and
\* nothing an operation that returned Ok had changed (broadcast_psbt, setup_bdk).
SavedIsRecovered ==
    /\ saved.txs \subseteq Recovered.txs
    /\ saved.revealed <= Recovered.revealed

\* No address is given out twice, whatever failed, crashed or was restored in
\* between, a legacy store included (import_legacy_bdk_store, persist_changeset).
AddressIsFresh == asked \cap handed = {}
=============================================================================
