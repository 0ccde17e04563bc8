--------------------------- MODULE BdkPersistProofs ---------------------------
(* What BdkPersist promises holds for any transactions, any legacy stores and *)
(* any number of addresses and syncs.  The invariant follows what rgb-lib     *)
(* said was safe (saved, handed) through its places: the memory of the        *)
(* process, the database together with the pending file, the database alone   *)
(* once that file may be removed.                                             *)
EXTENDS BdkPersist, TLAPS

(***************************************************************************)
(* Changesets                                                              *)
(***************************************************************************)

LEMMA NothingType == Nothing \in ChangeSet /\ Fresh \in ChangeSet /\ Fresh # Nothing
  BY DEF Nothing, Fresh, ChangeSet

LEMMA MergeType ==
    ASSUME NEW a \in ChangeSet, NEW b \in ChangeSet
    PROVE  Merge(a, b) \in ChangeSet /\ Upsert(a, b) \in ChangeSet
  BY DEF Merge, Upsert, ChangeSet, Greater, Later

\* Writing to the database is what merging in memory is, which is what lets
\* the two be compared at all.
LEMMA UpsertIsMerge ==
    ASSUME NEW a \in ChangeSet, NEW b \in ChangeSet
    PROVE  Upsert(a, b) = Merge(a, b)
  BY DEF Merge, Upsert

LEMMA MergeNothing ==
    ASSUME NEW a \in ChangeSet
    PROVE  Merge(a, Nothing) = a /\ Upsert(a, Nothing) = a
  BY DEF Merge, Upsert, ChangeSet, Greater, Later, Nothing

LEMMA MergeAssociates ==
    ASSUME NEW a \in ChangeSet, NEW b \in ChangeSet, NEW c \in ChangeSet
    PROVE  Merge(Merge(a, b), c) = Merge(a, Merge(b, c))
  BY DEF Merge, ChangeSet, Greater, Later

\* A write takes no transaction and no revealed address away.
LEMMA UpsertGrows ==
    ASSUME NEW a \in ChangeSet, NEW b \in ChangeSet
    PROVE  /\ a.txs \subseteq Upsert(a, b).txs /\ a.revealed <= Upsert(a, b).revealed
           /\ b.txs \subseteq Upsert(a, b).txs /\ b.revealed <= Upsert(a, b).revealed
           /\ a # Nothing => Upsert(a, b) # Nothing
  BY DEF Upsert, ChangeSet, Greater, Later, Nothing

\* A change made to the BDK wallet while it runs is staged as a whole.
LEMMA StageAdds ==
    ASSUME NEW a \in ChangeSet, NEW p \in ChangeSet, NEW s \in ChangeSet,
           NEW c \in ChangeSet
    PROVE  Upsert(a, Merge(p, Merge(s, c))) = Merge(Upsert(a, Merge(p, s)), c)
  <1>1. Upsert(a, Merge(p, Merge(s, c))) = Merge(a, Merge(Merge(p, s), c))
    BY MergeAssociates, MergeType, UpsertIsMerge
  <1>2. @ = Merge(Merge(a, Merge(p, s)), c)
    BY MergeAssociates, MergeType
  <1> QED
    BY <1>1, <1>2, MergeType, UpsertIsMerge

(***************************************************************************)
(* The inductive invariant                                                 *)
(***************************************************************************)

\* What rgb-lib said was safe, and the addresses it gave out, are in cs.
Covers(cs) ==
    /\ saved.txs \subseteq cs.txs
    /\ saved.revealed <= cs.revealed
    /\ handed \subseteq 1 .. cs.revealed

\* What the phases mean for the changes in memory.
Shape ==
    /\ phase = "down" => ~up
    /\ phase \in {"idle", "working", "flushing", "writing", "written"} => up
    /\ ~up => staged = Nothing /\ pending = Nothing /\ asked = {}
    /\ phase \in {"writing", "written", "committing", "committed"}
           => staged = Nothing
    /\ phase = "written"
           => disk[".bdk_pending.json.tmp"] = Whole(pending)
    /\ phase = "committing" => mem = txn /\ txn # Nothing
    /\ phase = "committed" => pending = Nothing /\ mem = db
    /\ up \/ phase = "committed" => db # Nothing

\* Where what was saved is: always on disk; in memory while there is any; and
\* without the temporary file, which is about to be overwritten, once up.
Kept ==
    /\ Covers(Recovered)
    /\ phase # "down" => Covers(mem)
    /\ up => /\ saved.txs \subseteq Upsert(db, Content("bdk_pending.json")).txs
             /\ saved.revealed <= Upsert(db, Content("bdk_pending.json")).revealed
             /\ handed \subseteq 1 .. db.revealed

Revealed ==
    /\ phase # "down" => asked \subseteq 1 .. mem.revealed
    /\ AddressIsFresh

IInv == TypeOK /\ Shape /\ NothingIsLost /\ Kept /\ Revealed

(***************************************************************************)
(* What a restart finds                                                    *)
(***************************************************************************)

LEMMA PathNames ==
    /\ "bdk_pending.json" \in Paths
    /\ ".bdk_pending.json.tmp" \in Paths
    /\ "bdk_pending.json" # ".bdk_pending.json.tmp"
  BY DEF Paths, Copies

LEMMA ContentType ==
    ASSUME disk \in [Paths -> File \cup {Gone}], NEW path \in Paths
    PROVE  Content(path) \in ChangeSet
  BY NothingType DEF Content, File

LEMMA RecoveredType ==
    ASSUME disk \in [Paths -> File \cup {Gone}], db \in ChangeSet
    PROVE  Imported \in ChangeSet /\ Recovered \in ChangeSet
  <1>1. \A path \in Paths : Content(path) \in ChangeSet
    BY ContentType
  <1>2. Imported \in ChangeSet
    BY <1>1, MergeType DEF Imported, Paths, Legacy
  <1> QED
    BY <1>1, <1>2, MergeType DEF Recovered, Paths, Copies

\* Once the database has anything, the next start finds at least that and
\* what the pending file holds.
LEMMA RecoveredNext ==
    ASSUME disk' \in [Paths -> File \cup {Gone}], db' \in ChangeSet,
           db' # Nothing
    PROVE  LET kept == Upsert(db, Content("bdk_pending.json"))'
           IN  /\ db'.txs \subseteq kept.txs /\ kept.txs \subseteq Recovered'.txs
               /\ db'.revealed <= kept.revealed
               /\ kept.revealed <= Recovered'.revealed
               /\ kept \in ChangeSet /\ Recovered' \in ChangeSet
  <1>1. Content("bdk_pending.json")' \in ChangeSet
        /\ Content(".bdk_pending.json.tmp")' \in ChangeSet
    BY NothingType DEF Content, File, Paths, Copies
  <1>2. Imported' = db'
    BY DEF Imported, Empty
  <1>3. Upsert(db, Content("bdk_pending.json"))' \in ChangeSet
    BY <1>1, MergeType
  <1>4. Recovered' = Upsert(Upsert(db, Content("bdk_pending.json"))',
                            Content(".bdk_pending.json.tmp")')
    BY <1>2 DEF Recovered
  <1> QED
    BY <1>1, <1>3, <1>4, UpsertGrows, MergeType

LEMMA SameStore ==
    ASSUME UNCHANGED <<db, disk>>
    PROVE  /\ Recovered' = Recovered
           /\ Content("bdk_pending.json")' = Content("bdk_pending.json")
  BY DEF Recovered, Imported, Content

\* In the memory of a wallet is what its database holds, and the sum of that
\* and the changes to come has a type.
LEMMA SumType ==
    ASSUME TypeOK
    PROVE  /\ Merge(pending, staged) \in ChangeSet
           /\ Upsert(db, Merge(pending, staged)) \in ChangeSet
           /\ Upsert(db, pending) \in ChangeSet
  BY MergeType DEF TypeOK

(***************************************************************************)
(* The invariant is inductive                                              *)
(***************************************************************************)

LEMMA InitHolds == Init => IInv
  <1> SUFFICES ASSUME Init PROVE IInv
    OBVIOUS
  <1>1. disk \in [Paths -> File \cup {Gone}] /\ db \in ChangeSet
    BY OldAssumption, NothingType DEF Init
  <1>2. Recovered \in ChangeSet
    BY <1>1, RecoveredType
  <1>3. TypeOK
    <2>1. handed \subseteq Nat
      BY <1>2 DEF Init, ChangeSet
    <2> QED
      BY <1>1, <1>2, <2>1, NothingType DEF Init, TypeOK, Phase
  <1>4. Shape /\ NothingIsLost
    BY DEF Init, Shape, NothingIsLost
  <1>5. Kept /\ Revealed
    BY <1>2 DEF Init, Kept, Covers, Revealed, AddressIsFresh, ChangeSet
  <1> QED
    BY <1>3, <1>4, <1>5 DEF IInv

\* A start loads all that can be recovered.
LEMMA SetupKeeps ==
    ASSUME IInv, Setup
    PROVE  IInv'
  <1> DEFINE loaded == IF Empty(Recovered) THEN Fresh ELSE Recovered
  <1>1. Recovered \in ChangeSet
    BY RecoveredType DEF IInv, TypeOK
  <1>2. loaded \in ChangeSet /\ loaded # Nothing
    BY <1>1, NothingType DEF Empty
  <1>3. Covers(loaded)
    BY DEF IInv, Kept, Covers, Empty, Fresh, Nothing
  <1>4. ~up /\ staged = Nothing /\ pending = Nothing /\ asked = {}
    BY DEF IInv, Shape, Setup
  <1>5. TypeOK'
    BY <1>2 DEF IInv, TypeOK, Setup, Phase, Paths, promises
  <1>6. Shape' /\ NothingIsLost'
    BY <1>2, <1>4 DEF Setup, Shape, NothingIsLost, promises
  <1>7. Covers(loaded)' /\ Covers(Recovered)'
    BY <1>3, SameStore DEF Setup, IInv, Kept, Covers, promises
  <1>8. Kept'
    BY <1>3, <1>4, <1>7 DEF Setup, Kept, Covers, promises
  <1>9. Revealed'
    BY <1>4 DEF Setup, Revealed, AddressIsFresh, promises
  <1> QED
    BY <1>5, <1>6, <1>8, <1>9 DEF IInv

LEMMA StartKeeps ==
    ASSUME IInv, Start
    PROVE  IInv'
  <1>1. TypeOK'
    BY DEF IInv, TypeOK, Start, Phase, memory, promises
  <1>2. Shape' /\ NothingIsLost'
    BY DEF IInv, Start, Shape, NothingIsLost, memory, promises
  <1>3. Kept' /\ Revealed'
    BY SameStore DEF IInv, Start, Shape, Kept, Covers, Revealed, AddressIsFresh,
                     memory, promises
  <1> QED
    BY <1>1, <1>2, <1>3 DEF IInv

\* A change of the BDK wallet reaches its memory and its stage alike.
LEMMA StageKeeps ==
    ASSUME IInv, NEW cs \in ChangeSet, phase = "working", Stage(cs),
           phase' \in {"working", "flushing"}, syncs' \in Nat,
           UNCHANGED <<up, txn, todo, db, disk, handed, saved>>
    PROVE  /\ TypeOK' \/ asked' \notin SUBSET Nat
           /\ Shape' /\ NothingIsLost' /\ Kept'
           /\ mem.revealed <= mem'.revealed
           /\ mem' \in ChangeSet
  <1>1. up
    BY DEF IInv, Shape
  <1>2. mem = Upsert(db, Merge(pending, staged))
    BY <1>1 DEF IInv, NothingIsLost
  <1>3. mem' \in ChangeSet /\ staged' \in ChangeSet
    BY MergeType DEF IInv, TypeOK, Stage
  <1>4. mem' = Upsert(mem, cs)
    BY UpsertIsMerge DEF IInv, TypeOK, Stage
  <1>5. mem.txs \subseteq mem'.txs /\ mem.revealed <= mem'.revealed
    BY <1>4, UpsertGrows DEF IInv, TypeOK
  <1>6. NothingIsLost'
    <2>1. Upsert(db, Merge(pending, Merge(staged, cs))) = Merge(mem, cs)
      BY <1>2, StageAdds DEF IInv, TypeOK
    <2> QED
      BY <2>1 DEF NothingIsLost, Stage
  <1>7. TypeOK' \/ asked' \notin SUBSET Nat
    BY <1>3 DEF IInv, TypeOK, Stage, Phase
  <1>8. Shape'
    BY <1>1 DEF IInv, Shape, Stage
  <1>9. Covers(mem)'
    BY <1>1, <1>3, <1>5 DEF IInv, TypeOK, Kept, Covers, ChangeSet
  <1>10. Kept'
    BY <1>1, <1>9, SameStore DEF IInv, Kept, Covers
  <1> QED
    BY <1>3, <1>5, <1>6, <1>7, <1>8, <1>10

LEMMA NextIndex ==
    ASSUME NEW n \in Nat, NEW S \in SUBSET (1 .. n), NEW T \in SUBSET (1 .. n),
           S \cap T = {}
    PROVE  /\ S \cup {n + 1} \subseteq 1 .. (n + 1)
           /\ (S \cup {n + 1}) \cap T = {}
  <1>1. 1 .. n \subseteq 1 .. (n + 1) /\ n + 1 \in 1 .. (n + 1)
    OBVIOUS
  <1>2. n + 1 \notin 1 .. n
    OBVIOUS
  <1> QED
    BY <1>1, <1>2

LEMMA RevealKeeps ==
    ASSUME IInv, Reveal
    PROVE  IInv'
  <1> DEFINE cs == [Nothing EXCEPT !.revealed = mem.revealed + 1]
  <1>1. mem.revealed + 1 \in Nat /\ cs \in ChangeSet
    <2>1. mem \in ChangeSet
      BY DEF IInv, TypeOK
    <2>2. mem.revealed + 1 \in Nat
      BY <2>1 DEF ChangeSet
    <2> QED
      BY <2>2 DEF ChangeSet, Nothing
  <1>2. /\ TypeOK' \/ asked' \notin SUBSET Nat
        /\ Shape' /\ NothingIsLost' /\ Kept'
    BY <1>1, StageKeeps DEF Reveal, IInv, TypeOK
  <1>3. mem'.revealed = mem.revealed + 1
    BY <1>1 DEF Reveal, Stage, Merge, Greater, Nothing, IInv, TypeOK, ChangeSet
  <1>4. phase # "down" /\ asked \subseteq 1 .. mem.revealed
        /\ handed \subseteq 1 .. mem.revealed
    BY DEF Reveal, IInv, Kept, Covers, Revealed
  <1>5. Revealed'
    <2>1. mem.revealed \in Nat
      BY DEF IInv, TypeOK, ChangeSet
    <2>2. asked' = asked \cup {mem.revealed + 1} /\ handed' = handed
      BY DEF Reveal
    <2>3. asked \cap handed = {}
      BY DEF IInv, Revealed, AddressIsFresh
    <2>4. asked' \subseteq 1 .. (mem.revealed + 1) /\ asked' \cap handed' = {}
      BY <1>4, <2>1, <2>2, <2>3, NextIndex
    <2> QED
      BY <1>3, <2>4 DEF Revealed, AddressIsFresh
  <1>6. asked' \subseteq Nat
    BY <1>1 DEF Reveal, IInv, TypeOK
  <1> QED
    BY <1>2, <1>5, <1>6 DEF IInv

LEMMA SyncKeeps ==
    ASSUME IInv, Sync
    PROVE  IInv'
  <1> DEFINE cs == [Nothing EXCEPT !.tip = syncs']
  <1>1. syncs' \in Nat /\ cs \in ChangeSet
    <2>1. syncs' \in Nat
      BY DEF IInv, TypeOK, Sync
    <2> QED
      BY <2>1 DEF ChangeSet, Nothing
  <1>2. /\ TypeOK' \/ asked' \notin SUBSET Nat
        /\ Shape' /\ NothingIsLost' /\ Kept'
        /\ mem.revealed <= mem'.revealed /\ mem' \in ChangeSet
    BY <1>1, StageKeeps DEF Sync, IInv, TypeOK, promises
  <1>3. Revealed'
    BY <1>2 DEF Sync, IInv, TypeOK, ChangeSet, Revealed, AddressIsFresh, promises
  <1> QED
    BY <1>2, <1>3 DEF IInv, TypeOK, Sync, promises

LEMMA BroadcastKeeps ==
    ASSUME IInv, NEW t \in Txs, Broadcast(t)
    PROVE  IInv'
  <1> DEFINE cs == [Nothing EXCEPT !.txs = {t}]
  <1>1. cs \in ChangeSet
    BY DEF ChangeSet, Nothing
  <1>2. /\ TypeOK' \/ asked' \notin SUBSET Nat
        /\ Shape' /\ NothingIsLost' /\ Kept'
        /\ mem.revealed <= mem'.revealed /\ mem' \in ChangeSet
    BY <1>1, StageKeeps DEF Broadcast, IInv, TypeOK, promises
  <1>3. Revealed'
    BY <1>2 DEF Broadcast, IInv, TypeOK, ChangeSet, Revealed, AddressIsFresh,
                promises
  <1> QED
    BY <1>2, <1>3 DEF IInv, TypeOK, Broadcast, promises

\* Taking what is staged moves it to the pending changes, and their sum stays.
LEMMA TakeKeeps ==
    ASSUME IInv, TakeStaged, UNCHANGED <<up, db>>
    PROVE  /\ pending' \in ChangeSet /\ staged' \in ChangeSet /\ mem' \in ChangeSet
           /\ NothingIsLost'
           /\ up => mem' = Upsert(db, pending')
  <1>1. pending' \in ChangeSet /\ staged' \in ChangeSet /\ mem' \in ChangeSet
    BY MergeType, NothingType DEF IInv, TypeOK, TakeStaged
  <1>2. Merge(pending', staged') = Merge(pending, staged)
    BY <1>1, MergeNothing DEF TakeStaged
  <1> QED
    BY <1>1, <1>2 DEF IInv, NothingIsLost, TakeStaged

\* While the wallet is up, the temporary file can be what it likes.
LEMMA SpareFile ==
    ASSUME TypeOK, Shape, Kept, up, UNCHANGED <<up, db, saved, handed>>,
           disk' \in [Paths -> File \cup {Gone}],
           disk'["bdk_pending.json"] = disk["bdk_pending.json"],
           Covers(mem)', phase' # "down"
    PROVE  Kept'
  <1>1. Content("bdk_pending.json")' = Content("bdk_pending.json")
    BY DEF Content
  <1>2. db # Nothing
    BY DEF Shape
  <1>3. LET kept == Upsert(db, Content("bdk_pending.json"))'
        IN  /\ db'.txs \subseteq kept.txs /\ kept.txs \subseteq Recovered'.txs
            /\ db'.revealed <= kept.revealed
            /\ kept.revealed <= Recovered'.revealed
            /\ kept \in ChangeSet /\ Recovered' \in ChangeSet
    <2>1. db' \in ChangeSet /\ db' # Nothing
      BY <1>2 DEF TypeOK
    <2> QED
      BY <2>1, RecoveredNext
  <1>4. Covers(Recovered)'
    BY <1>1, <1>3 DEF TypeOK, Kept, Covers, ChangeSet
  <1> QED
    BY <1>1, <1>4 DEF Kept, Covers

\* The temporary file is only written while the pending file is whole, and
\* covers with the database what was saved.
LEMMA FlushKeeps ==
    ASSUME IInv, Flush \/ Written
    PROVE  IInv'
  <1>1. up
    BY DEF IInv, Shape, Flush, Written
  <1>2. /\ pending' \in ChangeSet /\ staged' \in ChangeSet /\ mem' = mem
        /\ NothingIsLost'
    BY TakeKeeps DEF IInv, TypeOK, NothingIsLost, Flush, Written, TakeStaged,
                     memory
  <1>3. disk' \in [Paths -> File \cup {Gone}]
        /\ disk'["bdk_pending.json"] = disk["bdk_pending.json"]
    <2>1. Torn \in File /\ Whole(pending) \in File
      BY NothingType DEF IInv, TypeOK, Torn, Whole, File
    <2>2. disk \in [Paths -> File \cup {Gone}]
      BY DEF IInv, TypeOK
    <2>3. CASE Flush
      BY <2>1, <2>2, <2>3, PathNames DEF Flush
    <2>4. CASE Written
      BY <2>1, <2>2, <2>4, PathNames DEF Written
    <2> QED
      BY <2>3, <2>4
  <1>4. TypeOK'
    BY <1>2, <1>3 DEF IInv, TypeOK, Flush, Written, Phase, promises
  <1>5. Shape'
    BY <1>1 DEF IInv, TypeOK, Shape, Flush, Written, TakeStaged, memory, promises,
                Paths, Copies
  <1>6. Kept'
    <2>1. Covers(mem)'
      BY <1>1, <1>2 DEF IInv, Shape, Kept, Covers, Flush, Written, promises
    <2> QED
      BY <1>1, <1>3, <2>1, SpareFile DEF IInv, Flush, Written, promises
  <1>7. Revealed'
    BY <1>1, <1>2 DEF IInv, Shape, Revealed, AddressIsFresh, Flush, Written,
                      promises
  <1> QED
    BY <1>2, <1>4, <1>5, <1>6, <1>7 DEF IInv

\* The pending changes, all that memory has beyond the database, take the
\* place of the old file.
LEMMA RenamedKeeps ==
    ASSUME IInv, Renamed
    PROVE  IInv'
  <1>1. up /\ staged = Nothing /\ db # Nothing
        /\ disk[".bdk_pending.json.tmp"] = Whole(pending)
    BY DEF IInv, Shape, Renamed
  <1>2. mem = Upsert(db, pending)
    BY <1>1, MergeNothing DEF IInv, TypeOK, NothingIsLost
  <1>3. disk' \in [Paths -> File \cup {Gone}]
        /\ disk'["bdk_pending.json"] = Whole(pending)
    <2>1. Whole(pending) \in File
      BY DEF IInv, TypeOK, Whole, File
    <2>2. disk \in [Paths -> File \cup {Gone}]
      BY DEF IInv, TypeOK
    <2>3. disk' = [disk EXCEPT !["bdk_pending.json"] = Whole(pending),
                               ![".bdk_pending.json.tmp"] = Gone]
      BY <1>1 DEF Renamed
    <2> QED
      BY <2>1, <2>2, <2>3, PathNames
  <1>4. Upsert(db, Content("bdk_pending.json"))' = mem
    <2>1. Whole(pending) \in File
      BY DEF IInv, TypeOK, Whole, File
    <2>2. Whole(pending) # Gone
      BY <2>1, FileAssumption
    <2>3. Whole(pending).content = pending
      BY DEF Whole
    <2> QED
      BY <1>2, <1>3, <2>2, <2>3 DEF Content, Renamed, memory
  <1>5. Covers(mem)'
    BY <1>1 DEF IInv, TypeOK, Shape, Kept, Covers, Renamed, memory, ChangeSet
  <1>6. Kept'
    <2>1. mem.txs \subseteq Recovered'.txs /\ mem.revealed <= Recovered'.revealed
          /\ db.revealed <= mem.revealed /\ Recovered' \in ChangeSet
      BY <1>1, <1>3, <1>4, RecoveredNext DEF IInv, TypeOK, Renamed
    <2>2. handed \subseteq 1 .. db.revealed
      BY <1>1 DEF IInv, Kept
    <2>3. Covers(Recovered)'
      BY <1>5, <2>1, <2>2 DEF IInv, TypeOK, Covers, ChangeSet, Renamed, memory
    <2> QED
      BY <1>4, <1>5, <2>2, <2>3 DEF Kept, Covers, Renamed, memory
  <1>7. TypeOK'
    BY <1>3 DEF IInv, TypeOK, Renamed, Phase, memory
  <1>8. Shape' /\ NothingIsLost' /\ Revealed'
    BY <1>1 DEF IInv, Shape, NothingIsLost, Revealed, AddressIsFresh, Renamed, memory
  <1> QED
    BY <1>6, <1>7, <1>8 DEF IInv

LEMMA FlushFailsKeeps ==
    ASSUME IInv, FlushFails
    PROVE  IInv'
  <1>1. TypeOK'
    BY DEF IInv, TypeOK, FlushFails, Phase, memory, promises
  <1>2. Shape' /\ NothingIsLost' /\ Revealed'
    BY DEF IInv, Shape, NothingIsLost, Revealed, AddressIsFresh, FlushFails,
           memory, promises
  <1>3. Kept'
    BY SameStore DEF IInv, Kept, Covers, FlushFails, memory, promises
  <1> QED
    BY <1>1, <1>2, <1>3 DEF IInv

\* What the transaction will make the database is what memory holds.
LEMMA PersistKeeps ==
    ASSUME IInv, Persist
    PROVE  IInv'
  <1>1. up /\ db # Nothing
    BY DEF IInv, Shape, Persist
  <1>2. /\ pending' \in ChangeSet /\ staged' \in ChangeSet /\ mem' \in ChangeSet
        /\ NothingIsLost'
        /\ mem' = Upsert(db, pending')
    BY <1>1, TakeKeeps DEF Persist
  <1>3. mem' = mem /\ staged' = Nothing
    BY DEF Persist, TakeStaged
  <1>4. txn' = mem' /\ txn' # Nothing
    BY <1>1, <1>2, UpsertGrows DEF Persist, IInv, TypeOK
  <1>5. TypeOK'
    BY <1>2, <1>4 DEF IInv, TypeOK, Persist, Phase, Paths, Copies, promises
  <1>6. Shape'
    BY <1>1, <1>3, <1>4 DEF Persist, Shape
  <1>7. Kept' /\ Revealed'
    BY <1>1, <1>3, SameStore DEF IInv, Kept, Covers, Revealed, AddressIsFresh,
                                 Persist, promises
  <1> QED
    BY <1>2, <1>5, <1>6, <1>7 DEF IInv

LEMMA RollBackKeeps ==
    ASSUME IInv, RollBack
    PROVE  IInv'
  <1>1. up /\ mem' = mem
    BY DEF IInv, Shape, RollBack, TakeStaged, memory
  <1>2. pending' \in ChangeSet /\ staged' \in ChangeSet /\ NothingIsLost'
    BY TakeKeeps DEF IInv, TypeOK, NothingIsLost, RollBack, memory
  <1>3. TypeOK'
    BY <1>1, <1>2 DEF IInv, TypeOK, RollBack, Phase
  <1>4. Shape'
    BY <1>1 DEF IInv, Shape, RollBack
  <1>5. Kept' /\ Revealed'
    BY <1>1, SameStore DEF IInv, Kept, Covers, Revealed, AddressIsFresh, RollBack
  <1> QED
    BY <1>2, <1>3, <1>4, <1>5 DEF IInv

\* The database alone covers what was saved from here on.
LEMMA CommitKeeps ==
    ASSUME IInv, Commit
    PROVE  IInv'
  <1>1. txn = mem /\ mem # Nothing /\ staged = Nothing /\ mem \in ChangeSet
        /\ (~up => asked = {})
    BY DEF IInv, TypeOK, Shape, Commit
  <1>2. mem' = mem /\ db' = mem /\ staged' = Nothing /\ pending' = Nothing
        /\ txn' = Nothing
    BY <1>1 DEF Commit
  <1>3. TypeOK'
    BY <1>1, <1>2, NothingType DEF IInv, TypeOK, Commit, Phase, promises
  <1>4. Shape'
    BY <1>1, <1>2 DEF Shape, Commit, promises
  <1>5. NothingIsLost'
    BY <1>1, <1>2, MergeNothing, NothingType DEF NothingIsLost
  <1>6. Covers(mem)' /\ Covers(mem)
    BY <1>2 DEF IInv, Kept, Covers, Commit, promises
  <1>7. Kept'
    <2>1. LET kept == Upsert(db, Content("bdk_pending.json"))'
          IN  /\ mem.txs \subseteq kept.txs /\ kept.txs \subseteq Recovered'.txs
              /\ mem.revealed <= kept.revealed
              /\ kept.revealed <= Recovered'.revealed
              /\ kept \in ChangeSet /\ Recovered' \in ChangeSet
      BY <1>1, <1>2, <1>3, RecoveredNext DEF TypeOK
    <2> QED
      BY <1>1, <1>2, <1>6, <2>1 DEF IInv, TypeOK, Kept, Covers, Commit, promises,
                                    ChangeSet
  <1>8. Revealed'
    BY <1>2 DEF IInv, Revealed, AddressIsFresh, Commit, promises
  <1> QED
    BY <1>3, <1>4, <1>5, <1>7, <1>8 DEF IInv

LEMMA CommitFailsKeeps ==
    ASSUME IInv, CommitFails
    PROVE  IInv'
  <1>1. TypeOK'
    BY NothingType DEF IInv, TypeOK, CommitFails, Phase
  <1>2. Shape' /\ NothingIsLost' /\ Revealed'
    BY DEF IInv, Shape, NothingIsLost, Revealed, AddressIsFresh, CommitFails
  <1>3. Kept'
    BY SameStore DEF IInv, Kept, Covers, CommitFails
  <1> QED
    BY <1>1, <1>2, <1>3 DEF IInv

\* What a callback removes is in the database.
LEMMA RemoveKeeps ==
    ASSUME IInv, NEW path \in Paths, Remove(path)
    PROVE  IInv'
  <1>1. mem = db /\ db # Nothing /\ Covers(db) /\ db \in ChangeSet
    BY DEF IInv, TypeOK, Shape, Kept, Covers, Remove
  <1>2. TypeOK'
    BY DEF IInv, TypeOK, Remove, memory, promises
  <1>3. Shape' /\ NothingIsLost' /\ Revealed'
    BY DEF IInv, Shape, NothingIsLost, Revealed, AddressIsFresh, Remove, memory,
           promises
  <1>4. Kept'
    <2>1. LET kept == Upsert(db, Content("bdk_pending.json"))'
          IN  /\ db.txs \subseteq kept.txs /\ kept.txs \subseteq Recovered'.txs
              /\ db.revealed <= kept.revealed
              /\ kept.revealed <= Recovered'.revealed
              /\ kept \in ChangeSet /\ Recovered' \in ChangeSet
      BY <1>1, <1>2, RecoveredNext DEF TypeOK, Remove
    <2>2. UNCHANGED <<db, mem, up, phase, saved, handed>>
      BY DEF Remove, memory, promises
    <2> QED
      BY <1>1, <2>1, <2>2 DEF IInv, TypeOK, Kept, Covers, ChangeSet
  <1> QED
    BY <1>2, <1>3, <1>4 DEF IInv

LEMMA ReturnKeeps ==
    ASSUME IInv, Return
    PROVE  IInv'
  <1>1. mem = db /\ db # Nothing /\ staged = Nothing /\ pending = Nothing
        /\ db \in ChangeSet /\ disk \in [Paths -> File \cup {Gone}]
    BY DEF IInv, TypeOK, Shape, Return
  <1>2. TypeOK'
    BY DEF IInv, TypeOK, Return, Phase, memory
  <1>3. Shape'
    BY <1>1 DEF Shape, Return, memory
  <1>4. NothingIsLost'
    BY <1>1, MergeNothing, NothingType DEF NothingIsLost, Return, memory
  <1>5. handed' \subseteq 1 .. db.revealed
    BY <1>1 DEF IInv, Shape, Kept, Covers, Revealed, Return
  <1>6. Kept'
    <2>1. LET kept == Upsert(db, Content("bdk_pending.json"))'
          IN  /\ db.txs \subseteq kept.txs /\ kept.txs \subseteq Recovered'.txs
              /\ db.revealed <= kept.revealed
              /\ kept.revealed <= Recovered'.revealed
              /\ kept \in ChangeSet /\ Recovered' \in ChangeSet
      BY <1>1, RecoveredNext DEF Return
    <2>2. UNCHANGED <<db, mem>> /\ saved' = db
      BY <1>1 DEF Return, memory
    <2> QED
      BY <1>1, <1>5, <2>1, <2>2 DEF Kept, Covers, ChangeSet
  <1>7. Revealed'
    BY DEF Return, Revealed, AddressIsFresh
  <1> QED
    BY <1>2, <1>3, <1>4, <1>6, <1>7 DEF IInv

LEMMA CrashKeeps ==
    ASSUME IInv, Crash
    PROVE  IInv'
  <1>1. TypeOK'
    BY NothingType DEF IInv, TypeOK, Crash, Phase
  <1>2. Shape' /\ NothingIsLost' /\ Revealed'
    BY DEF IInv, Shape, NothingIsLost, Revealed, AddressIsFresh, Crash
  <1>3. Kept'
    BY SameStore DEF IInv, Kept, Covers, Crash
  <1> QED
    BY <1>1, <1>2, <1>3 DEF IInv

LEMMA NextKeeps == IInv /\ [Next]_vars => IInv'
  <1> SUFFICES ASSUME IInv, [Next]_vars PROVE IInv'
    OBVIOUS
  <1>1. CASE UNCHANGED vars
    <2>1. UNCHANGED <<up, phase, mem, staged, pending, txn, todo, db, disk, syncs,
                      asked, handed, saved>>
      BY <1>1 DEF vars, memory, promises
    <2>2. TypeOK' /\ Shape' /\ NothingIsLost' /\ Revealed'
      BY <2>1 DEF IInv, TypeOK, Shape, NothingIsLost, Revealed, AddressIsFresh
    <2>3. Kept'
      BY <2>1, SameStore DEF IInv, Kept, Covers
    <2> QED
      BY <2>2, <2>3 DEF IInv
  <1>2. CASE Next
    BY <1>2, SetupKeeps, StartKeeps, RevealKeeps, SyncKeeps, BroadcastKeeps,
       FlushKeeps, RenamedKeeps, FlushFailsKeeps, PersistKeeps, RollBackKeeps,
       CommitKeeps, CommitFailsKeeps, RemoveKeeps, ReturnKeeps, CrashKeeps
    DEF Next
  <1> QED
    BY <1>1, <1>2

LEMMA Invariance == Spec => []IInv
  BY InitHolds, NextKeeps, PTL DEF Spec

(***************************************************************************)
(* Theorems                                                                *)
(***************************************************************************)

\* TypeOK, for any transactions, legacy stores and bounds.
THEOREM PersistTypes == Spec => []TypeOK
  BY Invariance, PTL DEF IInv

\* Neither a failed write nor a rollback loses a change of the BDK wallet
\* (persist_bdk, flush_bdk_pending).
THEOREM ChangesAreKept == Spec => []NothingIsLost
  BY Invariance, PTL DEF IInv

\* A crash at any moment loses nothing that rgb-lib said was safe (setup_bdk,
\* atomic_write_with, the callbacks of DbTxn::commit).
THEOREM SavedSurvives == Spec => []SavedIsRecovered
  <1>1. IInv => SavedIsRecovered
    BY DEF IInv, Kept, Covers, SavedIsRecovered
  <1> QED
    BY <1>1, Invariance, PTL

\* No address is given out twice (get_new_addresses, persist_changeset,
\* import_legacy_bdk_store).
THEOREM AddressesAreFresh == Spec => []AddressIsFresh
  <1>1. IInv => AddressIsFresh
    BY DEF IInv, Revealed
  <1> QED
    BY <1>1, Invariance, PTL
=============================================================================
