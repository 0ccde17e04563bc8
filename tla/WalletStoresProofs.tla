------------------------- MODULE WalletStoresProofs -------------------------
(***************************************************************************)
(* Whatever calls fail or crash, wherever a restore breaks off, the stores *)
(* of a wallet agree, its settings stay those of its creation, no error    *)
(* leaves the lock file and the backup flag is sound: for any data         *)
(* directories, settings, assets, media, backups and faults.               *)
(***************************************************************************)
EXTENDS WalletStores, TLAPS

\* The steps at which the media of the asset are there, and those at which
\* the stock has its contract.
HasMedia ==
    \/ call.op = "issue" /\ call.step # "copy"
    \/ call.op = "receive" /\ call.step \notin {"lock", "fetch"}
HasContract == call.step \in {"drop", "commit"}

\* A wallet that is opened gets, or has, the settings it is opened with.
OpensWithOne ==
    call.op = "new" =>
        /\ call.arg \in Settings
        /\ Here.manifest \in {None, call.arg}
        /\ call.step # "db" => Here.bdk = call.arg

\* What is about to be committed is in the directory and the stock, and a
\* refusal removes no media of another asset.
CommitIsPrepared ==
    call.op \in {"issue", "receive"} =>
        /\ call.arg \in Assets \cup {None}
        /\ ~HasContract => call.arg # None
        /\ HasMedia /\ call.arg # None => MediaOf[call.arg] \subseteq Here.files
        /\ HasContract /\ call.arg # None => call.arg \in Here.contracts
        /\ Here.whole => \A a \in Here.assets : call.saved \cap MediaOf[a] = {}

\* A backup copies a directory that needs none.
BackupIsNoted == call.op = "backup" => ~Here.dirty

CallInv == OpensWithOne /\ CommitIsPrepared /\ BackupIsNoted

Safe == StoresAgree /\ SettingsAreFixed /\ FlagIsSound

IInv == TypeOK /\ Safe /\ LockIsReleased /\ CallInv

\* What Safe asks of one directory.
SafeDir(dir) ==
    /\ dir.whole => Consistent(dir)
    /\ None \in {dir.manifest, dir.bdk} \/ dir.manifest = dir.bdk
    /\ dir.dirty \/ dir.missed \/ BackedUp(dir)

CallOf(o, steps) ==
    [op : {o}, step : steps, dir : Dirs, arg : Settings \cup Assets \cup {None},
     saved : SUBSET Media]

-----------------------------------------------------------------------------
\* The calls, one set for each operation.
LEMMA CallsAre ==
    Calls = {Idle} \cup CallOf("new", {"db", "lock", "kits", "manifest"})
                   \cup CallOf("issue", {"copy", "lock", "import", "drop", "commit"})
                   \cup CallOf("receive", {"lock", "fetch", "import", "drop", "commit"})
                   \cup CallOf("online", {"lock", "check"})
                   \cup CallOf("backup", {"zip"})
  <1>1. DOMAIN Steps = {"new", "issue", "receive", "online", "backup"}
    BY DEF Steps
  <1>2. /\ Steps["new"] = {"db", "lock", "kits", "manifest"}
        /\ Steps["issue"] = {"copy", "lock", "import", "drop", "commit"}
        /\ Steps["receive"] = {"lock", "fetch", "import", "drop", "commit"}
        /\ Steps["online"] = {"lock", "check"}
        /\ Steps["backup"] = {"zip"}
    BY DEF Steps
  <1>3. Calls = {Idle} \cup UNION {CallOf(o, Steps[o]) : o \in DOMAIN Steps}
    BY DEF Calls, CallOf
  <1>4. UNION {CallOf(o, Steps[o]) : o \in DOMAIN Steps} =
          CallOf("new", Steps["new"]) \cup CallOf("issue", Steps["issue"])
          \cup CallOf("receive", Steps["receive"]) \cup CallOf("online", Steps["online"])
          \cup CallOf("backup", Steps["backup"])
    BY <1>1
  <1> QED BY <1>2, <1>3, <1>4

\* What the type of a call says of the one under way.
LEMMA CallType ==
    ASSUME TypeOK, call # Idle
    PROVE  /\ call.dir \in Dirs /\ Here \in Dir
           /\ call.arg \in Settings \cup Assets \cup {None}
           /\ call.saved \subseteq Media
           /\ call.op \in {"new", "issue", "receive", "online", "backup"}
           /\ call.op = "new" => call.step \in {"db", "lock", "kits", "manifest"}
           /\ call.op = "issue" => call.step \in {"copy", "lock", "import", "drop", "commit"}
           /\ call.op = "receive" => call.step \in {"lock", "fetch", "import", "drop", "commit"}
           /\ call.op = "online" => call.step \in {"lock", "check"}
           /\ call.op = "backup" => call.step = "zip"
           /\ call = [op |-> call.op, step |-> call.step, dir |-> call.dir,
                      arg |-> call.arg, saved |-> call.saved]
  BY CallsAre DEF TypeOK, CallOf, Here

\* A call that goes on is a call.
LEMMA GotoType ==
    ASSUME TypeOK, call # Idle, NEW step, Goto(step),
           \/ call.op = "new" /\ step \in {"lock", "kits", "manifest"}
           \/ call.op = "issue" /\ step \in {"lock", "import", "drop", "commit"}
           \/ call.op = "receive" /\ step \in {"fetch", "import", "drop", "commit"}
           \/ call.op = "online" /\ step = "check"
    PROVE  call' \in Calls
  <1>1. call' = [op |-> call.op, step |-> step, dir |-> call.dir, arg |-> call.arg,
                 saved |-> call.saved]
    BY CallType DEF Goto
  <1> QED BY <1>1, CallType, CallsAre DEF CallOf

\* Safe asks the same of every directory and of every backup.
SafeBackup(b) ==
    /\ b.whole => Consistent(b)
    /\ None \in {b.manifest, b.bdk} \/ b.manifest = b.bdk
    /\ ~b.dirty

LEMMA SafeIsLocal ==
    Safe <=> (\A d \in Dirs : SafeDir(disk[d])) /\ (\A b \in backups : SafeBackup(b))
  BY DEF Safe, SafeDir, SafeBackup, StoresAgree, SettingsAreFixed, FlagIsSound, Contents,
         BackupInfo

LEMMA SafeIsLocalNext ==
    Safe' <=> (\A d \in Dirs : SafeDir(disk[d])') /\ (\A b \in backups' : SafeBackup(b))
  BY DEF Safe, SafeDir, SafeBackup, StoresAgree, SettingsAreFixed, FlagIsSound, Contents,
         BackupInfo

\* More backups leave a directory as safe as it was.
LEMMA SafeDirKept ==
    ASSUME NEW d, NEW e, disk'[e] = d, SafeDir(d), backups \subseteq backups'
    PROVE  SafeDir(disk[e])'
  BY DEF SafeDir, BackedUp, Consistent

\* A directory that was just backed up, or restored, is safe.
LEMMA BackupIsSafe ==
    ASSUME NEW d, NEW e, disk'[e] = d, SafeBackup(d), d \in backups'
    PROVE  SafeDir(disk[e])'
  <1>1. \E b \in backups' \cup {Missing} : d.assets \subseteq b.assets
    OBVIOUS
  <1> QED BY <1>1 DEF SafeDir, SafeBackup, BackedUp, Consistent

\* A step that changes at most one directory, into a safe one.
LEMMA DirIsSafe ==
    ASSUME TypeOK, Safe, NEW d \in Dirs, NEW dir, disk' = [disk EXCEPT ![d] = dir],
           backups' = backups, SafeDir(dir)
    PROVE  Safe'
  <1>1. \A e \in Dirs : SafeDir(disk[e])'
    <2> SUFFICES ASSUME NEW e \in Dirs PROVE SafeDir(disk[e])'
      OBVIOUS
    <2>1. disk'[e] = IF e = d THEN dir ELSE disk[e]
      BY DEF TypeOK
    <2>2. SafeDir(IF e = d THEN dir ELSE disk[e])
      BY SafeIsLocal
    <2> QED BY <2>1, <2>2, SafeDirKept
  <1> QED BY <1>1, SafeIsLocal, SafeIsLocalNext

LEMMA SafeIsKept ==
    ASSUME Safe, UNCHANGED <<disk, backups>>
    PROVE  Safe'
  BY DEF Safe, StoresAgree, SettingsAreFixed, FlagIsSound, Contents, BackupInfo, BackedUp

\* The directory of the call under way, changed.
LEMMA HereChanged ==
    ASSUME TypeOK, call # Idle, NEW dir \in Dir, Now(dir)
    PROVE  /\ disk' \in [Dirs -> Dir]
           /\ disk'[call.dir] = dir
           /\ \A d \in Dirs : d # call.dir => disk'[d] = disk[d]
  BY CallType DEF TypeOK, Now

-----------------------------------------------------------------------------
(* Creating and opening.                                                    *)

LEMMA NewWalletStep ==
    ASSUME IInv, NEW d \in Dirs, NEW s \in Settings, NewWallet(d, s)
    PROVE  IInv'
  <1> USE DEF IInv
  <1> DEFINE dir == [disk[d] EXCEPT !.made = TRUE]
  <1>1. /\ call = Idle /\ disk' = [disk EXCEPT ![d] = dir] /\ dir \in Dir
        /\ UNCHANGED <<backups, wallet, faults>>
    BY DEF NewWallet, TypeOK, Dir
  <1>2. \/ UNCHANGED call
        \/ /\ call' = [op |-> "new", step |-> "db", dir |-> d, arg |-> s, saved |-> {}]
           /\ disk[d].manifest \in {None, s}
    BY DEF NewWallet, Begin, SettingsUnchanged
  <1>3. TypeOK'
    BY <1>1, <1>2, CallsAre DEF TypeOK, CallOf
  <1>4. SafeDir(dir)
    BY <1>1, SafeIsLocal DEF TypeOK, Dir, SafeDir, Consistent, BackedUp
  <1>5. Safe'
    BY <1>1, <1>4, DirIsSafe
  <1>6. LockIsReleased'
    BY <1>1, <1>2 DEF TypeOK, Dir, LockIsReleased, HoldsRuntime, Idle
  <1>7. CallInv'
    BY <1>1, <1>2 DEF TypeOK, Dir, CallInv, OpensWithOne, CommitIsPrepared,
                      BackupIsNoted, Here, Idle
  <1> QED BY <1>3, <1>5, <1>6, <1>7

LEMMA SetupBdkStep ==
    ASSUME IInv, SetupBdk
    PROVE  IInv'
  <1> USE DEF IInv
  <1>1. /\ call # Idle /\ call.op = "new" /\ call.step = "db"
        /\ UNCHANGED <<backups, wallet, faults>>
    BY DEF SetupBdk, At, Idle
  <1>2. CASE ~BdkOpens(Here, call.arg)
    <2>1. call' = Idle /\ UNCHANGED disk
      BY <1>2 DEF SetupBdk
    <2>2. TypeOK'
      BY <1>1, <2>1 DEF TypeOK, Calls
    <2>3. LockIsReleased' /\ CallInv'
      BY <1>1, <2>1, CallType, StoresAssumption
         DEF LockIsReleased, HoldsRuntime, Idle, CallInv, OpensWithOne,
             CommitIsPrepared, BackupIsNoted
    <2> QED BY <1>1, <2>1, <2>2, <2>3, SafeIsKept
  <1>3. CASE BdkOpens(Here, call.arg)
    <2> DEFINE dir == [Here EXCEPT !.bdk = IF @ = None THEN call.arg ELSE @]
    <2>1. Now(dir) /\ Goto("lock") /\ dir.bdk = call.arg
      BY <1>1, <1>3, CallType DEF SetupBdk, BdkOpens, Dir
    <2>2. dir \in Dir
      BY <1>1, CallType DEF Dir, CallInv, OpensWithOne
    <2>3. TypeOK'
      BY <1>1, <2>1, <2>2, HereChanged, GotoType DEF TypeOK
    <2>4. SafeDir(dir)
      BY <1>1, <2>1, SafeIsLocal, CallType
         DEF Here, Dir, SafeDir, Consistent, BackedUp, CallInv, OpensWithOne
    <2>5. Safe'
      BY <1>1, <2>1, <2>4, CallType, DirIsSafe DEF Now
    <2>6. LockIsReleased'
      BY <1>1, <2>1, <2>2, CallType, HereChanged
         DEF LockIsReleased, HoldsRuntime, Here, Goto, Dir
    <2>7. CallInv'
      BY <1>1, <2>1, <2>2, CallType, HereChanged
         DEF CallInv, OpensWithOne, CommitIsPrepared, BackupIsNoted, Here, Goto, Dir
    <2> QED BY <2>3, <2>5, <2>6, <2>7
  <1> QED BY <1>2, <1>3

\* load_rgb_runtime, in whichever call.
LEMMA LockStep ==
    ASSUME IInv, call.step = "lock", NEW next \in {"kits", "import", "fetch", "check"},
           Lock(next),
           \/ call.op = "new" /\ next = "kits"
           \/ call.op = "issue" /\ next = "import"
           \/ call.op = "receive" /\ next = "fetch"
           \/ call.op = "online" /\ next = "check"
    PROVE  IInv'
  <1> USE DEF IInv
  <1> DEFINE dir == [Here EXCEPT !.lock = TRUE]
  <1>1. /\ call # Idle /\ Now(dir) /\ Goto(next)
        /\ UNCHANGED <<backups, wallet, faults>>
    BY DEF Lock, Idle
  <1>2. dir \in Dir
    BY <1>1, CallType DEF Dir
  <1>3. TypeOK'
    BY <1>1, <1>2, HereChanged, GotoType DEF TypeOK
  <1>4. SafeDir(dir)
    BY <1>1, SafeIsLocal, CallType DEF Here, Dir, SafeDir, Consistent, BackedUp
  <1>5. Safe'
    BY <1>1, <1>4, CallType, DirIsSafe DEF Now
  <1>6. LockIsReleased'
    BY <1>1, <1>2, CallType, HereChanged DEF LockIsReleased, HoldsRuntime, Here, Goto, Dir
  <1>7. CallInv'
    BY <1>1, <1>2, CallType, HereChanged
       DEF CallInv, OpensWithOne, CommitIsPrepared, BackupIsNoted, HasMedia, HasContract,
           Here, Goto, Dir
  <1> QED BY <1>3, <1>5, <1>6, <1>7

\* The steps that leave the directories alone and end or start a call.
LEMMA IdleStep ==
    ASSUME IInv, call' = Idle, UNCHANGED <<disk, backups>>, wallet' \in Dirs \cup {None},
           faults' \subseteq Faults, faults \subseteq faults',
           ~HoldsRuntime \/ ~(faults' \subseteq {"error"})
    PROVE  IInv'
  <1> USE DEF IInv
  <1>1. TypeOK'
    BY DEF TypeOK, Calls
  <1>2. LockIsReleased' /\ CallInv'
    BY StoresAssumption
       DEF LockIsReleased, HoldsRuntime, Idle, CallInv, OpensWithOne, CommitIsPrepared,
           BackupIsNoted
  <1> QED BY <1>1, <1>2, SafeIsKept

LEMMA BeginStep ==
    ASSUME IInv, call = Idle, UNCHANGED <<disk, backups, wallet, faults>>, wallet # None,
           NEW o, NEW step, NEW arg, Begin(o, step, wallet, arg),
           \/ o = "issue" /\ step = "copy" /\ arg \in Assets
           \/ o = "receive" /\ step = "lock" /\ arg \in Assets
           \/ o = "online" /\ step = "lock" /\ arg = None
    PROVE  IInv'
  <1> USE DEF IInv
  <1>1. call' = [op |-> o, step |-> step, dir |-> wallet, arg |-> arg, saved |-> {}]
    BY DEF Begin
  <1>2. TypeOK'
    BY <1>1, CallsAre DEF TypeOK, CallOf
  <1>3. LockIsReleased'
    BY <1>1 DEF LockIsReleased, HoldsRuntime, Idle
  <1>4. CallInv'
    BY <1>1, StoresAssumption
       DEF CallInv, OpensWithOne, CommitIsPrepared, BackupIsNoted, HasMedia, HasContract, Here
  <1> QED BY <1>2, <1>3, <1>4, SafeIsKept

\* An error ends a call and drops the runtime it holds.
LEMMA DroppedStep ==
    ASSUME IInv, call # Idle, call.step # "lock", call' = Idle, Now(Dropped(Here)),
           UNCHANGED <<backups, wallet>>, faults' \subseteq Faults, faults \subseteq faults'
    PROVE  IInv'
  <1> USE DEF IInv
  <1> DEFINE dir == Dropped(Here)
  <1>1. /\ dir \in Dir
        /\ dir = [Here EXCEPT !.lock = @ /\ ~HoldsRuntime]
    BY CallType DEF Dropped, Dir, HoldsRuntime
  <1>2. TypeOK'
    BY <1>1, HereChanged DEF TypeOK, Calls
  <1>3. SafeDir(dir)
    BY <1>1, SafeIsLocal, CallType DEF Here, Dir, SafeDir, Consistent, BackedUp
  <1>4. Safe'
    BY <1>1, <1>3, CallType, DirIsSafe DEF Now
  <1>5. LockIsReleased'
    <2> SUFFICES ASSUME (faults \subseteq {"error"})'
                 PROVE  /\ \A d \in Dirs : ~disk'[d].lock
                        /\ \A b \in backups : ~b.lock
      BY StoresAssumption DEF LockIsReleased, Idle
    <2>1. ~dir.lock
      BY <1>1, CallType DEF LockIsReleased, Here, Dir
    <2>2. \A d \in Dirs : d # call.dir => ~disk[d].lock
      BY DEF LockIsReleased
    <2>3. \A b \in backups : ~b.lock
      BY DEF LockIsReleased
    <2> QED BY <1>1, <2>1, <2>2, <2>3, HereChanged
  <1>6. CallInv'
    BY DEF Idle, CallInv, OpensWithOne, CommitIsPrepared, BackupIsNoted
  <1> QED BY <1>2, <1>4, <1>5, <1>6

\* A step drops the runtime, if it holds one, and goes on.
LEMMA DropStep ==
    ASSUME IInv, Now(Dropped(Here)), UNCHANGED <<backups, wallet, faults>>,
           \/ /\ call.op = "new" /\ call.step = "kits" /\ Goto("manifest")
           \/ /\ call.op \in {"issue", "receive"} /\ call.step = "drop" /\ Goto("commit")
    PROVE  IInv'
  <1> USE DEF IInv
  <1> DEFINE dir == Dropped(Here)
  <1>0. call # Idle
    BY DEF Idle
  <1>1. dir \in Dir /\ dir = [Here EXCEPT !.lock = FALSE]
    BY <1>0, CallType DEF Dropped, Dir, HoldsRuntime
  <1>2. TypeOK'
    BY <1>0, <1>1, HereChanged, GotoType DEF TypeOK
  <1>3. SafeDir(dir)
    BY <1>0, <1>1, SafeIsLocal, CallType DEF Here, Dir, SafeDir, Consistent, BackedUp
  <1>4. Safe'
    BY <1>0, <1>1, <1>3, CallType, DirIsSafe DEF Now
  <1>5. LockIsReleased'
    BY <1>0, <1>1, CallType, HereChanged DEF LockIsReleased, HoldsRuntime, Here, Goto, Dir
  <1>6. CallInv'
    BY <1>0, <1>1, CallType, HereChanged
       DEF CallInv, OpensWithOne, CommitIsPrepared, BackupIsNoted, HasMedia, HasContract,
           Here, Goto, Dir
  <1> QED BY <1>2, <1>4, <1>5, <1>6

LEMMA WriteManifestStep ==
    ASSUME IInv, WriteManifest
    PROVE  IInv'
  <1> USE DEF IInv
  <1> DEFINE dir == [Here EXCEPT !.manifest = call.arg]
  <1>1. /\ call # Idle /\ call.op = "new" /\ call.step = "manifest" /\ call' = Idle
        /\ Now(dir) /\ wallet' = call.dir /\ UNCHANGED <<backups, faults>>
    BY DEF WriteManifest, At, Idle
  <1>2. dir \in Dir /\ dir.manifest = dir.bdk
    BY <1>1, CallType DEF Dir, CallInv, OpensWithOne
  <1>3. TypeOK'
    BY <1>1, <1>2, HereChanged, CallType DEF TypeOK, Calls
  <1>4. SafeDir(dir)
    BY <1>1, <1>2, SafeIsLocal, CallType DEF Here, Dir, SafeDir, Consistent, BackedUp
  <1>5. Safe'
    BY <1>1, <1>4, CallType, DirIsSafe DEF Now
  <1>6. LockIsReleased'
    BY <1>1, <1>2, CallType, HereChanged DEF LockIsReleased, HoldsRuntime, Here, Idle, Dir
  <1>7. CallInv'
    BY <1>1 DEF Idle, CallInv, OpensWithOne, CommitIsPrepared, BackupIsNoted
  <1> QED BY <1>3, <1>5, <1>6, <1>7

-----------------------------------------------------------------------------
(* Issuing and receiving.                                                   *)

\* A medium that was missing is written.
LEMMA MediaStep ==
    ASSUME IInv, CopyMediaFile \/ FetchAttachment
    PROVE  IInv'
  <1> USE DEF IInv
  <1>1. /\ call # Idle /\ UNCHANGED <<backups, wallet, faults>>
        /\ \/ call.op = "issue" /\ call.step = "copy"
           \/ call.op = "receive" /\ call.step = "fetch"
    BY DEF CopyMediaFile, FetchAttachment, At, Idle
  <1>2. PICK m \in Wanted(call.arg, Here) :
            /\ Now([Here EXCEPT !.files = @ \cup {m}])
            /\ \/ call' = call
               \/ call.op = "receive" /\ call' = [call EXCEPT !.saved = @ \cup {m}]
    BY DEF CopyMediaFile, FetchAttachment, At
  <1> DEFINE dir == [Here EXCEPT !.files = @ \cup {m}]
  <1>3. m \in Media /\ m \notin Here.files
    BY <1>1, CallType, StoresAssumption
       DEF Wanted, CallInv, CommitIsPrepared, HasContract
  <1>4. dir \in Dir /\ dir.files = Here.files \cup {m}
    BY <1>1, <1>3, CallType DEF Dir
  <1>5. call' \in Calls
    <2>1. CASE call' = call
      BY <2>1 DEF TypeOK
    <2>2. CASE call.op = "receive" /\ call' = [call EXCEPT !.saved = @ \cup {m}]
      <3>1. call' = [op |-> call.op, step |-> call.step, dir |-> call.dir,
                     arg |-> call.arg, saved |-> call.saved \cup {m}]
        BY <1>1, <2>2, CallType
      <3> QED BY <1>1, <1>3, <2>2, <3>1, CallType, CallsAre DEF CallOf
    <2> QED BY <1>2, <2>1, <2>2
  <1>6. TypeOK'
    BY <1>1, <1>2, <1>4, <1>5, HereChanged DEF TypeOK
  <1>7. SafeDir(dir)
    BY <1>1, <1>4, SafeIsLocal, CallType DEF Here, Dir, SafeDir, Consistent, BackedUp
  <1>8. Safe'
    BY <1>1, <1>2, <1>7, CallType, DirIsSafe DEF Now
  <1>9. /\ call'.op = call.op /\ call'.step = call.step /\ call'.dir = call.dir
        /\ call'.arg = call.arg /\ call'.saved \subseteq call.saved \cup {m}
    BY <1>1, <1>2, CallType
  <1>10. LockIsReleased'
    BY <1>1, <1>2, <1>4, <1>9, CallType, HereChanged
       DEF LockIsReleased, HoldsRuntime, Here, Dir
  <1>11. CallInv'
    <2>1. Here' = dir
      BY <1>1, <1>2, <1>4, <1>9, HereChanged DEF Here
    <2>2. Here.whole => \A a \in Here.assets : m \notin MediaOf[a]
      BY <1>1, <1>3, SafeIsLocal, CallType DEF Here, SafeDir, Consistent
    <2>3. dir.whole = Here.whole /\ dir.assets = Here.assets /\ dir.contracts = Here.contracts
      BY <1>1, CallType DEF Dir
    <2> QED BY <1>1, <1>4, <1>9, <2>1, <2>2, <2>3
            DEF CallInv, OpensWithOne, CommitIsPrepared, BackupIsNoted, HasMedia, HasContract
  <1> QED BY <1>6, <1>8, <1>10, <1>11

\* All its media are there.
LEMMA HasMediaStep ==
    ASSUME IInv, IssueContract \/ FetchedAll
    PROVE  IInv'
  <1> USE DEF IInv
  <1>1. /\ call # Idle /\ UNCHANGED <<disk, backups, wallet, faults>>
        /\ Wanted(call.arg, Here) = {}
        /\ \/ call.op = "issue" /\ call.step = "copy" /\ Goto("lock")
           \/ call.op = "receive" /\ call.step = "fetch" /\ Goto("import")
    BY DEF IssueContract, FetchedAll, At, Idle
  <1>2. TypeOK'
    BY <1>1, GotoType DEF TypeOK
  <1>3. LockIsReleased'
    BY <1>1, CallType DEF LockIsReleased, HoldsRuntime, Goto
  <1>4. CallInv'
    BY <1>1, CallType
       DEF CallInv, OpensWithOne, CommitIsPrepared, BackupIsNoted, HasMedia, HasContract,
           Here, Goto, Wanted
  <1> QED BY <1>1, <1>2, <1>3, <1>4, SafeIsKept

LEMMA RefuseConsignmentStep ==
    ASSUME IInv, RefuseConsignment
    PROVE  IInv'
  <1> USE DEF IInv
  <1> DEFINE dir == [Here EXCEPT !.files = @ \ call.saved]
  <1>1. /\ call # Idle /\ call.op = "receive" /\ call.step = "fetch" /\ Now(dir)
        /\ call' = [call EXCEPT !.step = "drop", !.arg = None, !.saved = {}]
        /\ UNCHANGED <<backups, wallet, faults>>
    BY DEF RefuseConsignment, CleanupMediaFiles, At, Idle
  <1>2. call' = [op |-> "receive", step |-> "drop", dir |-> call.dir, arg |-> None,
                 saved |-> {}]
    BY <1>1, CallType
  <1>3. dir \in Dir
    BY <1>1, CallType DEF Dir
  <1>4. TypeOK'
    BY <1>1, <1>2, <1>3, CallType, CallsAre, HereChanged DEF TypeOK, CallOf
  <1>5. SafeDir(dir)
    <2>1. SafeDir(Here)
      BY <1>1, SafeIsLocal, CallType DEF Here
    <2>2. Here.whole => \A a \in Here.assets : call.saved \cap MediaOf[a] = {}
      BY <1>1 DEF CallInv, CommitIsPrepared
    <2>3. dir.whole => Consistent(dir)
      BY <1>1, <2>1, <2>2, CallType DEF Dir, SafeDir, Consistent
    <2> QED BY <1>1, <2>1, <2>3, CallType DEF Dir, SafeDir, BackedUp
  <1>6. Safe'
    BY <1>1, <1>5, CallType, DirIsSafe DEF Now
  <1>7. LockIsReleased'
    BY <1>1, <1>2, <1>3, CallType, HereChanged DEF LockIsReleased, HoldsRuntime, Here, Dir
  <1>8. CallInv'
    BY <1>2, <1>3 DEF CallInv, OpensWithOne, CommitIsPrepared, BackupIsNoted, HasContract
  <1> QED BY <1>4, <1>6, <1>7, <1>8

LEMMA ImportContractStep ==
    ASSUME IInv, ImportContract
    PROVE  IInv'
  <1> USE DEF IInv
  <1> DEFINE dir == [Here EXCEPT !.contracts = @ \cup {call.arg}]
  <1>1. /\ call # Idle /\ call.op \in {"issue", "receive"} /\ call.step = "import"
        /\ Now(dir) /\ Goto("drop") /\ UNCHANGED <<backups, wallet, faults>>
    BY DEF ImportContract, At, Idle
  <1>2. dir \in Dir
    BY <1>1, CallType DEF Dir, CallInv, CommitIsPrepared, HasContract
  <1>3. TypeOK'
    BY <1>1, <1>2, HereChanged, GotoType DEF TypeOK
  <1>4. SafeDir(dir)
    BY <1>1, SafeIsLocal, CallType DEF Here, Dir, SafeDir, Consistent, BackedUp
  <1>5. Safe'
    BY <1>1, <1>4, CallType, DirIsSafe DEF Now
  <1>6. LockIsReleased'
    BY <1>1, <1>2, CallType, HereChanged DEF LockIsReleased, HoldsRuntime, Here, Goto, Dir
  <1>7. CallInv'
    BY <1>1, <1>2, CallType, HereChanged
       DEF CallInv, OpensWithOne, CommitIsPrepared, BackupIsNoted, HasMedia, HasContract,
           Here, Goto, Dir
  <1> QED BY <1>3, <1>5, <1>6, <1>7

LEMMA CommitStep ==
    ASSUME IInv, Commit
    PROVE  IInv'
  <1> USE DEF IInv
  <1> DEFINE dir == [Here EXCEPT !.assets = @ \cup ({call.arg} \ {None}), !.dirty = TRUE]
  <1>1. /\ call # Idle /\ call.op \in {"issue", "receive"} /\ call.step = "commit"
        /\ call' = Idle /\ UNCHANGED <<backups, wallet, faults>>
    BY DEF Commit, At, Idle
  <1>2. Now(dir)
    BY <1>1, CallType DEF Commit, Noted, WithAsset, Dir
  <1>3. dir \in Dir /\ dir.lock = Here.lock
    BY <1>1, CallType DEF Dir, CallInv, CommitIsPrepared
  <1>4. TypeOK'
    BY <1>1, <1>2, <1>3, HereChanged DEF TypeOK, Calls
  <1>5. SafeDir(dir)
    <2>1. SafeDir(Here)
      BY <1>1, SafeIsLocal, CallType DEF Here
    <2>2. call.arg # None => MediaOf[call.arg] \subseteq Here.files /\ call.arg \in Here.contracts
      BY <1>1 DEF CallInv, CommitIsPrepared, HasMedia, HasContract
    <2>3. dir.whole => Consistent(dir)
      BY <1>1, <2>1, <2>2, CallType DEF Dir, SafeDir, Consistent
    <2> QED BY <1>1, <2>1, <2>3, CallType DEF Dir, SafeDir
  <1>6. Safe'
    BY <1>1, <1>2, <1>5, CallType, DirIsSafe DEF Now
  <1>7. LockIsReleased'
    <2>1. \A d \in Dirs : disk'[d].lock = disk[d].lock
      BY <1>1, <1>2, <1>3, HereChanged DEF Here
    <2> HIDE DEF dir
    <2> QED BY <1>1, <2>1 DEF LockIsReleased, HoldsRuntime, Idle
  <1>8. CallInv'
    BY <1>1 DEF Idle, CallInv, OpensWithOne, CommitIsPrepared, BackupIsNoted
  <1> QED BY <1>4, <1>6, <1>7, <1>8

-----------------------------------------------------------------------------
(* Backing up and restoring.                                                *)

LEMMA BackupStep ==
    ASSUME IInv, Backup
    PROVE  IInv'
  <1> USE DEF IInv
  <1> DEFINE dir == [disk[wallet] EXCEPT !.dirty = FALSE, !.missed = TRUE]
  <1>1. /\ call = Idle /\ wallet \in Dirs /\ disk[wallet] \in Dir
        /\ call' = [op |-> "backup", step |-> "zip", dir |-> wallet, arg |-> None, saved |-> {}]
        /\ UNCHANGED <<backups, wallet, faults>>
    BY DEF Backup, Begin, TypeOK
  <1>2. disk' = [disk EXCEPT ![wallet] = dir]
    BY <1>1 DEF Backup, Noted, Dir
  <1>3. /\ dir \in Dir /\ dir.lock = disk[wallet].lock /\ ~dir.dirty /\ dir.missed
        /\ dir.whole = disk[wallet].whole /\ dir.assets = disk[wallet].assets
        /\ dir.contracts = disk[wallet].contracts /\ dir.files = disk[wallet].files
        /\ dir.manifest = disk[wallet].manifest /\ dir.bdk = disk[wallet].bdk
    BY <1>1 DEF Dir
  <1> HIDE DEF dir
  <1>4. TypeOK'
    BY <1>1, <1>2, <1>3, CallsAre DEF TypeOK, CallOf
  <1>5. SafeDir(dir)
    BY <1>1, <1>3, SafeIsLocal DEF SafeDir, Consistent
  <1>6. Safe'
    BY <1>1, <1>2, <1>5, DirIsSafe
  <1>7. LockIsReleased'
    <2>1. \A d \in Dirs : disk'[d].lock = disk[d].lock
      BY <1>1, <1>2, <1>3 DEF TypeOK
    <2> QED BY <1>1, <2>1 DEF LockIsReleased, HoldsRuntime, Idle
  <1>8. CallInv'
    BY <1>1, <1>2, <1>3 DEF TypeOK, CallInv, OpensWithOne, CommitIsPrepared, BackupIsNoted, Here
  <1> QED BY <1>4, <1>6, <1>7, <1>8

LEMMA BackupRawStep ==
    ASSUME IInv, BackupRaw
    PROVE  IInv'
  <1> USE DEF IInv
  <1> DEFINE dir == [Here EXCEPT !.missed = FALSE]
  <1>1. /\ call # Idle /\ call.op = "backup" /\ call.step = "zip" /\ call' = Idle
        /\ Now(dir) /\ backups' = backups \cup {dir} /\ UNCHANGED <<wallet, faults>>
    BY DEF BackupRaw, Zipped, At, Idle
  <1>2. /\ dir \in Dir /\ dir.lock = Here.lock /\ dir.dirty = Here.dirty /\ ~dir.missed
        /\ dir.whole = Here.whole /\ dir.assets = Here.assets
        /\ dir.contracts = Here.contracts /\ dir.files = Here.files
        /\ dir.manifest = Here.manifest /\ dir.bdk = Here.bdk
    BY <1>1, CallType DEF Dir
  <1> HIDE DEF dir
  <1>3. TypeOK'
    BY <1>1, <1>2, HereChanged DEF TypeOK, Calls
  <1>4. SafeDir(Here)
    BY <1>1, SafeIsLocal, CallType DEF Here
  <1>5. ~dir.dirty
    BY <1>1, <1>2 DEF CallInv, BackupIsNoted
  <1>6. Safe'
    <2>1. SafeBackup(dir)
      BY <1>2, <1>4, <1>5 DEF SafeBackup, SafeDir, Consistent
    <2>2. \A b \in backups' : SafeBackup(b)
      BY <1>1, <2>1, SafeIsLocal
    <2>3. \A d \in Dirs : SafeDir(disk[d])'
      <3> SUFFICES ASSUME NEW d \in Dirs PROVE SafeDir(disk[d])'
        OBVIOUS
      <3>1. CASE d = call.dir
        <4>1. disk'[d] = dir
          BY <1>1, <1>2, <3>1, HereChanged
        <4> QED BY <1>1, <2>1, <4>1, BackupIsSafe
      <3>2. CASE d # call.dir
        <4>1. disk'[d] = disk[d]
          BY <1>1, <1>2, <3>2, HereChanged
        <4> QED BY <1>1, <4>1, SafeIsLocal, SafeDirKept
      <3> QED BY <3>1, <3>2
    <2> QED BY <2>2, <2>3, SafeIsLocalNext
  <1>7. LockIsReleased'
    <2>1. \A d \in Dirs : disk'[d].lock = disk[d].lock
      BY <1>1, <1>2, HereChanged DEF Here
    <2>2. faults \subseteq {"error"} => ~dir.lock
      BY <1>1, <1>2, CallType DEF LockIsReleased, HoldsRuntime, Here
    <2> QED BY <1>1, <2>1, <2>2 DEF LockIsReleased, HoldsRuntime, Idle
  <1>8. CallInv'
    BY <1>1 DEF Idle, CallInv, OpensWithOne, CommitIsPrepared, BackupIsNoted
  <1> QED BY <1>3, <1>6, <1>7, <1>8

\* What a restore that breaks off leaves is a directory.
LEMMA PartType ==
    ASSUME NEW b \in Dir, NEW p, NEW f \in SUBSET b.files
    PROVE  /\ Part(b, p, f) \in Dir
           /\ Part(b, p, f).manifest \in {None, b.manifest}
           /\ Part(b, p, f).bdk \in {None, b.bdk}
           /\ Part(b, p, f).assets \subseteq b.assets
           /\ ~Part(b, p, f).whole
  <1> DEFINE m == IF "manifest" \in p THEN b.manifest ELSE None
             k == IF "db" \in p THEN b.bdk ELSE None
             as == IF "db" \in p THEN b.assets ELSE {}
             y == "db" \in p /\ b.dirty
             cs == IF "stock" \in p THEN b.contracts ELSE {}
             l == "lock" \in p /\ b.lock
  <1>1. /\ m \in Settings \cup {None} /\ m \in {None, b.manifest}
        /\ k \in Settings \cup {None} /\ k \in {None, b.bdk}
        /\ as \in SUBSET Assets /\ as \subseteq b.assets
        /\ cs \in SUBSET Assets /\ f \in SUBSET Media
    BY DEF Dir
  <1>2. y \in BOOLEAN /\ l \in BOOLEAN
    OBVIOUS
  <1>3. Part(b, p, f) = [b EXCEPT !.manifest = m, !.bdk = k, !.assets = as, !.dirty = y,
                                  !.contracts = cs, !.files = f, !.lock = l, !.whole = FALSE]
    BY Zenon DEF Part
  <1> HIDE DEF m, k, as, y, cs, l
  <1> QED BY <1>1, <1>2, <1>3 DEF Dir

LEMMA RestoreStep ==
    ASSUME IInv, NEW b \in backups, NEW d \in Dirs,
           RestoreBackup(b, d) \/ RestoreBreaksOff(b, d)
    PROVE  IInv'
  <1> USE DEF IInv
  <1>1. PICK dir \in Parts(b) \cup {b} :
            /\ disk' = [disk EXCEPT ![d] = dir]
            /\ faults' = faults \/ faults' = faults \cup {"crash"}
            /\ dir = b \/ "crash" \in faults'
    BY DEF RestoreBackup, RestoreBreaksOff, Faulty
  <1>2. /\ call = Idle /\ UNCHANGED <<backups, wallet, call>>
        /\ faults' \subseteq Faults
    BY DEF RestoreBackup, RestoreBreaksOff, Faulty, TypeOK
  <1>3. /\ b \in Dir /\ SafeBackup(b)
    BY SafeIsLocal DEF TypeOK
  <1>4. /\ dir \in Dir
        /\ dir.manifest \in {None, b.manifest} /\ dir.bdk \in {None, b.bdk}
        /\ dir.assets \subseteq b.assets
        /\ dir = b \/ ~dir.whole
    <2>1. CASE dir = b
      BY <1>3, <2>1 DEF Dir
    <2>2. CASE dir \in Parts(b)
      <3>1. PICK p \in SUBSET {"manifest", "db", "stock", "lock"}, f \in SUBSET b.files :
                dir = Part(b, p, f)
        BY <2>2 DEF Parts
      <3> QED BY <1>3, <3>1, PartType
    <2> QED BY <1>1, <2>1, <2>2
  <1>5. TypeOK'
    BY <1>1, <1>2, <1>4 DEF TypeOK
  <1>6. SafeDir(dir)
    BY <1>3, <1>4 DEF SafeDir, SafeBackup, BackedUp
  <1>7. Safe'
    BY <1>1, <1>2, <1>6, DirIsSafe
  <1>8. LockIsReleased'
    BY <1>1, <1>2 DEF TypeOK, LockIsReleased, HoldsRuntime, Idle
  <1>9. CallInv'
    BY <1>2 DEF Idle, CallInv, OpensWithOne, CommitIsPrepared, BackupIsNoted
  <1> QED BY <1>5, <1>7, <1>8, <1>9

-----------------------------------------------------------------------------
(* Errors, crashes and the runtime that cannot be loaded.                   *)

LEMMA LockFailsStep ==
    ASSUME IInv, LockFails
    PROVE  IInv'
  <1> USE DEF IInv
  <1>1. /\ call # Idle /\ call.step = "lock" /\ call' = Idle /\ UNCHANGED <<backups, wallet>>
    BY DEF LockFails, Idle
  <1>2. CASE UNCHANGED <<disk, faults>>
    BY <1>1, <1>2, IdleStep DEF TypeOK, HoldsRuntime
  <1>3. CASE Faulty("load") /\ Now([Here EXCEPT !.lock = TRUE])
    <2> DEFINE dir == [Here EXCEPT !.lock = TRUE]
    <2>1. dir \in Dir
      BY <1>1, CallType DEF Dir
    <2>2. "load" \in faults' /\ faults' \subseteq Faults
      BY <1>3 DEF Faulty, TypeOK
    <2>3. TypeOK'
      BY <1>1, <1>3, <2>1, <2>2, HereChanged DEF TypeOK, Calls
    <2>4. SafeDir(dir)
      BY <1>1, SafeIsLocal, CallType DEF Here, Dir, SafeDir, Consistent, BackedUp
    <2>5. Safe'
      BY <1>1, <1>3, <2>4, CallType, DirIsSafe DEF Now
    <2>6. LockIsReleased'
      BY <2>2 DEF LockIsReleased
    <2>7. CallInv'
      BY <1>1 DEF Idle, CallInv, OpensWithOne, CommitIsPrepared, BackupIsNoted
    <2> QED BY <2>3, <2>5, <2>6, <2>7
  <1> QED BY <1>2, <1>3 DEF LockFails

LEMMA FailsStep ==
    ASSUME IInv, Fails
    PROVE  IInv'
  <1>1. /\ call # Idle /\ call.step # "lock" /\ call' = Idle /\ Now(Dropped(Here))
        /\ UNCHANGED <<backups, wallet>>
    BY DEF Fails, Idle
  <1>2. faults' \subseteq Faults /\ faults \subseteq faults'
    BY DEF Fails, Faulty, IInv, TypeOK
  <1> QED BY <1>1, <1>2, DroppedStep

LEMMA CrashStep ==
    ASSUME IInv, Crash
    PROVE  IInv'
  BY IdleStep DEF Crash, Faulty, IInv, TypeOK

-----------------------------------------------------------------------------
LEMMA InitIInv == Init => IInv
  <1> SUFFICES ASSUME Init PROVE IInv
    OBVIOUS
  <1>1. Missing \in Dir
    BY DEF Missing, Dir
  <1>2. TypeOK
    BY <1>1 DEF Init, TypeOK, Calls
  <1>3. SafeDir(Missing)
    BY DEF Missing, SafeDir, Consistent, BackedUp
  <1>4. Safe
    BY <1>3, SafeIsLocal DEF Init
  <1>5. LockIsReleased /\ CallInv
    BY DEF Init, Missing, Idle, LockIsReleased, HoldsRuntime, CallInv, OpensWithOne,
           CommitIsPrepared, BackupIsNoted
  <1> QED BY <1>2, <1>4, <1>5 DEF IInv

LEMMA NextIInv == IInv /\ [Next]_vars => IInv'
  <1> SUFFICES ASSUME IInv, [Next]_vars PROVE IInv'
    OBVIOUS
  <1>1. CASE Opening
    BY <1>1, NewWalletStep DEF Opening, LoadWallet
  <1>2. CASE Setup
    <2>1. CASE SetupBdk
      BY <2>1, SetupBdkStep
    <2>2. CASE LockForKits
      BY <2>2, LockStep DEF LockForKits, At
    <2>3. CASE SetupRgb
      BY <2>3, DropStep DEF SetupRgb, At
    <2>4. CASE WriteManifest
      BY <2>4, WriteManifestStep
    <2>5. CASE CloseWallet
      BY <2>5, IdleStep DEF CloseWallet, IInv, TypeOK, HoldsRuntime, Idle
    <2> QED BY <1>2, <2>1, <2>2, <2>3, <2>4, <2>5 DEF Setup
  <1>3. CASE Issuing
    <2>1. ASSUME NEW a \in Assets, IssueAsset(a) PROVE IInv'
      BY <2>1, BeginStep DEF IssueAsset
    <2>2. CASE LockForImport
      BY <2>2, LockStep DEF LockForImport, At
    <2> QED BY <1>3, <2>1, <2>2, MediaStep, HasMediaStep DEF Issuing
  <1>4. CASE Receiving
    <2>1. ASSUME NEW a \in Assets, ReceiveAsset(a) PROVE IInv'
      BY <2>1, BeginStep DEF ReceiveAsset
    <2>2. CASE LockForFetch
      BY <2>2, LockStep DEF LockForFetch, At
    <2> QED BY <1>4, <2>1, <2>2, MediaStep, HasMediaStep, RefuseConsignmentStep DEF Receiving
  <1>5. CASE Saving
    <2>1. CASE DropRuntime
      BY <2>1, DropStep DEF DropRuntime, At
    <2> QED BY <1>5, <2>1, ImportContractStep, CommitStep DEF Saving
  <1>6. CASE Checking
    <2>1. CASE GoOnline
      BY <2>1, BeginStep DEF GoOnline
    <2>2. CASE LockForCheck
      BY <2>2, LockStep DEF LockForCheck, At
    <2>3. CASE CheckConsistency
      BY <2>3, DroppedStep DEF CheckConsistency, At, Idle, IInv, TypeOK
    <2> QED BY <1>6, <2>1, <2>2, <2>3 DEF Checking
  <1>7. CASE BackingUp
    <2>1. CASE BackupFails
      BY <2>1, IdleStep DEF BackupFails, At, IInv, TypeOK, HoldsRuntime
    <2> QED BY <1>7, <2>1, BackupStep, BackupRawStep DEF BackingUp
  <1>8. CASE Restoring
    BY <1>8, RestoreStep DEF Restoring
  <1>9. CASE UNCHANGED vars
    BY <1>9 DEF vars, IInv, TypeOK, Safe, StoresAgree, SettingsAreFixed, FlagIsSound,
                Contents, BackupInfo, BackedUp, LockIsReleased, HoldsRuntime, CallInv,
                OpensWithOne, CommitIsPrepared, BackupIsNoted, HasMedia, HasContract, Here
  <1> QED BY <1>1, <1>2, <1>3, <1>4, <1>5, <1>6, <1>7, <1>8, <1>9,
             LockFailsStep, FailsStep, CrashStep DEF Next

\* The inductive invariant.
LEMMA Inductive == Spec => []IInv
  BY InitIInv, NextIInv, PTL DEF Spec

-----------------------------------------------------------------------------
\* The directories, the backups and the call keep their types.
THEOREM StoresTypes == Spec => []TypeOK
  <1>1. IInv => TypeOK
    BY DEF IInv
  <1> QED BY <1>1, Inductive, PTL

\* Wherever a call stopped, the stock has the contract of every asset in the
\* database and the directory its media (check_consistency).
THEOREM StoresAlwaysAgree == Spec => []StoresAgree
  <1>1. IInv => StoresAgree
    BY DEF IInv, Safe
  <1> QED BY <1>1, Inductive, PTL

\* The manifest and the BDK wallet never come from different settings
\* (check_settings_unchanged, setup_bdk).
THEOREM SettingsNeverChange == Spec => []SettingsAreFixed
  <1>1. IInv => SettingsAreFixed
    BY DEF IInv, Safe
  <1> QED BY <1>1, Inductive, PTL

\* No error path leaves the lock file (load_rgb_runtime, RgbRuntime).
THEOREM NoErrorLeavesTheLock == Spec => []LockIsReleased
  <1>1. IInv => LockIsReleased
    BY DEF IInv
  <1> QED BY <1>1, Inductive, PTL

\* No backup is asked for only when every asset is in one, as long as the last
\* backup that was started made its file (backup_customize).
THEOREM FlagIsAlwaysSound == Spec => []FlagIsSound
  <1>1. IInv => FlagIsSound
    BY DEF IInv, Safe
  <1> QED BY <1>1, Inductive, PTL
=============================================================================
