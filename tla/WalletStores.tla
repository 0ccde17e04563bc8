---------------------------- MODULE WalletStores -----------------------------
(***************************************************************************)
(* What a wallet keeps in its directory, and what creating, opening,       *)
(* issuing, receiving an asset, backing up and restoring do to it when     *)
(* they fail or crash half-way (src/wallet/core.rs, singlesig.rs,          *)
(* offline.rs, online.rs, backup.rs, src/utils.rs).                        *)
(*                                                                         *)
(* The directory holds the manifest, the database (the BDK wallet, the     *)
(* assets, the backup times), the RGB stock, the media files and the lock  *)
(* file of the RGB runtime. The database changes with a commit; the others *)
(* at once. The manifest and the media files are written atomically.       *)
(*                                                                         *)
(* A directory is a record. The two times of a backup matter only by their *)
(* order (the clock is assumed to advance): dirty says that the last       *)
(* operation is the later one, which is what backup_info returns.          *)
(***************************************************************************)
EXTENDS Naturals, FiniteSets

CONSTANTS
    Dirs,        \* the wallet's directory in each data directory
    Settings,    \* the settings fixed at creation, with one fingerprint
    Assets,      \* assets to be issued or received
    Media,       \* media files, by digest
    MediaOf,     \* the media of each asset
    None,        \* no value
    MaxBackups,  \* bound on the backup files
    Faults,      \* subset of {"crash", "error", "load"}
    MaxKinds     \* bound on the kinds of faults in one behaviour

ASSUME StoresAssumption ==
    /\ MediaOf \in [Assets -> SUBSET Media]
    /\ None \notin Dirs \cup Settings \cup Assets
    /\ MaxBackups \in Nat /\ MaxKinds \in Nat
    /\ Faults \subseteq {"crash", "error", "load"}

VARIABLES
    disk,        \* the contents of the directories
    backups,     \* those of the backup files
    wallet,      \* directory of the open wallet
    call,        \* the call under way
    faults       \* the kinds of faults there have been

vars == <<disk, backups, wallet, call, faults>>

Dir == [made : BOOLEAN, manifest : Settings \cup {None}, bdk : Settings \cup {None},
        assets : SUBSET Assets, dirty : BOOLEAN, contracts : SUBSET Assets,
        files : SUBSET Media, lock : BOOLEAN,
        whole : BOOLEAN,    \* no restore broke off here
        missed : BOOLEAN]   \* the last backup started here made no file

Missing == [made |-> FALSE, manifest |-> None, bdk |-> None, assets |-> {},
            dirty |-> FALSE, contracts |-> {}, files |-> {}, lock |-> FALSE,
            whole |-> TRUE, missed |-> FALSE]

Steps == [new     |-> {"db", "lock", "kits", "manifest"},
          issue   |-> {"copy", "lock", "import", "drop", "commit"},
          receive |-> {"lock", "fetch", "import", "drop", "commit"},
          online  |-> {"lock", "check"},
          backup  |-> {"zip"}]

Idle == [op |-> "none", step |-> "none", dir |-> None, arg |-> None, saved |-> {}]
Calls == {Idle} \cup UNION {[op : {o}, step : Steps[o], dir : Dirs,
                             arg : Settings \cup Assets \cup {None},
                             saved : SUBSET Media] : o \in DOMAIN Steps}

TypeOK ==
    /\ disk \in [Dirs -> Dir]
    /\ backups \subseteq Dir
    /\ wallet \in Dirs \cup {None}
    /\ call \in Calls
    /\ faults \subseteq Faults

Init ==
    /\ disk = [d \in Dirs |-> Missing]
    /\ backups = {}
    /\ wallet = None
    /\ call = Idle
    /\ faults = {}

----------------------------------------------------------------------------
At(ops, step) == call.op \in ops /\ call.step = step
Here == disk[call.dir]
Now(dir) == disk' = [disk EXCEPT ![call.dir] = dir]
Goto(step) == call' = [call EXCEPT !.step = step]
Begin(op, step, d, arg) ==
    call' = [op |-> op, step |-> step, dir |-> d, arg |-> arg, saved |-> {}]

Faulty(f) ==
    /\ f \in Faults
    /\ faults' = faults \cup {f}
    /\ Cardinality(faults') <= MaxKinds

\* The steps between load_rgb_runtime and the drop of the runtime.
HoldsRuntime == call.step \in {"kits", "fetch", "import", "drop", "check"}

\* load_rgb_runtime: the lock file is created, or its release awaited.
Lock(next) ==
    /\ ~Here.lock
    /\ Now([Here EXCEPT !.lock = TRUE])
    /\ Goto(next)
    /\ UNCHANGED <<backups, wallet, faults>>

\* The lock file is there for an hour, or the stock cannot be read once it
\* has been created: no runtime exists then whose drop would remove it.
LockFails ==
    /\ call.step = "lock"
    /\ \/ Here.lock /\ UNCHANGED <<disk, faults>>
       \/ ~Here.lock /\ Faulty("load") /\ Now([Here EXCEPT !.lock = TRUE])
    /\ call' = Idle
    /\ UNCHANGED <<backups, wallet>>

\* Mutant: an error leaves the lock file.
DroppedLater(dir) == dir

\* The drop of the runtime, and of nothing when there is none.
Dropped(dir) == [dir EXCEPT !.lock = @ /\ ~HoldsRuntime]

\* A step returns an error: the transaction is rolled back.
Fails ==
    /\ Faulty("error")
    /\ call.op \notin {"none", "backup"}
    /\ call.step # "lock"
    /\ Now(Dropped(Here))
    /\ call' = Idle
    /\ UNCHANGED <<backups, wallet>>

Crash ==
    /\ Faulty("crash")
    /\ call # Idle \/ wallet # None
    /\ call' = Idle
    /\ wallet' = None
    /\ UNCHANGED <<disk, backups>>

----------------------------------------------------------------------------
\* WalletManifest::check_settings_unchanged: nothing to check without one.
SettingsUnchanged(d, s) == disk[d].manifest \in {None, s}

\* Wallet::new, setup_new_wallet.
NewWallet(d, s) ==
    /\ call = Idle /\ wallet = None
    /\ disk' = [disk EXCEPT ![d].made = TRUE]
    /\ IF SettingsUnchanged(d, s) THEN Begin("new", "db", d, s) ELSE UNCHANGED call
    /\ UNCHANGED <<backups, wallet, faults>>

\* Wallet::load: the settings are those of the manifest.
LoadWallet(d) == \E s \in Settings : disk[d].manifest = s /\ NewWallet(d, s)

\* Mutant: the BDK wallet is loaded without its checks.
BdkOpensAny(dir, s) == TRUE

\* setup_bdk: created, or loaded with the same descriptors and network.
BdkOpens(dir, s) == dir.bdk \in {None, s}

\* Wallet::new: setup_db, setup_bdk and the commit.
SetupBdk ==
    /\ At({"new"}, "db")
    /\ IF BdkOpens(Here, call.arg)
         THEN Now([Here EXCEPT !.bdk = IF @ = None THEN call.arg ELSE @]) /\ Goto("lock")
         ELSE call' = Idle /\ UNCHANGED disk
    /\ UNCHANGED <<backups, wallet, faults>>

LockForKits == At({"new"}, "lock") /\ Lock("kits")

\* setup_rgb: the schemas go to the stock.
SetupRgb ==
    /\ At({"new"}, "kits")
    /\ Now(Dropped(Here))
    /\ Goto("manifest")
    /\ UNCHANGED <<backups, wallet, faults>>

WriteManifest ==
    /\ At({"new"}, "manifest")
    /\ Now([Here EXCEPT !.manifest = call.arg])
    /\ wallet' = call.dir
    /\ call' = Idle
    /\ UNCHANGED <<backups, faults>>

CloseWallet ==
    /\ call = Idle /\ wallet # None
    /\ wallet' = None
    /\ UNCHANGED <<disk, backups, call, faults>>

----------------------------------------------------------------------------
\* issue_asset_nia, _uda, _cfa, _ifa.
IssueAsset(a) ==
    /\ call = Idle /\ wallet # None
    /\ a \notin disk[wallet].contracts
    /\ Begin("issue", "copy", wallet, a)
    /\ UNCHANGED <<disk, backups, wallet, faults>>

\* The media an asset needs and the directory does not have.
Wanted(a, dir) == MediaOf[a] \ dir.files

\* create_uda_contract, create_cfa_contract: one file after the other.
CopyMediaFile ==
    /\ At({"issue"}, "copy")
    /\ \E m \in Wanted(call.arg, Here) : Now([Here EXCEPT !.files = @ \cup {m}])
    /\ UNCHANGED <<backups, wallet, call, faults>>

\* issue_contract: the consignment is written.
IssueContract ==
    /\ At({"issue"}, "copy")
    /\ Wanted(call.arg, Here) = {}
    /\ Goto("lock")
    /\ UNCHANGED <<disk, backups, wallet, faults>>

\* finalize_offline_issuance.
LockForImport == At({"issue"}, "lock") /\ Lock("import")

\* refresh: wait_consignment, for an asset the wallet does not have.
ReceiveAsset(a) ==
    /\ call = Idle /\ wallet # None
    /\ a \notin disk[wallet].assets
    /\ Begin("receive", "lock", wallet, a)
    /\ UNCHANGED <<disk, backups, wallet, faults>>

\* validate_received_consignment.
LockForFetch == At({"receive"}, "lock") /\ Lock("fetch")

FetchAttachment ==
    /\ At({"receive"}, "fetch")
    /\ \E m \in Wanted(call.arg, Here) :
         /\ Now([Here EXCEPT !.files = @ \cup {m}])
         /\ call' = [call EXCEPT !.saved = @ \cup {m}]
    /\ UNCHANGED <<backups, wallet, faults>>

FetchedAll ==
    /\ At({"receive"}, "fetch")
    /\ Wanted(call.arg, Here) = {}
    /\ Goto("import")
    /\ UNCHANGED <<disk, backups, wallet, faults>>

\* Mutant: all the media of the asset are removed.
CleanupMedia(dir) == [dir EXCEPT !.files = @ \ MediaOf[call.arg]]

\* cleanup_media_files.
CleanupMediaFiles(dir) == [dir EXCEPT !.files = @ \ call.saved]

\* A medium is missing or has another hash: refuse_consignment.
RefuseConsignment ==
    /\ At({"receive"}, "fetch")
    /\ Wanted(call.arg, Here) # {}
    /\ Now(CleanupMediaFiles(Here))
    /\ call' = [call EXCEPT !.step = "drop", !.arg = None, !.saved = {}]
    /\ UNCHANGED <<backups, wallet, faults>>

\* import_contract: the stock stores itself at each change.
ImportContract ==
    /\ At({"issue", "receive"}, "import")
    /\ Now([Here EXCEPT !.contracts = @ \cup {call.arg}])
    /\ Goto("drop")
    /\ UNCHANGED <<backups, wallet, faults>>

DropRuntime ==
    /\ At({"issue", "receive"}, "drop")
    /\ Now(Dropped(Here))
    /\ Goto("commit")
    /\ UNCHANGED <<backups, wallet, faults>>

\* Mutant: a new asset is not noted.
NotedOnlyBackups(dir, doingBackup) == [dir EXCEPT !.dirty = @ /\ ~doingBackup]

\* update_backup_info: one of the two times becomes the later one.
Noted(dir, doingBackup) == [dir EXCEPT !.dirty = ~doingBackup]

\* Mutant: the asset of a refused consignment is added, too.
WithAnyAsset(dir, a) == [dir EXCEPT !.assets = @ \cup {a}]

\* add_asset_to_db.
WithAsset(dir, a) == [dir EXCEPT !.assets = @ \cup ({a} \ {None})]

\* The rows of the asset and of the backup times become durable together.
Commit ==
    /\ At({"issue", "receive"}, "commit")
    /\ Now(Noted(WithAsset(Here, call.arg), FALSE))
    /\ call' = Idle
    /\ UNCHANGED <<backups, wallet, faults>>

----------------------------------------------------------------------------
\* check_consistency: "DB assets do not match with ones stored in RGB", "DB
\* media do not match with the ones stored in media directory".
Consistent(dir) ==
    /\ dir.assets \subseteq dir.contracts
    /\ UNION {MediaOf[a] : a \in dir.assets} \subseteq dir.files

GoOnline ==
    /\ call = Idle /\ wallet # None
    /\ Begin("online", "lock", wallet, None)
    /\ UNCHANGED <<disk, backups, wallet, faults>>

LockForCheck == At({"online"}, "lock") /\ Lock("check")

CheckConsistency ==
    /\ At({"online"}, "check")
    /\ Now(Dropped(Here))
    /\ call' = Idle
    /\ UNCHANGED <<backups, wallet, faults>>

----------------------------------------------------------------------------
\* backup_customize: the time of the backup is committed before the directory
\* is read, so that the copy needs no backup.
Backup ==
    /\ call = Idle /\ wallet # None
    /\ disk' = [disk EXCEPT ![wallet] = [Noted(@, TRUE) EXCEPT !.missed = TRUE]]
    /\ Begin("backup", "zip", wallet, None)
    /\ UNCHANGED <<backups, wallet, faults>>

\* zip_dir: every file but the log, the lock file included.
Zipped(dir) == [dir EXCEPT !.missed = FALSE]

BackupRaw ==
    /\ At({"backup"}, "zip")
    /\ backups' = backups \cup {Zipped(Here)}
    /\ Cardinality(backups') <= MaxBackups
    /\ Now([Here EXCEPT !.missed = FALSE])
    /\ call' = Idle
    /\ UNCHANGED <<wallet, faults>>

\* backup_raw fails: the file exists, the disk is full. The row goes back as
\* an ActiveModel in which nothing is set, whose update writes nothing; a
\* new row is deleted.
BackupFails ==
    /\ At({"backup"}, "zip")
    /\ call' = Idle
    /\ UNCHANGED <<disk, backups, wallet, faults>>

\* restore_backup.
RestoreBackup(b, d) ==
    /\ call = Idle
    /\ ~disk[d].made
    /\ disk' = [disk EXCEPT ![d] = b]
    /\ UNCHANGED <<backups, wallet, call, faults>>

\* What unzip wrote before it broke off: each file is there or not.
Part(b, p, f) ==
    [b EXCEPT !.manifest = IF "manifest" \in p THEN @ ELSE None,
              !.bdk = IF "db" \in p THEN @ ELSE None,
              !.assets = IF "db" \in p THEN @ ELSE {},
              !.dirty = "db" \in p /\ @,
              !.contracts = IF "stock" \in p THEN @ ELSE {},
              !.files = f,
              !.lock = "lock" \in p /\ @,
              !.whole = FALSE]

Parts(b) ==
    {Part(b, p, f) : p \in SUBSET {"manifest", "db", "stock", "lock"},
                     f \in SUBSET b.files}

RestoreBreaksOff(b, d) ==
    /\ Faulty("crash")
    /\ call = Idle /\ wallet = None
    /\ ~disk[d].made
    /\ \E part \in Parts(b) : disk' = [disk EXCEPT ![d] = part]
    /\ UNCHANGED <<backups, wallet, call>>

----------------------------------------------------------------------------
Opening == \E d \in Dirs : LoadWallet(d) \/ \E s \in Settings : NewWallet(d, s)
Setup == SetupBdk \/ LockForKits \/ SetupRgb \/ WriteManifest \/ CloseWallet
Issuing == (\E a \in Assets : IssueAsset(a)) \/ CopyMediaFile \/ IssueContract \/ LockForImport
Receiving ==
    \/ \E a \in Assets : ReceiveAsset(a)
    \/ LockForFetch \/ FetchAttachment \/ FetchedAll \/ RefuseConsignment
Saving == ImportContract \/ DropRuntime \/ Commit
Checking == GoOnline \/ LockForCheck \/ CheckConsistency
BackingUp == Backup \/ BackupRaw \/ BackupFails
Restoring ==
    \E b \in backups, d \in Dirs : RestoreBackup(b, d) \/ RestoreBreaksOff(b, d)

Next ==
    \/ Opening \/ Setup \/ Issuing \/ Receiving \/ Saving \/ Checking
    \/ BackingUp \/ Restoring
    \/ LockFails \/ Fails \/ Crash

Spec == Init /\ [][Next]_vars

----------------------------------------------------------------------------
\* The contents a wallet has or may get back.
Contents == {disk[d] : d \in Dirs} \cup backups

(* Wherever a call stopped, the stock has the contract of every asset in   *)
(* the database and the directory all its media: the consistency check of  *)
(* go_online passes, for a restored wallet too (check_consistency), but    *)
(* for one whose restore broke off.                                        *)
StoresAgree == \A dir \in Contents : dir.whole => Consistent(dir)

(* The manifest and the BDK wallet never come from different settings,     *)
(* although they are written one after the other, and the first alone is   *)
(* checked before the database is touched (check_settings_unchanged).      *)
SettingsAreFixed ==
    \A dir \in Contents : None \in {dir.manifest, dir.bdk} \/ dir.manifest = dir.bdk

(* No error path leaves the lock file: without a crash and a failed load   *)
(* it is there only while a call holds the runtime, so that every wallet,  *)
(* restored ones included, can be opened again (RgbRuntime, load_rgb_runtime). *)
LockIsReleased ==
    faults \subseteq {"error"} =>
      /\ \A d \in Dirs : disk[d].lock <=> (call.dir = d /\ HoldsRuntime)
      /\ \A b \in backups : ~b.lock

\* backup_info.
BackupInfo(dir) == dir.dirty

\* Everything in the database is in some backup.
BackedUp(dir) == \E b \in backups \cup {Missing} : dir.assets \subseteq b.assets

(* backup_info asks for no backup only when every asset is in a backup, as *)
(* long as the last backup that was started made its file; and a restored  *)
(* wallet asks for none (backup_customize, get_backup_info).               *)
FlagIsSound ==
    /\ \A d \in Dirs : BackupInfo(disk[d]) \/ disk[d].missed \/ BackedUp(disk[d])
    /\ \A b \in backups : ~BackupInfo(b)

(* "Return whether the wallet requires to perform a backup."               *)
(* (offline.rs:2838)                                                       *)
BackupIsRequired ==
    call = Idle => \A d \in Dirs : BackupInfo(disk[d]) \/ BackedUp(disk[d])

=============================================================================
