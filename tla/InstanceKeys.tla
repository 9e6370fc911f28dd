---------------------------- MODULE InstanceKeys ----------------------------
(***************************************************************************)
(* An instance of Extrio on its host: the lock that keeps its processes and *)
(* the offline commands apart, the signing keys and the keyring of stored   *)
(* credentials, and backup, restore and loss of its files and database.     *)
(*                                                                          *)
(* API, worker and MCP server hold the lock shared while they live, an      *)
(* offline command holds it alone; the kernel frees it when they end in     *)
(* whatever way.  Every step of a command may be its last.  A collector is  *)
(* its published rule and its newest run.                                   *)
(***************************************************************************)
EXTENDS Integers, FiniteSets, FiniteSetsExt

CONSTANTS Process,        \* API, worker and MCP server processes
          KeyId,          \* IDs of signing keys, each with a path of its own
          FirstKey,       \* the ID configured at first
          Secret,         \* places for a credential: sinks and model providers
          MaxMaterial,    \* bound: key pairs generated
          MaxGeneration,  \* bound: credential keys generated
          MaxCommands,    \* bound: offline commands and backups
          MaxLosses       \* bound: files or databases lost

InstanceAssumption ==
    /\ FirstKey \in KeyId
    /\ MaxMaterial \in Nat \ {0} /\ MaxGeneration \in Nat \ {0}
    /\ MaxCommands \in Nat /\ MaxLosses \in Nat

VARIABLES process,   \* what each process does
          command,   \* the offline command under way, a restore excepted
          restore,   \* the restore under way
          config,    \* the signing key ID the instance is configured with
          file,      \* artifacts, private keys, keyring, restore marker, and what
                     \* a copy of a snapshot has left where the database should be
          db,        \* the database
          archive,   \* a full backup
          dump,      \* a database-only backup
          made,      \* key pairs and credential keys generated so far
          partial,   \* history: a restore has copied some files and not all
          gone,      \* history: credential keys whose keyring was lost
          losses     \* losses so far

vars == <<process, command, restore, config, file, db, archive, dump, made, partial,
          gone, losses>>

-----------------------------------------------------------------------------
Absent == 0
Torn   == -1   \* created, and its writer died before it wrote
Material   == 1..MaxMaterial
Generation == 1..MaxGeneration

Keyring == [exists : BOOLEAN, keys : SUBSET Generation]
NoRing  == [exists |-> FALSE, keys |-> {}]

\* A row of signing_keys, and the proof of a rule or of a run: which key signed
\* it and, for a run, at which revision of the key it was verified.
Trust  == [status : {"unknown", "trusted", "retired", "compromised"},
           material : Material \cup {Absent}, revision : 0..3]
Proof  == [key : KeyId, material : Material \cup {Absent}, revision : 0..3]
NoProof == [key |-> FirstKey, material |-> Absent, revision |-> 0]

Database == [exists : BOOLEAN,
             trust  : [KeyId -> Trust],
             secret : [Secret -> Generation \cup {Absent}],
             rule   : Proof,
             run    : [status : {"none", "queued", "running", "failed", "committed"},
                       proof : Proof]]

NoDatabase ==
    [exists |-> FALSE,
     trust  |-> [k \in KeyId |-> [status |-> "unknown", material |-> Absent,
                                  revision |-> 0]],
     secret |-> [s \in Secret |-> Absent],
     rule   |-> NoProof,
     run    |-> [status |-> "none", proof |-> NoProof]]

\* store.initialize: an empty database becomes one with empty tables.
Initialized(d) == [d EXCEPT !.exists = TRUE]

Archive == [exists : BOOLEAN, config : KeyId, db : Database, ring : Keyring,
            signing : Material \cup {Absent}]
NoArchive == [exists |-> FALSE, config |-> FirstKey, db |-> NoDatabase,
              ring |-> NoRing, signing |-> Absent]

\* The targets of a full restore: three files, then the database.
Target == {"artifacts", "signing", "ring"}

TypeOK ==
    /\ process \in [Process -> {"down", "up", "signing", "working"}]
    /\ command \in [step : {"idle", "ring", "ringWrite", "key", "keyWrite", "register",
                            "reencrypt"}, key : KeyId, count : 0..MaxCommands]
    /\ restore \in [step : {"idle", "checked", "artifacts", "signing", "ring", "db",
                            "unmark", "copy"}, installed : SUBSET Target]
    /\ config \in KeyId
    /\ file \in [artifacts : BOOLEAN, signing : [KeyId -> Material \cup {Absent, Torn}],
                 ring : Keyring, marker : BOOLEAN, copy : {"none", "empty", "part"}]
    /\ db \in Database
    /\ archive \in Archive
    /\ dump \in Database
    /\ made \in [pairs : 0..MaxMaterial, keys : 0..MaxGeneration]
    /\ partial \in BOOLEAN
    /\ gone \in SUBSET Generation
    /\ losses \in 0..MaxLosses

-----------------------------------------------------------------------------
(* Faults: definitions below as a plausible mistake would have written them. *)

\* Fault in MarkerAllows: the marker of an unfinished restore is not looked at.
MarkerIgnored == TRUE

\* Fault in Rotated: the keyring is replaced by the new key alone.
RotatedAlone(ring, g) == [ring EXCEPT !.keys = {g}]

\* Fault in CanStore: what is stored already is not checked before a new key is made.
CanStoreUnchecked == file.ring.exists => file.ring.keys # {}

\* Fault in OfflineAllowed: the lock is asked for shared, as processes do.
OfflineShared == /\ command.step = "idle"
                 /\ restore.step \in {"idle", "checked", "copy"}
                 /\ ~file.marker

\* Fault in NewPair: a pair is generated wherever the file is missing.
NewPairAgain(loaded) == TRUE

\* Fault in Removed: a failed restore clears all its targets.
RemovedAll == Target

-----------------------------------------------------------------------------
(* The lock *)

Locked == command.step # "idle" \/ restore.step \notin {"idle", "checked", "copy"}

AllDown == \A p \in Process : process[p] = "down"

\* instance_lock, after the lock is taken: an unfinished restore blocks everything.
MarkerAllows == ~file.marker

\* instance_lock(exclusive=True), without waiting.
OfflineAllowed == AllDown /\ ~Locked /\ MarkerAllows

Init ==
    /\ process = [p \in Process |-> "down"]
    /\ command = [step |-> "idle", key |-> FirstKey, count |-> 0]
    /\ restore = [step |-> "idle", installed |-> {}]
    /\ config  = FirstKey
    /\ file    = [artifacts |-> FALSE, signing |-> [k \in KeyId |-> Absent],
                  ring |-> NoRing, marker |-> FALSE, copy |-> "none"]
    /\ db      = NoDatabase
    /\ archive = NoArchive
    /\ dump    = NoDatabase
    /\ made    = [pairs |-> 0, keys |-> 0]
    /\ partial = FALSE
    /\ gone    = {}
    /\ losses  = 0

\* What no step of a process touches, and what only steps of commands touch.
Offline == <<command, restore, config, archive, dump, partial, gone, losses>>

\* store.initialize can open the database: SQLite takes an empty file for an empty
\* database and refuses the part of one.
Opens == file.copy # "part"

\* The shared lock, the artifact directory, then the tables.
Start(p) ==
    /\ process[p] = "down" /\ ~Locked /\ MarkerAllows /\ Opens
    /\ process' = [process EXCEPT ![p] = "up"]
    /\ file' = [file EXCEPT !.artifacts = TRUE, !.copy = "none"]
    /\ db' = Initialized(db)
    /\ UNCHANGED <<made, Offline>>

\* The process dies between the directory and the tables, or cannot open the database.
FailStart(p) ==
    /\ process[p] = "down" /\ ~Locked /\ MarkerAllows
    /\ file' = [file EXCEPT !.artifacts = TRUE]
    /\ UNCHANGED <<process, db, made, Offline>>

\* It ends or is killed; what it had in its hands is left as it was.
Stop(p) ==
    /\ process[p] # "down"
    /\ process' = [process EXCEPT ![p] = "down"]
    /\ UNCHANGED <<file, db, made, Offline>>

-----------------------------------------------------------------------------
(* Credentials *)

Stored(d) == {d.secret[s] : s \in Secret} \ {Absent}

\* validate_stored_credentials: the keyring decrypts all that is stored, and if
\* it exists it has keys.
CanStore == /\ Stored(db) \subseteq file.ring.keys
            /\ file.ring.exists => file.ring.keys # {}

\* CredentialCipher._keys(create=True): a keyring of one key where there is none.
NewRing == IF file.ring.exists THEN file.ring
           ELSE [exists |-> TRUE, keys |-> {made.keys + 1}]

MadeKeys == IF file.ring.exists THEN made ELSE [made EXCEPT !.keys = @ + 1]

\* create_sink and update_sink with a secret, and update_model_configuration
\* with an API key: encrypted with the newest key.
StoreSecret(p, s) ==
    /\ process[p] = "up" /\ CanStore
    /\ made.keys < MaxGeneration \/ file.ring.exists
    /\ file' = [file EXCEPT !.ring = NewRing]
    /\ made' = MadeKeys
    /\ db' = [db EXCEPT !.secret[s] = Max(NewRing.keys)]
    /\ UNCHANGED <<process, Offline>>

\* The process dies after it created the keyring and before it wrote a key.
TearRing(p) ==
    /\ process[p] = "up" /\ CanStore /\ ~file.ring.exists
    /\ process' = [process EXCEPT ![p] = "down"]
    /\ file' = [file EXCEPT !.ring.exists = TRUE]
    /\ UNCHANGED <<db, made, Offline>>

\* delete_sink, or a provider that is no longer configured.
DropSecret(p, s) ==
    /\ process[p] = "up"
    /\ db' = [db EXCEPT !.secret[s] = Absent]
    /\ UNCHANGED <<process, file, made, Offline>>

-----------------------------------------------------------------------------
(* Publication and runs *)

\* LocalEd25519Signer._load_or_create makes a pair where there is no file, but
\* not for a signer that has loaded one before.
NewPair(loaded) == ~loaded

Loads(k, loaded) ==
    \/ file.signing[k] \in Material
    \/ file.signing[k] = Absent /\ NewPair(loaded) /\ made.pairs < MaxMaterial

LoadedKey(k) == IF file.signing[k] = Absent THEN made.pairs + 1 ELSE file.signing[k]

MadePairs(k) == IF file.signing[k] = Absent THEN [made EXCEPT !.pairs = @ + 1] ELSE made

\* LocalEd25519Signer.validate_registered_identity: a registered key is there,
\* is the one that was registered, and is trusted.
IdentityHolds(k) ==
    db.trust[k].status # "unknown" => /\ db.trust[k].status = "trusted"
                                      /\ file.signing[k] = db.trust[k].material

\* store.ensure_signing_key: a row that is there stays as it is.
Registered(d, k, m) ==
    IF d.trust[k].status # "unknown" THEN d
    ELSE [d EXCEPT !.trust[k] = [status |-> "trusted", material |-> m, revision |-> 1]]

\* persist_published_rule, until the key is registered and trusted.
BeginPublish(p) ==
    /\ process[p] = "up" /\ IdentityHolds(config) /\ Loads(config, FALSE)
    /\ process' = [process EXCEPT ![p] = "signing"]
    /\ file' = [file EXCEPT !.signing[config] = LoadedKey(config)]
    /\ db' = Registered(db, config, LoadedKey(config))
    /\ made' = MadePairs(config)
    /\ UNCHANGED Offline

\* The process dies after it created the file and before it wrote the key.
TearKey(p) ==
    /\ process[p] = "up" /\ IdentityHolds(config) /\ file.signing[config] = Absent
    /\ process' = [process EXCEPT ![p] = "down"]
    /\ file' = [file EXCEPT !.signing[config] = Torn]
    /\ UNCHANGED <<db, made, Offline>>

\* build_rule_attestation reads the key again and signs; publish_rule_bundle.
Publish(p) ==
    /\ process[p] = "signing" /\ Loads(config, TRUE)
    /\ process' = [process EXCEPT ![p] = "up"]
    /\ file' = [file EXCEPT !.signing[config] = LoadedKey(config)]
    /\ db' = [db EXCEPT !.rule = [key |-> config, material |-> LoadedKey(config),
                                  revision |-> 0]]
    /\ made' = MadePairs(config)
    /\ UNCHANGED Offline

\* The key cannot be read, or the publication is refused.
RefusePublish(p) ==
    /\ process[p] = "signing"
    /\ process' = [process EXCEPT ![p] = "up"]
    /\ UNCHANGED <<file, db, made, Offline>>

\* verify_rule_attestation: the signature is that of a key trusted now.
Verified(proof) ==
    /\ db.trust[proof.key].status = "trusted"
    /\ db.trust[proof.key].material = proof.material

\* create_run_operation: the run keeps the proof it was accepted with.
CreateRun(p) ==
    /\ process[p] = "up" /\ Verified(db.rule)
    /\ db.run.status \notin {"queued", "running"}
    /\ db' = [db EXCEPT !.run = [status |-> "queued",
                proof |-> [db.rule EXCEPT !.revision = db.trust[db.rule.key].revision]]]
    /\ UNCHANGED <<process, file, made, Offline>>

\* A worker claims it, also from one that died, and verifies again.
StillVerified == /\ Verified(db.run.proof)
                 /\ db.run.proof.revision = db.trust[db.run.proof.key].revision

ExecuteRun(p) ==
    /\ process[p] = "up" /\ \A q \in Process : process[q] # "working"
    /\ db.run.status \in {"queued", "running"}
    /\ process' = [process EXCEPT ![p] = IF StillVerified THEN "working" ELSE "up"]
    /\ db' = [db EXCEPT !.run.status = IF StillVerified THEN "running" ELSE "failed"]
    /\ UNCHANGED <<file, made, Offline>>

\* Its worker commits it.
CommitRun(p) ==
    /\ process[p] = "working"
    /\ process' = [process EXCEPT ![p] = "up"]
    /\ db' = [db EXCEPT !.run.status = "committed"]
    /\ UNCHANGED <<file, made, Offline>>

-----------------------------------------------------------------------------
(* Offline commands: extrio-keys.  What one touches besides the files, the *)
(* database and itself is said by what it leaves.                          *)

Others == <<process, restore, config, archive, dump, partial, gone, losses>>

Continue(step) == command' = [command EXCEPT !.step = step]
Finish == command' = [command EXCEPT !.step = "idle", !.key = FirstKey]

\* MaxCommands of them are begun.
Counted == command.count < MaxCommands

Begin(step, k) ==
    /\ Counted
    /\ command' = [step |-> step, key |-> k, count |-> command.count + 1]

\* A command of one step.
Single == Counted /\ command' = [command EXCEPT !.count = @ + 1]

\* initialize_keys: the tables, then the checks.
BeginInitialize ==
    /\ OfflineAllowed /\ Opens
    /\ db' = Initialized(db)
    /\ file' = [file EXCEPT !.copy = "none"]
    /\ IF CanStore /\ IdentityHolds(config) THEN Begin("ring", config) ELSE Single
    /\ UNCHANGED <<made, Others>>

\* cipher._keys(create=True): the file, then its key.
CreateRing ==
    /\ command.step = "ring"
    /\ IF file.ring.exists THEN Continue("key") ELSE Continue("ringWrite")
    /\ file' = [file EXCEPT !.ring.exists = TRUE]
    /\ UNCHANGED <<db, made, Others>>

WriteRing ==
    /\ command.step = "ringWrite" /\ file.ring.exists /\ made.keys < MaxGeneration
    /\ file' = [file EXCEPT !.ring.keys = {made.keys + 1}]
    /\ made' = [made EXCEPT !.keys = @ + 1]
    /\ Continue("key")
    /\ UNCHANGED <<db, Others>>

\* create_signing_key: a new ID with a path of its own.
BeginCreateSigning(k) ==
    /\ OfflineAllowed /\ db.exists
    /\ db.trust[k].status = "unknown" /\ file.signing[k] = Absent
    /\ Begin("key", k)
    /\ UNCHANGED <<file, db, made, Others>>

\* signer.trust_record: the file, then its key.
CreateKey ==
    /\ command.step = "key" /\ file.signing[command.key] # Torn
    /\ IF file.signing[command.key] = Absent
       THEN /\ file' = [file EXCEPT !.signing[command.key] = Torn]
            /\ Continue("keyWrite")
       ELSE UNCHANGED file /\ Continue("register")
    /\ UNCHANGED <<db, made, Others>>

WriteKey ==
    /\ command.step = "keyWrite" /\ file.signing[command.key] = Torn
    /\ made.pairs < MaxMaterial
    /\ file' = [file EXCEPT !.signing[command.key] = made.pairs + 1]
    /\ made' = [made EXCEPT !.pairs = @ + 1]
    /\ Continue("register")
    /\ UNCHANGED <<db, Others>>

RegisterKey ==
    /\ command.step = "register" /\ file.signing[command.key] \in Material
    /\ db' = Registered(db, command.key, file.signing[command.key])
    /\ Finish
    /\ UNCHANGED <<file, made, Others>>

\* cli._validate_keys: both keys are there, the registered identity is that of
\* the file, and the keyring decrypts all that is stored.
KeysValid ==
    /\ file.ring.exists /\ CanStore
    /\ file.signing[config] \in Material
    /\ db.trust[config].status # "unknown" =>
          db.trust[config].material = file.signing[config]

\* CredentialCipher.rotate: the new key goes in front of all the old ones.
Rotated(ring, g) == [ring EXCEPT !.keys = @ \cup {g}]

\* rotate_credentials: the keyring is replaced at once,
BeginRotate ==
    /\ OfflineAllowed /\ db.exists /\ KeysValid /\ made.keys < MaxGeneration
    /\ file' = [file EXCEPT !.ring = Rotated(@, made.keys + 1)]
    /\ made' = [made EXCEPT !.keys = @ + 1]
    /\ Begin("reencrypt", config)
    /\ UNCHANGED <<db, Others>>

\* and what is stored is encrypted again, in one transaction.
Reencrypt ==
    /\ command.step = "reencrypt" /\ Stored(db) \subseteq file.ring.keys
    /\ db' = [db EXCEPT !.secret = [s \in Secret |->
                IF @[s] = Absent THEN Absent ELSE Max(file.ring.keys)]]
    /\ Finish
    /\ UNCHANGED <<file, made, Others>>

\* update_signing_key_status: trusted, retired and compromised, in this order.
SetStatus(k, status) ==
    /\ OfflineAllowed /\ db.exists
    /\ status \in CASE db.trust[k].status = "trusted" -> {"retired", "compromised"}
                    [] db.trust[k].status = "retired" -> {"compromised"}
                    [] OTHER -> {}
    /\ db' = [db EXCEPT !.trust[k].status = status, !.trust[k].revision = @ + 1]
    /\ Single
    /\ UNCHANGED <<file, made, Others>>

\* An error, a crash or a kill at any step: the lock is free, the rest stays.
EndCommand ==
    /\ command.step # "idle"
    /\ Finish
    /\ UNCHANGED <<file, db, made, Others>>

\* The operator configures a key that was created, for all processes together.
Reconfigure(k) ==
    /\ AllDown /\ ~Locked /\ db.trust[k].status # "unknown"
    /\ config' = k
    /\ UNCHANGED <<process, command, restore, file, db, archive, dump, made, partial,
                   gone, losses>>

-----------------------------------------------------------------------------
(* Backup and restore: extrio-backup and extrio-restore *)

\* create_backup(full=True): all under the lock, put in place by one rename.
BackupFull ==
    /\ OfflineAllowed /\ db.exists /\ file.artifacts /\ KeysValid
    /\ archive' = [exists |-> TRUE, config |-> config, db |-> db, ring |-> file.ring,
                   signing |-> file.signing[config]]
    /\ Single
    /\ UNCHANGED <<process, restore, config, file, db, dump, made, partial, gone,
                   losses>>

\* create_backup(full=False): a snapshot of the database, without the lock.
BackupDatabase ==
    /\ db.exists
    /\ dump' = db
    /\ Single
    /\ UNCHANGED <<process, restore, config, file, db, archive, made, partial, gone,
                   losses>>

\* _assert_empty_database: there is no file, not even a torn one.
NoFile == ~db.exists /\ file.copy = "none"

\* What a restore leaves alone.
Rest == <<process, command, config, archive, dump, made, losses>>

\* restore_backup of a database-only one takes no lock and leaves no marker: the
\* file is created empty, and the snapshot copied into it over time ...
BeginCopy ==
    /\ restore.step = "idle" /\ dump.exists /\ NoFile
    /\ restore' = [restore EXCEPT !.step = "copy"]
    /\ file' = [file EXCEPT !.copy = "part"]
    /\ UNCHANGED <<db, partial, gone, Rest>>

\* ... to its end,
EndCopy ==
    /\ restore.step = "copy"
    /\ restore' = [restore EXCEPT !.step = "idle"]
    /\ file' = [file EXCEPT !.copy = "none"]
    /\ db' = dump
    /\ UNCHANGED <<partial, gone, Rest>>

\* or until an exception takes the file away again.
UndoCopy ==
    /\ restore.step = "copy"
    /\ restore' = [restore EXCEPT !.step = "idle"]
    /\ file' = [file EXCEPT !.copy = "none"]
    /\ UNCHANGED <<db, partial, gone, Rest>>

\* restore_backup of a full one: its targets are looked at before the lock.
BeginRestore ==
    /\ restore.step = "idle" /\ archive.exists /\ archive.config = config
    /\ ~file.artifacts /\ file.signing[config] = Absent /\ ~file.ring.exists
    /\ restore' = [step |-> "checked", installed |-> {}]
    /\ UNCHANGED <<file, db, partial, gone, Rest>>

\* The lock, the empty database, the marker.
LockRestore ==
    /\ restore.step = "checked" /\ OfflineAllowed /\ NoFile
    /\ restore' = [restore EXCEPT !.step = "artifacts"]
    /\ file' = [file EXCEPT !.marker = TRUE]
    /\ UNCHANGED <<db, partial, gone, Rest>>

RefuseRestore ==
    /\ restore.step = "checked" /\ ~(OfflineAllowed /\ NoFile)
    /\ restore' = [restore EXCEPT !.step = "idle"]
    /\ UNCHANGED <<file, db, partial, gone, Rest>>

\* A target is created only where there is none, and then belongs to the restore.
Install(target, next) ==
    /\ restore.step = target
    /\ restore' = [step |-> next, installed |-> restore.installed \cup {target}]
    /\ partial' = TRUE
    /\ UNCHANGED <<db, Rest>>

InstallArtifacts ==
    /\ Install("artifacts", "signing")
    /\ ~file.artifacts
    /\ file' = [file EXCEPT !.artifacts = TRUE]
    /\ UNCHANGED gone

InstallSigning ==
    /\ Install("signing", "ring")
    /\ file.signing[config] = Absent
    /\ file' = [file EXCEPT !.signing[config] = archive.signing]
    /\ UNCHANGED gone

InstallRing ==
    /\ Install("ring", "db")
    /\ ~file.ring.exists
    /\ file' = [file EXCEPT !.ring = archive.ring]
    /\ gone' = gone \ archive.ring.keys

InstallDatabase ==
    /\ restore.step = "db" /\ ~db.exists
    /\ db' = archive.db
    /\ restore' = [restore EXCEPT !.step = "unmark"]
    /\ partial' = FALSE
    /\ UNCHANGED <<file, gone, Rest>>

EndRestore ==
    /\ restore.step = "unmark"
    /\ file' = [file EXCEPT !.marker = FALSE]
    /\ restore' = [step |-> "idle", installed |-> {}]
    /\ UNCHANGED <<db, partial, gone, Rest>>

\* The targets an exception takes away again.
Removed == restore.installed

\* A target that is there after all, or any other exception before the database
\* is in place: what was installed is removed, then the marker.
UndoRestore ==
    /\ restore.step \in Target \cup {"db"}
    /\ file' = [artifacts |-> file.artifacts /\ "artifacts" \notin Removed,
                signing   |-> IF "signing" \in Removed
                              THEN [file.signing EXCEPT ![config] = Absent]
                              ELSE file.signing,
                ring      |-> IF "ring" \in Removed THEN NoRing ELSE file.ring,
                marker    |-> FALSE, copy |-> file.copy]
    /\ gone' = IF "ring" \in Removed THEN gone \cup file.ring.keys ELSE gone
    /\ restore' = [step |-> "idle", installed |-> {}]
    /\ partial' = FALSE
    /\ UNCHANGED <<db, Rest>>

\* What a kill can leave of the copy of a snapshot.
Remains == CASE restore.step = "copy" -> {"empty", "part"}
           [] restore.step = "db"   -> {"none", "empty", "part"}
           [] OTHER                 -> {file.copy}

\* A crash or a kill: the lock is free, the marker and the copies stay.
CrashRestore ==
    /\ restore.step # "idle"
    /\ restore' = [step |-> "idle", installed |-> {}]
    /\ \E c \in Remains : file' = [file EXCEPT !.copy = c]
    /\ UNCHANGED <<db, partial, gone, Rest>>

-----------------------------------------------------------------------------
(* Losses.  A database is lost while nothing uses it, and no file while an  *)
(* offline command is at work.                                              *)

Lose == losses < MaxLosses /\ losses' = losses + 1 /\ ~Locked

LoseRing ==
    /\ Lose /\ file.ring.exists
    /\ file' = [file EXCEPT !.ring = NoRing]
    /\ gone' = gone \cup file.ring.keys
    /\ UNCHANGED <<process, command, restore, config, db, archive, dump, made, partial>>

LoseKey(k) ==
    /\ Lose /\ file.signing[k] # Absent
    /\ file' = [file EXCEPT !.signing[k] = Absent]
    /\ UNCHANGED <<process, command, restore, config, db, archive, dump, made, partial,
                   gone>>

LoseDatabase ==
    /\ Lose /\ db.exists /\ AllDown
    /\ db' = NoDatabase
    /\ UNCHANGED <<process, command, restore, config, file, archive, dump, made,
                   partial, gone>>

\* The operator goes on with another empty target, as an unfinished restore and
\* the loss of a host demand.
NewTarget ==
    /\ Lose /\ AllDown /\ restore.step # "copy"
    /\ file' = [artifacts |-> FALSE, signing |-> [k \in KeyId |-> Absent],
                ring |-> NoRing, marker |-> FALSE, copy |-> "none"]
    /\ db' = NoDatabase
    /\ partial' = FALSE
    /\ gone' = gone \cup file.ring.keys
    /\ UNCHANGED <<process, command, restore, config, archive, dump, made>>

-----------------------------------------------------------------------------
Next ==
    \/ \E p \in Process :
          \/ Start(p) \/ FailStart(p) \/ Stop(p)
          \/ \E s \in Secret : StoreSecret(p, s) \/ DropSecret(p, s)
          \/ TearRing(p) \/ TearKey(p)
          \/ BeginPublish(p) \/ Publish(p) \/ RefusePublish(p)
          \/ CreateRun(p) \/ ExecuteRun(p) \/ CommitRun(p)
    \/ BeginInitialize \/ CreateRing \/ WriteRing
    \/ CreateKey \/ WriteKey \/ RegisterKey
    \/ BeginRotate \/ Reencrypt \/ EndCommand
    \/ \E k \in KeyId : \/ BeginCreateSigning(k) \/ Reconfigure(k) \/ LoseKey(k)
                        \/ \E st \in {"retired", "compromised"} : SetStatus(k, st)
    \/ BackupFull \/ BackupDatabase \/ BeginCopy \/ EndCopy \/ UndoCopy
    \/ BeginRestore \/ LockRestore \/ RefuseRestore
    \/ InstallArtifacts \/ InstallSigning \/ InstallRing \/ InstallDatabase
    \/ EndRestore \/ UndoRestore \/ CrashRestore
    \/ LoseRing \/ LoseDatabase \/ NewTarget

Spec == Init /\ [][Next]_vars

-----------------------------------------------------------------------------
(* Properties *)

\* Whatever is rotated, interrupted, backed up and restored, a stored credential
\* can be decrypted unless the keyring with its key was lost; the one in a full
\* backup can be decrypted with the keyring next to it
\* (docs/self-hosted-operations.md:102).
SecretsReadable ==
    /\ db.exists => Stored(db) \subseteq file.ring.keys \cup gone
    /\ Stored(archive.db) \subseteq archive.ring.keys

\* No process lives on half of an instance: neither beside a restore, under the lock
\* or without it, nor on what one left behind (docs/self-hosted-operations.md:122).
WholeInstance == partial \/ file.copy = "part" => AllDown

\* Keys fail closed: a key file is not changed or removed except by its loss or
\* as the copy a restore made, a keyring only grows, and a new one is not made
\* while the database depends on the one that is missing
\* (docs/self-hosted-operations.md:93).
NeverReplaced ==
    [][losses' = losses =>
         /\ \A k \in KeyId :
              /\ /\ file.signing[k] \in Material \ {archive.signing}
                 => file'.signing[k] = file.signing[k]
              /\ /\ file.signing[k] = Absent
                 /\ file'.signing[k] \in Material \ {archive.signing}
                 => db.trust[k].status = "unknown"
         /\ file.ring.keys # {} /\ file.ring # archive.ring
            => file.ring.keys \subseteq file'.ring.keys
         /\ file.ring.keys = {} /\ file'.ring \notin {file.ring, archive.ring}
            => Stored(db) = {}]_vars

\* A run ends with a result only under a key that is trusted then, at the revision
\* it was accepted with: a key is not withdrawn under a run that is executed, nor
\* is a run finished that waited for its worker's return meanwhile.
CommittedUnderTrust ==
    [][db.run.status = "running" /\ db'.run.status = "committed"
         => LET trust == db.trust[db.run.proof.key]
            IN  /\ trust.status = "trusted"
                /\ trust.revision = db.run.proof.revision
                /\ trust.material = db.run.proof.material]_vars
=============================================================================
