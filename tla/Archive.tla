------------------------------- MODULE Archive -------------------------------
(***************************************************************************)
(* Backups and upgrades: how an archive is made and signed while the       *)
(* application writes, what an uploaded one must pass before its data may  *)
(* be swapped in, and the schema check and migrations at a start           *)
(* (app/utils/backup.py, app/db/sqlite/migrations.py, create_backup and    *)
(* restore_backup of app/api/settings.py).  The swap itself is in          *)
(* Maintenance.  A process may end in every step.                          *)
(***************************************************************************)
EXTENDS Integers, FiniteSets, Sequences

CONSTANTS
    Releases,      \* records: number, pre ("final", or the name of a pre-release)
    Secrets,       \* signing keys
    Archives,      \* backup files
    Steps,         \* migrations, by the schema version that each leads to
    Rebuild,       \* the one that rebuilds a table with what users chose
    MaxData,       \* bound on commits
    MaxStarts,     \* bound on starts of the process
    Missing

(* An application database, what a manifest must have, and an archive.      *)
Databases == [version : Nat, layout : SUBSET Steps, data : Nat, chosen : BOOLEAN]
Manifests == [release : Releases, version : Nat \ {0}, layout : SUBSET Steps]
Archived == [manifest : Manifests, db : Databases, series : Nat, begun : Nat, ended : Nat,
             key : Secrets, whole : BOOLEAN]

ASSUME ArchiveAssumption ==
    /\ Steps \subseteq Nat \ {0, 1} /\ Rebuild \in Steps
    /\ Releases \subseteq [number : Nat \ {0}, pre : STRING]
    /\ MaxData \in Nat /\ MaxStarts \in Nat
    /\ Missing \notin Archived

VARIABLES
    app,         \* the process: its step, release and keys, the first one signs
    db,          \* the application database: version, layout, data, a user's choice
    backup,      \* create_backup: its step and what it has copied
    files,       \* archives that someone keeps; how they were made
    upload,      \* restore_backup: its step, its file and the staged database
    starts,
    lost         \* history: a choice was reset although the table was rebuilt before

archiveVars == <<app, db, backup, files, upload, starts, lost>>

(* SCHEMA_VERSION of a release: here every release has one of its own.     *)
Schema(release) == release.number
Chain(from, to) == {v \in Steps : from < v /\ v <= to}
Layout(version) == {v \in Steps : v <= version}

Idle == [pc |-> "idle", file |-> Missing, staged |-> Missing]
NoBackup == [pc |-> "idle", begun |-> 0, copy |-> Missing, series |-> 0]
NewDb(version) == [version |-> version, layout |-> Layout(version), data |-> 0, chosen |-> FALSE]

ArchiveInit ==
    /\ app \in [pc : {"down"}, release : Releases, keys : {<<k>> : k \in Secrets}, seen : {0}]
    /\ db \in {NewDb(0)} \union {NewDb(Schema(r)) : r \in Releases}
    /\ backup = NoBackup /\ upload = Idle
    /\ files = [f \in Archives |-> Missing]
    /\ starts = 0 /\ lost = FALSE

---------------------------------------------------------------------------
(* Start: check and migrate                                                *)

(* _missing_migrations                                                     *)
MissingMigrations(from, to) == Chain(from, to) # from + 1 .. to

(* check_schema_compatibility: new, older with a way up, or ours exactly.  *)
Compatible(d, release) ==
    \/ d.version = 0 /\ d.layout = {}
    \/ d.version > 0 /\ d.version < Schema(release) /\ ~MissingMigrations(d.version, Schema(release))
    \/ d.version = Schema(release) /\ d.layout = Layout(d.version)

(* Mutant: every migration, however far the database is.                   *)
AllPending(current, release) == Chain(1, Schema(release))

(* What init_schema still has to apply.                                    *)
Pending(current, release) == Chain(current, Schema(release))

(* init_schema: in one transaction, with the new version at its end.       *)
Migrated(d, current, release) ==
    [d EXCEPT !.version = Schema(release),
              !.layout = IF current = 0 THEN Layout(Schema(release)) ELSE @ \union Pending(current, release),
              !.chosen = @ /\ Rebuild \notin Pending(current, release)]

(* The operator may put a newer or an older release in place, and other    *)
(* keys: those of before behind a new one, or a new one alone.             *)
Start(release, keys) ==
    /\ app.pc = "down" /\ starts < MaxStarts /\ starts' = starts + 1
    /\ keys = app.keys \/ \E k \in Secrets : keys \in {<<k>> \o app.keys, <<k>>} /\ k # app.keys[1]
    /\ app' = IF Compatible(db, release)
              THEN [pc |-> "checked", release |-> release, keys |-> keys, seen |-> db.version]
              ELSE [pc |-> "down", release |-> release, keys |-> keys, seen |-> 0]
    /\ UNCHANGED <<db, backup, files, upload, lost>>

InitSchema ==
    /\ app.pc = "checked"
    /\ \/ /\ db' = Migrated(db, app.seen, app.release)
          /\ lost' = (lost \/ (db.chosen /\ ~db'.chosen /\ Rebuild \in db.layout))
          /\ app' = [app EXCEPT !.pc = "running"]
       \/ app' = [app EXCEPT !.pc = "down"] /\ UNCHANGED <<db, lost>>
    /\ UNCHANGED <<backup, files, upload, starts>>

(* Staging and temporary files stay behind, nobody looks at them again.    *)
Stop ==
    /\ app.pc \in {"checked", "running"} /\ app' = [app EXCEPT !.pc = "down"]
    /\ backup' = NoBackup /\ upload' = Idle
    /\ UNCHANGED <<db, files, starts, lost>>

Running == app.pc = "running"

Commit ==
    /\ Running /\ upload.pc # "swapped" /\ db.data < MaxData
    /\ \E choice \in {db.chosen, Rebuild \in db.layout} :
         db' = [db EXCEPT !.data = @ + 1, !.chosen = @ \/ choice]
    /\ UNCHANGED <<app, backup, files, upload, starts, lost>>

---------------------------------------------------------------------------
(* create_backup                                                           *)

BeginBackup ==
    /\ Running /\ backup = NoBackup /\ upload.pc # "swapped"
    /\ backup' = [NoBackup EXCEPT !.pc = "sqlite", !.begun = db.data]
    /\ UNCHANGED <<app, db, files, upload, starts, lost>>

(* snapshot_sqlite_dir: one state of the database, whoever writes.         *)
SnapshotSqlite ==
    /\ Running /\ backup.pc = "sqlite"
    /\ backup' = [backup EXCEPT !.pc = "series", !.copy = db]
    /\ UNCHANGED <<app, db, files, upload, starts, lost>>

(* The measurements and the reports are copied after it.                   *)
SnapshotSeries ==
    /\ Running /\ backup.pc = "series"
    /\ backup' = [backup EXCEPT !.pc = "sign", !.series = db.data]
    /\ UNCHANGED <<app, db, files, upload, starts, lost>>

(* create_backup_manifest: the release and the schema that the copy has.   *)
Manifest(copy) == [release |-> app.release, version |-> copy.version, layout |-> copy.layout]

(* The first key signs the archive with its manifest.                      *)
SignBackup(f) ==
    /\ Running /\ backup.pc = "sign" /\ files[f] = Missing
    /\ files' = [files EXCEPT ![f] =
         [manifest |-> Manifest(backup.copy), db |-> backup.copy, series |-> backup.series,
          begun |-> backup.begun, ended |-> db.data, key |-> app.keys[1], whole |-> TRUE]]
    /\ backup' = NoBackup
    /\ UNCHANGED <<app, db, upload, starts, lost>>

(* A download or a disk has changed a byte of it.                          *)
Damage(f) ==
    /\ files[f] # Missing /\ files[f].whole
    /\ files' = [files EXCEPT ![f].whole = FALSE]
    /\ UNCHANGED <<app, db, backup, upload, starts, lost>>

---------------------------------------------------------------------------
(* restore_backup                                                          *)

(* verify_backup_hmac: any of the keys.                                    *)
HmacOk(f) == files[f].whole /\ \E i \in DOMAIN app.keys : app.keys[i] = files[f].key

(* _compare_releases: 1, 0, -1, or 2 where there is no order.              *)
CompareReleases(b, i) ==
    IF b = i THEN 0
    ELSE IF b.number # i.number THEN (IF b.number < i.number THEN -1 ELSE 1)
    ELSE IF b.pre # "final" /\ i.pre # "final" THEN 2
    ELSE IF b.pre # "final" THEN -1 ELSE 1

(* validate_backup_manifest: the fields it must have.                      *)
WellFormed(manifest) == manifest \in Manifests

(* validate_backup_compatibility                                           *)
MayImport(manifest) ==
    /\ CompareReleases(manifest.release, app.release) \in {-1, 0}
    /\ manifest.version <= Schema(app.release)
    /\ ~MissingMigrations(manifest.version, Schema(app.release))

(* inspect_backup_archive: the manifest decides before anything is written.*)
Inspected(f) == WellFormed(files[f].manifest) /\ MayImport(files[f].manifest)

Upload(f) ==
    /\ Running /\ upload.pc = "idle" /\ files[f] # Missing
    /\ upload' = [Idle EXCEPT !.pc = IF HmacOk(f) /\ Inspected(f) THEN "extract" ELSE "refused", !.file = f]
    /\ UNCHANGED <<app, db, backup, files, starts, lost>>

(* verify_extracted_databases: what the manifest says, and what we can open. *)
Verified(copy, manifest) ==
    /\ copy.version = manifest.version /\ copy.layout = manifest.layout
    /\ Compatible(copy, app.release)

(* extract_backup: every member is looked at again, then the databases.    *)
Extract ==
    /\ Running /\ upload.pc = "extract"
    /\ LET copy == files[upload.file].db IN
       upload' = IF Verified(copy, files[upload.file].manifest) THEN [upload EXCEPT !.pc = "migrate", !.staged = copy]
                 ELSE [upload EXCEPT !.pc = "refused"]
    /\ UNCHANGED <<app, db, backup, files, starts, lost>>

(* migrate_staged_application_database                                     *)
MigrateStaged ==
    /\ Running /\ upload.pc = "migrate"
    /\ \/ upload' = [upload EXCEPT !.pc = "swap",
              !.staged = IF @.version < Schema(app.release) THEN Migrated(@, @.version, app.release) ELSE @]
       \/ upload' = [upload EXCEPT !.pc = "failed", !.staged = Missing]
    /\ UNCHANGED <<app, db, backup, files, starts, lost>>

(* The swap waits for a backup and its connection; from then on no work is *)
(* begun until the process starts anew.                                    *)
Swap ==
    /\ Running /\ upload.pc = "swap" /\ backup = NoBackup
    /\ \/ db' = upload.staged /\ upload' = [upload EXCEPT !.pc = "swapped", !.staged = Missing]
       \/ UNCHANGED db /\ upload' = [upload EXCEPT !.pc = "failed", !.staged = Missing]
    /\ UNCHANGED <<app, backup, files, starts, lost>>

Answer ==
    /\ upload.pc \in {"refused", "failed"} /\ upload' = Idle
    /\ UNCHANGED <<app, db, backup, files, starts, lost>>

ArchiveNext ==
    \/ \E release \in Releases, k, l, m \in Secrets :
         \E keys \in {<<k>>, <<k, l>>, <<k, l, m>>} : Start(release, keys)
    \/ InitSchema \/ Stop \/ Commit
    \/ BeginBackup \/ SnapshotSqlite \/ SnapshotSeries
    \/ \E f \in Archives : SignBackup(f) \/ Damage(f) \/ Upload(f)
    \/ Extract \/ MigrateStaged \/ Swap \/ Answer

ArchiveSpec == ArchiveInit /\ [][ArchiveNext]_archiveVars

---------------------------------------------------------------------------
(* What runs has its own schema, complete, whichever releases and restores *)
(* came before; and no start or restore resets what a user chose.          *)
RunsOnItsSchema ==
    /\ Running => db.version = Schema(app.release) /\ db.layout = Layout(db.version)
    /\ upload.pc = "swap" => upload.staged.version = Schema(app.release)
    /\ ~lost

(* An archive holds one state of the database between its begin and its    *)
(* end, and measurements that are not older.                               *)
ArchiveIsOneState ==
    \A f \in Archives : files[f] # Missing =>
       /\ files[f].begun <= files[f].db.data /\ files[f].db.data <= files[f].series
       /\ files[f].series <= files[f].ended
       /\ files[f].db.version = Schema(files[f].manifest.release)

(* What is staged comes from a whole archive of this or an older release;  *)
(* such an archive with a known key is never refused, but for an older     *)
(* pre-release of the same number.                                         *)
OursAreAccepted ==
    /\ upload.pc \in {"extract", "migrate", "swap"} =>
         CompareReleases(files[upload.file].manifest.release, app.release) \in {-1, 0}
    /\ upload.pc = "refused" /\ HmacOk(upload.file) =>
         LET r == files[upload.file].manifest.release IN
         \/ r.number > app.release.number
         \/ r.number = app.release.number /\ r # app.release /\ app.release.pre # "final"
         \/ MissingMigrations(files[upload.file].db.version, Schema(app.release))

ArchivesKept == RunsOnItsSchema /\ ArchiveIsOneState /\ OursAreAccepted
=============================================================================
