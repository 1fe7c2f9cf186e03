---------------------------- MODULE AssetBackup -----------------------------
(***************************************************************************)
(* AssetCommit with the backup of its data root (backup.py): create_backup *)
(* holds SQLite's writer lock while it copies the database and then the    *)
(* published files, but no process stops working on files meanwhile; it    *)
(* audits the copy before it publishes it.  restore_backup builds another  *)
(* data root from it, on which the system then runs with no process of     *)
(* the old one.                                                            *)
(***************************************************************************)
EXTENDS AssetCommit

VARIABLE backup  \* phase of the backup, its database and its files

backupVars == <<vars, backup>>

Snapshot == [job : [status : Statuses, token : AttemptNos \cup {0},
                    live : BOOLEAN, cancel : BOOLEAN],
             attempts : 0..MaxAttempts, registered : SUBSET Assets]

BackupTypeOK ==
    backup \in [phase : {"none", "copying", "done", "refused", "restored"},
                db : Snapshot, files : SUBSET Assets]

CurrentDb == [job |-> job, attempts |-> attempts, registered |-> registered]

NoSnapshot == [job |-> [status |-> "queued", token |-> 0, live |-> FALSE,
                        cancel |-> FALSE], attempts |-> 0, registered |-> {}]

BackupInit ==
    /\ Init
    /\ backup = [phase |-> "none", db |-> NoSnapshot, files |-> {}]

\* What a transaction writes; leases expire without one.
Written == <<job.status, job.token, job.cancel, attempts, lock, intents, owner,
             registered>>

\* A step of AssetCommit.  While the backup has the writer lock, one that would
\* write the database waits or fails.
CommitStep ==
    /\ Next
    /\ backup.phase = "copying" => UNCHANGED Written
    /\ UNCHANGED backup

\* Mutant: the backup does not look for pending commits.
Quiescent_Always == TRUE

\* The count of asset_commit_intents is 0.
Quiescent == intents = {}

\* create_backup up to _sqlite_online_backup.
BeginBackup ==
    /\ backup.phase \in {"none", "refused"} /\ lock = 0 /\ Quiescent
    /\ backup' = [phase |-> "copying", db |-> CurrentDb, files |-> {}]
    /\ UNCHANGED vars

\* _copy_regular_file for the files of one asset; assets/.staging is left out.
CopyAsset(a) ==
    /\ backup.phase = "copying" /\ a \in published \ backup.files
    /\ backup' = [backup EXCEPT !.files = @ \cup {a}]
    /\ UNCHANGED vars

\* _audit_database_and_assets: the published directories are those of the rows.
Audits == backup.files = backup.db.registered

\* The copy is audited before the lock is released.
FinishBackup ==
    /\ backup.phase = "copying" /\ published \subseteq backup.files
    /\ backup' = [backup EXCEPT !.phase = IF Audits THEN "done" ELSE "refused"]
    /\ UNCHANGED vars

\* The backup's process dies, or a copy fails and its stage is removed.
CrashBackup ==
    /\ backup.phase = "copying"
    /\ backup' = [phase |-> "none", db |-> NoSnapshot, files |-> {}]
    /\ UNCHANGED vars

\* restore_backup, and the first start on the new root: attempts whose row says
\* running have no process.  Bound: one restore.
Restore ==
    /\ backup.phase = "done" /\ Audits
    /\ backup' = [phase |-> "restored", db |-> NoSnapshot, files |-> {}]
    /\ job' = backup.db.job /\ attempts' = backup.db.attempts
    /\ registered' = backup.db.registered /\ published' = backup.files
    /\ lock' = 0 /\ intents' = {} /\ fresh' = {} /\ staged' = {}
    /\ owner' = [a \in Assets |-> NoOne]
    /\ pc' = [n \in AttemptNos |->
                 IF n <= backup.db.attempts THEN "gone" ELSE "none"]
    /\ mem' = [n \in AttemptNos |-> {}] /\ durable' = [n \in AttemptNos |-> {}]
    /\ todo' = [r \in Recoverers |-> {}] /\ removed' = [r \in Recoverers |-> {}]

BackupNext ==
    \/ CommitStep \/ BeginBackup \/ FinishBackup \/ CrashBackup \/ Restore
    \/ \E a \in Assets : CopyAsset(a)

BackupSpec == BackupInit /\ [][BackupNext]_backupVars

-----------------------------------------------------------------------------
(***************************************************************************)
(* Properties                                                              *)
(***************************************************************************)
\* create_backup stops only the writers of the database, not those of files,
\* and still the files it copies one after the other are exactly those of the
\* database it copied before: a backup is never refused, and one that is done
\* can be restored.
BackupConsistent ==
    /\ BackupTypeOK
    /\ backup.phase /= "refused"
    /\ backup.phase = "done" => Audits
    /\ backup.phase = "copying" =>
          backup.files \subseteq backup.db.registered
              /\ backup.db.registered \subseteq published
=============================================================================
