---------------------------- MODULE AssetCommit -----------------------------
(***************************************************************************)
(* How the result of one download job becomes visible: staged directories, *)
(* durable commit intents, publishing by rename inside the finalizing      *)
(* transaction, and the three-phase recovery of abandoned intents          *)
(* (worker_repository.py, assets.py and the last part of                   *)
(* Worker.execute_claimed).                                                *)
(*                                                                         *)
(* File system and database change at different moments, and a process     *)
(* may die between any two steps.  Attempts are numbered, an attempt's     *)
(* number stands for its id and for its lease token (0 is NULL), and an    *)
(* asset is the pair of an attempt and an item, because every stage_file   *)
(* draws a fresh asset id.  Attempt n keeps running after it was fenced    *)
(* (a zombie) until it notices.  The transactions that call back into the  *)
(* file system are several steps under SQLite's writer lock; all others    *)
(* are one step that needs the lock free.                                  *)
(***************************************************************************)
EXTENDS Integers

CONSTANTS
    Items,        \* the media items of the source
    MaxAttempts,  \* bound on the attempts of the job
    Recoverers    \* processes that run recover_asset_commit_intents

NoOne == "no one"

ASSUME CommitAssumption ==
    /\ MaxAttempts \in Nat \ {0}
    /\ Items /= {}
    /\ NoOne \notin Recoverers

VARIABLES
    job,         \* status, lease token, live lease, cancellation request
    attempts,    \* attempt_count
    lock,        \* the attempt inside a long write transaction, 0 if none
    intents,     \* asset_commit_intents
    owner,       \* recovery_token of each intent
    fresh,       \* assets whose recovery_expires_at is in the future
    registered,  \* media_assets
    staged,      \* directories under assets/.staging
    published,   \* directories under assets/
    pc,          \* where execute_claimed stands, per attempt
    mem,         \* staged_assets of the attempt
    durable,     \* durable_intent_ids of the attempt
    todo,        \* recovery claims a process has still to work on
    removed      \* the claim whose files are removed, not yet its intent

dbVars   == <<job, attempts, lock, intents, owner, fresh, registered>>
fileVars == <<staged, published>>
memVars  == <<pc, mem, durable>>
recVars  == <<todo, removed>>
vars     == <<dbVars, fileVars, memVars, recVars>>

AttemptNos == 1..MaxAttempts
Assets     == AttemptNos \X Items
AssetsOf(n) == {n} \X Items

PCs == {"none", "staging", "finalizing", "canceling", "failed", "recanceling",
        "cleanup", "committed", "gone"}

\* The statuses an attempt in this module can leave the job in; "verifying"
\* is the only active status in which assets exist.
Statuses == {"queued", "verifying", "ready", "failed", "canceled"}

TypeOK ==
    /\ job \in [status : Statuses, token : AttemptNos \cup {0},
                live : BOOLEAN, cancel : BOOLEAN]
    /\ attempts \in 0..MaxAttempts
    /\ lock \in AttemptNos \cup {0}
    /\ intents \subseteq Assets
    /\ owner \in [Assets -> Recoverers \cup {NoOne}]
    /\ fresh \subseteq Assets
    /\ registered \subseteq Assets
    /\ staged \subseteq Assets
    /\ published \subseteq Assets
    /\ pc \in [AttemptNos -> PCs]
    /\ mem \in [AttemptNos -> SUBSET Items]
    /\ durable \in [AttemptNos -> SUBSET Items]
    /\ todo \in [Recoverers -> SUBSET Assets]
    /\ removed \in [Recoverers -> SUBSET Assets]

Init ==
    /\ job = [status |-> "queued", token |-> 0, live |-> FALSE, cancel |-> FALSE]
    /\ attempts = 0 /\ lock = 0
    /\ intents = {} /\ registered = {} /\ fresh = {}
    /\ owner = [a \in Assets |-> NoOne]
    /\ staged = {} /\ published = {}
    /\ pc = [n \in AttemptNos |-> "none"]
    /\ mem = [n \in AttemptNos |-> {}]
    /\ durable = [n \in AttemptNos |-> {}]
    /\ todo = [r \in Recoverers |-> {}]
    /\ removed = [r \in Recoverers |-> {}]

\* The fence of every write of attempt n; its attempt row is running exactly
\* while the job carries its token.
Holds(n) == job.status = "verifying" /\ job.token = n /\ job.live

GoTo(n, label) == pc' = [pc EXCEPT ![n] = label]

\* The assignments by which a job leaves its lease.
Released(status) ==
    [status |-> status, token |-> 0, live |-> FALSE,
     cancel |-> job.cancel /\ status = "canceled"]

\* remove_pending_asset: the staged and the published directory.
RemoveFiles(gone) ==
    staged' = staged \ gone /\ published' = published \ gone

-----------------------------------------------------------------------------
(***************************************************************************)
(* The attempt                                                             *)
(***************************************************************************)
\* claim_next, then execute_claimed up to the transition to verifying.
Begin(n) ==
    /\ lock = 0 /\ job.status = "queued" /\ intents = {}
    /\ n = attempts + 1
    /\ job' = [status |-> "verifying", token |-> n, live |-> TRUE,
               cancel |-> job.cancel]
    /\ attempts' = n
    /\ GoTo(n, "staging")
    /\ UNCHANGED <<lock, intents, owner, fresh, registered, fileVars, mem,
                   durable, recVars>>

\* stage_file looks at no lease: a zombie stages too.
StageFile(n, i) ==
    /\ pc[n] = "staging" /\ mem[n] = durable[n] /\ i \notin mem[n]
    /\ staged' = staged \cup {<<n, i>>}
    /\ mem' = [mem EXCEPT ![n] = @ \cup {i}]
    /\ UNCHANGED <<dbVars, published, pc, durable, recVars>>

\* record_asset_commit_intent
RecordIntent(n, i) ==
    /\ pc[n] = "staging" /\ i \in mem[n] \ durable[n]
    /\ lock = 0 /\ Holds(n)
    /\ intents' = intents \cup {<<n, i>>}
    /\ durable' = [durable EXCEPT ![n] = @ \cup {i}]
    /\ UNCHANGED <<job, attempts, lock, owner, fresh, registered, fileVars, pc,
                   mem, recVars>>

\* A heartbeat or a refused write raises LostLease.
LoseLease(n) ==
    /\ pc[n] = "staging" /\ lock = 0 /\ ~Holds(n)
    /\ GoTo(n, "cleanup")
    /\ UNCHANGED <<dbVars, fileVars, mem, durable, recVars>>

\* Any other exception (adapter, validation, storage).
Error(n) ==
    /\ pc[n] = "staging"
    /\ GoTo(n, "failed")
    /\ UNCHANGED <<dbVars, fileVars, mem, durable, recVars>>

\* finalize_asset_commit_intents up to the branch on the cancellation, and
\* finish_canceled after a heartbeat reported it.
BeginFinalize(n) ==
    /\ pc[n] = "staging" /\ lock = 0 /\ Holds(n)
    /\ \/ /\ durable[n] = Items /\ intents \cap AssetsOf(n) = AssetsOf(n)
          /\ GoTo(n, IF job.cancel THEN "canceling" ELSE "finalizing")
       \/ job.cancel /\ GoTo(n, "canceling")
    /\ lock' = n
    /\ UNCHANGED <<job, attempts, intents, owner, fresh, registered, fileVars,
                   mem, durable, recVars>>

\* publish_staged: one rename, not undone by a rollback.
PublishStaged(n, i) ==
    /\ lock = n /\ pc[n] = "finalizing"
    /\ <<n, i>> \in staged /\ <<n, i>> \notin published
    /\ staged' = staged \ {<<n, i>>}
    /\ published' = published \cup {<<n, i>>}
    /\ UNCHANGED <<dbVars, memVars, recVars>>

\* Mutant: the transaction commits after the first published asset.
AllPublished_Some(n) == AssetsOf(n) \cap published /= {}

AllPublished(n) == AssetsOf(n) \subseteq published

\* The asset rows, the ready job and the end of the intents commit together.
CommitReady(n) ==
    /\ lock = n /\ pc[n] = "finalizing" /\ AllPublished(n)
    /\ registered' = registered \cup AssetsOf(n)
    /\ job' = Released("ready")
    /\ intents' = intents \ AssetsOf(n)
    /\ lock' = 0
    /\ GoTo(n, "committed")
    /\ durable' = [durable EXCEPT ![n] = {}]
    /\ UNCHANGED <<attempts, owner, fresh, fileVars, mem, recVars>>

\* _remove_and_delete_intents_locked, file by file.
RemovePending(n, i) ==
    /\ lock = n /\ pc[n] \in {"canceling", "recanceling"}
    /\ <<n, i>> \in intents
    /\ RemoveFiles({<<n, i>>})
    /\ UNCHANGED <<dbVars, memVars, recVars>>

\* Every intent of the attempt had its files removed.
FilesGone(n) == intents \cap AssetsOf(n) \cap (staged \cup published) = {}

CommitCanceled(n) ==
    /\ lock = n /\ pc[n] \in {"canceling", "recanceling"} /\ FilesGone(n)
    /\ job' = Released("canceled")
    /\ intents' = intents \ AssetsOf(n)
    /\ lock' = 0
    /\ GoTo(n, "cleanup")
    /\ durable' = [durable EXCEPT ![n] = {}]
    /\ UNCHANGED <<attempts, owner, fresh, registered, fileVars, mem, recVars>>

\* An exception inside the transaction rolls the database back, not the files;
\* the handler then calls finish_failure, or fails itself.
Rollback(n) ==
    /\ lock = n
    /\ lock' = 0
    /\ GoTo(n, IF pc[n] = "recanceling" THEN "cleanup" ELSE "failed")
    /\ UNCHANGED <<job, attempts, intents, owner, fresh, registered, fileVars,
                   mem, durable, recVars>>

\* finish_failure: the intents are left to recovery.  RetryPolicy decides
\* between queued and failed.
FinishFailure(n) ==
    /\ pc[n] = "failed" /\ lock = 0
    /\ \/ /\ ~Holds(n)
          /\ GoTo(n, "cleanup") /\ UNCHANGED <<job, lock>>
       \/ /\ Holds(n) /\ job.cancel
          /\ GoTo(n, "recanceling") /\ lock' = n /\ UNCHANGED job
       \/ /\ Holds(n) /\ ~job.cancel
          /\ \E status \in {"queued", "failed"} : job' = Released(status)
          /\ GoTo(n, "cleanup") /\ UNCHANGED lock
    /\ UNCHANGED <<attempts, intents, owner, fresh, registered, fileVars, mem,
                   durable, recVars>>

\* Mutant: the finally block does not test assets_registered.
Leftovers_Always(n) == {n} \X (mem[n] \ durable[n])

\* What the finally block removes: staged assets without a durable intent,
\* unless the assets were registered.
Leftovers(n) ==
    IF pc[n] = "committed" THEN {} ELSE {n} \X (mem[n] \ durable[n])

\* The finally block; a removal that fails leaves its files behind.
Cleanup(n) ==
    /\ pc[n] \in {"cleanup", "committed"}
    /\ \E gone \in {Leftovers(n), {}} : RemoveFiles(gone)
    /\ GoTo(n, "gone")
    /\ UNCHANGED <<dbVars, mem, durable, recVars>>

\* The process dies; SQLite rolls an open transaction back.
Crash(n) ==
    /\ pc[n] \notin {"none", "gone"}
    /\ lock' = IF lock = n THEN 0 ELSE lock
    /\ GoTo(n, "gone")
    /\ UNCHANGED <<job, attempts, intents, owner, fresh, registered, fileVars,
                   mem, durable, recVars>>

-----------------------------------------------------------------------------
(***************************************************************************)
(* Recovery                                                                *)
(***************************************************************************)
\* Mutant: a claim whose process died is never taken over.
Stale_Unclaimed ==
    {a \in intents : owner[a] = NoOne /\ ~(Holds(a[1]) /\ ~job.cancel)}

\* Intents that can be claimed: no unexpired claim, and not exact_active.
Stale == {a \in intents \ fresh : ~(Holds(a[1]) /\ ~job.cancel)}

\* The job after the attempts of the claimed intents were fenced.
FencedJob(claimed) ==
    IF \E a \in claimed : a[1] = job.token
    THEN Released(IF job.cancel THEN "canceled" ELSE
                  IF attempts = MaxAttempts THEN "failed" ELSE "queued")
    ELSE job

\* _prepare_asset_intent_recovery_locked
PrepareRecovery(r) ==
    /\ lock = 0 /\ todo[r] = {} /\ removed[r] = {} /\ Stale /= {}
    /\ owner' = [a \in Assets |-> IF a \in Stale THEN r ELSE owner[a]]
    /\ fresh' = fresh \cup Stale
    /\ job' = FencedJob(Stale)
    /\ todo' = [todo EXCEPT ![r] = Stale]
    /\ UNCHANGED <<attempts, lock, intents, registered, fileVars, memVars,
                   removed>>

\* remove_pending_asset, outside any transaction.
RecoverFiles(r, a) ==
    /\ a \in todo[r] /\ removed[r] = {}
    /\ RemoveFiles({a})
    /\ todo' = [todo EXCEPT ![r] = @ \ {a}]
    /\ removed' = [removed EXCEPT ![r] = {a}]
    /\ UNCHANGED <<dbVars, memVars>>

\* _complete_asset_intent_recovery_claim, and the exception (which ends the
\* process) when the claim expired and another process took it.
CompleteRecovery(r, a) ==
    /\ a \in removed[r] /\ lock = 0
    /\ \/ /\ a \in intents /\ owner[a] = r
          /\ intents' = intents \ {a} /\ fresh' = fresh \ {a}
          /\ owner' = [owner EXCEPT ![a] = NoOne]
          /\ UNCHANGED todo
       \/ /\ ~(a \in intents /\ owner[a] = r)
          /\ owner' = [b \in Assets |-> IF b \in todo[r] /\ owner[b] = r
                                        THEN NoOne ELSE owner[b]]
          /\ fresh' = {b \in fresh : ~(b \in todo[r] /\ owner[b] = r)}
          /\ todo' = [todo EXCEPT ![r] = {}]
          /\ UNCHANGED intents
    /\ removed' = [removed EXCEPT ![r] = {}]
    /\ UNCHANGED <<job, attempts, lock, registered, fileVars, memVars>>

\* remove_pending_asset raises: _release_asset_intent_recovery_claims.
ReleaseRecovery(r) ==
    /\ todo[r] /= {} /\ removed[r] = {} /\ lock = 0
    /\ owner' = [a \in Assets |-> IF a \in todo[r] /\ owner[a] = r
                                  THEN NoOne ELSE owner[a]]
    /\ fresh' = {a \in fresh : ~(a \in todo[r] /\ owner[a] = r)}
    /\ todo' = [todo EXCEPT ![r] = {}]
    /\ UNCHANGED <<job, attempts, lock, intents, registered, fileVars, memVars,
                   removed>>

\* The recovering process dies; its claims stay until they expire.
CrashRecovery(r) ==
    /\ todo[r] \cup removed[r] /= {}
    /\ todo' = [todo EXCEPT ![r] = {}]
    /\ removed' = [removed EXCEPT ![r] = {}]
    /\ UNCHANGED <<dbVars, fileVars, memVars>>

ExpireClaims ==
    /\ fresh /= {}
    /\ fresh' = {}
    /\ UNCHANGED <<job, attempts, lock, intents, owner, registered, fileVars,
                   memVars, recVars>>

\* The attempt row exists and is not running.
Terminal(n) == n <= attempts /\ n /= job.token

\* reconcile_attempt_directories and cleanup_attempt_identity
Reconcile(n) ==
    /\ Terminal(n)
    /\ staged \cap AssetsOf(n) /= {}
    /\ staged' = staged \ AssetsOf(n)
    /\ UNCHANGED <<dbVars, published, memVars, recVars>>

-----------------------------------------------------------------------------
(***************************************************************************)
(* Time, leases without intents, and the API                               *)
(***************************************************************************)
Lapse ==
    /\ job.live
    /\ job' = [status |-> job.status, token |-> job.token, live |-> FALSE,
               cancel |-> job.cancel]
    /\ UNCHANGED <<attempts, lock, intents, owner, fresh, registered, fileVars,
                   memVars, recVars>>

\* _recover_expired
RecoverExpired ==
    /\ lock = 0 /\ job.status = "verifying" /\ ~job.live /\ intents = {}
    /\ job' = Released(IF job.cancel THEN "canceled" ELSE
                       IF attempts = MaxAttempts THEN "failed" ELSE "queued")
    /\ UNCHANGED <<attempts, lock, intents, owner, fresh, registered, fileVars,
                   memVars, recVars>>

\* request_cancel
RequestCancel ==
    /\ lock = 0
    /\ job.status \in {"queued", "verifying"}
    /\ job' = [status |-> IF job.status = "queued" THEN "canceled"
                                                  ELSE "verifying",
               token |-> job.token, live |-> job.live, cancel |-> TRUE]
    /\ UNCHANGED <<attempts, lock, intents, owner, fresh, registered, fileVars,
                   memVars, recVars>>

\* request_retry
RequestRetry ==
    /\ lock = 0 /\ job.status = "failed"
    /\ job' = [status |-> "queued", token |-> 0, live |-> FALSE, cancel |-> FALSE]
    /\ UNCHANGED <<attempts, lock, intents, owner, fresh, registered, fileVars,
                   memVars, recVars>>

AttemptStep(n) ==
    \/ Begin(n) \/ LoseLease(n) \/ Error(n) \/ BeginFinalize(n)
    \/ CommitReady(n) \/ CommitCanceled(n) \/ Rollback(n) \/ FinishFailure(n)
    \/ Cleanup(n) \/ Crash(n) \/ Reconcile(n)
    \/ \E i \in Items : \/ StageFile(n, i) \/ RecordIntent(n, i)
                        \/ PublishStaged(n, i) \/ RemovePending(n, i)

RecoveryStep(r) ==
    \/ PrepareRecovery(r) \/ ReleaseRecovery(r) \/ CrashRecovery(r)
    \/ \E a \in Assets : RecoverFiles(r, a) \/ CompleteRecovery(r, a)

Next ==
    \/ \E n \in AttemptNos : AttemptStep(n)
    \/ \E r \in Recoverers : RecoveryStep(r)
    \/ ExpireClaims \/ Lapse \/ RecoverExpired \/ RequestCancel \/ RequestRetry

Spec == Init /\ [][Next]_vars

\* The steps of a process that is neither killed nor claims anything new.
Executes(n) ==
    \/ LoseLease(n) \/ Error(n) \/ BeginFinalize(n) \/ CommitReady(n)
    \/ CommitCanceled(n) \/ Rollback(n) \/ FinishFailure(n) \/ Cleanup(n)
    \/ \E i \in Items : \/ StageFile(n, i) \/ RecordIntent(n, i)
                        \/ PublishStaged(n, i) \/ RemovePending(n, i)

\* A process goes on (the adapter has a deadline); claims expire, and the lease
\* of a process that is gone lapses; the poll of some Worker recovers expired
\* leases and intents and reconciles directories.  Strong fairness: the
\* recovering process is not killed, and does not fail, in every recovery.
\* Nothing is assumed of crashes, cancellations, retries or claims.
Fairness ==
    /\ WF_vars(ExpireClaims) /\ WF_vars(RecoverExpired)
    /\ \A n \in AttemptNos :
          /\ WF_vars(Executes(n)) /\ WF_vars(Reconcile(n))
          /\ WF_vars(job.token = n /\ pc[n] = "gone" /\ Lapse)
    /\ \A r \in Recoverers :
          /\ SF_vars(PrepareRecovery(r))
          /\ \A a \in Assets : /\ SF_vars(RecoverFiles(r, a))
                              /\ SF_vars(CompleteRecovery(r, a))

FairSpec == Spec /\ Fairness

-----------------------------------------------------------------------------
(***************************************************************************)
(* Properties                                                              *)
(***************************************************************************)
\* A media_assets row always has its published directory: neither a zombie's
\* finally block, nor a recovery that resumes after its claim expired, nor a
\* cancellation racing the commit removes files that were registered.
RegisteredFilesExist == registered \subseteq published

\* A crash between the rename and the commit leaves no untracked directory
\* under assets/: whatever is published is registered or has an intent that
\* recovery will find.
NoOrphanPublished == published \subseteq registered \cup intents

\* Nothing deletes the staged files of an attempt that holds its lease, is
\* not canceled and may still publish them.
LiveAttemptKeepsFiles ==
    \A n \in AttemptNos :
        Holds(n) /\ ~job.cancel /\ pc[n] \in {"staging", "finalizing"} =>
            {n} \X mem[n] \subseteq staged \cup published

\* The files of the data root and the rows of its database account for each
\* other at every moment, for finished, running and abandoned attempts alike.
FilesTracked ==
    TypeOK /\ RegisteredFilesExist /\ NoOrphanPublished /\ LiveAttemptKeepsFiles

\* A recovery claim is never worked on for an attempt that still has the
\* lease: fencing precedes every file removal.
RecoveryFencesFirst ==
    \A r \in Recoverers : \A a \in todo[r] \cup removed[r] :
        a[1] /= job.token /\ a[1] <= attempts /\ a \notin registered

\* The detailed commit implements the atomic publication.
Library == INSTANCE AssetLibrary WITH visible <- registered \cap published
PublishesAtomically == Library!Spec

\* Files that no committed row accounts for do not stay: they are registered,
\* or removed by the attempt, by recovery or by reconciliation.
LeftoversRemoved ==
    \A a \in Assets :
        a \in staged \cup published ~> a \in registered \/ a \notin staged \cup published
=============================================================================
