------------------------- MODULE RootAndTools_proofs -------------------------
(***************************************************************************)
(* Theorems about the parts that MCRootAndTools checks, for every value of *)
(* the constants, except DiscoveryGraph (DiscoveryGraph_proofs): the files *)
(* and rows of a job and a backup of them (AssetCommit, AssetBackup), the  *)
(* tools of an upload (UploadBridge), the databases as processes open them *)
(* (SchemaFiles) and as a migration rewrites them (LegacyRows), and the    *)
(* directories that setups install (RuntimeSetup).  Each has an inductive  *)
(* invariant of its own, with a lemma for each action.                     *)
(***************************************************************************)
EXTENDS MCRootAndTools, TLAPS

-----------------------------------------------------------------------------
(***************************************************************************)
(* Files, rows and backups: AssetCommit and AssetBackup                    *)
(***************************************************************************)

Holding == {"finalizing", "canceling", "recanceling"}

\* Who may be inside a long transaction: the attempt whose token the job
\* carries, and every process at such a label is that one.
LockInv ==
    /\ \A n \in AttemptNos : pc[n] \in Holding <=> lock = n
    /\ lock /= 0 => job.status = "verifying" /\ job.token = lock
    /\ \A n \in AttemptNos : pc[n] = "finalizing" => AssetsOf(n) \subseteq intents

\* A token belongs to a verifying job, and was issued by a claim; a process
\* that has not started has no number yet.
TokenInv ==
    /\ job.status = "verifying" <=> job.token /= 0
    /\ job.token <= attempts
    /\ \A n \in AttemptNos : n > attempts => pc[n] = "none"

\* Intents and published files belong to attempts that were started.
IssuedInv == \A a \in intents \cup published : a[1] <= attempts

\* Once assets are registered the job is ready, they are those of one attempt
\* whose process does nothing but leave, and no intent names them.
RegisteredInv ==
    registered /= {} =>
        /\ job.status = "ready"
        /\ \E n \in AttemptNos :
              registered = AssetsOf(n) /\ pc[n] \in {"committed", "gone"}
        /\ registered \cap intents = {}

\* A recovery whose files are removed stays removed until its intent is gone.
RemovedInv == \A r \in Recoverers : removed[r] \cap published = {}

\* The inductive invariant.
IInv ==
    /\ TypeOK /\ LockInv /\ TokenInv /\ IssuedInv /\ RegisteredInv /\ RemovedInv
    /\ RecoveryFencesFirst /\ RegisteredFilesExist /\ NoOrphanPublished

LEMMA InitInv == Init => IInv
  BY CommitAssumption
  DEF Init, IInv, TypeOK, LockInv, TokenInv, IssuedInv, RegisteredInv,
      RemovedInv, RecoveryFencesFirst, RegisteredFilesExist, NoOrphanPublished,
      Holding, Statuses, PCs, AttemptNos, Assets

LEMMA BeginInv == ASSUME NEW n \in AttemptNos, IInv, Begin(n) PROVE IInv'
  BY CommitAssumption, SMT
  DEF IInv, TypeOK, LockInv, TokenInv, IssuedInv, RegisteredInv, RemovedInv,
      RecoveryFencesFirst, RegisteredFilesExist, NoOrphanPublished, Holding,
      Statuses, PCs, AttemptNos, Assets, AssetsOf, dbVars, fileVars, memVars,
      recVars, Begin, GoTo

LEMMA LoseLeaseInv == ASSUME NEW n \in AttemptNos, IInv, LoseLease(n) PROVE IInv'
  BY CommitAssumption, SMT
  DEF IInv, TypeOK, LockInv, TokenInv, IssuedInv, RegisteredInv, RemovedInv,
      RecoveryFencesFirst, RegisteredFilesExist, NoOrphanPublished, Holding,
      Statuses, PCs, AttemptNos, Assets, AssetsOf, dbVars, fileVars, memVars,
      recVars, LoseLease, GoTo

LEMMA ErrorInv == ASSUME NEW n \in AttemptNos, IInv, Error(n) PROVE IInv'
  BY CommitAssumption, SMT
  DEF IInv, TypeOK, LockInv, TokenInv, IssuedInv, RegisteredInv, RemovedInv,
      RecoveryFencesFirst, RegisteredFilesExist, NoOrphanPublished, Holding,
      Statuses, PCs, AttemptNos, Assets, AssetsOf, dbVars, fileVars, memVars,
      recVars, Error, GoTo

LEMMA BeginFinalizeInv == ASSUME NEW n \in AttemptNos, IInv, BeginFinalize(n) PROVE IInv'
  BY CommitAssumption, SMT
  DEF IInv, TypeOK, LockInv, TokenInv, IssuedInv, RegisteredInv, RemovedInv,
      RecoveryFencesFirst, RegisteredFilesExist, NoOrphanPublished, Holding,
      Statuses, PCs, AttemptNos, Assets, AssetsOf, dbVars, fileVars, memVars,
      recVars, BeginFinalize, GoTo, Holds

LEMMA CommitReadyInv == ASSUME NEW n \in AttemptNos, IInv, CommitReady(n) PROVE IInv'
  <1>1. registered = {}
    BY SMT DEF IInv, LockInv, RegisteredInv, CommitReady, AttemptNos
  <1>2. registered' = AssetsOf(n) /\ job'.status = "ready"
        /\ pc'[n] = "committed" /\ registered' \cap intents' = {}
    BY <1>1, SMT DEF CommitReady, GoTo, Released, IInv, TypeOK, AssetsOf
  <1>3. RegisteredInv'
    BY <1>2 DEF RegisteredInv
  <1>4. (TypeOK /\ LockInv /\ TokenInv /\ IssuedInv)'
    BY CommitAssumption, SMT
    DEF IInv, TypeOK, LockInv, TokenInv, IssuedInv, Holding, Statuses, PCs,
        AttemptNos, Assets, AssetsOf, fileVars, recVars, CommitReady, GoTo,
        AllPublished, Released
  <1>5. (RemovedInv /\ RegisteredFilesExist /\ NoOrphanPublished)'
    BY <1>1, SMT
    DEF IInv, RemovedInv, RegisteredFilesExist, NoOrphanPublished, AssetsOf,
        fileVars, recVars, CommitReady, AllPublished
  <1>6. RecoveryFencesFirst'
    BY <1>1, CommitAssumption, SMT
    DEF IInv, TypeOK, LockInv, RecoveryFencesFirst, AttemptNos, Assets,
        AssetsOf, recVars, CommitReady, Released
  <1>. QED  BY <1>3, <1>4, <1>5, <1>6 DEF IInv

LEMMA CommitCanceledInv == ASSUME NEW n \in AttemptNos, IInv, CommitCanceled(n) PROVE IInv'
  BY CommitAssumption, SMT
  DEF IInv, TypeOK, LockInv, TokenInv, IssuedInv, RegisteredInv, RemovedInv,
      RecoveryFencesFirst, RegisteredFilesExist, NoOrphanPublished, Holding,
      Statuses, PCs, AttemptNos, Assets, AssetsOf, dbVars, fileVars, memVars,
      recVars, CommitCanceled, GoTo, FilesGone, Released

LEMMA RollbackInv == ASSUME NEW n \in AttemptNos, IInv, Rollback(n) PROVE IInv'
  BY CommitAssumption, SMT
  DEF IInv, TypeOK, LockInv, TokenInv, IssuedInv, RegisteredInv, RemovedInv,
      RecoveryFencesFirst, RegisteredFilesExist, NoOrphanPublished, Holding,
      Statuses, PCs, AttemptNos, Assets, AssetsOf, dbVars, fileVars, memVars,
      recVars, Rollback, GoTo

LEMMA FinishFailureInv == ASSUME NEW n \in AttemptNos, IInv, FinishFailure(n) PROVE IInv'
  <1>. USE DEF IInv, FinishFailure, GoTo, fileVars, recVars
  <1>1. job' \in [status : Statuses, token : AttemptNos \cup {0},
                  live : BOOLEAN, cancel : BOOLEAN]
    <2>1. CASE UNCHANGED job
      BY <2>1 DEF TypeOK
    <2>2. CASE \E st \in {"queued", "failed"} : job' = Released(st)
      BY <2>2, SMT DEF Released, Statuses, AttemptNos
    <2>. QED  BY <2>1, <2>2
  <1>2. TypeOK'
    BY <1>1, SMT DEF TypeOK, PCs, AttemptNos
  <1>3. (LockInv /\ TokenInv /\ IssuedInv /\ RemovedInv)'
    BY CommitAssumption, SMT
    DEF TypeOK, LockInv, TokenInv, IssuedInv, RemovedInv, Holding, PCs,
        AttemptNos, AssetsOf, Holds, Released
  <1>5. RegisteredInv'
    <2>1. SUFFICES ASSUME registered /= {} PROVE RegisteredInv'
      BY DEF RegisteredInv
    <2>2. PICK m \in AttemptNos :
             registered = AssetsOf(m) /\ pc[m] \in {"committed", "gone"}
      BY <2>1 DEF RegisteredInv
    <2>3. job.status = "ready" /\ job' = job
      BY <2>1 DEF RegisteredInv, Holds
    <2>4. pc'[m] = pc[m]
      BY <2>2 DEF TypeOK
    <2>. QED  BY <2>2, <2>3, <2>4 DEF RegisteredInv, AssetsOf
  <1>4. (RecoveryFencesFirst /\ RegisteredFilesExist /\ NoOrphanPublished)'
    BY CommitAssumption, SMT
    DEF TypeOK, RecoveryFencesFirst, RegisteredFilesExist, NoOrphanPublished,
        AttemptNos, Assets, Released
  <1>. QED  BY <1>2, <1>3, <1>4, <1>5

LEMMA CleanupInv == ASSUME NEW n \in AttemptNos, IInv, Cleanup(n) PROVE IInv'
  BY CommitAssumption, SMT
  DEF IInv, TypeOK, LockInv, TokenInv, IssuedInv, RegisteredInv, RemovedInv,
      RecoveryFencesFirst, RegisteredFilesExist, NoOrphanPublished, Holding,
      Statuses, PCs, AttemptNos, Assets, AssetsOf, dbVars, fileVars, memVars,
      recVars, Cleanup, GoTo, RemoveFiles, Leftovers

LEMMA CrashInv == ASSUME NEW n \in AttemptNos, IInv, Crash(n) PROVE IInv'
  BY CommitAssumption, SMT
  DEF IInv, TypeOK, LockInv, TokenInv, IssuedInv, RegisteredInv, RemovedInv,
      RecoveryFencesFirst, RegisteredFilesExist, NoOrphanPublished, Holding,
      Statuses, PCs, AttemptNos, Assets, AssetsOf, dbVars, fileVars, memVars,
      recVars, Crash, GoTo

LEMMA ReconcileInv == ASSUME NEW n \in AttemptNos, IInv, Reconcile(n) PROVE IInv'
  BY CommitAssumption, SMT
  DEF IInv, TypeOK, LockInv, TokenInv, IssuedInv, RegisteredInv, RemovedInv,
      RecoveryFencesFirst, RegisteredFilesExist, NoOrphanPublished, Holding,
      Statuses, PCs, AttemptNos, Assets, AssetsOf, dbVars, fileVars, memVars,
      recVars, Reconcile

LEMMA StageFileInv ==
    ASSUME NEW n \in AttemptNos, NEW i \in Items, IInv, StageFile(n, i)
    PROVE  IInv'
  BY CommitAssumption, SMT
  DEF IInv, TypeOK, LockInv, TokenInv, IssuedInv, RegisteredInv, RemovedInv,
      RecoveryFencesFirst, RegisteredFilesExist, NoOrphanPublished, Holding,
      Statuses, PCs, AttemptNos, Assets, AssetsOf, dbVars, fileVars, memVars,
      recVars, StageFile

LEMMA RecordIntentInv ==
    ASSUME NEW n \in AttemptNos, NEW i \in Items, IInv, RecordIntent(n, i)
    PROVE  IInv'
  BY CommitAssumption, SMT
  DEF IInv, TypeOK, LockInv, TokenInv, IssuedInv, RegisteredInv, RemovedInv,
      RecoveryFencesFirst, RegisteredFilesExist, NoOrphanPublished, Holding,
      Statuses, PCs, AttemptNos, Assets, AssetsOf, dbVars, fileVars, memVars,
      recVars, RecordIntent, Holds

LEMMA PublishStagedInv ==
    ASSUME NEW n \in AttemptNos, NEW i \in Items, IInv, PublishStaged(n, i)
    PROVE  IInv'
  BY CommitAssumption, SMT
  DEF IInv, TypeOK, LockInv, TokenInv, IssuedInv, RegisteredInv, RemovedInv,
      RecoveryFencesFirst, RegisteredFilesExist, NoOrphanPublished, Holding,
      Statuses, PCs, AttemptNos, Assets, AssetsOf, dbVars, fileVars, memVars,
      recVars, PublishStaged

LEMMA RemovePendingInv ==
    ASSUME NEW n \in AttemptNos, NEW i \in Items, IInv, RemovePending(n, i)
    PROVE  IInv'
  BY CommitAssumption, SMT
  DEF IInv, TypeOK, LockInv, TokenInv, IssuedInv, RegisteredInv, RemovedInv,
      RecoveryFencesFirst, RegisteredFilesExist, NoOrphanPublished, Holding,
      Statuses, PCs, AttemptNos, Assets, AssetsOf, dbVars, fileVars, memVars,
      recVars, RemovePending, RemoveFiles

LEMMA PrepareRecoveryInv == ASSUME NEW r \in Recoverers, IInv, PrepareRecovery(r) PROVE IInv'
  BY CommitAssumption, SMT
  DEF IInv, TypeOK, LockInv, TokenInv, IssuedInv, RegisteredInv, RemovedInv,
      RecoveryFencesFirst, RegisteredFilesExist, NoOrphanPublished, Holding,
      Statuses, PCs, AttemptNos, Assets, AssetsOf, dbVars, fileVars, memVars,
      recVars, PrepareRecovery, Stale, FencedJob, Released

LEMMA ReleaseRecoveryInv == ASSUME NEW r \in Recoverers, IInv, ReleaseRecovery(r) PROVE IInv'
  BY CommitAssumption, SMT
  DEF IInv, TypeOK, LockInv, TokenInv, IssuedInv, RegisteredInv, RemovedInv,
      RecoveryFencesFirst, RegisteredFilesExist, NoOrphanPublished, Holding,
      Statuses, PCs, AttemptNos, Assets, AssetsOf, dbVars, fileVars, memVars,
      recVars, ReleaseRecovery

LEMMA CrashRecoveryInv == ASSUME NEW r \in Recoverers, IInv, CrashRecovery(r) PROVE IInv'
  BY CommitAssumption, SMT
  DEF IInv, TypeOK, LockInv, TokenInv, IssuedInv, RegisteredInv, RemovedInv,
      RecoveryFencesFirst, RegisteredFilesExist, NoOrphanPublished, Holding,
      Statuses, PCs, AttemptNos, Assets, AssetsOf, dbVars, fileVars, memVars,
      recVars, CrashRecovery

LEMMA RecoverFilesInv ==
    ASSUME NEW r \in Recoverers, NEW a \in Assets, IInv, RecoverFiles(r, a)
    PROVE  IInv'
  BY CommitAssumption, SMT
  DEF IInv, TypeOK, LockInv, TokenInv, IssuedInv, RegisteredInv, RemovedInv,
      RecoveryFencesFirst, RegisteredFilesExist, NoOrphanPublished, Holding,
      Statuses, PCs, AttemptNos, Assets, AssetsOf, dbVars, fileVars, memVars,
      recVars, RecoverFiles, RemoveFiles

LEMMA CompleteRecoveryInv ==
    ASSUME NEW r \in Recoverers, NEW a \in Assets, IInv, CompleteRecovery(r, a)
    PROVE  IInv'
  <1>. USE DEF IInv, CompleteRecovery, fileVars, memVars
  <1>1. owner' \in [Assets -> Recoverers \cup {NoOne}]
    BY SMT DEF TypeOK
  <1>2. todo' \in [Recoverers -> SUBSET Assets] /\ removed' \in [Recoverers -> SUBSET Assets]
    BY SMT DEF TypeOK
  <1>3. TypeOK'
    BY <1>1, <1>2, SMT DEF TypeOK
  <1>4. intents' \subseteq intents /\ published \cap removed[r] = {}
    BY SMT DEF RemovedInv
  <1>5. (LockInv /\ TokenInv /\ IssuedInv /\ RemovedInv)'
    BY CommitAssumption, SMT
    DEF TypeOK, LockInv, TokenInv, IssuedInv, RemovedInv, RecoveryFencesFirst,
        Holding, AttemptNos, Assets, AssetsOf
  <1>6. RegisteredInv'
    BY <1>4 DEF RegisteredInv
  <1>7. (RecoveryFencesFirst /\ RegisteredFilesExist /\ NoOrphanPublished)'
    BY <1>4, SMT
    DEF TypeOK, RecoveryFencesFirst, RegisteredFilesExist, NoOrphanPublished
  <1>. QED  BY <1>3, <1>5, <1>6, <1>7

LEMMA ExpireClaimsInv == ASSUME IInv, ExpireClaims PROVE IInv'
  BY CommitAssumption, SMT
  DEF IInv, TypeOK, LockInv, TokenInv, IssuedInv, RegisteredInv, RemovedInv,
      RecoveryFencesFirst, RegisteredFilesExist, NoOrphanPublished, Holding,
      Statuses, PCs, AttemptNos, Assets, AssetsOf, dbVars, fileVars, memVars,
      recVars, ExpireClaims

LEMMA LapseInv == ASSUME IInv, Lapse PROVE IInv'
  BY CommitAssumption, SMT
  DEF IInv, TypeOK, LockInv, TokenInv, IssuedInv, RegisteredInv, RemovedInv,
      RecoveryFencesFirst, RegisteredFilesExist, NoOrphanPublished, Holding,
      Statuses, PCs, AttemptNos, Assets, AssetsOf, dbVars, fileVars, memVars,
      recVars, Lapse

LEMMA RecoverExpiredInv == ASSUME IInv, RecoverExpired PROVE IInv'
  BY CommitAssumption, SMT
  DEF IInv, TypeOK, LockInv, TokenInv, IssuedInv, RegisteredInv, RemovedInv,
      RecoveryFencesFirst, RegisteredFilesExist, NoOrphanPublished, Holding,
      Statuses, PCs, AttemptNos, Assets, AssetsOf, dbVars, fileVars, memVars,
      recVars, RecoverExpired, Released

LEMMA RequestCancelInv == ASSUME IInv, RequestCancel PROVE IInv'
  BY CommitAssumption, SMT
  DEF IInv, TypeOK, LockInv, TokenInv, IssuedInv, RegisteredInv, RemovedInv,
      RecoveryFencesFirst, RegisteredFilesExist, NoOrphanPublished, Holding,
      Statuses, PCs, AttemptNos, Assets, AssetsOf, dbVars, fileVars, memVars,
      recVars, RequestCancel

LEMMA RequestRetryInv == ASSUME IInv, RequestRetry PROVE IInv'
  BY CommitAssumption, SMT
  DEF IInv, TypeOK, LockInv, TokenInv, IssuedInv, RegisteredInv, RemovedInv,
      RecoveryFencesFirst, RegisteredFilesExist, NoOrphanPublished, Holding,
      Statuses, PCs, AttemptNos, Assets, AssetsOf, dbVars, fileVars, memVars,
      recVars, RequestRetry

\* One step per action: the invariant is inductive.
LEMMA NextInv == IInv /\ [Next]_vars => IInv'
  <1>. SUFFICES ASSUME IInv, [Next]_vars PROVE IInv'
    OBVIOUS
  <1>1. ASSUME NEW n \in AttemptNos, AttemptStep(n) PROVE IInv'
    BY <1>1, BeginInv, LoseLeaseInv, ErrorInv, BeginFinalizeInv, CommitReadyInv,
       CommitCanceledInv, RollbackInv, FinishFailureInv, CleanupInv, CrashInv,
       ReconcileInv, StageFileInv, RecordIntentInv, PublishStagedInv,
       RemovePendingInv DEF AttemptStep
  <1>2. ASSUME NEW r \in Recoverers, RecoveryStep(r) PROVE IInv'
    BY <1>2, PrepareRecoveryInv, ReleaseRecoveryInv, CrashRecoveryInv,
       RecoverFilesInv, CompleteRecoveryInv DEF RecoveryStep
  <1>3. ASSUME \/ ExpireClaims \/ Lapse \/ RecoverExpired
               \/ RequestCancel \/ RequestRetry
        PROVE  IInv'
    BY <1>3, ExpireClaimsInv, LapseInv, RecoverExpiredInv, RequestCancelInv,
       RequestRetryInv
  <1>4. CASE UNCHANGED vars
    BY <1>4
    DEF IInv, TypeOK, LockInv, TokenInv, IssuedInv, RegisteredInv, RemovedInv,
        RecoveryFencesFirst, RegisteredFilesExist, NoOrphanPublished, vars,
        dbVars, fileVars, memVars, recVars
  <1>. QED  BY <1>1, <1>2, <1>3, <1>4 DEF Next

\* The inductive invariant holds in every reachable state.
THEOREM Invariance == Spec => []IInv
  BY InitInv, NextInv, PTL DEF Spec

\* Tables, directories and process memory keep their shape.
THEOREM TypeCorrect == Spec => []TypeOK
  BY Invariance, PTL DEF IInv

\* Whatever crashes, lapses and races with it, no code path removes the files
\* of a registered asset.
THEOREM RegisteredFilesSafe == Spec => []RegisteredFilesExist
  BY Invariance, PTL DEF IInv

\* A published directory always has a row or an intent, so a crash between the
\* rename and the commit can be recovered.
THEOREM NoOrphans == Spec => []NoOrphanPublished
  BY Invariance, PTL DEF IInv

\* Recovery works only on claims of attempts that were fenced before.
THEOREM RecoveryFenced == Spec => []RecoveryFencesFirst
  BY Invariance, PTL DEF IInv

-----------------------------------------------------------------------------
\* What an asset library sees never changes but in CommitReady.
LEMMA PublishStep ==
  IInv /\ IInv' /\ [Next]_vars => [Library!Next]_(registered \cap published)
  <1>. SUFFICES ASSUME IInv, IInv', [Next]_vars
                PROVE  Library!Next \/ UNCHANGED (registered \cap published)
    OBVIOUS
  <1>1. registered \cap published = registered
        /\ registered' \cap published' = registered'
    BY DEF IInv, RegisteredFilesExist
  <1>2. ASSUME NEW n \in AttemptNos, CommitReady(n) PROVE Library!Next
    <2>1. registered = {}
      BY <1>2, SMT DEF IInv, LockInv, RegisteredInv, CommitReady, AttemptNos
    <2>2. registered' = {n} \X Items
      BY <1>2, <2>1 DEF CommitReady, AssetsOf
    <2>. QED
      BY <1>1, <2>1, <2>2 DEF Library!Next, Library!Publish, AttemptNos
  <1>3. ASSUME NEW n \in AttemptNos, AttemptStep(n), ~CommitReady(n)
        PROVE  UNCHANGED registered
    BY <1>3
    DEF AttemptStep, Begin, LoseLease, Error, BeginFinalize, CommitCanceled,
        Rollback, FinishFailure, Cleanup, Crash, Reconcile, StageFile,
        RecordIntent, PublishStaged, RemovePending, dbVars
  <1>4. ASSUME NEW r \in Recoverers, RecoveryStep(r) PROVE UNCHANGED registered
    BY <1>4
    DEF RecoveryStep, PrepareRecovery, ReleaseRecovery, CrashRecovery,
        RecoverFiles, CompleteRecovery, dbVars
  <1>5. ASSUME \/ ExpireClaims \/ Lapse \/ RecoverExpired
               \/ RequestCancel \/ RequestRetry \/ UNCHANGED vars
        PROVE  UNCHANGED registered
    BY <1>5 DEF ExpireClaims, Lapse, RecoverExpired, RequestCancel,
                RequestRetry, vars, dbVars
  <1>. QED  BY <1>1, <1>2, <1>3, <1>4, <1>5 DEF Next

\* finalize_asset_commit_intents publishes "atomically": under crashes, lost
\* leases and concurrent recovery the library goes from nothing to the whole
\* result of one attempt, once.
THEOREM Refinement == Spec => PublishesAtomically
  <1>1. Init => Library!Init
    BY DEF Init, Library!Init
  <1>. QED
    BY <1>1, Invariance, PublishStep, PTL
    DEF Spec, PublishesAtomically, Library!Spec

-----------------------------------------------------------------------------
\* A process that has not started has staged nothing.
MemInv == \A n \in AttemptNos : pc[n] = "none" => mem[n] = {}

LEMMA KeepStep ==
  IInv /\ IInv' /\ MemInv /\ LiveAttemptKeepsFiles /\ [Next]_vars =>
      MemInv' /\ LiveAttemptKeepsFiles'
  <1>. SUFFICES ASSUME IInv, IInv', MemInv, LiveAttemptKeepsFiles, [Next]_vars
                PROVE  MemInv' /\ LiveAttemptKeepsFiles'
    OBVIOUS
  <1>. USE DEF IInv, TypeOK, MemInv, LiveAttemptKeepsFiles, Holds, GoTo,
               dbVars, fileVars, memVars, recVars, AttemptNos
  <1>1. ASSUME NEW n \in AttemptNos, AttemptStep(n)
        PROVE  MemInv' /\ LiveAttemptKeepsFiles'
    <2>1. CASE Begin(n)            BY <2>1, SMT DEF Begin, TokenInv
    <2>2. CASE LoseLease(n)        BY <2>2, SMT DEF LoseLease
    <2>3. CASE Error(n)            BY <2>3, SMT DEF Error
    <2>4. CASE BeginFinalize(n)    BY <2>4, SMT DEF BeginFinalize
    <2>5. CASE CommitReady(n)      BY <2>5, SMT DEF CommitReady, Released
    <2>6. CASE CommitCanceled(n)   BY <2>6, SMT DEF CommitCanceled, Released
    <2>7. CASE Rollback(n)         BY <2>7, SMT DEF Rollback
    <2>8. CASE FinishFailure(n)    BY <2>8, SMT DEF FinishFailure, Released
    <2>9. CASE Cleanup(n)
      BY <2>9, SMT DEF Cleanup, RemoveFiles, Leftovers
    <2>10. CASE Crash(n)           BY <2>10, SMT DEF Crash
    <2>11. CASE Reconcile(n)       BY <2>11, SMT DEF Reconcile, Terminal, AssetsOf
    <2>12. ASSUME NEW i \in Items, StageFile(n, i)
           PROVE  MemInv' /\ LiveAttemptKeepsFiles'
      BY <2>12, SMT DEF StageFile
    <2>13. ASSUME NEW i \in Items, RecordIntent(n, i)
           PROVE  MemInv' /\ LiveAttemptKeepsFiles'
      BY <2>13, SMT DEF RecordIntent
    <2>14. ASSUME NEW i \in Items, PublishStaged(n, i)
           PROVE  MemInv' /\ LiveAttemptKeepsFiles'
      BY <2>14, SMT DEF PublishStaged
    <2>15. ASSUME NEW i \in Items, RemovePending(n, i)
           PROVE  MemInv' /\ LiveAttemptKeepsFiles'
      BY <2>15, SMT DEF RemovePending, RemoveFiles
    <2>. QED
      BY <1>1, <2>1, <2>2, <2>3, <2>4, <2>5, <2>6, <2>7, <2>8, <2>9, <2>10,
         <2>11, <2>12, <2>13, <2>14, <2>15 DEF AttemptStep
  <1>2. ASSUME NEW r \in Recoverers, RecoveryStep(r)
        PROVE  MemInv' /\ LiveAttemptKeepsFiles'
    <2>1. CASE PrepareRecovery(r)
      BY <2>1, SMT DEF PrepareRecovery, FencedJob, Released
    <2>2. CASE ReleaseRecovery(r)  BY <2>2, SMT DEF ReleaseRecovery
    <2>3. CASE CrashRecovery(r)    BY <2>3, SMT DEF CrashRecovery
    <2>4. ASSUME NEW a \in Assets, RecoverFiles(r, a)
          PROVE  MemInv' /\ LiveAttemptKeepsFiles'
      BY <2>4, SMT DEF RecoverFiles, RemoveFiles, RecoveryFencesFirst
    <2>5. ASSUME NEW a \in Assets, CompleteRecovery(r, a)
          PROVE  MemInv' /\ LiveAttemptKeepsFiles'
      BY <2>5, SMT DEF CompleteRecovery
    <2>. QED  BY <1>2, <2>1, <2>2, <2>3, <2>4, <2>5 DEF RecoveryStep
  <1>3. CASE ExpireClaims    BY <1>3, SMT DEF ExpireClaims
  <1>4. CASE Lapse           BY <1>4, SMT DEF Lapse
  <1>5. CASE RecoverExpired  BY <1>5, SMT DEF RecoverExpired, Released
  <1>6. CASE RequestCancel   BY <1>6, SMT DEF RequestCancel
  <1>7. CASE RequestRetry    BY <1>7, SMT DEF RequestRetry
  <1>8. CASE UNCHANGED vars  BY <1>8 DEF vars
  <1>. QED
    BY <1>1, <1>2, <1>3, <1>4, <1>5, <1>6, <1>7, <1>8 DEF Next

\* No recovery, reconciliation or other attempt's cleanup deletes the files of
\* an attempt that holds its lease and may still publish them.
THEOREM LiveFilesKept == Spec => []LiveAttemptKeepsFiles
  <1>1. Init => MemInv /\ LiveAttemptKeepsFiles
    BY DEF Init, MemInv, LiveAttemptKeepsFiles
  <1>. QED  BY <1>1, Invariance, KeepStep, PTL DEF Spec

\* Files and rows account for each other in every reachable state.
THEOREM FilesAccounted == Spec => []FilesTracked
  BY TypeCorrect, RegisteredFilesSafe, NoOrphans, LiveFilesKept, PTL
  DEF FilesTracked

-----------------------------------------------------------------------------
(***************************************************************************)
(* Backups                                                                 *)
(***************************************************************************)
\* What is known of every state of AssetCommit.
Steady == IInv /\ MemInv /\ LiveAttemptKeepsFiles

\* A database one could start from: its token and its assets are of attempts
\* it has rows of.
DbSound(db) ==
    /\ db.job.status = "verifying" <=> db.job.token /= 0
    /\ db.job.token <= db.attempts
    /\ db.registered /= {} =>
          /\ db.job.status = "ready"
          /\ \E n \in AttemptNos : n <= db.attempts /\ db.registered = AssetsOf(n)

\* While the lock is held no commit is pending, so the published directories
\* are the registered ones; afterwards the copies are.
BackupInv ==
    /\ BackupTypeOK
    /\ backup.phase /= "refused"
    /\ DbSound(backup.db)
    /\ backup.phase = "copying" =>
          /\ lock = 0 /\ intents = {}
          /\ backup.db.registered = registered
          /\ backup.files \subseteq registered
    /\ backup.phase = "done" => backup.files = backup.db.registered

\* With no intent, the published directories are the registered ones.
LEMMA NoIntents ==
  ASSUME IInv, intents = {} PROVE published = registered
  BY DEF IInv, RegisteredFilesExist, NoOrphanPublished

LEMMA CurrentSound == IInv => DbSound(CurrentDb) /\ CurrentDb \in Snapshot
  <1>. SUFFICES ASSUME IInv PROVE DbSound(CurrentDb) /\ CurrentDb \in Snapshot
    OBVIOUS
  <1>1. ASSUME registered /= {}
        PROVE  /\ job.status = "ready"
               /\ \E n \in AttemptNos : n <= attempts /\ registered = AssetsOf(n)
    <2>1. PICK n \in AttemptNos :
             registered = AssetsOf(n) /\ pc[n] \in {"committed", "gone"}
      BY <1>1 DEF IInv, RegisteredInv
    <2>2. n <= attempts
      BY <2>1, CommitAssumption, SMT DEF IInv, TypeOK, TokenInv, AttemptNos
    <2>. QED  BY <1>1, <2>1, <2>2 DEF IInv, RegisteredInv
  <1>2. DbSound(CurrentDb)
    BY <1>1 DEF DbSound, CurrentDb, IInv, TokenInv
  <1>3. CurrentDb \in Snapshot
    BY DEF Snapshot, CurrentDb, IInv, TypeOK
  <1>. QED  BY <1>2, <1>3

LEMMA BackupInitInv == BackupInit => Steady /\ BackupInv
  <1>. SUFFICES ASSUME BackupInit PROVE Steady /\ BackupInv
    OBVIOUS
  <1>1. Steady
    BY InitInv DEF BackupInit, Init, Steady, MemInv, LiveAttemptKeepsFiles
  <1>2. NoSnapshot \in Snapshot /\ DbSound(NoSnapshot)
    BY CommitAssumption, SMT DEF NoSnapshot, Snapshot, DbSound, Statuses, AttemptNos
  <1>3. BackupInv
    BY <1>2 DEF BackupInit, BackupInv, BackupTypeOK
  <1>. QED  BY <1>1, <1>3

LEMMA CommitStepInv ==
  Steady /\ BackupInv /\ CommitStep => Steady' /\ BackupInv'
  <1>. SUFFICES ASSUME Steady, BackupInv, CommitStep PROVE Steady' /\ BackupInv'
    OBVIOUS
  <1>1. IInv'
    BY NextInv DEF Steady, CommitStep
  <1>2. MemInv' /\ LiveAttemptKeepsFiles'
    BY <1>1, KeepStep DEF Steady, CommitStep
  <1>3. BackupInv'
    BY DEF BackupInv, BackupTypeOK, CommitStep, Written, DbSound
  <1>. QED  BY <1>1, <1>2, <1>3 DEF Steady

\* The steps of the backup leave the rest alone.
LEMMA BackupOnly == ASSUME Steady, UNCHANGED vars PROVE Steady'
  BY DEF Steady, IInv, TypeOK, LockInv, TokenInv, IssuedInv, RegisteredInv,
         RemovedInv, RecoveryFencesFirst, RegisteredFilesExist,
         NoOrphanPublished, MemInv, LiveAttemptKeepsFiles, Holds, vars, dbVars,
         fileVars, memVars, recVars

LEMMA BeginBackupInv == Steady /\ BackupInv /\ BeginBackup => BackupInv'
  <1>. SUFFICES ASSUME Steady, BackupInv, BeginBackup PROVE BackupInv'
    OBVIOUS
  <1>1. backup' = [phase |-> "copying", db |-> CurrentDb, files |-> {}]
        /\ lock = 0 /\ intents = {} /\ UNCHANGED vars
    BY DEF BeginBackup, Quiescent
  <1>2. DbSound(CurrentDb) /\ CurrentDb \in Snapshot
    BY CurrentSound DEF Steady
  <1>3. BackupTypeOK' /\ DbSound(backup'.db)
    BY <1>1, <1>2 DEF BackupTypeOK
  <1>. QED
    BY <1>1, <1>3 DEF BackupInv, vars, dbVars, CurrentDb, DbSound

LEMMA CopyAssetInv ==
  ASSUME NEW a \in Assets, Steady, BackupInv, CopyAsset(a) PROVE BackupInv'
  <1>1. /\ backup.phase = "copying" /\ a \in registered /\ UNCHANGED vars
        /\ backup' = [backup EXCEPT !.files = @ \cup {a}]
    BY NoIntents DEF Steady, BackupInv, CopyAsset
  <1>. QED
    BY <1>1 DEF BackupInv, BackupTypeOK, vars, dbVars, DbSound

LEMMA FinishBackupInv == Steady /\ BackupInv /\ FinishBackup => BackupInv'
  <1>. SUFFICES ASSUME Steady, BackupInv, FinishBackup PROVE BackupInv'
    OBVIOUS
  <1>1. Audits
    BY NoIntents DEF Steady, BackupInv, FinishBackup, Audits
  <1>2. backup' = [backup EXCEPT !.phase = "done"]
    BY <1>1 DEF FinishBackup
  <1>. QED
    BY <1>1, <1>2 DEF BackupInv, BackupTypeOK, Audits, DbSound

LEMMA CrashBackupInv == BackupInv /\ CrashBackup => BackupInv'
  <1>1. NoSnapshot \in Snapshot /\ DbSound(NoSnapshot)
    BY CommitAssumption, SMT DEF NoSnapshot, Snapshot, DbSound, Statuses, AttemptNos
  <1>. QED
    BY <1>1 DEF BackupInv, BackupTypeOK, CrashBackup

LEMMA RestoreInv == Steady /\ BackupInv /\ Restore => Steady' /\ BackupInv'
  <1>. SUFFICES ASSUME Steady, BackupInv, Restore PROVE Steady' /\ BackupInv'
    OBVIOUS
  <1>. DEFINE db == backup.db
  <1>1. db \in Snapshot /\ DbSound(db)
    BY DEF BackupInv, BackupTypeOK
  <1>2. /\ job' = db.job /\ attempts' = db.attempts
        /\ registered' = db.registered /\ published' = db.registered
        /\ lock' = 0 /\ intents' = {} /\ fresh' = {} /\ staged' = {}
    BY DEF Restore, Audits
  <1>3. /\ pc' = [n \in AttemptNos |-> IF n <= attempts' THEN "gone" ELSE "none"]
        /\ mem' = [n \in AttemptNos |-> {}] /\ durable' = [n \in AttemptNos |-> {}]
        /\ owner' = [a \in Assets |-> NoOne]
        /\ todo' = [r \in Recoverers |-> {}] /\ removed' = [r \in Recoverers |-> {}]
    BY DEF Restore
  <1>4. TypeOK'
    BY <1>1, <1>2, <1>3, CommitAssumption, SMT
    DEF TypeOK, Snapshot, PCs, AttemptNos
  <1>5. (LockInv /\ TokenInv)'
    BY <1>1, <1>2, <1>3, CommitAssumption, SMT
    DEF LockInv, TokenInv, Holding, AttemptNos, DbSound, Snapshot
  <1>6. (RegisteredInv /\ IssuedInv)'
    <2>1. ASSUME registered' /= {} PROVE
            /\ job'.status = "ready"
            /\ \E n \in AttemptNos : n <= attempts' /\ registered' = AssetsOf(n)
      BY <2>1, <1>1, <1>2 DEF DbSound
    <2>2. RegisteredInv'
      BY <2>1, <1>2, <1>3 DEF RegisteredInv
    <2>3. \A a \in registered' : a[1] <= attempts'
      BY <2>1 DEF AssetsOf
    <2>. QED  BY <2>2, <2>3, <1>2 DEF IssuedInv
  <1>7. (RemovedInv /\ RecoveryFencesFirst /\ RegisteredFilesExist /\ NoOrphanPublished)'
    BY <1>2, <1>3
    DEF RemovedInv, RecoveryFencesFirst, RegisteredFilesExist, NoOrphanPublished
  <1>8. (MemInv /\ LiveAttemptKeepsFiles)'
    BY <1>3 DEF MemInv, LiveAttemptKeepsFiles
  <1>9. BackupInv'
    <2>1. backup' = [phase |-> "restored", db |-> NoSnapshot, files |-> {}]
      BY DEF Restore
    <2>2. NoSnapshot \in Snapshot /\ DbSound(NoSnapshot)
      BY CommitAssumption, SMT
      DEF NoSnapshot, Snapshot, DbSound, Statuses, AttemptNos
    <2>. QED  BY <2>1, <2>2 DEF BackupInv, BackupTypeOK
  <1>. QED  BY <1>4, <1>5, <1>6, <1>7, <1>8, <1>9 DEF Steady, IInv

LEMMA BackupNextInv ==
  Steady /\ BackupInv /\ [BackupNext]_backupVars => Steady' /\ BackupInv'
  <1>. SUFFICES ASSUME Steady, BackupInv, [BackupNext]_backupVars
                PROVE  Steady' /\ BackupInv'
    OBVIOUS
  <1>1. CASE CommitStep      BY <1>1, CommitStepInv
  <1>2. CASE BeginBackup
    BY <1>2, BeginBackupInv, BackupOnly DEF BeginBackup
  <1>3. CASE FinishBackup
    BY <1>3, FinishBackupInv, BackupOnly DEF FinishBackup
  <1>4. CASE CrashBackup
    BY <1>4, CrashBackupInv, BackupOnly DEF CrashBackup
  <1>5. CASE Restore         BY <1>5, RestoreInv
  <1>6. ASSUME NEW a \in Assets, CopyAsset(a) PROVE Steady' /\ BackupInv'
    BY <1>6, CopyAssetInv, BackupOnly DEF CopyAsset
  <1>7. CASE UNCHANGED backupVars
    BY <1>7, BackupOnly
    DEF backupVars, BackupInv, BackupTypeOK, DbSound, vars, dbVars
  <1>. QED  BY <1>1, <1>2, <1>3, <1>4, <1>5, <1>6, <1>7 DEF BackupNext

THEOREM BackupInvariance == BackupSpec => [](Steady /\ BackupInv)
  BY BackupInitInv, BackupNextInv, PTL DEF BackupSpec

\* Whenever a backup is taken and whatever Workers do to files meanwhile, its
\* audit passes.
THEOREM BackupsAreConsistent == BackupSpec => []BackupConsistent
  <1>1. Steady /\ BackupInv => BackupConsistent
    BY NoIntents DEF Steady, BackupInv, BackupConsistent, Audits
  <1>. QED  BY <1>1, BackupInvariance, PTL

\* Files and rows account for each other also during a backup, and in a root
\* restored from it, whatever its restored attempts were doing.
THEOREM RestoredFilesAccounted == BackupSpec => []FilesTracked
  <1>1. Steady => FilesTracked
    BY DEF Steady, IInv, FilesTracked
  <1>. QED  BY <1>1, BackupInvariance, PTL

-----------------------------------------------------------------------------
(***************************************************************************)
(* The tools of an upload: UploadBridge                                    *)
(***************************************************************************)
\* What an operation may be: a draft is an upload to Tencent, never scheduled.
Ordered ==
    /\ order.action \in {"login", "check", "upload"} /\ order.due \in Nat
    /\ order.platform \in Browsers \cup {"bilibili"} /\ order.draft \in BOOLEAN
    /\ order.draft => order.action = "upload" /\ order.platform = "tencent" /\ order.due = 0

\* How far an operation may have gone: a child that has not passed its gate
\* touched nothing; only the child of an upload reaches the page.
HowFar ==
    /\ host \in {"idle", "done"} => tool \in Gone
    /\ host \in {"entered", "staged"} => tool = "none"
    /\ host \in {"idle", "entered", "staged", "spawned"} => ~gate
    /\ ~gate => tool \in Gone \cup {"gate"} /\ posted = 0 /\ attempted = {}
    /\ tool = "auth" => order.action # "login"
    /\ tool \in {"fill", "press", "preflight", "click", "clicked"} => order.action = "upload"
    /\ order.action # "upload" => posted = 0 /\ attempted = {}

\* What the platform may have taken: nothing before the final action, and one
\* submission after it, because a browser's final action is made once.
MayBeTaken ==
    /\ posted \in {0, 1}
    /\ tool \in {"gate", "login", "auth", "fill", "preflight", "click"} => posted = 0
    /\ tool \in {"gate", "login", "auth", "fill", "preflight"} => attempted = {}
    /\ tool = "press" /\ attempted = {} => posted = 0
    /\ tool \in {"press", "preflight"} => order.platform \in Browsers
    /\ tool \in {"click", "clicked"} /\ order.platform \in Browsers => attempted # {}
    /\ attempted \subseteq Nat
    /\ order.due # 0 => \A t \in attempted : order.due > t + ChildLead

\* The words a result may use as things stand.
Sayable ==
    {word \in {"failed", "cancelled", "submitted", "draft_saved", "ready", "unknown"} :
        /\ word \in {"failed", "cancelled"} => posted = 0
        /\ word \in {"submitted", "draft_saved"} =>
              /\ order.platform \in Browsers => attempted # {}
              /\ order.platform # "douyin" => posted = 1
        /\ word = "ready" /\ order.action = "login" => session # "old"}

\* The words of the child and of the host are sayable, and once one of them
\* is out, nothing is left that could still send.
Warranted ==
    /\ tool = "say" => said \in Sayable
    /\ answer # Unsaid => tool \in {"exited", "killed"} /\ answer \in Sayable
    /\ host \in {"closing", "done"} => verdict \in Sayable
    /\ verdict # Unsaid => host \in {"closing", "done"}
    /\ verdict \in {"failed", "cancelled"} =>
          order.action # "upload" \/ ~gate \/ tool \in Gone
    /\ verdict \in {"submitted", "draft_saved", "ready"} => tool \in Gone

\* A code on the status page is not one that went stale; only the browsers'
\* login keeps a list.
CodesFresh ==
    /\ update.phase = "waiting_scan" => update.code \notin poll.expired
    /\ order.platform = "bilibili" => poll.expired = {}

\* What the login loop remembers.
Polls ==
    [scanned : BOOLEAN, last : Codes \cup {NoCode}, expired : SUBSET Codes,
     refreshes : Nat, auths : Nat]

BridgeInv ==
    /\ Ordered /\ now \in Nat /\ poll \in Polls
    /\ HowFar /\ MayBeTaken /\ Warranted /\ CodesFresh

\* The changes the login loop makes to what it remembers.
LEMMA PollUpdates ==
    /\ \A p \in Polls :
          /\ [p EXCEPT !.auths = 0] \in Polls
          /\ [p EXCEPT !.auths = 1] \in Polls
          /\ [p EXCEPT !.auths = 0, !.scanned = TRUE] \in Polls
    /\ \A p \in Polls, b \in BOOLEAN, q \in Codes :
          [p EXCEPT !.auths = 0, !.last = q, !.scanned = b] \in Polls
    /\ \A e \in SUBSET Codes, r \in Nat, l \in Codes \cup {NoCode} :
          [scanned |-> FALSE, last |-> l, expired |-> e, refreshes |-> r, auths |-> 0] \in Polls
  BY DEF Polls

\* Which words are sayable.
SayableFacts ==
    /\ "unknown" \in Sayable /\ Unsaid \notin Sayable
    /\ posted = 0 => "failed" \in Sayable /\ "cancelled" \in Sayable
    /\ order.action # "login" => "ready" \in Sayable
    /\ session # "old" => "ready" \in Sayable
    /\ order.platform = "douyin" /\ attempted # {} => "submitted" \in Sayable
    /\ posted = 1 /\ (order.platform \in Browsers => attempted # {}) =>
          "submitted" \in Sayable /\ "draft_saved" \in Sayable

LEMMA SayableWords == SayableFacts /\ SayableFacts'
  BY DEF SayableFacts, Sayable, Unsaid, Browsers

\* What every operation of the interface has in common.
LEMMA OrderFields ==
    ASSUME NEW o \in Order
    PROVE  /\ o.action \in {"login", "check", "upload"} /\ o.due \in Nat
           /\ o.platform \in Browsers \cup {"bilibili"} /\ o.draft \in BOOLEAN
           /\ o.draft => o.action = "upload" /\ o.platform = "tencent" /\ o.due = 0
<1>1. CASE o \in [action : {"login", "check"}, platform : Browsers \cup {"bilibili"},
                  due : {0}, draft : {FALSE}]
  <2>1. /\ o.action \in {"login", "check"} /\ o.due \in {0} /\ o.draft \in {FALSE}
        /\ o.platform \in Browsers \cup {"bilibili"}
    BY <1>1
  <2>2. o.draft = FALSE /\ o.due = 0
    BY <2>1
  <2>3. o.draft \in BOOLEAN
    BY <2>2, Zenon
  <2>6. o.due \in Nat
    BY <2>2, SMT
  <2>4. ~o.draft
    BY <2>2
  <2>5. o.action \in {"login", "check", "upload"} /\ o.platform \in Browsers \cup {"bilibili"}
    BY <2>1
  <2>q. QED BY <2>3, <2>4, <2>5, <2>6, Zenon
<1>2. CASE o \in [action : {"upload"}, platform : Browsers \cup {"bilibili"},
                  due : Dues, draft : {FALSE}]
  BY <1>2, BridgeAssumption
<1>3. CASE o \in [action : {"upload"}, platform : {"tencent"}, due : {0}, draft : {TRUE}]
  <2>1. /\ o.action \in {"upload"} /\ o.due \in {0} /\ o.draft \in {TRUE}
        /\ o.platform \in {"tencent"}
    BY <1>3
  <2>2. o.draft = TRUE /\ o.due = 0 /\ o.platform = "tencent" /\ o.action = "upload"
    BY <2>1
  <2>3. o.draft \in BOOLEAN
    BY <2>2, Zenon
  <2>6. o.due \in Nat
    BY <2>2, SMT
  <2>4. o.platform \in Browsers \cup {"bilibili"}
    BY <2>2 DEF Browsers
  <2>q. QED BY <2>2, <2>3, <2>4, <2>6, Zenon
<1>q. QED BY <1>1, <1>2, <1>3 DEF Order

LEMMA SubmitKeeps == ASSUME BridgeInv, NEW o \in Order, Submit(o) PROVE BridgeInv'
<1>a. order' = o /\ gate' = FALSE /\ now' = now /\ session' = session
  BY SMTT(40)
  DEF Submit, NoPoll, Silence, Elapsed, Ends, hostVars, uploadVars, loginVars, toolVars, Unsaid
<1>b. tool' = "none" /\ said' = Unsaid /\ answer' = Unsaid
  BY SMTT(40)
  DEF Submit, NoPoll, Silence, Elapsed, Ends, hostVars, uploadVars, loginVars, toolVars, Unsaid
<1>c. attempted' = {} /\ posted' = 0
  BY SMTT(40)
  DEF Submit, NoPoll, Silence, Elapsed, Ends, hostVars, uploadVars, loginVars, toolVars, Unsaid
<1>d. host' \in {"done", "entered"}
  BY SMTT(40)
  DEF Submit, NoPoll, Silence, Elapsed, Ends, hostVars, uploadVars, loginVars, toolVars, Unsaid
<1>e. host' = "entered" => verdict' = Unsaid
  BY SMTT(40)
  DEF Submit, NoPoll, Silence, Elapsed, Ends, hostVars, uploadVars, loginVars, toolVars, Unsaid
<1>f. host' = "done" => verdict' = "failed"
  BY SMTT(40)
  DEF Submit, NoPoll, Silence, Elapsed, Ends, hostVars, uploadVars, loginVars, toolVars, Unsaid
<1>g. poll' = NoPoll /\ poll'.expired = {}
  BY SMTT(40)
  DEF Submit, NoPoll, Silence, Elapsed, Ends, hostVars, uploadVars, loginVars, toolVars, Unsaid
<1>h. update'.phase = "preparing"
  BY SMTT(40)
  DEF Submit, NoPoll, Silence, Elapsed, Ends, hostVars, uploadVars, loginVars, toolVars, Unsaid
<1>1. Ordered' /\ now' \in Nat /\ poll' \in Polls
  <2>1. Ordered'
    BY <1>a, OrderFields DEF Ordered
  <2>2. poll' \in Polls
    BY <1>g DEF NoPoll, Polls
  <2>q. QED BY <1>a, <2>1, <2>2 DEF BridgeInv
<1>2. HowFar'
  BY <1>a, <1>b, <1>c, <1>d, <1>e, <1>f, <1>g, <1>h, BridgeAssumption, SMTT(40)
  DEF Browsers, Gone, Unsaid, NoCode, HowFar, BridgeInv
<1>3. MayBeTaken'
  BY <1>a, <1>b, <1>c, <1>d, <1>e, <1>f, <1>g, <1>h, BridgeAssumption, SMTT(40)
  DEF Browsers, Gone, Unsaid, NoCode, HowFar, MayBeTaken, Ordered, BridgeInv
<1>4. posted' = 0 => "failed" \in Sayable'
  BY <1>a, <1>b, <1>c, <1>d, <1>e, <1>f, <1>g, <1>h, BridgeAssumption, SMTT(40)
  DEF Browsers, Gone, Unsaid, NoCode, Sayable, BridgeInv
<1>5. Warranted'
  BY <1>a, <1>b, <1>c, <1>d, <1>e, <1>f, <1>g, <1>h, <1>4, SMTT(40)
  DEF Browsers, Gone, Unsaid, NoCode, Warranted, BridgeInv
<1>6. CodesFresh'
  BY <1>a, <1>b, <1>c, <1>d, <1>e, <1>f, <1>g, <1>h, BridgeAssumption, SMTT(40)
  DEF Browsers, Gone, Unsaid, NoCode, CodesFresh, Ordered, BridgeInv
<1>q. QED BY <1>1, <1>2, <1>3, <1>5, <1>6 DEF BridgeInv

LEMMA RequestHaltKeeps == ASSUME BridgeInv, RequestHalt PROVE BridgeInv'
<1>1. Ordered' /\ now' \in Nat /\ poll' \in Polls
  BY BridgeAssumption, SMTT(40)
  DEF RequestHalt, hostVars, uploadVars, loginVars, toolVars, Browsers, Gone, Unsaid, NoCode,
      Ordered, BridgeInv
<1>2. HowFar'
  BY BridgeAssumption, SMTT(40)
  DEF RequestHalt, hostVars, uploadVars, loginVars, toolVars, Browsers, Gone, Unsaid, NoCode,
      HowFar, BridgeInv
<1>3. MayBeTaken'
  BY BridgeAssumption, SMTT(40)
  DEF RequestHalt, hostVars, uploadVars, loginVars, toolVars, Browsers, Gone, Unsaid, NoCode,
      HowFar, MayBeTaken, Ordered, BridgeInv
<1>4. Sayable' = Sayable
  BY BridgeAssumption, SMTT(40)
  DEF RequestHalt, hostVars, uploadVars, loginVars, toolVars, Browsers, Gone, Unsaid, NoCode,
      Sayable, BridgeInv
<1>5. Warranted'
  BY <1>4, SMTT(40)
  DEF RequestHalt, hostVars, uploadVars, loginVars, toolVars, Browsers, Gone, Unsaid, NoCode,
      HowFar, Warranted, BridgeInv
<1>6. CodesFresh'
  BY BridgeAssumption, SMTT(40)
  DEF RequestHalt, hostVars, uploadVars, loginVars, toolVars, Browsers, Gone, Unsaid, NoCode,
      CodesFresh, Ordered, BridgeInv
<1>q. QED BY <1>1, <1>2, <1>3, <1>5, <1>6 DEF BridgeInv

LEMMA StageKeeps == ASSUME BridgeInv, Stage PROVE BridgeInv'
<1>1. Ordered' /\ now' \in Nat /\ poll' \in Polls
  BY BridgeAssumption, SMTT(40)
  DEF Stage, Ends, hostVars, uploadVars, loginVars, toolVars, Browsers, Gone, Unsaid, NoCode,
      Ordered, BridgeInv
<1>2. HowFar'
  BY BridgeAssumption, SMTT(40)
  DEF Stage, Ends, hostVars, uploadVars, loginVars, toolVars, Browsers, Gone, Unsaid, NoCode,
      HowFar, BridgeInv
<1>3. MayBeTaken'
  BY BridgeAssumption, SMTT(40)
  DEF Stage, Ends, hostVars, uploadVars, loginVars, toolVars, Browsers, Gone, Unsaid, NoCode,
      HowFar, MayBeTaken, Ordered, BridgeInv
<1>4. Sayable' = Sayable
  BY BridgeAssumption, SMTT(40)
  DEF Stage, Ends, hostVars, uploadVars, loginVars, toolVars, Browsers, Gone, Unsaid, NoCode,
      Sayable, BridgeInv
<1>5. Warranted'
  BY <1>4, SayableWords, SMTT(40)
  DEF Stage, Ends, hostVars, uploadVars, loginVars, toolVars, Browsers, Gone, Unsaid, NoCode,
      HowFar, MayBeTaken, Ordered, Warranted, SayableFacts, BridgeInv
<1>6. CodesFresh'
  BY BridgeAssumption, SMTT(40)
  DEF Stage, Ends, hostVars, uploadVars, loginVars, toolVars, Browsers, Gone, Unsaid, NoCode,
      CodesFresh, Ordered, BridgeInv
<1>q. QED BY <1>1, <1>2, <1>3, <1>5, <1>6 DEF BridgeInv

LEMMA SpawnKeeps == ASSUME BridgeInv, Spawn PROVE BridgeInv'
<1>a. posted = 0
  BY SMTT(40)
  DEF Spawn, Ends, hostVars, uploadVars, loginVars, toolVars, BridgeInv, HowFar, MayBeTaken
<1>1. Ordered' /\ now' \in Nat /\ poll' \in Polls
  BY <1>a, BridgeAssumption, SMTT(40)
  DEF Spawn, Ends, hostVars, uploadVars, loginVars, toolVars, Browsers, Gone, Unsaid, NoCode,
      Ordered, BridgeInv
<1>2. HowFar'
  BY <1>a, BridgeAssumption, SMTT(40)
  DEF Spawn, Ends, hostVars, uploadVars, loginVars, toolVars, Browsers, Gone, Unsaid, NoCode,
      HowFar, BridgeInv
<1>3. MayBeTaken'
  BY <1>a, BridgeAssumption, SMTT(40)
  DEF Spawn, Ends, hostVars, uploadVars, loginVars, toolVars, Browsers, Gone, Unsaid, NoCode,
      HowFar, MayBeTaken, Ordered, BridgeInv
<1>4. Sayable' = Sayable
  BY <1>a, BridgeAssumption, SMTT(40)
  DEF Spawn, Ends, hostVars, uploadVars, loginVars, toolVars, Browsers, Gone, Unsaid, NoCode,
      Sayable, BridgeInv
<1>5. Warranted'
  <2>1. CASE Ends("failed") /\ UNCHANGED tool
    BY <2>1, <1>a, <1>4, SayableWords, SMTT(40)
    DEF Spawn, Ends, hostVars, uploadVars, loginVars, toolVars, Browsers, Gone, Unsaid, NoCode,
        HowFar, MayBeTaken, Ordered, Warranted, SayableFacts, BridgeInv
  <2>2. CASE host' = "spawned" /\ tool' = "gate" /\ UNCHANGED verdict
    BY <2>2, <1>a, <1>4, SayableWords, SMTT(40)
    DEF Spawn, Ends, hostVars, uploadVars, loginVars, toolVars, Browsers, Gone, Unsaid, NoCode,
        HowFar, MayBeTaken, Ordered, Warranted, SayableFacts, BridgeInv
  <2>q. QED BY <2>1, <2>2, SMTT(40) DEF Spawn
<1>6. CodesFresh'
  BY <1>a, BridgeAssumption, SMTT(40)
  DEF Spawn, Ends, hostVars, uploadVars, loginVars, toolVars, Browsers, Gone, Unsaid, NoCode,
      CodesFresh, Ordered, BridgeInv
<1>q. QED BY <1>1, <1>2, <1>3, <1>5, <1>6 DEF BridgeInv

LEMMA ReleaseKeeps == ASSUME BridgeInv, Release PROVE BridgeInv'
<1>1. Ordered' /\ now' \in Nat /\ poll' \in Polls
  BY BridgeAssumption, SMTT(40)
  DEF Release, hostVars, uploadVars, loginVars, toolVars, Browsers, Gone, Unsaid, NoCode,
      Ordered, BridgeInv
<1>2. HowFar'
  BY BridgeAssumption, SMTT(40)
  DEF Release, hostVars, uploadVars, loginVars, toolVars, Browsers, Gone, Unsaid, NoCode,
      HowFar, BridgeInv
<1>3. MayBeTaken'
  BY BridgeAssumption, SMTT(40)
  DEF Release, hostVars, uploadVars, loginVars, toolVars, Browsers, Gone, Unsaid, NoCode,
      HowFar, MayBeTaken, Ordered, BridgeInv
<1>4. Sayable' = Sayable
  BY BridgeAssumption, SMTT(40)
  DEF Release, hostVars, uploadVars, loginVars, toolVars, Browsers, Gone, Unsaid, NoCode,
      Sayable, BridgeInv
<1>5. Warranted'
  BY <1>4, SayableWords, SMTT(40)
  DEF Release, hostVars, uploadVars, loginVars, toolVars, Browsers, Gone, Unsaid, NoCode,
      HowFar, MayBeTaken, Ordered, Warranted, SayableFacts, BridgeInv
<1>6. CodesFresh'
  BY BridgeAssumption, SMTT(40)
  DEF Release, hostVars, uploadVars, loginVars, toolVars, Browsers, Gone, Unsaid, NoCode,
      CodesFresh, Ordered, BridgeInv
<1>q. QED BY <1>1, <1>2, <1>3, <1>5, <1>6 DEF BridgeInv

LEMMA StopWaitingKeeps == ASSUME BridgeInv, StopWaiting PROVE BridgeInv'
<1>1. Ordered' /\ now' \in Nat /\ poll' \in Polls
  BY BridgeAssumption, SMTT(40)
  DEF StopWaiting, CutShort, hostVars, uploadVars, loginVars, toolVars, Browsers, Gone, Unsaid,
      NoCode, Ordered, BridgeInv
<1>2. HowFar'
  BY BridgeAssumption, SMTT(40)
  DEF StopWaiting, CutShort, hostVars, uploadVars, loginVars, toolVars, Browsers, Gone, Unsaid,
      NoCode, HowFar, BridgeInv
<1>3. MayBeTaken'
  BY BridgeAssumption, SMTT(40)
  DEF StopWaiting, CutShort, hostVars, uploadVars, loginVars, toolVars, Browsers, Gone, Unsaid,
      NoCode, HowFar, MayBeTaken, Ordered, BridgeInv
<1>4. Sayable' = Sayable
  BY BridgeAssumption, SMTT(40)
  DEF StopWaiting, CutShort, hostVars, uploadVars, loginVars, toolVars, Browsers, Gone, Unsaid,
      NoCode, Sayable, BridgeInv
<1>5. Warranted'
  BY <1>4, SayableWords, SMTT(40)
  DEF StopWaiting, CutShort, hostVars, uploadVars, loginVars, toolVars, Browsers, Gone, Unsaid,
      NoCode, HowFar, MayBeTaken, Ordered, Warranted, SayableFacts, BridgeInv
<1>6. CodesFresh'
  BY BridgeAssumption, SMTT(40)
  DEF StopWaiting, CutShort, hostVars, uploadVars, loginVars, toolVars, Browsers, Gone, Unsaid,
      NoCode, CodesFresh, Ordered, BridgeInv
<1>q. QED BY <1>1, <1>2, <1>3, <1>5, <1>6 DEF BridgeInv

LEMMA ReadAnswerKeeps == ASSUME BridgeInv, ReadAnswer PROVE BridgeInv'
<1>1. Ordered' /\ now' \in Nat /\ poll' \in Polls
  BY BridgeAssumption, SMTT(40)
  DEF ReadAnswer, Allowed, CutShort, hostVars, uploadVars, loginVars, toolVars, Browsers, Gone,
      Unsaid, NoCode, Ordered, BridgeInv
<1>2. HowFar'
  BY BridgeAssumption, SMTT(40)
  DEF ReadAnswer, Allowed, CutShort, hostVars, uploadVars, loginVars, toolVars, Browsers, Gone,
      Unsaid, NoCode, HowFar, BridgeInv
<1>3. MayBeTaken'
  BY BridgeAssumption, SMTT(40)
  DEF ReadAnswer, Allowed, CutShort, hostVars, uploadVars, loginVars, toolVars, Browsers, Gone,
      Unsaid, NoCode, HowFar, MayBeTaken, Ordered, BridgeInv
<1>4. Sayable' = Sayable
  BY BridgeAssumption, SMTT(40)
  DEF ReadAnswer, Allowed, CutShort, hostVars, uploadVars, loginVars, toolVars, Browsers, Gone,
      Unsaid, NoCode, Sayable, BridgeInv
<1>5. Warranted'
  BY <1>4, SayableWords, SMTT(40)
  DEF ReadAnswer, Allowed, CutShort, hostVars, uploadVars, loginVars, toolVars, Browsers, Gone,
      Unsaid, NoCode, HowFar, MayBeTaken, Ordered, Warranted, SayableFacts, BridgeInv
<1>6. CodesFresh'
  BY BridgeAssumption, SMTT(40)
  DEF ReadAnswer, Allowed, CutShort, hostVars, uploadVars, loginVars, toolVars, Browsers, Gone,
      Unsaid, NoCode, CodesFresh, Ordered, BridgeInv
<1>q. QED BY <1>1, <1>2, <1>3, <1>5, <1>6 DEF BridgeInv

LEMMA ReclaimKeeps == ASSUME BridgeInv, Reclaim PROVE BridgeInv'
<1>1. Ordered' /\ now' \in Nat /\ poll' \in Polls
  BY BridgeAssumption, SMTT(40)
  DEF Reclaim, hostVars, uploadVars, loginVars, toolVars, Browsers, Gone, Unsaid, NoCode,
      Ordered, BridgeInv
<1>2. HowFar'
  BY BridgeAssumption, SMTT(40)
  DEF Reclaim, hostVars, uploadVars, loginVars, toolVars, Browsers, Gone, Unsaid, NoCode,
      HowFar, BridgeInv
<1>3. MayBeTaken'
  BY BridgeAssumption, SMTT(40)
  DEF Reclaim, hostVars, uploadVars, loginVars, toolVars, Browsers, Gone, Unsaid, NoCode,
      HowFar, MayBeTaken, Ordered, BridgeInv
<1>4. Sayable' = Sayable
  BY BridgeAssumption, SMTT(40)
  DEF Reclaim, hostVars, uploadVars, loginVars, toolVars, Browsers, Gone, Unsaid, NoCode,
      Sayable, BridgeInv
<1>5. Warranted'
  BY <1>4, SMTT(40)
  DEF Reclaim, hostVars, uploadVars, loginVars, toolVars, Browsers, Gone, Unsaid, NoCode,
      HowFar, Warranted, BridgeInv
<1>6. CodesFresh'
  BY BridgeAssumption, SMTT(40)
  DEF Reclaim, hostVars, uploadVars, loginVars, toolVars, Browsers, Gone, Unsaid, NoCode,
      CodesFresh, Ordered, BridgeInv
<1>q. QED BY <1>1, <1>2, <1>3, <1>5, <1>6 DEF BridgeInv

LEMMA DisconnectLocalKeeps == ASSUME BridgeInv, DisconnectLocal PROVE BridgeInv'
<1>1. Ordered' /\ now' \in Nat /\ poll' \in Polls
  BY BridgeAssumption, SMTT(40)
  DEF DisconnectLocal, hostVars, uploadVars, loginVars, toolVars, Browsers, Gone, Unsaid,
      NoCode, Ordered, BridgeInv
<1>2. HowFar'
  BY BridgeAssumption, SMTT(40)
  DEF DisconnectLocal, hostVars, uploadVars, loginVars, toolVars, Browsers, Gone, Unsaid,
      NoCode, HowFar, BridgeInv
<1>3. MayBeTaken'
  BY BridgeAssumption, SMTT(40)
  DEF DisconnectLocal, hostVars, uploadVars, loginVars, toolVars, Browsers, Gone, Unsaid,
      NoCode, HowFar, MayBeTaken, Ordered, BridgeInv
<1>4. \A word \in Sayable : word \in Sayable'
  BY BridgeAssumption, SMTT(40)
  DEF DisconnectLocal, hostVars, uploadVars, loginVars, toolVars, Browsers, Gone, Unsaid,
      NoCode, Sayable, BridgeInv
<1>5. Warranted'
  BY <1>4, SayableWords, SMTT(40)
  DEF DisconnectLocal, hostVars, uploadVars, loginVars, toolVars, Browsers, Gone, Unsaid,
      NoCode, HowFar, MayBeTaken, Ordered, Warranted, SayableFacts, BridgeInv
<1>6. CodesFresh'
  BY BridgeAssumption, SMTT(40)
  DEF DisconnectLocal, hostVars, uploadVars, loginVars, toolVars, Browsers, Gone, Unsaid,
      NoCode, CodesFresh, Ordered, BridgeInv
<1>q. QED BY <1>1, <1>2, <1>3, <1>5, <1>6 DEF BridgeInv

LEMMA TimePassesKeeps == ASSUME BridgeInv, TimePasses PROVE BridgeInv'
<1>1. Ordered' /\ now' \in Nat /\ poll' \in Polls
  BY BridgeAssumption, SMTT(40)
  DEF TimePasses, hostVars, uploadVars, loginVars, toolVars, Browsers, Gone, Unsaid, NoCode,
      Ordered, BridgeInv
<1>2. HowFar'
  BY BridgeAssumption, SMTT(40)
  DEF TimePasses, hostVars, uploadVars, loginVars, toolVars, Browsers, Gone, Unsaid, NoCode,
      HowFar, BridgeInv
<1>3. MayBeTaken'
  BY BridgeAssumption, SMTT(40)
  DEF TimePasses, hostVars, uploadVars, loginVars, toolVars, Browsers, Gone, Unsaid, NoCode,
      HowFar, MayBeTaken, Ordered, BridgeInv
<1>4. Sayable' = Sayable
  BY BridgeAssumption, SMTT(40)
  DEF TimePasses, hostVars, uploadVars, loginVars, toolVars, Browsers, Gone, Unsaid, NoCode,
      Sayable, BridgeInv
<1>5. Warranted'
  BY <1>4, SMTT(40)
  DEF TimePasses, hostVars, uploadVars, loginVars, toolVars, Browsers, Gone, Unsaid, NoCode,
      HowFar, Warranted, BridgeInv
<1>6. CodesFresh'
  BY BridgeAssumption, SMTT(40)
  DEF TimePasses, hostVars, uploadVars, loginVars, toolVars, Browsers, Gone, Unsaid, NoCode,
      CodesFresh, Ordered, BridgeInv
<1>q. QED BY <1>1, <1>2, <1>3, <1>5, <1>6 DEF BridgeInv

LEMMA PassGateKeeps == ASSUME BridgeInv, PassGate PROVE BridgeInv'
<1>1. Ordered' /\ now' \in Nat /\ poll' \in Polls
  BY BridgeAssumption, SMTT(40)
  DEF PassGate, GoOn, Stay, hostVars, uploadVars, loginVars, toolVars, Browsers, Gone, Unsaid,
      NoCode, Ordered, BridgeInv
<1>2. HowFar'
  BY BridgeAssumption, SMTT(40)
  DEF PassGate, GoOn, Stay, hostVars, uploadVars, loginVars, toolVars, Browsers, Gone, Unsaid,
      NoCode, HowFar, BridgeInv
<1>3. MayBeTaken'
  BY BridgeAssumption, SMTT(40)
  DEF PassGate, GoOn, Stay, hostVars, uploadVars, loginVars, toolVars, Browsers, Gone, Unsaid,
      NoCode, HowFar, MayBeTaken, Ordered, BridgeInv
<1>4. Sayable' = Sayable
  BY BridgeAssumption, SMTT(40)
  DEF PassGate, GoOn, Stay, hostVars, uploadVars, loginVars, toolVars, Browsers, Gone, Unsaid,
      NoCode, Sayable, BridgeInv
<1>5. Warranted'
  BY <1>4, SMTT(40)
  DEF PassGate, GoOn, Stay, hostVars, uploadVars, loginVars, toolVars, Browsers, Gone, Unsaid,
      NoCode, HowFar, Warranted, BridgeInv
<1>6. CodesFresh'
  BY BridgeAssumption, SMTT(40)
  DEF PassGate, GoOn, Stay, hostVars, uploadVars, loginVars, toolVars, Browsers, Gone, Unsaid,
      NoCode, CodesFresh, Ordered, BridgeInv
<1>q. QED BY <1>1, <1>2, <1>3, <1>5, <1>6 DEF BridgeInv

LEMMA WriteAnswerKeeps == ASSUME BridgeInv, WriteAnswer PROVE BridgeInv'
<1>1. Ordered' /\ now' \in Nat /\ poll' \in Polls
  BY BridgeAssumption, SMTT(40)
  DEF WriteAnswer, hostVars, uploadVars, loginVars, toolVars, Browsers, Gone, Unsaid, NoCode,
      Ordered, BridgeInv
<1>2. HowFar'
  BY BridgeAssumption, SMTT(40)
  DEF WriteAnswer, hostVars, uploadVars, loginVars, toolVars, Browsers, Gone, Unsaid, NoCode,
      HowFar, BridgeInv
<1>3. MayBeTaken'
  BY BridgeAssumption, SMTT(40)
  DEF WriteAnswer, hostVars, uploadVars, loginVars, toolVars, Browsers, Gone, Unsaid, NoCode,
      HowFar, MayBeTaken, Ordered, BridgeInv
<1>4. Sayable' = Sayable
  BY BridgeAssumption, SMTT(40)
  DEF WriteAnswer, hostVars, uploadVars, loginVars, toolVars, Browsers, Gone, Unsaid, NoCode,
      Sayable, BridgeInv
<1>5. Warranted'
  BY <1>4, SMTT(40)
  DEF WriteAnswer, hostVars, uploadVars, loginVars, toolVars, Browsers, Gone, Unsaid, NoCode,
      HowFar, Warranted, BridgeInv
<1>6. CodesFresh'
  BY BridgeAssumption, SMTT(40)
  DEF WriteAnswer, hostVars, uploadVars, loginVars, toolVars, Browsers, Gone, Unsaid, NoCode,
      CodesFresh, Ordered, BridgeInv
<1>q. QED BY <1>1, <1>2, <1>3, <1>5, <1>6 DEF BridgeInv

LEMMA ChildDiesKeeps == ASSUME BridgeInv, ChildDies PROVE BridgeInv'
<1>1. Ordered' /\ now' \in Nat /\ poll' \in Polls
  BY BridgeAssumption, SMTT(40)
  DEF ChildDies, hostVars, uploadVars, loginVars, toolVars, Browsers, Gone, Unsaid, NoCode,
      Ordered, BridgeInv
<1>2. HowFar'
  BY BridgeAssumption, SMTT(40)
  DEF ChildDies, hostVars, uploadVars, loginVars, toolVars, Browsers, Gone, Unsaid, NoCode,
      HowFar, BridgeInv
<1>3. MayBeTaken'
  BY BridgeAssumption, SMTT(40)
  DEF ChildDies, hostVars, uploadVars, loginVars, toolVars, Browsers, Gone, Unsaid, NoCode,
      HowFar, MayBeTaken, Ordered, BridgeInv
<1>4. Sayable' = Sayable
  BY BridgeAssumption, SMTT(40)
  DEF ChildDies, hostVars, uploadVars, loginVars, toolVars, Browsers, Gone, Unsaid, NoCode,
      Sayable, BridgeInv
<1>5. Warranted'
  BY <1>4, SMTT(40)
  DEF ChildDies, hostVars, uploadVars, loginVars, toolVars, Browsers, Gone, Unsaid, NoCode,
      HowFar, Warranted, BridgeInv
<1>6. CodesFresh'
  BY BridgeAssumption, SMTT(40)
  DEF ChildDies, hostVars, uploadVars, loginVars, toolVars, Browsers, Gone, Unsaid, NoCode,
      CodesFresh, Ordered, BridgeInv
<1>q. QED BY <1>1, <1>2, <1>3, <1>5, <1>6 DEF BridgeInv

LEMMA AuthenticateKeeps == ASSUME BridgeInv, Authenticate PROVE BridgeInv'
<1>1. Ordered' /\ now' \in Nat /\ poll' \in Polls
  BY BridgeAssumption, SMTT(40)
  DEF Authenticate, Say, Raise, GoOn, Stay, hostVars, uploadVars, loginVars, toolVars,
      Browsers, Gone, Unsaid, NoCode, Ordered, BridgeInv
<1>2. HowFar'
  <2>1. CASE Say("failed")
    BY <2>1, BridgeAssumption, SMTT(40)
    DEF Authenticate, Say, Raise, GoOn, Stay, hostVars, uploadVars, loginVars, toolVars,
        Browsers, Gone, Unsaid, NoCode, HowFar, BridgeInv
  <2>2. CASE Raise
    BY <2>2, BridgeAssumption, SMTT(40)
    DEF Authenticate, Say, Raise, GoOn, Stay, hostVars, uploadVars, loginVars, toolVars,
        Browsers, Gone, Unsaid, NoCode, HowFar, BridgeInv
  <2>3. CASE session # "none" /\ order.action = "check" /\ Say("ready")
    BY <2>3, BridgeAssumption, SMTT(40)
    DEF Authenticate, Say, Raise, GoOn, Stay, hostVars, uploadVars, loginVars, toolVars,
        Browsers, Gone, Unsaid, NoCode, HowFar, BridgeInv
  <2>4. CASE session # "none" /\ order.action # "check" /\ GoOn("fill")
    BY <2>4, BridgeAssumption, SMTT(40)
    DEF Authenticate, Say, Raise, GoOn, Stay, hostVars, uploadVars, loginVars, toolVars,
        Browsers, Gone, Unsaid, NoCode, HowFar, BridgeInv, Ordered
  <2>q. QED BY <2>1, <2>2, <2>3, <2>4, SMTT(40) DEF Authenticate
<1>3. MayBeTaken'
  BY BridgeAssumption, SMTT(40)
  DEF Authenticate, Say, Raise, GoOn, Stay, hostVars, uploadVars, loginVars, toolVars,
      Browsers, Gone, Unsaid, NoCode, HowFar, MayBeTaken, Ordered, BridgeInv
<1>4. Sayable' = Sayable
  BY BridgeAssumption, SMTT(40)
  DEF Authenticate, Say, Raise, GoOn, Stay, hostVars, uploadVars, loginVars, toolVars,
      Browsers, Gone, Unsaid, NoCode, Sayable, BridgeInv
<1>5. Warranted'
  BY <1>4, SayableWords, SMTT(40)
  DEF Authenticate, Say, Raise, GoOn, Stay, hostVars, uploadVars, loginVars, toolVars,
      Browsers, Gone, Unsaid, NoCode, HowFar, MayBeTaken, Ordered, Warranted, SayableFacts,
      BridgeInv
<1>6. CodesFresh'
  BY BridgeAssumption, SMTT(40)
  DEF Authenticate, Say, Raise, GoOn, Stay, hostVars, uploadVars, loginVars, toolVars,
      Browsers, Gone, Unsaid, NoCode, CodesFresh, Ordered, BridgeInv
<1>q. QED BY <1>1, <1>2, <1>3, <1>5, <1>6 DEF BridgeInv

LEMMA RunBiliupKeeps == ASSUME BridgeInv, RunBiliup PROVE BridgeInv'
<1>1. Ordered' /\ now' \in Nat /\ poll' \in Polls
  BY BridgeAssumption, SMTT(40)
  DEF RunBiliup, Elapsed, Say, GoOn, Stay, hostVars, uploadVars, loginVars, toolVars, Browsers,
      Gone, Unsaid, NoCode, Ordered, BridgeInv
<1>2. HowFar'
  BY BridgeAssumption, SMTT(40)
  DEF RunBiliup, Elapsed, Say, GoOn, Stay, hostVars, uploadVars, loginVars, toolVars, Browsers,
      Gone, Unsaid, NoCode, HowFar, BridgeInv
<1>3. MayBeTaken'
  BY BridgeAssumption, SMTT(40)
  DEF RunBiliup, Elapsed, Say, GoOn, Stay, hostVars, uploadVars, loginVars, toolVars, Browsers,
      Gone, Unsaid, NoCode, HowFar, MayBeTaken, Ordered, BridgeInv
<1>4. Sayable' = Sayable
  BY BridgeAssumption, SMTT(40)
  DEF RunBiliup, Elapsed, Say, GoOn, Stay, hostVars, uploadVars, loginVars, toolVars, Browsers,
      Gone, Unsaid, NoCode, Sayable, BridgeInv
<1>5. Warranted'
  BY <1>4, SayableWords, SMTT(40)
  DEF RunBiliup, Elapsed, Say, GoOn, Stay, hostVars, uploadVars, loginVars, toolVars, Browsers,
      Gone, Unsaid, NoCode, HowFar, MayBeTaken, Ordered, Warranted, SayableFacts, BridgeInv
<1>6. CodesFresh'
  BY BridgeAssumption, SMTT(40)
  DEF RunBiliup, Elapsed, Say, GoOn, Stay, hostVars, uploadVars, loginVars, toolVars, Browsers,
      Gone, Unsaid, NoCode, CodesFresh, Ordered, BridgeInv
<1>q. QED BY <1>1, <1>2, <1>3, <1>5, <1>6 DEF BridgeInv

LEMMA FillFormKeeps == ASSUME BridgeInv, FillForm PROVE BridgeInv'
<1>1. Ordered' /\ now' \in Nat /\ poll' \in Polls
  BY BridgeAssumption, SMTT(40)
  DEF FillForm, Elapsed, Say, GoOn, Raise, Stay, hostVars, uploadVars, loginVars, toolVars,
      Browsers, Gone, Unsaid, NoCode, Ordered, BridgeInv
<1>2. HowFar'
  BY BridgeAssumption, SMTT(40)
  DEF FillForm, Elapsed, Say, GoOn, Raise, Stay, hostVars, uploadVars, loginVars, toolVars,
      Browsers, Gone, Unsaid, NoCode, HowFar, BridgeInv
<1>3. MayBeTaken'
  BY BridgeAssumption, SMTT(40)
  DEF FillForm, Elapsed, Say, GoOn, Raise, Stay, hostVars, uploadVars, loginVars, toolVars,
      Browsers, Gone, Unsaid, NoCode, HowFar, MayBeTaken, Ordered, BridgeInv
<1>4. Sayable' = Sayable
  BY BridgeAssumption, SMTT(40)
  DEF FillForm, Elapsed, Say, GoOn, Raise, Stay, hostVars, uploadVars, loginVars, toolVars,
      Browsers, Gone, Unsaid, NoCode, Sayable, BridgeInv
<1>5. Warranted'
  BY <1>4, SayableWords, SMTT(40)
  DEF FillForm, Elapsed, Say, GoOn, Raise, Stay, hostVars, uploadVars, loginVars, toolVars,
      Browsers, Gone, Unsaid, NoCode, HowFar, MayBeTaken, Ordered, Warranted, SayableFacts,
      BridgeInv
<1>6. CodesFresh'
  BY BridgeAssumption, SMTT(40)
  DEF FillForm, Elapsed, Say, GoOn, Raise, Stay, hostVars, uploadVars, loginVars, toolVars,
      Browsers, Gone, Unsaid, NoCode, CodesFresh, Ordered, BridgeInv
<1>q. QED BY <1>1, <1>2, <1>3, <1>5, <1>6 DEF BridgeInv

LEMMA FormChangesKeeps == ASSUME BridgeInv, FormChanges PROVE BridgeInv'
<1>1. Ordered' /\ now' \in Nat /\ poll' \in Polls
  BY BridgeAssumption, SMTT(40)
  DEF FormChanges, hostVars, uploadVars, loginVars, toolVars, Browsers, Gone, Unsaid, NoCode,
      Ordered, BridgeInv
<1>2. HowFar'
  BY BridgeAssumption, SMTT(40)
  DEF FormChanges, hostVars, uploadVars, loginVars, toolVars, Browsers, Gone, Unsaid, NoCode,
      HowFar, BridgeInv
<1>3. MayBeTaken'
  BY BridgeAssumption, SMTT(40)
  DEF FormChanges, hostVars, uploadVars, loginVars, toolVars, Browsers, Gone, Unsaid, NoCode,
      HowFar, MayBeTaken, Ordered, BridgeInv
<1>4. Sayable' = Sayable
  BY BridgeAssumption, SMTT(40)
  DEF FormChanges, hostVars, uploadVars, loginVars, toolVars, Browsers, Gone, Unsaid, NoCode,
      Sayable, BridgeInv
<1>5. Warranted'
  BY <1>4, SMTT(40)
  DEF FormChanges, hostVars, uploadVars, loginVars, toolVars, Browsers, Gone, Unsaid, NoCode,
      HowFar, Warranted, BridgeInv
<1>6. CodesFresh'
  BY BridgeAssumption, SMTT(40)
  DEF FormChanges, hostVars, uploadVars, loginVars, toolVars, Browsers, Gone, Unsaid, NoCode,
      CodesFresh, Ordered, BridgeInv
<1>q. QED BY <1>1, <1>2, <1>3, <1>5, <1>6 DEF BridgeInv

LEMMA PressKeeps == ASSUME BridgeInv, Press PROVE BridgeInv'
<1>1. Ordered' /\ now' \in Nat /\ poll' \in Polls
  BY BridgeAssumption, SMTT(40)
  DEF Press, Repeated, Raise, Say, TooLate, Elapsed, GoOn, Stay, hostVars, uploadVars,
      loginVars, toolVars, Browsers, Gone, Unsaid, NoCode, Ordered, BridgeInv
<1>2. HowFar'
  BY BridgeAssumption, SMTT(40)
  DEF Press, Repeated, Raise, Say, TooLate, Elapsed, GoOn, Stay, hostVars, uploadVars,
      loginVars, toolVars, Browsers, Gone, Unsaid, NoCode, HowFar, BridgeInv
<1>3. MayBeTaken'
  BY BridgeAssumption, SMTT(40)
  DEF Press, Repeated, Raise, Say, TooLate, Elapsed, GoOn, Stay, hostVars, uploadVars,
      loginVars, toolVars, Browsers, Gone, Unsaid, NoCode, HowFar, MayBeTaken, Ordered,
      BridgeInv
<1>4. Sayable' = Sayable
  BY BridgeAssumption, SMTT(40)
  DEF Press, Repeated, Raise, Say, TooLate, Elapsed, GoOn, Stay, hostVars, uploadVars,
      loginVars, toolVars, Browsers, Gone, Unsaid, NoCode, Sayable, BridgeInv
<1>5. Warranted'
  BY <1>4, SayableWords, SMTT(40)
  DEF Press, Repeated, Raise, Say, TooLate, Elapsed, GoOn, Stay, hostVars, uploadVars,
      loginVars, toolVars, Browsers, Gone, Unsaid, NoCode, HowFar, MayBeTaken, Ordered,
      Warranted, SayableFacts, BridgeInv
<1>6. CodesFresh'
  BY BridgeAssumption, SMTT(40)
  DEF Press, Repeated, Raise, Say, TooLate, Elapsed, GoOn, Stay, hostVars, uploadVars,
      loginVars, toolVars, Browsers, Gone, Unsaid, NoCode, CodesFresh, Ordered, BridgeInv
<1>q. QED BY <1>1, <1>2, <1>3, <1>5, <1>6 DEF BridgeInv

LEMMA PreflightKeeps == ASSUME BridgeInv, Preflight PROVE BridgeInv'
<1>1. Ordered' /\ now' \in Nat /\ poll' \in Polls
  BY BridgeAssumption, SMTT(40)
  DEF Preflight, Say, Rechecked, TooLate, Elapsed, GoOn, Stay, hostVars, uploadVars, loginVars,
      toolVars, Browsers, Gone, Unsaid, NoCode, Ordered, BridgeInv
<1>2. HowFar'
  BY BridgeAssumption, SMTT(40)
  DEF Preflight, Say, Rechecked, TooLate, Elapsed, GoOn, Stay, hostVars, uploadVars, loginVars,
      toolVars, Browsers, Gone, Unsaid, NoCode, HowFar, BridgeInv
<1>3. MayBeTaken'
  <2>1. CASE Say("failed") /\ UNCHANGED attempted
    BY <2>1, BridgeAssumption, SMTT(40)
    DEF Preflight, Say, Rechecked, TooLate, Elapsed, GoOn, Stay, hostVars, uploadVars,
        loginVars, toolVars, Browsers, Gone, Unsaid, NoCode, HowFar, MayBeTaken, Ordered,
        BridgeInv
  <2>2. CASE form = "confirmed" /\ Rechecked /\ attempted' = {now} /\ GoOn("click")
    BY <2>2, BridgeAssumption, SMTT(40)
    DEF Preflight, Say, Rechecked, TooLate, Elapsed, GoOn, Stay, hostVars, uploadVars,
        loginVars, toolVars, Browsers, Gone, Unsaid, NoCode, HowFar, MayBeTaken, Ordered,
        BridgeInv
  <2>q. QED BY <2>1, <2>2, SMTT(40) DEF Preflight
<1>4. \A word \in Sayable : word \in Sayable'
  BY BridgeAssumption, SMTT(40)
  DEF Preflight, Say, Rechecked, TooLate, Elapsed, GoOn, Stay, hostVars, uploadVars, loginVars,
      toolVars, Browsers, Gone, Unsaid, NoCode, Sayable, BridgeInv
<1>5. Warranted'
  BY <1>4, SayableWords, SMTT(40)
  DEF Preflight, Say, Rechecked, TooLate, Elapsed, GoOn, Stay, hostVars, uploadVars, loginVars,
      toolVars, Browsers, Gone, Unsaid, NoCode, HowFar, MayBeTaken, Ordered, Warranted,
      SayableFacts, BridgeInv
<1>6. CodesFresh'
  BY BridgeAssumption, SMTT(40)
  DEF Preflight, Say, Rechecked, TooLate, Elapsed, GoOn, Stay, hostVars, uploadVars, loginVars,
      toolVars, Browsers, Gone, Unsaid, NoCode, CodesFresh, Ordered, BridgeInv
<1>q. QED BY <1>1, <1>2, <1>3, <1>5, <1>6 DEF BridgeInv

LEMMA ClickKeeps == ASSUME BridgeInv, Click PROVE BridgeInv'
<1>1. Ordered' /\ now' \in Nat /\ poll' \in Polls
  BY BridgeAssumption, SMTT(40)
  DEF Click, Raise, Say, GoOn, Stay, hostVars, uploadVars, loginVars, toolVars, Browsers, Gone,
      Unsaid, NoCode, Ordered, BridgeInv
<1>2. HowFar'
  BY BridgeAssumption, SMTT(40)
  DEF Click, Raise, Say, GoOn, Stay, hostVars, uploadVars, loginVars, toolVars, Browsers, Gone,
      Unsaid, NoCode, HowFar, BridgeInv
<1>3. MayBeTaken'
  BY BridgeAssumption, SMTT(40)
  DEF Click, Raise, Say, GoOn, Stay, hostVars, uploadVars, loginVars, toolVars, Browsers, Gone,
      Unsaid, NoCode, HowFar, MayBeTaken, Ordered, BridgeInv
<1>4. /\ UNCHANGED <<order, host, gate, verdict, answer>>
      /\ (tool' = "say" /\ said' = "unknown") \/ tool' = "clicked"
  BY SMTT(40) DEF Click, Raise, Say, GoOn, Stay, hostVars, HowFar, BridgeInv
<1>5. Warranted'
  <2>1. answer = Unsaid /\ tool \notin Gone /\ gate /\ order.action = "upload"
    BY DEF Click, Gone, HowFar, Warranted, BridgeInv
  <2>2. verdict \in {Unsaid, "unknown"}
    BY <2>1 DEF Warranted, Sayable, HowFar, BridgeInv
  <2>3. "unknown" \in Sayable'
    BY SayableWords DEF SayableFacts
  <2>4. host \in {"closing", "done"} => verdict = "unknown"
    BY <2>2, SayableWords DEF Warranted, SayableFacts, BridgeInv
  <2>q. QED BY <1>4, <2>1, <2>2, <2>3, <2>4, SMT DEF Warranted, Unsaid, Gone, BridgeInv
<1>6. CodesFresh'
  BY BridgeAssumption, SMTT(40)
  DEF Click, Raise, Say, GoOn, Stay, hostVars, uploadVars, loginVars, toolVars, Browsers, Gone,
      Unsaid, NoCode, CodesFresh, Ordered, BridgeInv
<1>q. QED BY <1>1, <1>2, <1>3, <1>5, <1>6 DEF BridgeInv

LEMMA AcknowledgeKeeps == ASSUME BridgeInv, Acknowledge PROVE BridgeInv'
<1>1. Ordered' /\ now' \in Nat /\ poll' \in Polls
  BY BridgeAssumption, SMTT(40)
  DEF Acknowledge, Say, Raise, Stay, hostVars, uploadVars, loginVars, toolVars, Browsers, Gone,
      Unsaid, NoCode, Ordered, BridgeInv
<1>2. HowFar'
  BY BridgeAssumption, SMTT(40)
  DEF Acknowledge, Say, Raise, Stay, hostVars, uploadVars, loginVars, toolVars, Browsers, Gone,
      Unsaid, NoCode, HowFar, BridgeInv
<1>3. MayBeTaken'
  BY BridgeAssumption, SMTT(40)
  DEF Acknowledge, Say, Raise, Stay, hostVars, uploadVars, loginVars, toolVars, Browsers, Gone,
      Unsaid, NoCode, HowFar, MayBeTaken, Ordered, BridgeInv
<1>4. Sayable' = Sayable
  BY BridgeAssumption, SMTT(40)
  DEF Acknowledge, Say, Raise, Stay, hostVars, uploadVars, loginVars, toolVars, Browsers, Gone,
      Unsaid, NoCode, Sayable, BridgeInv
<1>5. Warranted'
  BY <1>4, SayableWords, SMTT(40)
  DEF Acknowledge, Say, Raise, Stay, hostVars, uploadVars, loginVars, toolVars, Browsers, Gone,
      Unsaid, NoCode, HowFar, MayBeTaken, Ordered, Warranted, SayableFacts, BridgeInv
<1>6. CodesFresh'
  BY BridgeAssumption, SMTT(40)
  DEF Acknowledge, Say, Raise, Stay, hostVars, uploadVars, loginVars, toolVars, Browsers, Gone,
      Unsaid, NoCode, CodesFresh, Ordered, BridgeInv
<1>q. QED BY <1>1, <1>2, <1>3, <1>5, <1>6 DEF BridgeInv

LEMMA UploaderGoesOnKeeps == ASSUME BridgeInv, UploaderGoesOn PROVE BridgeInv'
<1>1. Ordered' /\ now' \in Nat /\ poll' \in Polls
  BY BridgeAssumption, SMTT(40)
  DEF UploaderGoesOn, GoOn, Raise, Say, Stay, hostVars, uploadVars, loginVars, toolVars,
      Browsers, Gone, Unsaid, NoCode, Ordered, BridgeInv
<1>2. HowFar'
  BY BridgeAssumption, SMTT(40)
  DEF UploaderGoesOn, GoOn, Raise, Say, Stay, hostVars, uploadVars, loginVars, toolVars,
      Browsers, Gone, Unsaid, NoCode, HowFar, BridgeInv
<1>3. MayBeTaken'
  <2>1. CASE GoOn("press")
    <3>1. tool' = "press" /\ UNCHANGED <<order, host, gate, attempted, posted>>
      BY <2>1 DEF UploaderGoesOn, GoOn, Stay, hostVars, uploadVars
    <3>2. order.platform \in Browsers /\ attempted # {} /\ gate
      BY DEF UploaderGoesOn, Browsers, MayBeTaken, HowFar, Gone, BridgeInv
    <3>3. order'.due # 0 => \A t \in attempted' : order'.due > t + ChildLead
      BY <3>1 DEF MayBeTaken, BridgeInv
    <3>q. QED BY <3>1, <3>2, <3>3 DEF MayBeTaken, BridgeInv
  <2>2. CASE Raise
    BY <2>2, BridgeAssumption, SMTT(40)
    DEF UploaderGoesOn, GoOn, Raise, Say, Stay, hostVars, uploadVars, loginVars, toolVars,
        Browsers, Gone, Unsaid, NoCode, HowFar, MayBeTaken, Ordered, BridgeInv
  <2>3. CASE Say("submitted")
    BY <2>3, BridgeAssumption, SMTT(40)
    DEF UploaderGoesOn, GoOn, Raise, Say, Stay, hostVars, uploadVars, loginVars, toolVars,
        Browsers, Gone, Unsaid, NoCode, HowFar, MayBeTaken, Ordered, BridgeInv
  <2>q. QED BY <2>1, <2>2, <2>3, SMTT(40) DEF UploaderGoesOn
<1>4. Sayable' = Sayable
  BY BridgeAssumption, SMTT(40)
  DEF UploaderGoesOn, GoOn, Raise, Say, Stay, hostVars, uploadVars, loginVars, toolVars,
      Browsers, Gone, Unsaid, NoCode, Sayable, BridgeInv
<1>5. Warranted'
  BY <1>4, SayableWords, SMTT(40)
  DEF UploaderGoesOn, GoOn, Raise, Say, Stay, hostVars, uploadVars, loginVars, toolVars,
      Browsers, Gone, Unsaid, NoCode, HowFar, MayBeTaken, Ordered, Warranted, SayableFacts,
      BridgeInv
<1>6. CodesFresh'
  BY BridgeAssumption, SMTT(40)
  DEF UploaderGoesOn, GoOn, Raise, Say, Stay, hostVars, uploadVars, loginVars, toolVars,
      Browsers, Gone, Unsaid, NoCode, CodesFresh, Ordered, BridgeInv
<1>q. QED BY <1>1, <1>2, <1>3, <1>5, <1>6 DEF BridgeInv

LEMMA UploaderGivesUpKeeps == ASSUME BridgeInv, UploaderGivesUp PROVE BridgeInv'
<1>1. Ordered' /\ now' \in Nat /\ poll' \in Polls
  BY BridgeAssumption, SMTT(40)
  DEF UploaderGivesUp, Repeated, Say, Stay, hostVars, uploadVars, loginVars, toolVars,
      Browsers, Gone, Unsaid, NoCode, Ordered, BridgeInv
<1>2. HowFar'
  BY BridgeAssumption, SMTT(40)
  DEF UploaderGivesUp, Repeated, Say, Stay, hostVars, uploadVars, loginVars, toolVars,
      Browsers, Gone, Unsaid, NoCode, HowFar, BridgeInv
<1>3. MayBeTaken'
  BY BridgeAssumption, SMTT(40)
  DEF UploaderGivesUp, Repeated, Say, Stay, hostVars, uploadVars, loginVars, toolVars,
      Browsers, Gone, Unsaid, NoCode, HowFar, MayBeTaken, Ordered, BridgeInv
<1>4. Sayable' = Sayable
  BY BridgeAssumption, SMTT(40)
  DEF UploaderGivesUp, Repeated, Say, Stay, hostVars, uploadVars, loginVars, toolVars,
      Browsers, Gone, Unsaid, NoCode, Sayable, BridgeInv
<1>5. Warranted'
  BY <1>4, SayableWords, SMTT(40)
  DEF UploaderGivesUp, Repeated, Say, Stay, hostVars, uploadVars, loginVars, toolVars,
      Browsers, Gone, Unsaid, NoCode, HowFar, MayBeTaken, Ordered, Warranted, SayableFacts,
      BridgeInv
<1>6. CodesFresh'
  BY BridgeAssumption, SMTT(40)
  DEF UploaderGivesUp, Repeated, Say, Stay, hostVars, uploadVars, loginVars, toolVars,
      Browsers, Gone, Unsaid, NoCode, CodesFresh, Ordered, BridgeInv
<1>q. QED BY <1>1, <1>2, <1>3, <1>5, <1>6 DEF BridgeInv

LEMMA PageMovesKeeps == ASSUME BridgeInv, PageMoves PROVE BridgeInv'
<1>1. Ordered' /\ now' \in Nat /\ poll' \in Polls
  BY BridgeAssumption, SMTT(40)
  DEF PageMoves, hostVars, uploadVars, loginVars, toolVars, Browsers, Gone, Unsaid, NoCode,
      Ordered, BridgeInv
<1>2. HowFar'
  BY BridgeAssumption, SMTT(40)
  DEF PageMoves, hostVars, uploadVars, loginVars, toolVars, Browsers, Gone, Unsaid, NoCode,
      HowFar, BridgeInv
<1>3. MayBeTaken'
  BY BridgeAssumption, SMTT(40)
  DEF PageMoves, hostVars, uploadVars, loginVars, toolVars, Browsers, Gone, Unsaid, NoCode,
      HowFar, MayBeTaken, Ordered, BridgeInv
<1>4. Sayable' = Sayable
  BY BridgeAssumption, SMTT(40)
  DEF PageMoves, hostVars, uploadVars, loginVars, toolVars, Browsers, Gone, Unsaid, NoCode,
      Sayable, BridgeInv
<1>5. Warranted'
  BY <1>4, SMTT(40)
  DEF PageMoves, hostVars, uploadVars, loginVars, toolVars, Browsers, Gone, Unsaid, NoCode,
      HowFar, Warranted, BridgeInv
<1>6. CodesFresh'
  BY BridgeAssumption, SMTT(40)
  DEF PageMoves, hostVars, uploadVars, loginVars, toolVars, Browsers, Gone, Unsaid, NoCode,
      CodesFresh, Ordered, BridgeInv
<1>q. QED BY <1>1, <1>2, <1>3, <1>5, <1>6 DEF BridgeInv

LEMMA LeaveLoginKeeps == ASSUME BridgeInv, LeaveLogin PROVE BridgeInv'
<1>u. UNCHANGED << order, orders, host, halt, gate, verdict, answer, now, form, attempted,
                  posted, poll>>
  BY SMTT(40) DEF LeaveLogin, Show, Say, Stay, hostVars, uploadVars, loginVars, toolVars
<1>a. update' = update \/ update'.phase \in {"expired", "verification_required"}
  BY SMTT(40) DEF LeaveLogin, Show, Say, Stay, hostVars, uploadVars, loginVars, toolVars
<1>b. tool = "login"
  BY SMTT(40) DEF LeaveLogin, Show, Say, Stay, hostVars, uploadVars, loginVars, toolVars
<1>c. tool' = "say"
  BY SMTT(40) DEF LeaveLogin, Show, Say, Stay, hostVars, uploadVars, loginVars, toolVars
<1>d. said' \in {"failed", "ready"}
  BY SMTT(40) DEF LeaveLogin, Show, Say, Stay, hostVars, uploadVars, loginVars, toolVars
<1>e. said' = "ready" => session' = "new"
  BY SMTT(40) DEF LeaveLogin, Show, Say, Stay, hostVars, uploadVars, loginVars, toolVars
<1>f. session' \in {session, "new"}
  BY SMTT(40) DEF LeaveLogin, Show, Say, Stay, hostVars, uploadVars, loginVars, toolVars
<1>1. Ordered' /\ now' \in Nat /\ poll' \in Polls
  BY <1>u, <1>a, <1>b, <1>c, <1>d, <1>e, <1>f, BridgeAssumption, SMTT(40)
  DEF Browsers, Gone, Unsaid, NoCode, Ordered, BridgeInv
<1>2. HowFar'
  BY <1>u, <1>a, <1>b, <1>c, <1>d, <1>e, <1>f, BridgeAssumption, SMTT(40)
  DEF Browsers, Gone, Unsaid, NoCode, HowFar, BridgeInv
<1>3. MayBeTaken'
  BY <1>u, <1>a, <1>b, <1>c, <1>d, <1>e, <1>f, BridgeAssumption, SMTT(40)
  DEF Browsers, Gone, Unsaid, NoCode, HowFar, MayBeTaken, Ordered, BridgeInv
<1>4. \A word \in Sayable : word \in Sayable'
  BY <1>u, <1>a, <1>b, <1>c, <1>d, <1>e, <1>f, BridgeAssumption, SMTT(40)
  DEF Browsers, Gone, Unsaid, NoCode, Sayable, BridgeInv
<1>5. Warranted'
  BY <1>u, <1>a, <1>b, <1>c, <1>d, <1>e, <1>f, <1>4, SayableWords, SMTT(40)
  DEF Browsers, Gone, Unsaid, NoCode, HowFar, MayBeTaken, Ordered, Warranted, SayableFacts,
      BridgeInv
<1>6. CodesFresh'
  BY <1>u, <1>a, <1>b, <1>c, <1>d, <1>e, <1>f, BridgeAssumption, SMTT(40)
  DEF Browsers, Gone, Unsaid, NoCode, CodesFresh, Ordered, BridgeInv
<1>q. QED BY <1>1, <1>2, <1>3, <1>5, <1>6 DEF BridgeInv

LEMMA LoginPassKeeps == ASSUME BridgeInv, LoginPass PROVE BridgeInv'
<1>u. UNCHANGED << order, orders, host, halt, gate, verdict, tool, said, answer, session, now,
                  form, attempted, posted>>
  BY SMTT(40)
  DEF LoginPass, Show, NoPoll, Outdated, Stay, hostVars, uploadVars, loginVars, toolVars
<1>a. order.platform \in Browsers
  BY SMTT(40)
  DEF LoginPass, Show, NoPoll, Outdated, Stay, hostVars, uploadVars, loginVars, toolVars
<1>1. Ordered' /\ now' \in Nat /\ poll' \in Polls
  <2>5. poll' \in Polls
    <3>1. CASE poll' = [poll EXCEPT !.auths = 1] \/ poll' = [poll EXCEPT !.auths = 0]
      BY <3>1, PollUpdates DEF BridgeInv
    <3>2. CASE poll' = [poll EXCEPT !.auths = 0, !.scanned = TRUE]
      <4>1. [poll EXCEPT !.auths = 0, !.scanned = TRUE] \in Polls
        BY PollUpdates DEF BridgeInv
      <4>q. QED BY <3>2, <4>1
    <3>3. CASE poll' = [NoPoll EXCEPT !.refreshes = poll.refreshes + 1, !.last = poll.last,
                             !.expired = poll.expired \cup ({poll.last} \ {NoCode})]
      <4>1. /\ poll.expired \cup ({poll.last} \ {NoCode}) \in SUBSET Codes
            /\ poll.refreshes + 1 \in Nat /\ poll.last \in Codes \cup {NoCode}
        BY DEF Polls, BridgeInv
      <4>2. poll' = [scanned |-> FALSE, last |-> poll.last, auths |-> 0,
                     expired |-> poll.expired \cup ({poll.last} \ {NoCode}),
                     refreshes |-> poll.refreshes + 1]
        BY <3>3 DEF NoPoll
      <4>3. \A e \in SUBSET Codes, r \in Nat, l \in Codes \cup {NoCode} :
            [scanned |-> FALSE, last |-> l, auths |-> 0, expired |-> e, refreshes |-> r] \in Polls
        BY DEF Polls
      <4>q. QED BY <4>1, <4>2, <4>3
    <3>4. ASSUME NEW b \in BOOLEAN, face \in Codes,
                 poll' = [poll EXCEPT !.auths = 0, !.last = face, !.scanned = b]
          PROVE  poll' \in Polls
      BY <3>4 DEF Polls, BridgeInv
    <3>5. CASE /\ face \in Codes
               /\ LET shown == ~Outdated(face) /\ (~poll.scanned \/ face # poll.last)
                  IN  poll' = [poll EXCEPT !.auths = 0, !.last = face, !.scanned = @ /\ ~shown]
      <4> DEFINE b == poll.scanned /\ ~(~Outdated(face) /\ (~poll.scanned \/ face # poll.last))
      <4>1. b \in BOOLEAN
        OBVIOUS
      <4>2. poll' = [poll EXCEPT !.auths = 0, !.last = face, !.scanned = b]
        BY <3>5
      <4> HIDE DEF b
      <4>q. QED BY <3>4, <3>5, <4>1, <4>2
    <3>q. QED BY <3>1, <3>2, <3>3, <3>5 DEF LoginPass
  <2>q. QED BY <1>u, <2>5 DEF Ordered, BridgeInv
<1>2. HowFar'
  BY <1>u, <1>a, BridgeAssumption, SMTT(40)
  DEF Browsers, Gone, Unsaid, NoCode, HowFar, BridgeInv
<1>3. MayBeTaken'
  BY <1>u, <1>a, BridgeAssumption, SMTT(40)
  DEF Browsers, Gone, Unsaid, NoCode, HowFar, MayBeTaken, Ordered, BridgeInv
<1>4. Sayable' = Sayable
  BY <1>u, <1>a, BridgeAssumption, SMTT(40)
  DEF Browsers, Gone, Unsaid, NoCode, Sayable, BridgeInv
<1>5. Warranted'
  BY <1>u, <1>a, <1>4, SMTT(40)
  DEF Browsers, Gone, Unsaid, NoCode, HowFar, Warranted, BridgeInv
<1>6. CodesFresh'
  <2>0. order'.platform # "bilibili"
    BY <1>u, <1>a DEF Browsers
  <2>1. CASE update'.phase \in {"scanned", "preparing"} /\ poll'.expired = poll.expired
    BY <2>0, <2>1, SMT DEF CodesFresh, BridgeInv
  <2>2. CASE update'.phase = "expired"
    BY <2>0, <2>2, SMT DEF CodesFresh, BridgeInv
  <2>3. CASE update' = update /\ poll'.expired = poll.expired
    BY <2>0, <2>3, SMT DEF CodesFresh, BridgeInv
  <2>4. CASE /\ update'.phase = "waiting_scan" /\ update'.code \notin poll.expired
             /\ poll'.expired = poll.expired
    BY <2>0, <2>4, SMT DEF CodesFresh, BridgeInv
  <2>5. \/ update'.phase = "scanned" /\ poll'.expired = poll.expired
        \/ update'.phase = "expired"
        \/ update'.phase = "preparing" /\ poll'.expired = poll.expired
        \/ update' = update /\ poll'.expired = poll.expired
        \/ /\ update'.phase = "waiting_scan" /\ update'.code \notin poll.expired
           /\ poll'.expired = poll.expired
    <3>1. CASE /\ Show("scanned", NoCode) \/ Show("preparing", NoCode)
               /\ \/ poll' = [poll EXCEPT !.auths = 1]
                  \/ poll' = [poll EXCEPT !.auths = 0]
                  \/ poll' = [poll EXCEPT !.auths = 0, !.scanned = TRUE]
      <4>1. poll'.expired = poll.expired
        BY <3>1 DEF Polls, BridgeInv
      <4>q. QED BY <3>1, <4>1 DEF Show
    <3>2. CASE Show("expired", NoCode)
      <4>1. update'.phase = "expired"
        BY <3>2, Zenon DEF Show
      <4>q. QED BY <4>1
    <3>3. CASE update' = update /\ poll' = [poll EXCEPT !.auths = 0]
      BY <3>3 DEF Polls, BridgeInv
    <3>4. CASE /\ face \in Codes
               /\ LET shown == ~Outdated(face) /\ (~poll.scanned \/ face # poll.last)
                  IN  /\ poll' = [poll EXCEPT !.auths = 0, !.last = face,
                                              !.scanned = @ /\ ~shown]
                      /\ IF Outdated(face) THEN Show("preparing", NoCode)
                         ELSE IF shown THEN Show("waiting_scan", face) ELSE UNCHANGED update
      <4>1. poll'.expired = poll.expired
        BY <3>4 DEF Polls, BridgeInv
      <4>2. \/ Show("preparing", NoCode) \/ update' = update
            \/ Show("waiting_scan", face) /\ face \notin poll.expired
        BY <3>4 DEF Outdated
      <4>q. QED BY <4>1, <4>2 DEF Show
    <3>q. QED BY <3>1, <3>2, <3>3, <3>4 DEF LoginPass
  <2>q. QED BY <2>1, <2>2, <2>3, <2>4, <2>5
<1>q. QED BY <1>1, <1>2, <1>3, <1>5, <1>6 DEF BridgeInv

LEMMA BilibiliPollKeeps == ASSUME BridgeInv, BilibiliPoll PROVE BridgeInv'
<1>u. UNCHANGED << order, orders, host, halt, gate, verdict, answer, now, form, attempted,
                  posted, poll>>
  BY SMTT(40) DEF BilibiliPoll, Show, Say, Stay, hostVars, uploadVars, loginVars, toolVars
<1>a. tool = "login"
  BY SMTT(40) DEF BilibiliPoll, Show, Say, Stay, hostVars, uploadVars, loginVars, toolVars
<1>b. order.platform = "bilibili"
  BY SMTT(40) DEF BilibiliPoll, Show, Say, Stay, hostVars, uploadVars, loginVars, toolVars
<1>c. tool' \in {"say", "login"}
  BY SMTT(40) DEF BilibiliPoll, Show, Say, Stay, hostVars, uploadVars, loginVars, toolVars
<1>d. tool' = "say" => said' \in {"failed", "ready"}
  BY SMTT(40) DEF BilibiliPoll, Show, Say, Stay, hostVars, uploadVars, loginVars, toolVars
<1>e. tool' = "say" /\ said' = "ready" => session' = "new"
  BY SMTT(40) DEF BilibiliPoll, Show, Say, Stay, hostVars, uploadVars, loginVars, toolVars
<1>f. session' \in {session, "new"}
  BY SMTT(40) DEF BilibiliPoll, Show, Say, Stay, hostVars, uploadVars, loginVars, toolVars
<1>1. Ordered' /\ now' \in Nat /\ poll' \in Polls
  BY <1>u, <1>a, <1>b, <1>c, <1>d, <1>e, <1>f, BridgeAssumption, SMTT(40)
  DEF Browsers, Gone, Unsaid, NoCode, Ordered, BridgeInv
<1>2. HowFar'
  BY <1>u, <1>a, <1>b, <1>c, <1>d, <1>e, <1>f, BridgeAssumption, SMTT(40)
  DEF Browsers, Gone, Unsaid, NoCode, HowFar, BridgeInv
<1>3. MayBeTaken'
  BY <1>u, <1>a, <1>b, <1>c, <1>d, <1>e, <1>f, BridgeAssumption, SMTT(40)
  DEF Browsers, Gone, Unsaid, NoCode, HowFar, MayBeTaken, Ordered, BridgeInv
<1>4. \A word \in Sayable : word \in Sayable'
  BY <1>u, <1>a, <1>b, <1>c, <1>d, <1>e, <1>f, BridgeAssumption, SMTT(40)
  DEF Browsers, Gone, Unsaid, NoCode, Sayable, BridgeInv
<1>5. Warranted'
  BY <1>u, <1>a, <1>b, <1>c, <1>d, <1>e, <1>f, <1>4, SayableWords, SMTT(40)
  DEF Browsers, Gone, Unsaid, NoCode, HowFar, MayBeTaken, Ordered, Warranted, SayableFacts,
      BridgeInv
<1>6. CodesFresh'
  BY <1>u, <1>b DEF CodesFresh, BridgeInv
<1>q. QED BY <1>1, <1>2, <1>3, <1>5, <1>6 DEF BridgeInv

LEMMA BridgeStep == BridgeInv /\ BridgeNext => BridgeInv'
  BY SubmitKeeps, RequestHaltKeeps, StageKeeps, SpawnKeeps, ReleaseKeeps, StopWaitingKeeps,
     ReadAnswerKeeps, ReclaimKeeps, DisconnectLocalKeeps, TimePassesKeeps, PassGateKeeps,
     WriteAnswerKeeps, ChildDiesKeeps, AuthenticateKeeps, RunBiliupKeeps, FillFormKeeps,
     FormChangesKeeps, PressKeeps, PreflightKeeps, ClickKeeps, AcknowledgeKeeps,
     UploaderGoesOnKeeps, UploaderGivesUpKeeps, PageMovesKeeps, LeaveLoginKeeps,
     LoginPassKeeps, BilibiliPollKeeps DEF BridgeNext, HostStep

LEMMA BridgeStutters == BridgeInv /\ UNCHANGED bridgeVars => BridgeInv'
  BY DEF BridgeInv, bridgeVars, hostVars, toolVars, uploadVars, loginVars, Ordered, HowFar,
         MayBeTaken, Sayable, Warranted, CodesFresh

LEMMA BridgeBegins == BridgeInit => BridgeInv
<1> SUFFICES ASSUME BridgeInit PROVE BridgeInv
  OBVIOUS
<1>1. Ordered /\ now \in Nat
  BY Zenon, SMT DEF BridgeInit, Ordered, Browsers
<1>2. poll \in Polls
  BY DEF BridgeInit, NoPoll, Polls
<1>3. HowFar /\ MayBeTaken
  BY DEF BridgeInit, HowFar, MayBeTaken, Gone
<1>4. Warranted
  BY DEF BridgeInit, Warranted, Gone, Unsaid
<1>5. CodesFresh
  <2>1. update.phase = "preparing"
    BY DEF BridgeInit, Silence
  <2>2. poll.expired = {}
    BY DEF BridgeInit, NoPoll
  <2>q. QED BY <2>1, <2>2 DEF CodesFresh
<1>q. QED BY <1>1, <1>2, <1>3, <1>4, <1>5 DEF BridgeInv

LEMMA BridgeInvHonest == BridgeInv => BridgeHonest
<1> SUFFICES ASSUME BridgeInv PROVE BridgeHonest
  OBVIOUS
<1>1. /\ posted <= 1
      /\ host = "done" => tool \in Gone
      /\ order.due # 0 => \A t \in attempted : order.due > t + ChildLead
  BY DEF BridgeInv, MayBeTaken, HowFar
<1>2. /\ host = "done" /\ verdict \in {"failed", "cancelled"} => posted = 0
      /\ verdict \in {"submitted", "draft_saved"} =>
            /\ order.platform \in Browsers => attempted # {}
            /\ order.platform # "douyin" => posted = 1
      /\ host = "done" /\ verdict = "ready" /\ order.action = "login" => session # "old"
  BY DEF BridgeInv, Warranted, Sayable, Unsaid
<1>q. QED BY <1>1, <1>2 DEF BridgeHonest, VerdictHonest, LoginHonest, BridgeInv, CodesFresh

\* No order of the steps of the Uploader's thread, of the child it spawns and of
\* the page leads out of BridgeInv: what the host may say is what the child may
\* have done.
THEOREM BridgeInvariance == BridgeSpec => []BridgeInv
  BY BridgeBegins, BridgeStep, BridgeStutters, PTL DEF BridgeSpec

\* Whatever the child does, dies of or leaves unsaid: after "failed" or
\* "cancelled" nothing was sent and nothing runs that could still send, the
\* platform took at most one submission, success rests on the final action, and
\* a login says ready only for the session it stored.
THEOREM BridgeIsHonest == BridgeSpec => []BridgeHonest
  BY BridgeInvariance, BridgeInvHonest, PTL

-----------------------------------------------------------------------------
(***************************************************************************)
(* Opening a database: SchemaFiles                                         *)
(***************************************************************************)

Versions == 0..12
Stages   == {"stage8", "stage9", "stage10", "stage11"}
Labels   == {"closed", "creating", "queueing", "checking", "verifying", "migrating",
             "stepping", "first", "ready", "failed"} \cup Stages

SchemaTyped ==
    /\ kind \in Store
    /\ base \in Versions /\ file \in Versions
    /\ orphans \in Nat /\ deaths \in Nat
    /\ temp \in [Openers -> {"none", "whole", "linked", "spare"}]
    /\ flock \in Openers \cup {NoOwner}
    /\ writer \in [by : Openers \cup {NoOwner}, at : Versions, steps : SUBSET Versions]
    /\ opening \in [Openers -> Labels]
    /\ seen \in [Openers -> Versions]
    /\ DOMAIN trusts = Openers
    /\ applied \in [1..12 -> Nat]

\* The control database and the other stores go different ways.
WaysApart ==
    \A p \in Openers :
        /\ opening[p] \in {"creating", "queueing", "checking", "migrating", "stepping"} =>
             kind # "control"
        /\ opening[p] \in Stages \cup {"first"} => kind = "control"

\* The version never falls, passes the current one only if it began there, and
\* a store other than the control database has no version in between.
FileGrows ==
    /\ base <= file
    /\ base <= Current => file <= Current
    /\ base > Current => file = base /\ maker = "old"
    /\ kind # "control" => file \in {base, Current}

\* What an opener went by is still so: no other can have taken it back.
FoundHolds ==
    \A p \in Openers :
        /\ opening[p] = "migrating" => file \in 1..Current
        /\ opening[p] = "stage8" => file \in 7..Current
        /\ opening[p] = "stage9" => file \in 8..Current
        /\ opening[p] = "stage10" => file \in 9..Current
        /\ opening[p] = "stage11" => file \in 10..Current
        /\ opening[p] = "verifying" /\ kind = "control" => file = Current

\* An open transaction begins at the version the file has.
WriterBegins ==
    writer.by # NoOwner =>
        /\ kind # "control" /\ file \in 1..Current
        /\ writer.at \in file..Current
        /\ writer.steps = IF kind # "workflow" THEN (file + 1)..writer.at
                          ELSE IF writer.at = file THEN {} ELSE {Current}

\* The versions that committed transactions reached.
Arrived ==
    IF kind = "control" THEN (base + 1)..file
    ELSE IF base = None \/ file = base THEN {}
    ELSE IF kind = "workflow" THEN {Current} ELSE (base + 1)..Current

ReachedOnce == \A v \in 1..12 : applied[v] = IF v \in Arrived THEN 1 ELSE 0

SchemaInv ==
    /\ SchemaTyped /\ WaysApart /\ FileGrows /\ FoundHolds /\ WriterBegins /\ ReachedOnce
    /\ SameFile

-----------------------------------------------------------------------------
LEMMA Currents ==
    kind \in Store =>
      /\ Current \in 3..11
      /\ kind = "control" => Current = 11
      /\ kind = "workflow" => Current = 3
  BY DEF Store, CurrentOf, Current

LEMMA SchemaBegins == SchemaInit => SchemaInv
<1> SUFFICES ASSUME SchemaInit PROVE SchemaInv
  OBVIOUS
<1>1. Current \in 3..11
  BY Currents DEF SchemaInit
<1>2. SchemaTyped
  <2>1. base \in Versions
    BY <1>1 DEF SchemaInit, Versions, None
  <2>q. QED BY <2>1, <1>1 DEF SchemaInit, SchemaTyped, Versions, Labels, None, NoWriter
<1>3. WaysApart /\ FoundHolds /\ WriterBegins /\ SameFile
  BY DEF SchemaInit, WaysApart, FoundHolds, WriterBegins, SameFile, Stages, NoWriter
<1>4. FileGrows
  BY <1>1, <1>2 DEF SchemaInit, FileGrows, None, SchemaTyped, Versions
<1>5. ReachedOnce
  BY <1>2 DEF SchemaInit, ReachedOnce, Arrived, None, SchemaTyped, Versions
<1>q. QED BY <1>2, <1>3, <1>4, <1>5 DEF SchemaInv

LEMMA SchemaStutters == SchemaInv /\ UNCHANGED schemaVars => SchemaInv'
  BY DEF SchemaInv, SchemaTyped, WaysApart, FileGrows, FoundHolds, WriterBegins, ReachedOnce,
     Arrived, SameFile, schemaVars, Current

\* The version a stage of the control database leads to.
LEMMA Tops ==
    /\ \A f \in 0..6 : LET steps == {v \in 1..7 : v > f}
                       IN  steps # {} /\ (CHOOSE v \in steps : \A w \in steps : w <= v) = 7
    /\ \A f \in 7..12 : {v \in 1..7 : v > f} = {}
    /\ \A t : t \in 1..12 => {t} # {} /\ (CHOOSE v \in {t} : \A w \in {t} : w <= v) = t
<1>1. ASSUME NEW f \in 0..6
      PROVE  LET steps == {v \in 1..7 : v > f}
             IN  steps # {} /\ (CHOOSE v \in steps : \A w \in steps : w <= v) = 7
  <2> DEFINE steps == {v \in 1..7 : v > f}
  <2>1. 7 \in steps /\ \A w \in steps : w <= 7
    OBVIOUS
  <2>2. \A v \in steps : (\A w \in steps : w <= v) => v = 7
    BY <2>1
  <2> HIDE DEF steps
  <2>q. QED BY <2>1, <2>2
<1>2. \A f \in 7..12 : {v \in 1..7 : v > f} = {}
  OBVIOUS
<1>3. ASSUME NEW t \in 1..12 PROVE {t} # {} /\ (CHOOSE v \in {t} : \A w \in {t} : w <= v) = t
  <2>1. \E v \in {t} : \A w \in {t} : w <= v
    OBVIOUS
  <2>q. QED BY <2>1
<1>q. QED BY <1>1, <1>2, <1>3

LEMMA StageVersions ==
    /\ DOMAIN StageVersion = Stages
    /\ StageVersion["stage8"] = 8 /\ StageVersion["stage9"] = 9
    /\ StageVersion["stage10"] = 10 /\ StageVersion["stage11"] = 11
    /\ \A s \in Stages : StageVersion[s] \in 8..11
    /\ NextOf("stage8") = "stage9" /\ NextOf("stage9") = "stage10"
    /\ NextOf("stage10") = "stage11" /\ NextOf("stage11") = "verifying"
  BY DEF StageVersion, NextOf, Stages

LEMMA WriterKept ==
    ASSUME WriterBegins, UNCHANGED <<kind, file>>, Current' = Current,
           writer' = writer \/ writer' = NoWriter
    PROVE  WriterBegins'
<1>1. CASE writer' = writer
  <2> HIDE DEF Current
  <2>q. QED BY <1>1, Zenon DEF WriterBegins
<1>2. CASE writer' = NoWriter
  <2>1. writer'.by = NoOwner
    BY <1>2 DEF NoWriter
  <2>q. QED BY <2>1 DEF WriterBegins
<1>q. QED BY <1>1, <1>2

LEMMA LookSchema == ASSUME SchemaInv, NEW p \in Openers, Look(p) PROVE SchemaInv'
<1>u. UNCHANGED <<kind, base, file, applied, maker>>
  BY DEF Look, Goes
<1>i. /\ SchemaTyped /\ WaysApart /\ FileGrows /\ FoundHolds /\ WriterBegins /\ ReachedOnce
      /\ SameFile
  BY DEF SchemaInv
<1>c. /\ Current' = Current /\ Current \in 3..11
      /\ kind = "control" => Current = 11
      /\ kind = "workflow" => Current = 3
  BY <1>u, <1>i, Currents DEF Current, SchemaTyped
<1> HIDE DEF Current
<1>1. SchemaTyped'
  BY <1>i, <1>u, <1>c, SchemaAssumption
  DEF SchemaTyped, Versions, Labels, Stages, None, NoWriter, Look, Goes
<1>2. WaysApart'
  BY <1>i, <1>u, <1>c DEF SchemaTyped, WaysApart, Stages, None, Look, Goes
<1>3. FileGrows'
  BY <1>i, <1>u, <1>c, SchemaAssumption DEF SchemaTyped, Versions, FileGrows, None
<1>4. FoundHolds'
  BY <1>i, <1>u, <1>c, SchemaAssumption
  DEF SchemaTyped, Versions, FoundHolds, WaysApart, Stages, None, FileGrows, Look, Goes
<1>5. WriterBegins'
  BY <1>i, <1>u, <1>c, SchemaAssumption
  DEF SchemaTyped, Versions, WriterBegins, WaysApart, Stages, None, NoWriter, FoundHolds, Look,
      Goes
<1>6. ReachedOnce'
  BY <1>i, <1>u, <1>c, SchemaAssumption DEF SchemaTyped, Versions, ReachedOnce, Arrived, None
<1>7. SameFile'
  BY <1>i, <1>u, <1>c, SchemaAssumption DEF SchemaTyped, Versions, SameFile, None, Look, Goes
<1>q. QED BY <1>1, <1>2, <1>3, <1>4, <1>5, <1>6, <1>7 DEF SchemaInv

LEMMA BuildTempSchema == ASSUME SchemaInv, NEW p \in Openers, BuildTemp(p) PROVE SchemaInv'
<1>u. UNCHANGED <<kind, base, file, applied, maker>>
  BY DEF BuildTemp, Goes, Leaves
<1>i. /\ SchemaTyped /\ WaysApart /\ FileGrows /\ FoundHolds /\ WriterBegins /\ ReachedOnce
      /\ SameFile
  BY DEF SchemaInv
<1>c. /\ Current' = Current /\ Current \in 3..11
      /\ kind = "control" => Current = 11
      /\ kind = "workflow" => Current = 3
  BY <1>u, <1>i, Currents DEF Current, SchemaTyped
<1> HIDE DEF Current
<1>w. writer' = writer \/ writer' = NoWriter
  BY DEF BuildTemp, Goes, Leaves
<1>1. SchemaTyped'
  BY <1>i, <1>u, <1>c, SchemaAssumption
  DEF SchemaTyped, Versions, Labels, Stages, None, NoWriter, BuildTemp, Goes, Leaves
<1>2. WaysApart'
  BY <1>i, <1>u, <1>c DEF SchemaTyped, WaysApart, Stages, None, BuildTemp, Goes, Leaves
<1>3. FileGrows'
  BY <1>i, <1>u, <1>c, SchemaAssumption DEF SchemaTyped, Versions, FileGrows, None
<1>4. FoundHolds'
  BY <1>i, <1>u, <1>c, SchemaAssumption
  DEF SchemaTyped, Versions, FoundHolds, WaysApart, Stages, None, FileGrows, BuildTemp, Goes,
      Leaves
<1>5. WriterBegins'
  BY <1>i, <1>u, <1>c, <1>w, WriterKept
<1>6. ReachedOnce'
  BY <1>i, <1>u, <1>c, SchemaAssumption DEF SchemaTyped, Versions, ReachedOnce, Arrived, None
<1>7. SameFile'
  BY <1>i, <1>u, <1>c, SchemaAssumption
  DEF SchemaTyped, Versions, SameFile, None, BuildTemp, Goes, Leaves
<1>q. QED BY <1>1, <1>2, <1>3, <1>4, <1>5, <1>6, <1>7 DEF SchemaInv

LEMMA LinkTempSchema == ASSUME SchemaInv, NEW p \in Openers, LinkTemp(p) PROVE SchemaInv'
<1>u. UNCHANGED <<kind, base>>
  BY DEF LinkTemp, Vacant
<1>i. /\ SchemaTyped /\ WaysApart /\ FileGrows /\ FoundHolds /\ WriterBegins /\ ReachedOnce
      /\ SameFile
  BY DEF SchemaInv
<1>c. /\ Current' = Current /\ Current \in 3..11
      /\ kind = "control" => Current = 11
      /\ kind = "workflow" => Current = 3
  BY <1>u, <1>i, Currents DEF Current, SchemaTyped
<1> HIDE DEF Current
<1>w. writer' = writer \/ writer' = NoWriter
  BY DEF LinkTemp, Goes
<1>f. \/ UNCHANGED <<file, maker>>
      \/ file = None /\ file' = Current /\ kind # "control"
  BY <1>i DEF LinkTemp, Vacant, WaysApart
<1>o. UNCHANGED <<opening, applied, seen, trusts>>
  BY DEF LinkTemp
<1>1. SchemaTyped'
  BY <1>i, <1>u, <1>c, SchemaAssumption
  DEF SchemaTyped, Versions, Labels, Stages, None, NoWriter, FoundHolds, FileGrows, LinkTemp,
      Vacant
<1>2. WaysApart'
  BY <1>i, <1>u, <1>c DEF SchemaTyped, WaysApart, Stages, None, LinkTemp, Vacant
<1>3. FileGrows'
  BY <1>i, <1>u, <1>c, SchemaAssumption, <1>f DEF SchemaTyped, Versions, FileGrows, None
<1>4. FoundHolds'
  BY <1>i, <1>u, <1>c, SchemaAssumption
  DEF SchemaTyped, Versions, FoundHolds, WaysApart, Stages, None, FileGrows, LinkTemp, Vacant
<1>5. WriterBegins'
  <2>1. CASE UNCHANGED file
    BY <1>i, <1>u, <1>c, <1>w, <2>1, WriterKept
  <2>2. CASE file = None
    <3>1. writer.by = NoOwner
      BY <1>i, <1>c, <2>2 DEF WriterBegins, None
    <3>2. writer' = writer
      BY DEF LinkTemp
    <3>q. QED BY <3>1, <3>2 DEF WriterBegins
  <2>q. QED BY <1>f, <2>1, <2>2
<1>6. ReachedOnce'
  BY <1>i, <1>u, <1>c, SchemaAssumption, <1>f, <1>o
  DEF SchemaTyped, Versions, ReachedOnce, Arrived, FileGrows, None
<1>7. SameFile'
  BY <1>i, <1>u, <1>c, SchemaAssumption, <1>f, <1>o DEF SchemaTyped, Versions, SameFile, None
<1>q. QED BY <1>1, <1>2, <1>3, <1>4, <1>5, <1>6, <1>7 DEF SchemaInv

LEMMA UnlinkTempSchema == ASSUME SchemaInv, NEW p \in Openers, UnlinkTemp(p) PROVE SchemaInv'
<1>u. UNCHANGED <<kind, base, file, applied, maker>>
  BY DEF UnlinkTemp, Goes
<1>i. /\ SchemaTyped /\ WaysApart /\ FileGrows /\ FoundHolds /\ WriterBegins /\ ReachedOnce
      /\ SameFile
  BY DEF SchemaInv
<1>c. /\ Current' = Current /\ Current \in 3..11
      /\ kind = "control" => Current = 11
      /\ kind = "workflow" => Current = 3
  BY <1>u, <1>i, Currents DEF Current, SchemaTyped
<1> HIDE DEF Current
<1>1. SchemaTyped'
  BY <1>i, <1>u, <1>c, SchemaAssumption
  DEF SchemaTyped, Versions, Labels, Stages, None, NoWriter, UnlinkTemp, Goes
<1>2. WaysApart'
  BY <1>i, <1>u, <1>c DEF SchemaTyped, WaysApart, Stages, None, UnlinkTemp, Goes
<1>3. FileGrows'
  BY <1>i, <1>u, <1>c, SchemaAssumption DEF SchemaTyped, Versions, FileGrows, None
<1>4. FoundHolds'
  BY <1>i, <1>u, <1>c, SchemaAssumption
  DEF SchemaTyped, Versions, FoundHolds, WaysApart, Stages, None, FileGrows, UnlinkTemp, Goes
<1>5. WriterBegins'
  BY <1>i, <1>u, <1>c, SchemaAssumption
  DEF SchemaTyped, Versions, WriterBegins, WaysApart, Stages, None, NoWriter, FoundHolds,
      UnlinkTemp, Goes
<1>6. ReachedOnce'
  BY <1>i, <1>u, <1>c, SchemaAssumption DEF SchemaTyped, Versions, ReachedOnce, Arrived, None
<1>7. SameFile'
  BY <1>i, <1>u, <1>c, SchemaAssumption
  DEF SchemaTyped, Versions, SameFile, None, UnlinkTemp, Goes
<1>q. QED BY <1>1, <1>2, <1>3, <1>4, <1>5, <1>6, <1>7 DEF SchemaInv

LEMMA EnterSchema == ASSUME SchemaInv, NEW p \in Openers, Enter(p) PROVE SchemaInv'
<1>u. UNCHANGED <<kind, base, file, applied, maker>>
  BY DEF Enter, Goes, Leaves
<1>i. /\ SchemaTyped /\ WaysApart /\ FileGrows /\ FoundHolds /\ WriterBegins /\ ReachedOnce
      /\ SameFile
  BY DEF SchemaInv
<1>c. /\ Current' = Current /\ Current \in 3..11
      /\ kind = "control" => Current = 11
      /\ kind = "workflow" => Current = 3
  BY <1>u, <1>i, Currents DEF Current, SchemaTyped
<1> HIDE DEF Current
<1>w. writer' = writer \/ writer' = NoWriter
  BY DEF Enter, Goes, Leaves
<1>1. SchemaTyped'
  BY <1>i, <1>u, <1>c, SchemaAssumption
  DEF SchemaTyped, Versions, Labels, Stages, None, NoWriter, Enter, Goes, Leaves
<1>2. WaysApart'
  BY <1>i, <1>u, <1>c DEF SchemaTyped, WaysApart, Stages, None, Enter, Goes, Leaves
<1>3. FileGrows'
  BY <1>i, <1>u, <1>c, SchemaAssumption DEF SchemaTyped, Versions, FileGrows, None
<1>4. FoundHolds'
  BY <1>i, <1>u, <1>c, SchemaAssumption
  DEF SchemaTyped, Versions, FoundHolds, WaysApart, Stages, None, FileGrows, Enter, Goes,
      Leaves
<1>5. WriterBegins'
  BY <1>i, <1>u, <1>c, <1>w, WriterKept
<1>6. ReachedOnce'
  BY <1>i, <1>u, <1>c, SchemaAssumption DEF SchemaTyped, Versions, ReachedOnce, Arrived, None
<1>7. SameFile'
  BY <1>i, <1>u, <1>c, SchemaAssumption
  DEF SchemaTyped, Versions, SameFile, None, Enter, Goes, Leaves
<1>q. QED BY <1>1, <1>2, <1>3, <1>4, <1>5, <1>6, <1>7 DEF SchemaInv

LEMMA CheckSchema == ASSUME SchemaInv, NEW p \in Openers, Check(p) PROVE SchemaInv'
<1>u. UNCHANGED <<kind, base, file, applied, maker>>
  BY DEF Check, Goes, Leaves, KnownVersion
<1>i. /\ SchemaTyped /\ WaysApart /\ FileGrows /\ FoundHolds /\ WriterBegins /\ ReachedOnce
      /\ SameFile
  BY DEF SchemaInv
<1>c. /\ Current' = Current /\ Current \in 3..11
      /\ kind = "control" => Current = 11
      /\ kind = "workflow" => Current = 3
  BY <1>u, <1>i, Currents DEF Current, SchemaTyped
<1> HIDE DEF Current
<1>w. writer' = writer \/ writer' = NoWriter
  BY DEF Check, Goes, Leaves
<1>1. SchemaTyped'
  BY <1>i, <1>u, <1>c, SchemaAssumption
  DEF SchemaTyped, Versions, Labels, Stages, None, NoWriter, Check, Goes, Leaves, KnownVersion
<1>2. WaysApart'
  BY <1>i, <1>u, <1>c
  DEF SchemaTyped, WaysApart, Stages, None, Check, Goes, Leaves, KnownVersion
<1>3. FileGrows'
  BY <1>i, <1>u, <1>c, SchemaAssumption DEF SchemaTyped, Versions, FileGrows, None
<1>4. FoundHolds'
  BY <1>i, <1>u, <1>c, SchemaAssumption
  DEF SchemaTyped, Versions, FoundHolds, WaysApart, Stages, None, FileGrows, Check, Goes,
      Leaves, KnownVersion
<1>5. WriterBegins'
  BY <1>i, <1>u, <1>c, <1>w, WriterKept
<1>6. ReachedOnce'
  BY <1>i, <1>u, <1>c, SchemaAssumption DEF SchemaTyped, Versions, ReachedOnce, Arrived, None
<1>7. SameFile'
  BY <1>i, <1>u, <1>c, SchemaAssumption
  DEF SchemaTyped, Versions, SameFile, None, Check, Goes, Leaves, KnownVersion
<1>q. QED BY <1>1, <1>2, <1>3, <1>4, <1>5, <1>6, <1>7 DEF SchemaInv

LEMMA VerifySchema == ASSUME SchemaInv, NEW p \in Openers, Verify(p) PROVE SchemaInv'
<1>u. UNCHANGED <<kind, base, file, applied, maker>>
  BY DEF Verify, Leaves, Goes
<1>i. /\ SchemaTyped /\ WaysApart /\ FileGrows /\ FoundHolds /\ WriterBegins /\ ReachedOnce
      /\ SameFile
  BY DEF SchemaInv
<1>c. /\ Current' = Current /\ Current \in 3..11
      /\ kind = "control" => Current = 11
      /\ kind = "workflow" => Current = 3
  BY <1>u, <1>i, Currents DEF Current, SchemaTyped
<1> HIDE DEF Current
<1>w. writer' = writer \/ writer' = NoWriter
  BY DEF Verify, Goes, Leaves
<1>1. SchemaTyped'
  BY <1>i, <1>u, <1>c, SchemaAssumption
  DEF SchemaTyped, Versions, Labels, Stages, None, NoWriter, Verify, Leaves, Goes
<1>2. WaysApart'
  BY <1>i, <1>u, <1>c DEF SchemaTyped, WaysApart, Stages, None, Verify, Leaves, Goes
<1>3. FileGrows'
  BY <1>i, <1>u, <1>c, SchemaAssumption DEF SchemaTyped, Versions, FileGrows, None
<1>4. FoundHolds'
  BY <1>i, <1>u, <1>c, SchemaAssumption
  DEF SchemaTyped, Versions, FoundHolds, WaysApart, Stages, None, FileGrows, Verify, Leaves,
      Goes
<1>5. WriterBegins'
  BY <1>i, <1>u, <1>c, <1>w, WriterKept
<1>6. ReachedOnce'
  BY <1>i, <1>u, <1>c, SchemaAssumption DEF SchemaTyped, Versions, ReachedOnce, Arrived, None
<1>7. SameFile'
  BY <1>i, <1>u, <1>c, SchemaAssumption
  DEF SchemaTyped, Versions, SameFile, None, FileGrows, FoundHolds, WaysApart, WriterBegins,
      Verify, Leaves, Goes
<1>q. QED BY <1>1, <1>2, <1>3, <1>4, <1>5, <1>6, <1>7 DEF SchemaInv

LEMMA BeginWriteSchema == ASSUME SchemaInv, NEW p \in Openers, BeginWrite(p) PROVE SchemaInv'
<1>u. UNCHANGED <<kind, base, file, applied, maker>>
  BY DEF BeginWrite, Leaves, Goes, FoundVersion
<1>i. /\ SchemaTyped /\ WaysApart /\ FileGrows /\ FoundHolds /\ WriterBegins /\ ReachedOnce
      /\ SameFile
  BY DEF SchemaInv
<1>c. /\ Current' = Current /\ Current \in 3..11
      /\ kind = "control" => Current = 11
      /\ kind = "workflow" => Current = 3
  BY <1>u, <1>i, Currents DEF Current, SchemaTyped
<1> HIDE DEF Current
<1>w. \/ writer' = writer \/ writer' = NoWriter
      \/ /\ writer'.by = p /\ writer'.at = file /\ writer'.steps = {}
         /\ opening[p] = "migrating"
  BY DEF BeginWrite, FoundVersion, Leaves, Goes
<1>1. SchemaTyped'
  BY <1>i, <1>u, <1>c, SchemaAssumption
  DEF SchemaTyped, Versions, Labels, Stages, None, NoWriter, BeginWrite, Leaves, Goes,
      FoundVersion
<1>2. WaysApart'
  BY <1>i, <1>u, <1>c
  DEF SchemaTyped, WaysApart, Stages, None, BeginWrite, Leaves, Goes, FoundVersion
<1>3. FileGrows'
  BY <1>i, <1>u, <1>c, SchemaAssumption DEF SchemaTyped, Versions, FileGrows, None
<1>4. FoundHolds'
  BY <1>i, <1>u, <1>c, SchemaAssumption
  DEF SchemaTyped, Versions, FoundHolds, WaysApart, Stages, None, FileGrows, BeginWrite,
      Leaves, Goes, FoundVersion
<1>5. WriterBegins'
  <2>1. CASE writer' = writer \/ writer' = NoWriter
    BY <1>i, <1>u, <1>c, <2>1, WriterKept
  <2>2. CASE writer'.at = file /\ writer'.steps = {} /\ opening[p] = "migrating"
    <3>1. kind # "control" /\ file \in 1..Current
      BY <1>i, <2>2 DEF WaysApart, FoundHolds
    <3>2. (file + 1)..file = {}
      BY <3>1, <1>c
    <3>3. file \in file..Current
      BY <3>1, <1>c
    <3>q. QED BY <1>u, <1>c, <2>2, <3>1, <3>2, <3>3, Zenon DEF WriterBegins
  <2>q. QED BY <1>w, <2>1, <2>2
<1>6. ReachedOnce'
  BY <1>i, <1>u, <1>c, SchemaAssumption DEF SchemaTyped, Versions, ReachedOnce, Arrived, None
<1>7. SameFile'
  BY <1>i, <1>u, <1>c, SchemaAssumption
  DEF SchemaTyped, Versions, SameFile, None, BeginWrite, Leaves, Goes, FoundVersion
<1>q. QED BY <1>1, <1>2, <1>3, <1>4, <1>5, <1>6, <1>7 DEF SchemaInv

LEMMA StepSchema == ASSUME SchemaInv, NEW p \in Openers, Step(p) PROVE SchemaInv'
<1>u. UNCHANGED <<kind, base, file, applied, maker>>
  BY DEF Step, Leaves, Goes
<1>i. /\ SchemaTyped /\ WaysApart /\ FileGrows /\ FoundHolds /\ WriterBegins /\ ReachedOnce
      /\ SameFile
  BY DEF SchemaInv
<1>c. /\ Current' = Current /\ Current \in 3..11
      /\ kind = "control" => Current = 11
      /\ kind = "workflow" => Current = 3
  BY <1>u, <1>i, Currents DEF Current, SchemaTyped
<1> HIDE DEF Current
<1>w. \/ writer' = writer \/ writer' = NoWriter
      \/ /\ writer'.by = writer.by /\ writer.at < Current
         /\ writer'.at = (IF kind = "workflow" THEN Current ELSE writer.at + 1)
         /\ writer'.steps = writer.steps \cup
                              {IF kind = "workflow" THEN Current ELSE writer.at + 1}
         /\ writer' \in [by : Openers \cup {NoOwner}, at : Versions, steps : SUBSET Versions]
  <2>1. CASE Leaves(p, "failed")
    BY <2>1 DEF Leaves
  <2>2. CASE writer' = [writer EXCEPT
                 !.at = IF kind = "workflow" THEN Current ELSE writer.at + 1,
                 !.steps = @ \cup {IF kind = "workflow" THEN Current ELSE writer.at + 1}]
    <3>1. writer.at < Current
      BY DEF Step
    <3>2. writer \in [by : Openers \cup {NoOwner}, at : Versions, steps : SUBSET Versions]
      BY <1>i DEF SchemaTyped
    <3>3. (IF kind = "workflow" THEN Current ELSE writer.at + 1) \in Versions
      BY <3>1, <3>2, <1>c DEF Versions
    <3>q. QED BY <2>2, <3>1, <3>2, <3>3
  <2>q. QED BY <2>1, <2>2 DEF Step
<1>1. SchemaTyped'
  BY <1>i, <1>u, <1>c, <1>w
  DEF SchemaTyped, Versions, Labels, Stages, None, NoWriter, Step, Leaves, Goes
<1>2. WaysApart'
  BY <1>i, <1>u, <1>c DEF SchemaTyped, WaysApart, Stages, None, Step, Leaves, Goes
<1>3. FileGrows'
  BY <1>i, <1>u, <1>c, SchemaAssumption DEF SchemaTyped, Versions, FileGrows, None
<1>4. FoundHolds'
  BY <1>i, <1>u, <1>c, SchemaAssumption
  DEF SchemaTyped, Versions, FoundHolds, WaysApart, Stages, None, FileGrows, Step, Leaves, Goes
<1>5. WriterBegins'
  <2>1. CASE writer' = writer \/ writer' = NoWriter
    BY <1>i, <1>u, <1>c, <2>1, WriterKept
  <2>2. CASE /\ writer'.by = writer.by /\ writer.at < Current
             /\ writer'.at = (IF kind = "workflow" THEN Current ELSE writer.at + 1)
             /\ writer'.steps = writer.steps \cup
                                  {IF kind = "workflow" THEN Current ELSE writer.at + 1}
    <3>1. writer.by = p /\ writer.by # NoOwner
      BY SchemaAssumption DEF Step
    <3>2. /\ kind # "control" /\ file \in 1..Current /\ writer.at \in file..Current
          /\ kind # "workflow" => writer.steps = (file + 1)..writer.at
          /\ kind = "workflow" =>
               writer.steps = IF writer.at = file THEN {} ELSE {Current}
      BY <1>i, <3>1, Zenon DEF WriterBegins
    <3>3. CASE kind = "workflow"
      <4>1. writer'.steps = {Current} /\ writer'.at = Current
        BY <2>2, <3>2, <3>3, <1>c, Zenon
      <4>2. Current \in file..Current
        BY <3>2, <1>c
      <4>3. file # Current
        BY <2>2, <3>2, <1>c
      <4>q. QED BY <1>u, <1>c, <3>2, <3>3, <4>1, <4>2, <4>3, Zenon DEF WriterBegins
    <3>4. CASE kind # "workflow"
      <4>1. /\ writer'.steps = (file + 1)..writer.at \cup {writer.at + 1}
            /\ writer'.at = writer.at + 1
        BY <2>2, <3>2, <3>4, Zenon
      <4>2. /\ (file + 1)..writer.at \cup {writer.at + 1} = (file + 1)..(writer.at + 1)
            /\ writer.at + 1 \in file..Current
        BY <2>2, <3>2, <1>c
      <4>q. QED BY <1>u, <1>c, <3>2, <3>4, <4>1, <4>2, Zenon DEF WriterBegins
    <3>q. QED BY <3>3, <3>4
  <2>q. QED BY <1>w, <2>1, <2>2
<1>6. ReachedOnce'
  BY <1>i, <1>u, <1>c, SchemaAssumption DEF SchemaTyped, Versions, ReachedOnce, Arrived, None
<1>7. SameFile'
  BY <1>i, <1>u, <1>c, SchemaAssumption
  DEF SchemaTyped, Versions, SameFile, None, Step, Leaves, Goes
<1>q. QED BY <1>1, <1>2, <1>3, <1>4, <1>5, <1>6, <1>7 DEF SchemaInv

LEMMA CommitSchema == ASSUME SchemaInv, NEW p \in Openers, Commit(p) PROVE SchemaInv'
<1>u. UNCHANGED <<kind, base, maker>>
  BY DEF Commit, Leaves, Goes, Committed
<1>i. /\ SchemaTyped /\ WaysApart /\ FileGrows /\ FoundHolds /\ WriterBegins /\ ReachedOnce
      /\ SameFile
  BY DEF SchemaInv
<1>c. /\ Current' = Current /\ Current \in 3..11
      /\ kind = "control" => Current = 11
      /\ kind = "workflow" => Current = 3
  BY <1>u, <1>i, Currents DEF Current, SchemaTyped
<1> HIDE DEF Current
<1>w. writer' = writer \/ writer' = NoWriter
  BY DEF Commit, Goes, Leaves
<1>f. \/ UNCHANGED <<file, applied>>
      \/ /\ writer.by = p /\ writer.at = Current /\ file' = Current
         /\ applied' = [v \in DOMAIN applied |->
                          applied[v] + IF v \in writer.steps THEN 1 ELSE 0]
  BY DEF Commit, Committed
<1>b. kind # "control" /\ file \in 1..Current /\ writer.at = Current
      /\ writer.steps = IF kind # "workflow" THEN (file + 1)..Current
                        ELSE IF Current = file THEN {} ELSE {Current}
  BY <1>i, SchemaAssumption DEF Commit, WriterBegins
<1>g. file' \in {file, Current}
  BY <1>f
<1>h. kind # "control" /\ file \in 1..Current
  BY <1>b, Zenon
<1>1. SchemaTyped'
  BY <1>i, <1>u, <1>c, SchemaAssumption, <1>f, <1>w
  DEF SchemaTyped, Versions, Labels, Stages, None, NoWriter, Commit, Leaves, Goes
<1>2. WaysApart'
  BY <1>i, <1>u, <1>c DEF SchemaTyped, WaysApart, Stages, None, Commit, Leaves, Goes, Committed
<1>3. FileGrows'
  BY <1>i, <1>u, <1>c, <1>h, <1>g DEF SchemaTyped, Versions, FileGrows
<1>4. FoundHolds'
  <2>1. \/ opening' = [opening EXCEPT ![p] = "verifying"]
        \/ opening' = [opening EXCEPT ![p] = "failed"]
    BY DEF Commit, Leaves, Goes
  <2>2. opening \in [Openers -> Labels]
    BY <1>i DEF SchemaTyped
  <2>3. \A q \in Openers : opening'[q] = opening[q] \/ opening'[q] \in {"verifying", "failed"}
    BY <2>1, <2>2
  <2>q. QED BY <1>i, <1>u, <1>c, <1>h, <1>g, <2>3
            DEF SchemaTyped, Versions, FoundHolds, WaysApart, Stages
<1>5. WriterBegins'
  BY <1>i, <1>u, <1>c, SchemaAssumption
  DEF SchemaTyped, Versions, WriterBegins, WaysApart, Stages, None, NoWriter, FoundHolds,
      Commit, Leaves, Goes, Committed
<1>6. ReachedOnce'
  <2>1. CASE UNCHANGED <<file, applied>>
    BY <1>i, <1>u, <1>c, <2>1 DEF ReachedOnce, Arrived
  <2>2. CASE /\ file' = Current
             /\ applied' = [v \in DOMAIN applied |->
                              applied[v] + IF v \in writer.steps THEN 1 ELSE 0]
    <3>1. \A v \in 1..12 : applied'[v] = applied[v] + IF v \in writer.steps THEN 1 ELSE 0
      BY <1>i, <2>2 DEF SchemaTyped
    <3>2. CASE file = Current
      <4>1. writer.steps = {}
        BY <1>b, <1>c, <3>2
      <4>2. \A v \in 1..12 : applied'[v] = applied[v]
        BY <1>i, <3>1, <4>1 DEF SchemaTyped
      <4>q. QED BY <1>i, <1>u, <1>c, <2>2, <3>2, <4>2 DEF ReachedOnce, Arrived
    <3>3. CASE file # Current
      <4>1. file = base /\ base # None /\ Arrived = {}
        BY <1>i, <1>b, <3>3 DEF FileGrows, Arrived, None
      <4>2. Arrived' = writer.steps
        BY <1>u, <1>b, <1>c, <2>2, <3>3, <4>1 DEF Arrived
      <4>3. \A v \in 1..12 : applied[v] = 0
        BY <1>i, <4>1 DEF ReachedOnce
      <4>q. QED BY <3>1, <4>2, <4>3 DEF ReachedOnce
    <3>q. QED BY <3>2, <3>3
  <2>q. QED BY <1>f, <2>1, <2>2
<1>7. SameFile'
  BY <1>i, <1>u, <1>c, SchemaAssumption
  DEF SchemaTyped, Versions, SameFile, None, FileGrows, FoundHolds, WaysApart, WriterBegins,
      Commit, Leaves, Goes, Committed
<1>q. QED BY <1>1, <1>2, <1>3, <1>4, <1>5, <1>6, <1>7 DEF SchemaInv

LEMMA OpenControlSchema == ASSUME SchemaInv, NEW p \in Openers, OpenControl(p) PROVE SchemaInv'
<1>u. UNCHANGED <<kind, base, file, applied>>
  BY DEF OpenControl, Goes
<1>i. /\ SchemaTyped /\ WaysApart /\ FileGrows /\ FoundHolds /\ WriterBegins /\ ReachedOnce
      /\ SameFile
  BY DEF SchemaInv
<1>c. /\ Current' = Current /\ Current \in 3..11
      /\ kind = "control" => Current = 11
      /\ kind = "workflow" => Current = 3
  BY <1>u, <1>i, Currents DEF Current, SchemaTyped
<1> HIDE DEF Current
<1>1. SchemaTyped'
  BY <1>i, <1>u, <1>c, SchemaAssumption
  DEF SchemaTyped, Versions, Labels, Stages, None, NoWriter, OpenControl, Goes
<1>2. WaysApart'
  BY <1>i, <1>u, <1>c DEF SchemaTyped, WaysApart, Stages, None, OpenControl, Goes
<1>3. FileGrows'
  BY <1>i, <1>u, <1>c, SchemaAssumption
  DEF SchemaTyped, Versions, FileGrows, None, WriterBegins, FoundHolds, WaysApart, Stages,
      OpenControl, Goes
<1>4. FoundHolds'
  BY <1>i, <1>u, <1>c, SchemaAssumption
  DEF SchemaTyped, Versions, FoundHolds, WaysApart, Stages, None, FileGrows, OpenControl, Goes
<1>5. WriterBegins'
  BY <1>i, <1>u, <1>c, SchemaAssumption
  DEF SchemaTyped, Versions, WriterBegins, WaysApart, Stages, None, NoWriter, FoundHolds,
      OpenControl, Goes
<1>6. ReachedOnce'
  BY <1>i, <1>u, <1>c, SchemaAssumption
  DEF SchemaTyped, Versions, ReachedOnce, Arrived, None, OpenControl, Goes
<1>7. SameFile'
  BY <1>i, <1>u, <1>c, SchemaAssumption
  DEF SchemaTyped, Versions, SameFile, None, OpenControl, Goes
<1>q. QED BY <1>1, <1>2, <1>3, <1>4, <1>5, <1>6, <1>7 DEF SchemaInv

LEMMA FirstStageSchema == ASSUME SchemaInv, NEW p \in Openers, FirstStage(p) PROVE SchemaInv'
<1>u. UNCHANGED <<kind, base, maker>>
  BY DEF FirstStage, Goes, Apply
<1>i. /\ SchemaTyped /\ WaysApart /\ FileGrows /\ FoundHolds /\ WriterBegins /\ ReachedOnce
      /\ SameFile
  BY DEF SchemaInv
<1>c. /\ Current' = Current /\ Current \in 3..11
      /\ kind = "control" => Current = 11
      /\ kind = "workflow" => Current = 3
  BY <1>u, <1>i, Currents DEF Current, SchemaTyped
<1> HIDE DEF Current
<1>f. \/ UNCHANGED <<file, applied>>
      \/ /\ file \in 0..6 /\ file' = 7
         /\ applied' = [v \in 1..12 |->
                          applied[v] + IF v \in {w \in 1..7 : w > file} THEN 1 ELSE 0]
  <2>1. CASE Apply({v \in 1..7 : v > file})
    <3>1. file \in Versions /\ DOMAIN applied = 1..12 /\ applied \in [1..12 -> Nat]
      BY <1>i DEF SchemaTyped
    <3>2. CASE file \in 0..6
      BY <2>1, <3>1, <3>2, Tops DEF Apply
    <3>3. CASE file \in 7..12
      <4>1. {v \in 1..7 : v > file} = {}
        BY <3>3, Tops
      <4>2. file' = file
        BY <2>1, <4>1 DEF Apply
      <4>3. applied' = [v \in 1..12 |-> applied[v] + 0]
        BY <2>1, <3>1, <4>1 DEF Apply
      <4>4. applied' = applied
        BY <4>3, <3>1
      <4>q. QED BY <4>2, <4>4
    <3>q. QED BY <3>1, <3>2, <3>3 DEF Versions
  <2>2. CASE UNCHANGED <<file, applied>>
    BY <2>2
  <2>q. QED BY <2>1, <2>2 DEF FirstStage
<1>b. /\ opening[p] = "first" /\ kind = "control" /\ Current = 11 /\ UNCHANGED writer
      /\ file' # file => file <= 6
  BY <1>i, <1>c, <1>f DEF FirstStage, WaysApart
<1>o. writer' = writer
  BY DEF FirstStage
<1>1. SchemaTyped'
  BY <1>i, <1>u, <1>c, SchemaAssumption, Tops
  DEF SchemaTyped, Versions, Labels, Stages, None, NoWriter, FoundHolds, FileGrows, FirstStage,
      Goes, Apply
<1>2. WaysApart'
  BY <1>i, <1>u, <1>c, Tops DEF SchemaTyped, WaysApart, Stages, None, FirstStage, Goes, Apply
<1>3. FileGrows'
  BY <1>i, <1>u, <1>c, SchemaAssumption, <1>f, <1>b DEF SchemaTyped, Versions, FileGrows, None
<1>4. FoundHolds'
  BY <1>i, <1>u, <1>c, SchemaAssumption, Tops
  DEF SchemaTyped, Versions, FoundHolds, WaysApart, Stages, None, FileGrows, FirstStage, Goes,
      Apply
<1>5. WriterBegins'
  BY <1>i, <1>u, <1>c, SchemaAssumption, Tops
  DEF SchemaTyped, Versions, WriterBegins, WaysApart, Stages, None, NoWriter, FoundHolds,
      FirstStage, Goes, Apply
<1>6. ReachedOnce'
  BY <1>i, <1>u, <1>c, SchemaAssumption, <1>f, <1>b
  DEF SchemaTyped, Versions, ReachedOnce, Arrived, FileGrows, None
<1>7. SameFile'
  BY <1>i, <1>u, <1>c, SchemaAssumption, <1>f, <1>b
  DEF SchemaTyped, Versions, SameFile, None, FirstStage, Goes
<1>q. QED BY <1>1, <1>2, <1>3, <1>4, <1>5, <1>6, <1>7 DEF SchemaInv

LEMMA LaterStageSchema == ASSUME SchemaInv, NEW p \in Openers, LaterStage(p) PROVE SchemaInv'
<1>u. UNCHANGED <<kind, base, maker>>
  BY DEF LaterStage, Goes, Apply, Reread, NextOf, StageVersion
<1>i. /\ SchemaTyped /\ WaysApart /\ FileGrows /\ FoundHolds /\ WriterBegins /\ ReachedOnce
      /\ SameFile
  BY DEF SchemaInv
<1>c. /\ Current' = Current /\ Current \in 3..11
      /\ kind = "control" => Current = 11
      /\ kind = "workflow" => Current = 3
  BY <1>u, <1>i, Currents DEF Current, SchemaTyped
<1> HIDE DEF Current
<1>f. \/ UNCHANGED <<file, applied>>
      \/ /\ file + 1 \in 8..11 /\ file' = file + 1
         /\ applied' = [v \in 1..12 |-> applied[v] + IF v \in {file + 1} THEN 1 ELSE 0]
  <2>1. CASE UNCHANGED <<file, applied>>
    BY <2>1
  <2>2. ASSUME NEW t \in 8..11, file = t - 1, Apply({t})
        PROVE  /\ file + 1 \in 8..11 /\ file' = file + 1
               /\ applied' = [v \in 1..12 |-> applied[v] + IF v \in {file + 1} THEN 1 ELSE 0]
    BY <1>i, <2>2, Tops DEF SchemaTyped, Apply
  <2>3. StageVersion[opening[p]] \in 8..11
    BY StageVersions DEF LaterStage
  <2>q. QED BY <2>1, <2>2, <2>3 DEF LaterStage, Reread
<1>b. kind = "control" /\ Current = 11 /\ UNCHANGED writer
  BY <1>i, <1>c, StageVersions DEF LaterStage, WaysApart, Stages
<1>o. \/ opening' = [opening EXCEPT ![p] = "failed"]
      \/ /\ opening[p] = "stage8" /\ opening' = [opening EXCEPT ![p] = "stage9"]
         /\ file' \in 8..11
      \/ /\ opening[p] = "stage9" /\ opening' = [opening EXCEPT ![p] = "stage10"]
         /\ file' \in 9..11
      \/ /\ opening[p] = "stage10" /\ opening' = [opening EXCEPT ![p] = "stage11"]
         /\ file' \in 10..11
      \/ /\ opening[p] = "stage11" /\ opening' = [opening EXCEPT ![p] = "verifying"]
         /\ file' = 11
  <2>1. opening[p] \in Stages
    BY StageVersions DEF LaterStage
  <2>2. \/ opening' = [opening EXCEPT ![p] = "failed"]
        \/ /\ opening' = [opening EXCEPT ![p] = NextOf(opening[p])]
           /\ \/ file \in StageVersion[opening[p]]..11 /\ file' = file
              \/ file = StageVersion[opening[p]] - 1 /\ Apply({StageVersion[opening[p]]})
    BY <1>b DEF LaterStage, Goes, Reread
  <2>3. ASSUME NEW t \in 8..11, Apply({t}) PROVE file' = t
    BY <2>3, Tops DEF Apply
  <2>4. \/ opening' = [opening EXCEPT ![p] = "failed"]
        \/ /\ opening' = [opening EXCEPT ![p] = NextOf(opening[p])]
           /\ \/ file \in StageVersion[opening[p]]..11 /\ file' = file
              \/ file' = StageVersion[opening[p]]
    BY <2>1, <2>2, <2>3, StageVersions
  <2>5. ASSUME NEW s \in Stages, opening[p] = s
        PROVE  \/ opening' = [opening EXCEPT ![p] = "failed"]
               \/ /\ opening' = [opening EXCEPT ![p] = NextOf(s)]
                  /\ file' \in StageVersion[s]..11
    <3>1. StageVersion[s] \in 8..11
      BY StageVersions
    <3>q. QED BY <2>4, <2>5, <3>1
  <2>6. /\ 8 \in 8..11 /\ 9 \in 9..11 /\ 10 \in 10..11 /\ 11 \in 11..11
        /\ \A f : f \in 11..11 => f = 11
    OBVIOUS
  <2>7. CASE opening[p] = "stage8"
    <3>1. "stage8" \in Stages /\ NextOf("stage8") = "stage9" /\ StageVersion["stage8"] = 8
      BY StageVersions DEF Stages
    <3>2. \/ opening' = [opening EXCEPT ![p] = "failed"]
          \/ /\ opening' = [opening EXCEPT ![p] = NextOf("stage8")]
             /\ file' \in StageVersion["stage8"]..11
      BY <2>5, <2>7, <3>1
    <3>3. [opening EXCEPT ![p] = NextOf("stage8")] = [opening EXCEPT ![p] = "stage9"]
      BY <3>1, Zenon
    <3>4. \/ opening' = [opening EXCEPT ![p] = "failed"]
          \/ /\ opening' = [opening EXCEPT ![p] = "stage9"]
             /\ file' \in 8..11
      <4>1. StageVersion["stage8"]..11 = 8..11
        BY <3>1, Zenon
      <4>q. QED BY <3>2, <3>3, <4>1, Zenon
    <3>q. QED BY <2>7, <3>4, Zenon
  <2>8. CASE opening[p] = "stage9"
    <3>1. "stage9" \in Stages /\ NextOf("stage9") = "stage10" /\ StageVersion["stage9"] = 9
      BY StageVersions DEF Stages
    <3>2. \/ opening' = [opening EXCEPT ![p] = "failed"]
          \/ /\ opening' = [opening EXCEPT ![p] = NextOf("stage9")]
             /\ file' \in StageVersion["stage9"]..11
      BY <2>5, <2>8, <3>1
    <3>3. [opening EXCEPT ![p] = NextOf("stage9")] = [opening EXCEPT ![p] = "stage10"]
      BY <3>1, Zenon
    <3>4. \/ opening' = [opening EXCEPT ![p] = "failed"]
          \/ /\ opening' = [opening EXCEPT ![p] = "stage10"]
             /\ file' \in 9..11
      <4>1. StageVersion["stage9"]..11 = 9..11
        BY <3>1, Zenon
      <4>q. QED BY <3>2, <3>3, <4>1, Zenon
    <3>q. QED BY <2>8, <3>4, Zenon
  <2>9. CASE opening[p] = "stage10"
    <3>1. "stage10" \in Stages /\ NextOf("stage10") = "stage11" /\ StageVersion["stage10"] = 10
      BY StageVersions DEF Stages
    <3>2. \/ opening' = [opening EXCEPT ![p] = "failed"]
          \/ /\ opening' = [opening EXCEPT ![p] = NextOf("stage10")]
             /\ file' \in StageVersion["stage10"]..11
      BY <2>5, <2>9, <3>1
    <3>3. [opening EXCEPT ![p] = NextOf("stage10")] = [opening EXCEPT ![p] = "stage11"]
      BY <3>1, Zenon
    <3>4. \/ opening' = [opening EXCEPT ![p] = "failed"]
          \/ /\ opening' = [opening EXCEPT ![p] = "stage11"]
             /\ file' \in 10..11
      <4>1. StageVersion["stage10"]..11 = 10..11
        BY <3>1, Zenon
      <4>q. QED BY <3>2, <3>3, <4>1, Zenon
    <3>q. QED BY <2>9, <3>4, Zenon
  <2>10. CASE opening[p] = "stage11"
    BY <2>5, <2>6, <2>10, StageVersions, Zenon DEF Stages
  <2>q. QED BY <2>1, <2>7, <2>8, <2>9, <2>10 DEF Stages
<1>1. SchemaTyped'
  BY <1>i, <1>u, <1>c, SchemaAssumption, <1>f, <1>b, <1>o
  DEF SchemaTyped, Versions, Labels, Stages, LaterStage
<1>2. WaysApart'
  BY <1>i, <1>u, <1>c, SchemaAssumption, <1>b, <1>o DEF SchemaTyped, WaysApart, Stages
<1>3. FileGrows'
  BY <1>i, <1>u, <1>c, SchemaAssumption, <1>f, <1>b DEF SchemaTyped, Versions, FileGrows, None
<1>4. FoundHolds'
  BY <1>i, <1>u, <1>c, SchemaAssumption, <1>f, <1>b, <1>o
  DEF SchemaTyped, Versions, FoundHolds, Stages, WaysApart
<1>5. WriterBegins'
  BY <1>i, <1>u, <1>c, SchemaAssumption, <1>b DEF WriterBegins
<1>6. ReachedOnce'
  BY <1>i, <1>u, <1>c, SchemaAssumption, <1>f, <1>b
  DEF SchemaTyped, Versions, ReachedOnce, Arrived, FileGrows, None
<1>7. SameFile'
  BY <1>i, <1>u, <1>c, SchemaAssumption, <1>f, <1>b, <1>o
  DEF SchemaTyped, Versions, SameFile, None, LaterStage
<1>q. QED BY <1>1, <1>2, <1>3, <1>4, <1>5, <1>6, <1>7 DEF SchemaInv

LEMMA DieSchema == ASSUME SchemaInv, NEW p \in Openers, Die(p) PROVE SchemaInv'
<1>u. UNCHANGED <<kind, base, file, applied, maker>>
  BY DEF Die, Leaves, Goes
<1>i. /\ SchemaTyped /\ WaysApart /\ FileGrows /\ FoundHolds /\ WriterBegins /\ ReachedOnce
      /\ SameFile
  BY DEF SchemaInv
<1>c. /\ Current' = Current /\ Current \in 3..11
      /\ kind = "control" => Current = 11
      /\ kind = "workflow" => Current = 3
  BY <1>u, <1>i, Currents DEF Current, SchemaTyped
<1> HIDE DEF Current
<1>1. SchemaTyped'
  BY <1>i, <1>u, <1>c, SchemaAssumption
  DEF SchemaTyped, Versions, Labels, Stages, None, NoWriter, Die, Leaves, Goes
<1>2. WaysApart'
  BY <1>i, <1>u, <1>c DEF SchemaTyped, WaysApart, Stages, None, Die, Leaves, Goes
<1>3. FileGrows'
  BY <1>i, <1>u, <1>c, SchemaAssumption DEF SchemaTyped, Versions, FileGrows, None
<1>4. FoundHolds'
  BY <1>i, <1>u, <1>c, SchemaAssumption
  DEF SchemaTyped, Versions, FoundHolds, WaysApart, Stages, None, FileGrows, Die, Leaves, Goes
<1>5. WriterBegins'
  BY <1>i, <1>u, <1>c, SchemaAssumption
  DEF SchemaTyped, Versions, WriterBegins, WaysApart, Stages, None, NoWriter, FoundHolds, Die,
      Leaves, Goes
<1>6. ReachedOnce'
  BY <1>i, <1>u, <1>c, SchemaAssumption DEF SchemaTyped, Versions, ReachedOnce, Arrived, None
<1>7. SameFile'
  BY <1>i, <1>u, <1>c, SchemaAssumption
  DEF SchemaTyped, Versions, SameFile, None, Die, Leaves, Goes
<1>q. QED BY <1>1, <1>2, <1>3, <1>4, <1>5, <1>6, <1>7 DEF SchemaInv

LEMMA AgainSchema == ASSUME SchemaInv, NEW p \in Openers, Again(p) PROVE SchemaInv'
<1>u. UNCHANGED <<kind, base, file, applied, maker>>
  BY DEF Again, Goes
<1>i. /\ SchemaTyped /\ WaysApart /\ FileGrows /\ FoundHolds /\ WriterBegins /\ ReachedOnce
      /\ SameFile
  BY DEF SchemaInv
<1>c. /\ Current' = Current /\ Current \in 3..11
      /\ kind = "control" => Current = 11
      /\ kind = "workflow" => Current = 3
  BY <1>u, <1>i, Currents DEF Current, SchemaTyped
<1> HIDE DEF Current
<1>1. SchemaTyped'
  BY <1>i, <1>u, <1>c, SchemaAssumption
  DEF SchemaTyped, Versions, Labels, Stages, None, NoWriter, Again, Goes
<1>2. WaysApart'
  BY <1>i, <1>u, <1>c DEF SchemaTyped, WaysApart, Stages, None, Again, Goes
<1>3. FileGrows'
  BY <1>i, <1>u, <1>c, SchemaAssumption DEF SchemaTyped, Versions, FileGrows, None
<1>4. FoundHolds'
  BY <1>i, <1>u, <1>c, SchemaAssumption
  DEF SchemaTyped, Versions, FoundHolds, WaysApart, Stages, None, FileGrows, Again, Goes
<1>5. WriterBegins'
  BY <1>i, <1>u, <1>c, SchemaAssumption
  DEF SchemaTyped, Versions, WriterBegins, WaysApart, Stages, None, NoWriter, FoundHolds,
      Again, Goes
<1>6. ReachedOnce'
  BY <1>i, <1>u, <1>c, SchemaAssumption DEF SchemaTyped, Versions, ReachedOnce, Arrived, None
<1>7. SameFile'
  BY <1>i, <1>u, <1>c, SchemaAssumption DEF SchemaTyped, Versions, SameFile, None, Again, Goes
<1>q. QED BY <1>1, <1>2, <1>3, <1>4, <1>5, <1>6, <1>7 DEF SchemaInv

LEMMA SchemaStep == SchemaInv /\ SchemaNext => SchemaInv'
  BY LookSchema, BuildTempSchema, LinkTempSchema, UnlinkTempSchema, EnterSchema, CheckSchema,
     VerifySchema, BeginWriteSchema, StepSchema, CommitSchema, OpenControlSchema,
     FirstStageSchema, LaterStageSchema, DieSchema, AgainSchema
  DEF SchemaNext

\* Any number of openers keep SchemaInv, in every order of their transactions,
\* links and deaths.
THEOREM SchemaInvariance == SchemaSpec => []SchemaInv
<1>1. SchemaInv /\ [SchemaNext]_schemaVars => SchemaInv'
  BY SchemaStep, SchemaStutters
<1>q. QED BY SchemaBegins, <1>1, PTL DEF SchemaSpec

LEMMA SchemaInvSound == SchemaInv => SchemaSound
<1> SUFFICES ASSUME SchemaInv PROVE SchemaSound
  OBVIOUS
<1>i. /\ SchemaTyped /\ WaysApart /\ FileGrows /\ FoundHolds /\ WriterBegins /\ ReachedOnce
      /\ SameFile
  BY DEF SchemaInv
<1>c. /\ Current \in 3..11
      /\ kind = "control" => Current = 11
      /\ kind = "workflow" => Current = 3
  BY <1>i, Currents DEF SchemaTyped
<1> HIDE DEF Current
<1>1. NewerUntouched
  BY <1>i, <1>c DEF NewerUntouched, FileGrows, SameFile, SchemaTyped, Versions
<1>2. MigratedOnce
  <2>1. {v \in DOMAIN applied : applied[v] = 1} = Arrived
    BY <1>i, <1>c DEF ReachedOnce, SchemaTyped, Arrived, Versions
  <2>2. \A v \in DOMAIN applied : applied[v] <= 1
    BY <1>i DEF ReachedOnce, SchemaTyped
  <2>3. Arrived = LET first == IF kind = "control" \/ base # None THEN base ELSE Current
                      Last  == IF kind = "workflow" THEN {Current} ELSE (first + 1)..file
                  IN  IF file \in {None, first} THEN {} ELSE Last
    <3>1. CASE kind = "control"
      <4>1. file \in {None, base} => (base + 1)..file = {}
        BY <1>i DEF FileGrows, SchemaTyped, Versions, None
      <4>q. QED BY <1>c, <3>1, <4>1 DEF Arrived
    <3>2. CASE kind # "control" /\ base = None
      BY <1>i, <1>c, <3>2 DEF Arrived, FileGrows, None
    <3>3. CASE kind # "control" /\ base # None
      <4>1. file # None /\ file \in {base, Current}
        BY <1>i, <3>3 DEF FileGrows, SchemaTyped, Versions, None
      <4>q. QED BY <3>3, <4>1, Zenon DEF Arrived
    <3>q. QED BY <3>1, <3>2, <3>3
  <2>q. QED BY <2>1, <2>2, <2>3 DEF MigratedOnce
<1>q. QED BY <1>i, <1>1, <1>2 DEF SchemaSound

\* Two openers that are ready work on the same file at the current version, each
\* version was reached by one committed transaction, and the database of a newer
\* program is not touched.
THEOREM SchemasAreSound == SchemaSpec => []SchemaSound
  BY SchemaInvariance, SchemaInvSound, PTL

-----------------------------------------------------------------------------
(***************************************************************************)
(* The rows of an old database: LegacyRows                                 *)
(***************************************************************************)

JobSet ==
    [platform : Platform, tags : {"plain", "marked", "safe"}, credit : BOOLEAN,
     copyright : 1..2, options : {"none", "declared"},
     state : {"draft", "queued", "running", "submitted", "failed", "canceled", "unknown"},
     code : ReviewCodes \cup {"", "interrupted", "reconfirm"}]

Unsettled == {"draft", "queued", "running"}

\* How a statement leaves a row: as it was, with other words if it is settled,
\* or withdrawn and with a code that says which words it no longer has.
Follows(old, row) ==
    /\ row \in JobSet /\ row.platform = old.platform /\ row.copyright = old.copyright
    /\ \/ /\ row.state = old.state /\ row.code = ""
          /\ old.state \in Unsettled =>
               /\ row.tags = old.tags /\ row.options = old.options
               /\ row.credit <=> old.credit
       \/ /\ old.state \in Unsettled /\ row.state = Withdrawn(old.state)
          /\ row.code \in ReviewCodes

\* The copyright as the request gave it.
Given(l) == IF l.absent THEN Absent ELSE l.copyright

\* A database between two statements of the migration: the jobs follow the old
\* ones and agree with each other, and a digest that is provable is that of the
\* first row with the category in the type "t".
Between(l, db, t) ==
    /\ DOMAIN db = {"jobs", "digest", "ok"} /\ DOMAIN db.jobs = Jobs
    /\ \A j \in Jobs : Follows(OldJob(l, j), db.jobs[j])
    /\ \A j \in Jobs : db.jobs[j].tags = db.jobs["j1"].tags
    /\ \A j \in Jobs : db.jobs[j].credit <=> db.jobs["j1"].credit
    /\ db.ok \in BOOLEAN
    /\ l.provable => db.ok /\ db.digest = Payload(db.jobs["j1"], t, Given(l))

LEMMA ReviewedJob ==
    ASSUME NEW row \in JobSet, NEW code \in ReviewCodes
    PROVE  /\ Reviewed(row, code) \in JobSet
           /\ Reviewed(row, code).platform = row.platform
           /\ Reviewed(row, code).tags = row.tags
           /\ Reviewed(row, code).credit = row.credit
           /\ Reviewed(row, code).copyright = row.copyright
           /\ Reviewed(row, code).options = row.options
           /\ row.state \in Unsettled =>
                /\ Reviewed(row, code).state = Withdrawn(row.state)
                /\ Reviewed(row, code).code = code
           /\ row.state \notin Unsettled => Reviewed(row, code) = row
  BY DEF Reviewed, JobSet, Unsettled, Withdrawn

LEMMA FollowsReviewed ==
    ASSUME NEW old, NEW row, NEW code \in ReviewCodes, Follows(old, row)
    PROVE  /\ Follows(old, [Reviewed(row, code) EXCEPT !.tags = "safe"])
           /\ Follows(old, [Reviewed(row, code) EXCEPT !.credit = FALSE])
           /\ Follows(old, [Reviewed(row, code) EXCEPT !.options = "declared"])
<1>1. row \in JobSet
  BY DEF Follows
<1>2. PICK n \in JobSet : n = Reviewed(row, code)
  BY <1>1, ReviewedJob
<1>3. /\ n.platform = old.platform /\ n.copyright = old.copyright
      /\ old.state \notin Unsettled => n.state = old.state /\ n.code = ""
      /\ old.state \in Unsettled => n.state = Withdrawn(old.state) /\ n.code \in ReviewCodes
  <2>1. CASE row.state \in Unsettled
    BY <1>1, <1>2, <2>1, ReviewedJob DEF Follows, Unsettled, Withdrawn
  <2>2. CASE row.state \notin Unsettled
    BY <1>1, <1>2, <2>2, ReviewedJob DEF Follows, Unsettled, Withdrawn
  <2>q. QED BY <2>1, <2>2
<1>4. /\ [n EXCEPT !.tags = "safe"] \in JobSet /\ [n EXCEPT !.credit = FALSE] \in JobSet
      /\ [n EXCEPT !.options = "declared"] \in JobSet
  BY DEF JobSet
<1>5. ASSUME NEW m \in {[n EXCEPT !.tags = "safe"], [n EXCEPT !.credit = FALSE],
                        [n EXCEPT !.options = "declared"]}
      PROVE  /\ m.platform = n.platform /\ m.copyright = n.copyright
             /\ m.state = n.state /\ m.code = n.code
  BY <1>5 DEF JobSet
<1>q. QED BY <1>2, <1>3, <1>4, <1>5 DEF Follows

LEMMA Excepts ==
    ASSUME NEW db, NEW f, NEW x, DOMAIN db = {"jobs", "digest", "ok"}
    PROVE  /\ LET r == [db EXCEPT !.digest.category = x]
              IN  DOMAIN r = DOMAIN db /\ r.jobs = db.jobs /\ r.ok = db.ok
                  /\ r.digest = [db.digest EXCEPT !.category = x]
           /\ LET r == [db EXCEPT !.ok = FALSE]
              IN  DOMAIN r = DOMAIN db /\ r.jobs = db.jobs /\ r.ok = FALSE
                  /\ r.digest = db.digest
           /\ LET r == [db EXCEPT !.digest.tags = x, !.jobs = f]
              IN  DOMAIN r = DOMAIN db /\ r.jobs = f /\ r.ok = db.ok
                  /\ r.digest = [db.digest EXCEPT !.tags = x]
           /\ LET r == [db EXCEPT !.digest.credit = x, !.jobs = f]
              IN  DOMAIN r = DOMAIN db /\ r.jobs = f /\ r.ok = db.ok
                  /\ r.digest = [db.digest EXCEPT !.credit = x]
           /\ LET r == [db EXCEPT !.jobs = f]
              IN  DOMAIN r = DOMAIN db /\ r.jobs = f /\ r.ok = db.ok /\ r.digest = db.digest
  OBVIOUS

LEMMA PayloadCategory ==
    ASSUME NEW db, NEW row, NEW t, NEW c, NEW x, NEW new,
           DOMAIN db = {"jobs", "digest", "ok"}, db.digest = Payload(row, t, c),
           new = [db EXCEPT !.digest.category = x]
    PROVE  new.digest = Payload(row, x, c)
<1>1. new.digest = [Payload(row, t, c) EXCEPT !.category = x]
  OBVIOUS
<1>q. QED BY <1>1 DEF Payload

LEMMA PayloadTags ==
    ASSUME NEW a, NEW b, NEW t, NEW c, NEW x, b.tags = x, b.credit = a.credit
    PROVE  [Payload(a, t, c) EXCEPT !.tags = x] = Payload(b, t, c)
<1>1. [Payload(a, t, c) EXCEPT !.tags = x]
        = Payload([tags |-> x, credit |-> a.credit], t, c)
  BY DEF Payload
<1>q. QED BY <1>1, Zenon DEF Payload

LEMMA PayloadCredit ==
    ASSUME NEW a, NEW b, NEW t, NEW c, NEW x, b.credit = x, b.tags = a.tags
    PROVE  [Payload(a, t, c) EXCEPT !.credit = x] = Payload(b, t, c)
<1>1. [Payload(a, t, c) EXCEPT !.credit = x]
        = Payload([tags |-> a.tags, credit |-> x], t, c)
  BY DEF Payload
<1>q. QED BY <1>1, Zenon DEF Payload

LEMMA PayloadSame ==
    ASSUME NEW row, NEW m, NEW t, NEW c, m.tags = row.tags, m.credit = row.credit
    PROVE  Payload(m, t, c) = Payload(row, t, c)
  BY Zenon DEF Payload

\* What a client may have given for the copyright includes what it gave.
LEMMA GivenFound ==
    ASSUME NEW l \in UploadDatabases, NEW db, NEW t, Between(l, db, t)
    PROVE  /\ Given(l) \in CopyrightInputs(db)
           /\ db.jobs["j1"].platform = l.first /\ db.jobs["j2"].platform = l.second
           /\ db.jobs["k1"].platform = l.first
           /\ \A j \in Jobs : db.jobs[j].copyright = l.copyright
           /\ \A j \in Jobs : db.jobs[j] \in JobSet
<1>1. \A j \in Jobs : /\ db.jobs[j] \in JobSet
                      /\ db.jobs[j].platform = OldJob(l, j).platform
                      /\ db.jobs[j].copyright = OldJob(l, j).copyright
  BY DEF Between, Follows
<1>2. /\ \A j \in Jobs : OldJob(l, j).copyright = l.copyright
      /\ OldJob(l, "j1").platform = l.first /\ OldJob(l, "j2").platform = l.second
      /\ OldJob(l, "k1").platform = l.first
  BY DEF OldJob, Jobs, Roots
<1>3. Roots = {"j1", "j2"} /\ Jobs = {"j1", "j2", "k1"}
  BY DEF Roots, Jobs
<1>4. l.absent => l.copyright = 1 /\ l.first # "bilibili" /\ l.second # "bilibili"
  BY DEF UploadDatabases, WithBilibili
<1>5. Given(l) \in CopyrightInputs(db)
  BY <1>1, <1>2, <1>3, <1>4 DEF Given, CopyrightInputs
<1>q. QED BY <1>1, <1>2, <1>3, <1>5

LEMMA CategoriesBetween ==
    ASSUME NEW l \in UploadDatabases, NEW db, Between(l, db, l.category)
    PROVE  Between(l, CategoriesCanonical(db), "canonical")
<1> DEFINE new == [db EXCEPT !.digest.category = "canonical"]
<1>1. DOMAIN db = {"jobs", "digest", "ok"}
  BY DEF Between
<1>2. /\ DOMAIN new = DOMAIN db /\ new.jobs = db.jobs /\ new.ok = db.ok
      /\ new.digest = [db.digest EXCEPT !.category = "canonical"]
  BY <1>1, Excepts
<1>n. new = [db EXCEPT !.digest.category = "canonical"]
  OBVIOUS
<1> HIDE DEF new
<1>3. l.provable => new.digest = Payload(new.jobs["j1"], "canonical", Given(l))
  <2> SUFFICES ASSUME l.provable
               PROVE  new.digest = Payload(new.jobs["j1"], "canonical", Given(l))
    OBVIOUS
  <2>1. db.digest = Payload(db.jobs["j1"], l.category, Given(l))
    BY Zenon DEF Between
  <2>3. new.digest = Payload(db.jobs["j1"], "canonical", Given(l))
    BY <1>1, <1>n, <2>1, PayloadCategory
  <2>q. QED BY <1>2, <2>3, Zenon
<1>4. Between(l, new, "canonical")
  BY <1>2, <1>3, Zenon DEF Between
<1>5. CASE CategoriesCanonical(db) = new
  BY <1>4, <1>5
<1>6. CASE ~ /\ \A j \in Roots : db.jobs[j].platform # "bilibili"
             /\ db.digest \in {Payload(db.jobs["j1"], "typed", c) : c \in CopyrightInputs(db)}
  <2>1. CategoriesCanonical(db) = db
    BY <1>6, Zenon DEF CategoriesCanonical
  <2>2. CASE ~l.provable
    BY <2>1, <2>2, Zenon DEF Between
  <2>3. CASE l.provable /\ l.category = "typed"
    <3>1. l.first # "bilibili" /\ l.second # "bilibili"
      BY <2>3 DEF UploadDatabases, WithBilibili
    <3>2. db.digest = Payload(db.jobs["j1"], "typed", Given(l))
      BY <2>3, Zenon DEF Between
    <3>3. \A j \in Roots : db.jobs[j].platform # "bilibili"
      BY <3>1, GivenFound DEF Roots
    <3>q. QED BY <1>6, <3>2, <3>3, GivenFound
  <2>4. CASE l.category = "canonical"
    BY <2>1, <2>4, Zenon
  <2>q. QED BY <2>2, <2>3, <2>4 DEF UploadDatabases
<1>q. QED BY <1>5, <1>6, Zenon DEF CategoriesCanonical, new

LEMMA TagsBetween ==
    ASSUME NEW l \in UploadDatabases, NEW db, Between(l, db, "canonical")
    PROVE  Between(l, TagsSafe(db), "canonical") 
<1> DEFINE changed == {j \in Jobs : db.jobs[j].tags = "marked"}
           f == [j \in Jobs |-> IF j \in changed
                                THEN [Reviewed(db.jobs[j], "tags_review") EXCEPT !.tags = "safe"]
                                ELSE db.jobs[j]]
           new == [db EXCEPT !.digest.tags = "safe", !.jobs = f]
           bad == [db EXCEPT !.ok = FALSE]
<1>1. DOMAIN db = {"jobs", "digest", "ok"}
  BY DEF Between
<1>2. /\ DOMAIN new = DOMAIN db /\ new.jobs = f /\ new.ok = db.ok
      /\ new.digest = [db.digest EXCEPT !.tags = "safe"]
      /\ DOMAIN bad = DOMAIN db /\ bad.jobs = db.jobs /\ bad.ok = FALSE
  BY <1>1, Excepts
<1>n. new = [db EXCEPT !.digest.tags = "safe", !.jobs = f]
  OBVIOUS
<1>3. \/ TagsSafe(db) = db
      \/ /\ TagsSafe(db) = bad
         /\ db.digest \notin
                {Payload(db.jobs["j1"], "canonical", c) : c \in CopyrightInputs(db)}
      \/ TagsSafe(db) = new /\ changed # {}
  BY DEF TagsSafe
<1>4. CASE TagsSafe(db) = db
  BY <1>4
<1>5. CASE /\ TagsSafe(db) = bad
           /\ db.digest \notin
                {Payload(db.jobs["j1"], "canonical", c) : c \in CopyrightInputs(db)}
  <2>1. ~l.provable
    BY <1>5, GivenFound DEF Between
  <2> HIDE DEF bad
  <2>2. Between(l, bad, "canonical")
    BY <1>2, <2>1, Zenon DEF Between
  <2>q. QED BY <1>5, <2>2
<1>6. CASE TagsSafe(db) = new /\ changed # {}
  <2>1. changed = Jobs
    BY <1>6, Zenon DEF Between
  <2>2. \A j \in Jobs : f[j] = [Reviewed(db.jobs[j], "tags_review") EXCEPT !.tags = "safe"]
    BY <2>1, Zenon
  <2>3. \A j \in Jobs : Follows(OldJob(l, j), f[j])
    BY <2>2, FollowsReviewed DEF Between, ReviewCodes
  <2>4. \A j \in Jobs : f[j].tags = "safe" /\ f[j].credit = db.jobs[j].credit
    <3>1. ASSUME NEW j \in Jobs PROVE f[j].tags = "safe" /\ f[j].credit = db.jobs[j].credit
      <4>1. PICK n \in JobSet : n = Reviewed(db.jobs[j], "tags_review")
        BY GivenFound, ReviewedJob DEF ReviewCodes
      <4>2. n.credit = db.jobs[j].credit
        BY <4>1, GivenFound, ReviewedJob DEF ReviewCodes
      <4>3. /\ [n EXCEPT !.tags = "safe"].tags = "safe"
            /\ [n EXCEPT !.tags = "safe"].credit = n.credit
        BY DEF JobSet
      <4>q. QED BY <2>2, <4>1, <4>2, <4>3
    <3>q. QED BY <3>1
  <2>5. ASSUME l.provable PROVE new.digest = Payload(f["j1"], "canonical", Given(l))
    <3>1. db.digest = Payload(db.jobs["j1"], "canonical", Given(l))
      BY <2>5, Zenon DEF Between
    <3>3. f["j1"].tags = "safe" /\ f["j1"].credit = db.jobs["j1"].credit
      BY <2>4 DEF Jobs, Roots
    <3> DEFINE a == db.jobs["j1"]
               b == f["j1"]
               g == Given(l)
    <3>2. new.digest = [Payload(a, "canonical", g) EXCEPT !.tags = "safe"]
      BY <1>2, <3>1, Zenon
    <3>4. /\ b.tags = "safe" /\ b.credit = a.credit
          /\ Payload(f["j1"], "canonical", Given(l)) = Payload(b, "canonical", g)
      BY <3>3
    <3> HIDE DEF new, f, a, b, g
    <3>5. [Payload(a, "canonical", g) EXCEPT !.tags = "safe"] = Payload(b, "canonical", g)
      BY <3>4, PayloadTags
    <3>q. QED BY <3>2, <3>4, <3>5, Zenon
  <2>6. "j1" \in Jobs /\ DOMAIN f = Jobs
    BY DEF Jobs, Roots
  <2> HIDE DEF new, f, changed, bad
  <2>7. Between(l, new, "canonical")
    BY <1>2, <2>3, <2>4, <2>5, <2>6, Zenon DEF Between
  <2>q. QED BY <1>6, <2>7
<1>q. QED BY <1>3, <1>4, <1>5, <1>6

\* OldJob differs between the jobs in the platform and the state only.
LEMMA SourcesBetween ==
    ASSUME NEW l \in UploadDatabases, NEW db, Between(l, db, "canonical")
    PROVE  Between(l, SourcesDropped(db), "canonical")
<1> DEFINE affected == {j \in Jobs : /\ db.jobs[j].platform = "bilibili"
                                     /\ db.jobs[j].copyright = 1 /\ db.jobs[j].credit}
           f == [j \in Jobs |-> IF j \in Lineage(Roots)
                                THEN [Reviewed(db.jobs[j], "credit_review") EXCEPT !.credit = FALSE]
                                ELSE db.jobs[j]]
           new == [db EXCEPT !.digest.credit = FALSE, !.jobs = f]
           bad == [db EXCEPT !.ok = FALSE]
<1>1. DOMAIN db = {"jobs", "digest", "ok"}
  BY DEF Between
<1>2. /\ DOMAIN new = DOMAIN db /\ new.jobs = f /\ new.ok = db.ok
      /\ new.digest = [db.digest EXCEPT !.credit = FALSE]
      /\ DOMAIN bad = DOMAIN db /\ bad.jobs = db.jobs /\ bad.ok = FALSE
  BY <1>1, Excepts
<1>n. new = [db EXCEPT !.digest.credit = FALSE, !.jobs = f]
  OBVIOUS
<1>3. \/ SourcesDropped(db) = db
      \/ /\ SourcesDropped(db) = bad /\ affected # {}
         /\ \/ Roots \cap affected = {}
            \/ db.digest # Payload(db.jobs["j1"], "canonical", db.jobs["j1"].copyright)
      \/ SourcesDropped(db) = new
  BY DEF SourcesDropped
<1>4. CASE SourcesDropped(db) = db
  BY <1>4
<1>5. CASE /\ SourcesDropped(db) = bad /\ affected # {}
           /\ \/ Roots \cap affected = {}
              \/ db.digest # Payload(db.jobs["j1"], "canonical", db.jobs["j1"].copyright)
  <2>1. ~l.provable
    <3> SUFFICES ASSUME l.provable PROVE FALSE
      OBVIOUS
    <3>1. db.digest = Payload(db.jobs["j1"], "canonical", Given(l))
      BY Zenon DEF Between
    <3>2. PICK j \in Jobs : /\ db.jobs[j].platform = "bilibili"
                            /\ db.jobs[j].copyright = 1 /\ db.jobs[j].credit
      BY <1>5
    <3>3. l.first = "bilibili" \/ l.second = "bilibili"
      BY <3>2, GivenFound DEF Jobs, Roots
    <3>4. Given(l) = db.jobs["j1"].copyright
      BY <3>3, GivenFound DEF UploadDatabases, WithBilibili, Given, Jobs, Roots
    <3>5. Roots \cap affected = {}
      BY <1>5, <3>1, <3>4
    <3>6. "j1" \notin affected /\ "j2" \notin affected
      BY <3>5 DEF Roots
    <3>7. \A i \in Jobs : db.jobs[i].credit
      BY <3>2, Zenon DEF Between
    <3>8. \A i \in Jobs : db.jobs[i].copyright = 1
      BY <3>2, GivenFound
    <3>9. "j1" \in Jobs /\ "j2" \in Jobs
      BY DEF Jobs, Roots
    <3>q. QED BY <3>3, <3>6, <3>7, <3>8, <3>9, GivenFound
  <2> HIDE DEF bad
  <2>2. Between(l, bad, "canonical")
    BY <1>2, <2>1, Zenon DEF Between
  <2>q. QED BY <1>5, <2>2
<1>6. CASE SourcesDropped(db) = new
  <2>1. Lineage(Roots) = Jobs
    BY DEF Lineage, Roots, Jobs, RetryOf
  <2>2. \A j \in Jobs : f[j] = [Reviewed(db.jobs[j], "credit_review") EXCEPT !.credit = FALSE]
    BY <2>1, Zenon
  <2>3. \A j \in Jobs : Follows(OldJob(l, j), f[j])
    BY <2>2, FollowsReviewed DEF Between, ReviewCodes
  <2>4. \A j \in Jobs : f[j].credit = FALSE /\ f[j].tags = db.jobs[j].tags
    <3>1. ASSUME NEW j \in Jobs PROVE f[j].credit = FALSE /\ f[j].tags = db.jobs[j].tags
      <4>1. PICK n \in JobSet : n = Reviewed(db.jobs[j], "credit_review")
        BY GivenFound, ReviewedJob DEF ReviewCodes
      <4>2. n.tags = db.jobs[j].tags
        BY <4>1, GivenFound, ReviewedJob DEF ReviewCodes
      <4>3. /\ [n EXCEPT !.credit = FALSE].credit = FALSE
            /\ [n EXCEPT !.credit = FALSE].tags = n.tags
        BY DEF JobSet
      <4>q. QED BY <2>2, <4>1, <4>2, <4>3
    <3>q. QED BY <3>1
  <2>5. ASSUME l.provable PROVE new.digest = Payload(f["j1"], "canonical", Given(l))
    <3>1. db.digest = Payload(db.jobs["j1"], "canonical", Given(l))
      BY <2>5, Zenon DEF Between
    <3>3. f["j1"].credit = FALSE /\ f["j1"].tags = db.jobs["j1"].tags
      BY <2>4 DEF Jobs, Roots
    <3> DEFINE a == db.jobs["j1"]
               b == f["j1"]
               g == Given(l)
    <3>2. new.digest = [Payload(a, "canonical", g) EXCEPT !.credit = FALSE]
      BY <1>2, <3>1, Zenon
    <3>4. /\ b.credit = FALSE /\ b.tags = a.tags
          /\ Payload(f["j1"], "canonical", Given(l)) = Payload(b, "canonical", g)
      BY <3>3
    <3> HIDE DEF new, f, a, b, g
    <3>5. [Payload(a, "canonical", g) EXCEPT !.credit = FALSE] = Payload(b, "canonical", g)
      BY <3>4, PayloadCredit
    <3>q. QED BY <3>2, <3>4, <3>5, Zenon
  <2>6. "j1" \in Jobs /\ DOMAIN f = Jobs
    BY DEF Jobs, Roots
  <2>8. \A j \in Jobs : f[j].credit <=> f["j1"].credit
    BY <2>4, <2>6
  <2>9. \A j \in Jobs : f[j].tags = f["j1"].tags
    <3>1. \A j \in Jobs : db.jobs[j].tags = db.jobs["j1"].tags
      BY Zenon DEF Between
    <3> HIDE DEF f
    <3>q. QED BY <2>4, <2>6, <3>1, Zenon
  <2> HIDE DEF new, f, affected, bad
  <2>7. Between(l, new, "canonical")
    BY <1>2, <2>3, <2>4, <2>5, <2>6, <2>8, <2>9, Zenon DEF Between
  <2>q. QED BY <1>6, <2>7
<1>q. QED BY <1>3, <1>4, <1>5, <1>6

LEMMA OptionsBetween ==
    ASSUME NEW l \in UploadDatabases, NEW db, Between(l, db, "canonical")
    PROVE  Between(l, OptionsShown(db), "canonical")
<1> DEFINE f == [j \in Jobs |-> IF db.jobs[j].platform = "bilibili" THEN db.jobs[j]
                                ELSE [Reviewed(db.jobs[j], "options_review")
                                        EXCEPT !.options = "declared"]]
           new == [db EXCEPT !.jobs = f]
<1>1. DOMAIN db = {"jobs", "digest", "ok"}
  BY DEF Between
<1>2. /\ DOMAIN new = DOMAIN db /\ new.jobs = f /\ new.ok = db.ok /\ new.digest = db.digest
  BY <1>1, Excepts
<1>3. OptionsShown(db) = new
  BY DEF OptionsShown
<1>4. \A j \in Jobs : f[j] = db.jobs[j] \/
        f[j] = [Reviewed(db.jobs[j], "options_review") EXCEPT !.options = "declared"]
  BY Zenon
<1>5. \A j \in Jobs : Follows(OldJob(l, j), f[j])
  BY <1>4, FollowsReviewed DEF Between, ReviewCodes
<1>6. \A j \in Jobs : f[j].credit = db.jobs[j].credit /\ f[j].tags = db.jobs[j].tags
  <2>1. ASSUME NEW j \in Jobs
        PROVE  f[j].credit = db.jobs[j].credit /\ f[j].tags = db.jobs[j].tags
    <3>1. PICK n \in JobSet : n = Reviewed(db.jobs[j], "options_review")
      BY GivenFound, ReviewedJob DEF ReviewCodes
    <3>2. n.tags = db.jobs[j].tags /\ n.credit = db.jobs[j].credit
      BY <3>1, GivenFound, ReviewedJob DEF ReviewCodes
    <3>3. LET m == [n EXCEPT !.options = "declared"] IN m.credit = n.credit /\ m.tags = n.tags
      BY DEF JobSet
    <3>q. QED BY <1>4, <3>1, <3>2, <3>3, Zenon
  <2>q. QED BY <2>1
<1>7. "j1" \in Jobs /\ DOMAIN f = Jobs
  BY DEF Jobs, Roots
<1> HIDE DEF new, f
<1>8. Payload(f["j1"], "canonical", Given(l)) = Payload(db.jobs["j1"], "canonical", Given(l))
  <2>1. f["j1"].tags = db.jobs["j1"].tags /\ f["j1"].credit = db.jobs["j1"].credit
    BY <1>6, <1>7
  <2>q. QED BY <2>1, Zenon DEF Payload
<1>9. Between(l, new, "canonical")
  BY <1>2, <1>5, <1>6, <1>7, <1>8, Zenon DEF Between
<1>q. QED BY <1>3, <1>9

\* What a migrated row says of itself, given the old one and what the
\* statements made of it.
Carried(old, row, new) ==
    /\ new \in JobSet /\ new.tags = row.tags /\ (new.credit <=> row.credit)
    /\ new.state \in {"queued", "running"} => old.state = new.state /\ Words(new) = Words(old)
    /\ old.state = "running" => new.state \in {"running", "unknown"}
    /\ old.state \notin Unsettled => new.state = old.state
    /\ new.state # old.state =>
         new.code = IF old.state = "running" THEN "interrupted" ELSE "reconfirm"

LEMMA ReasonedJob ==
    ASSUME NEW old \in JobSet, NEW row, NEW new, Follows(old, row),
           new = IF row.code \notin ReviewCodes THEN row
                 ELSE CASE old.state = "running" ->
                             [row EXCEPT !.state = "unknown", !.code = "interrupted"]
                        [] old.state = "queued" ->
                             [row EXCEPT !.state = "draft", !.code = "reconfirm"]
                        [] OTHER -> row
    PROVE  Carried(old, row, new)
<1>1. row \in JobSet /\ "" \notin ReviewCodes
  BY DEF Follows, ReviewCodes
<1>2. CASE row.code \notin ReviewCodes
  <2>1. /\ new = row /\ row.state = old.state
        /\ old.state \in Unsettled =>
             row.tags = old.tags /\ row.options = old.options /\ (row.credit <=> old.credit)
    BY <1>2 DEF Follows
  <2>2. old.state \in Unsettled => row.credit = old.credit
    BY <1>1, <2>1 DEF JobSet
  <2>3. old.state \in Unsettled => Words(row) = Words(old)
    BY <2>1, <2>2 DEF Words
  <2>q. QED BY <1>1, <2>1, <2>3 DEF Carried, Unsettled
<1>3. CASE row.code \in ReviewCodes
  <2>1. old.state \in Unsettled /\ row.state = Withdrawn(old.state)
    BY <1>1, <1>3 DEF Follows
  <2>2. CASE old.state = "running"
    <3>1. new = [row EXCEPT !.state = "unknown", !.code = "interrupted"]
      BY <1>3, <2>2
    <3>2. /\ new \in JobSet /\ new.tags = row.tags /\ (new.credit <=> row.credit)
          /\ new.state = "unknown" /\ new.code = "interrupted"
      BY <1>1, <3>1 DEF JobSet
    <3>q. QED BY <2>2, <3>2 DEF Carried, Unsettled
  <2>3. CASE old.state = "queued"
    <3>1. new = [row EXCEPT !.state = "draft", !.code = "reconfirm"]
      BY <1>3, <2>3
    <3>2. /\ new \in JobSet /\ new.tags = row.tags /\ (new.credit <=> row.credit)
          /\ new.state = "draft" /\ new.code = "reconfirm"
      BY <1>1, <3>1 DEF JobSet
    <3>q. QED BY <2>3, <3>2 DEF Carried, Unsettled
  <2>4. CASE old.state = "draft"
    <3>1. new = row /\ row.state = "draft"
      BY <1>3, <2>1, <2>4 DEF Withdrawn
    <3>q. QED BY <1>1, <2>4, <3>1 DEF Carried, Unsettled
  <2>q. QED BY <2>1, <2>2, <2>3, <2>4 DEF Unsettled
<1>q. QED BY <1>2, <1>3

\* The old database is one that the statements may begin with.
LEMMA OldBetween ==
    ASSUME NEW l \in UploadDatabases, NEW db,
           db = [jobs |-> [j \in Jobs |-> OldJob(l, j)], digest |-> OldDigest(l), ok |-> TRUE]
    PROVE  /\ Between(l, db, l.category)
           /\ \A j \in Jobs : OldJob(l, j) \in JobSet /\ db.jobs[j] = OldJob(l, j)
           /\ l.version # 1 /\ l.provable => l.category = "canonical"
<1>1. ASSUME NEW j \in Jobs PROVE OldJob(l, j) \in JobSet
  <2>1. /\ l.first \in Platform /\ l.second \in Platform /\ l.tags \in {"plain", "marked"}
        /\ l.credit \in BOOLEAN /\ l.copyright \in 1..2
        /\ l.state[j] \in
             {"draft", "queued", "running", "submitted", "failed", "canceled", "unknown"}
    BY LegacyRowsAssumption DEF UploadDatabases
  <2>q. QED BY <2>1 DEF OldJob, JobSet
<1>2. \A j \in Jobs : db.jobs[j] = OldJob(l, j)
  OBVIOUS
<1>3. \A j \in Jobs : /\ OldJob(l, j).code = "" /\ OldJob(l, j).tags = l.tags
                      /\ OldJob(l, j).credit = l.credit
  BY DEF OldJob
<1>4. \A j \in Jobs : Follows(OldJob(l, j), db.jobs[j])
  BY <1>1, <1>2, <1>3 DEF Follows
<1>5. "j1" \in Jobs
  BY DEF Jobs, Roots
<1>6. /\ DOMAIN db = {"jobs", "digest", "ok"} /\ DOMAIN db.jobs = Jobs /\ db.ok = TRUE
      /\ db.digest = OldDigest(l)
  OBVIOUS
<1>7. l.provable => db.digest = Payload(db.jobs["j1"], l.category, Given(l))
  BY <1>2, <1>5, <1>6, Zenon DEF OldDigest, Given
<1>8. \A j \in Jobs : /\ db.jobs[j].tags = db.jobs["j1"].tags
                      /\ db.jobs[j].credit <=> db.jobs["j1"].credit
  BY <1>2, <1>3, <1>5
<1>9. Between(l, db, l.category)
  BY <1>4, <1>6, <1>7, <1>8, Zenon DEF Between
<1>10. l.version # 1 /\ l.provable => l.category = "canonical"
  BY DEF UploadDatabases
<1>q. QED BY <1>1, <1>2, <1>9, <1>10

\* Given that the digest is provable or that it does not matter.
LEMMA AnyType ==
    ASSUME NEW l, NEW db, NEW t, Between(l, db, t), l.provable => t = "canonical"
    PROVE  Between(l, db, "canonical")
  BY Zenon DEF Between

LEMMA LatestRows ==
    ASSUME NEW l \in UploadDatabases, legacy = l, NEW db,
           db = [jobs |-> [j \in Jobs |-> OldJob(l, j)], digest |-> OldDigest(l), ok |-> TRUE]
    PROVE  LET new == Latest(db)
           IN  /\ l.provable =>
                    new.ok /\ new.digest = Payload(new.jobs["j1"], "canonical", Given(l))
               /\ new.ok => \A j \in Jobs :
                    /\ \E row : Carried(OldJob(l, j), row, new.jobs[j])
                    /\ new.jobs[j].tags = new.jobs["j1"].tags
                    /\ new.jobs[j].credit <=> new.jobs["j1"].credit
<1> DEFINE second == IF legacy.version = 1 THEN CategoriesCanonical(db) ELSE db
           words  == SourcesDropped(TagsSafe(second))
           shown  == OptionsShown(words)
           new    == Reasoned(shown, db.jobs)
<1>1. Between(l, second, "canonical")
  BY OldBetween, CategoriesBetween, AnyType
<1>2. Between(l, words, "canonical") /\ Between(l, shown, "canonical")
  <2> HIDE DEF second
  <2>1. Between(l, words, "canonical")
    BY <1>1, TagsBetween, SourcesBetween
  <2> HIDE DEF words
  <2>q. QED BY <2>1, OptionsBetween
<1>3. Latest(db) = IF words.ok THEN new ELSE words
  BY Zenon DEF Latest
<1> HIDE DEF second, words
<1>4. shown.ok = words.ok
  BY <1>2, Excepts DEF OptionsShown, Between
<1> HIDE DEF shown
<1> DEFINE f == [j \in Jobs |->
        IF shown.jobs[j].code \notin ReviewCodes THEN shown.jobs[j]
        ELSE CASE db.jobs[j].state = "running" ->
                    [shown.jobs[j] EXCEPT !.state = "unknown", !.code = "interrupted"]
               [] db.jobs[j].state = "queued" ->
                    [shown.jobs[j] EXCEPT !.state = "draft", !.code = "reconfirm"]
               [] OTHER -> shown.jobs[j]]
<1>5. new = [shown EXCEPT !.jobs = f]
  BY DEF Reasoned
<1>6. new.jobs = f /\ new.ok = shown.ok /\ new.digest = shown.digest
  BY <1>2, <1>5, Excepts DEF Between
<1>7. ASSUME NEW j \in Jobs PROVE Carried(OldJob(l, j), shown.jobs[j], f[j])
  <2>1. db.jobs[j] = OldJob(l, j) /\ OldJob(l, j) \in JobSet
    BY OldBetween
  <2>2. Follows(OldJob(l, j), shown.jobs[j])
    BY <1>2, Zenon DEF Between
  <2>3. f[j] = IF shown.jobs[j].code \notin ReviewCodes THEN shown.jobs[j]
               ELSE CASE OldJob(l, j).state = "running" ->
                           [shown.jobs[j] EXCEPT !.state = "unknown", !.code = "interrupted"]
                      [] OldJob(l, j).state = "queued" ->
                           [shown.jobs[j] EXCEPT !.state = "draft", !.code = "reconfirm"]
                      [] OTHER -> shown.jobs[j]
    BY <2>1, Zenon
  <2> HIDE DEF f
  <2>q. QED BY <2>1, <2>2, <2>3, ReasonedJob
<1> HIDE DEF f, new
<1>8. \A j \in Jobs : f[j].tags = shown.jobs[j].tags /\ (f[j].credit <=> shown.jobs[j].credit)
  BY <1>7, Zenon DEF Carried
<1>9. "j1" \in Jobs
  BY DEF Jobs, Roots
<1>10. \A j \in Jobs : /\ f[j].tags = f["j1"].tags
                       /\ f[j].credit <=> f["j1"].credit
  BY <1>2, <1>8, <1>9, Zenon DEF Between
<1>11. ASSUME l.provable
       PROVE  words.ok /\ new.ok /\ new.digest = Payload(new.jobs["j1"], "canonical", Given(l))
  <2>1. words.ok /\ shown.ok /\ shown.digest = Payload(shown.jobs["j1"], "canonical", Given(l))
    BY <1>2, <1>11, Zenon DEF Between
  <2>2. shown.jobs["j1"] \in JobSet
    BY <1>2, <1>9, GivenFound
  <2>3. f["j1"].tags = shown.jobs["j1"].tags /\ f["j1"].credit = shown.jobs["j1"].credit
    <3>1. f["j1"] \in JobSet
      BY <1>7, <1>9, Zenon DEF Carried
    <3>q. QED BY <1>8, <1>9, <2>2, <3>1 DEF JobSet
  <2>q. QED BY <1>6, <2>1, <2>3, Zenon DEF Payload
<1>12. words.ok => \A j \in Jobs :
         /\ \E row : Carried(OldJob(l, j), row, new.jobs[j])
         /\ new.jobs[j].tags = new.jobs["j1"].tags
         /\ new.jobs[j].credit <=> new.jobs["j1"].credit
  BY <1>6, <1>7, <1>10, Zenon
<1>q. QED BY <1>3, <1>4, <1>6, <1>11, <1>12, Zenon

OldRows(l) == [j \in Jobs |-> OldJob(l, j)]

LegacyInv ==
    /\ legacy \in UploadDatabases \cup Owners
    /\ phase = "old" /\ legacy.of = "uploads" =>
         legacy \in UploadDatabases /\ jobs = OldRows(legacy) /\ digest = OldDigest(legacy)
    /\ legacy.of = "editing" => phase \in {"old", "new"}
    /\ RowsCarried

LEMMA LegacyKinds ==
    /\ \A l \in UploadDatabases : l.of = "uploads"
    /\ \A l \in Owners : l.of = "editing"
  BY DEF UploadDatabases, Owners

LEMMA LegacyBegins == LegacyInit => LegacyInv
<1> SUFFICES ASSUME LegacyInit PROVE LegacyInv
  OBVIOUS
<1>1. legacy.of = "uploads" => legacy \in UploadDatabases
  BY LegacyKinds DEF LegacyInit
<1>q. QED BY <1>1 DEF LegacyInit, LegacyInv, RowsCarried, OldRows

LEMMA MigrateUploadsRows == LegacyInv /\ MigrateUploads => LegacyInv'
<1> SUFFICES ASSUME LegacyInv, MigrateUploads PROVE LegacyInv'
  OBVIOUS
<1> DEFINE db == [jobs   |-> [j \in Jobs |-> OldJob(legacy, j)],
                  digest |-> OldDigest(legacy), ok |-> TRUE]
           new == Latest(db)
<1>1. /\ phase = "old" /\ legacy.of = "uploads" /\ legacy \in UploadDatabases
      /\ jobs = OldRows(legacy) /\ digest = OldDigest(legacy) /\ legacy' = legacy
      /\ sentinel' = sentinel
  BY DEF LegacyInv, MigrateUploads
<1>2. /\ legacy.provable =>
           new.ok /\ new.digest = Payload(new.jobs["j1"], "canonical", Given(legacy))
      /\ new.ok => \A j \in Jobs :
           /\ \E row : Carried(OldJob(legacy, j), row, new.jobs[j])
           /\ new.jobs[j].tags = new.jobs["j1"].tags
           /\ new.jobs[j].credit <=> new.jobs["j1"].credit
  BY <1>1, LatestRows
<1>3. IF new.ok THEN phase' = "new" /\ jobs' = new.jobs /\ digest' = new.digest
                ELSE phase' = "refused"
  BY <1>1 DEF MigrateUploads, OldRows
<1>4. ~legacy.provable \/ legacy.provable
  OBVIOUS
<1> HIDE DEF db, new
<1>5. CASE ~new.ok
  <2>1. phase' = "refused" /\ ~legacy.provable
    BY <1>2, <1>3, <1>5
  <2>q. QED BY <1>1, <2>1 DEF LegacyInv, RowsCarried
<1>6. CASE new.ok
  <2>1. phase' = "new" /\ jobs' = new.jobs /\ digest' = new.digest
    BY <1>3, <1>6
  <2>2. ASSUME NEW j \in Jobs
        PROVE  /\ jobs'[j] \in JobSet
               /\ jobs'[j].state \in {"queued", "running"} =>
                    /\ OldJob(legacy, j).state = jobs'[j].state
                    /\ Words(jobs'[j]) = Words(OldJob(legacy, j))
               /\ OldJob(legacy, j).state = "running" => jobs'[j].state \in {"running", "unknown"}
               /\ OldJob(legacy, j).state \notin Unsettled =>
                    jobs'[j].state = OldJob(legacy, j).state
               /\ jobs'[j].state # OldJob(legacy, j).state =>
                    jobs'[j].code = IF OldJob(legacy, j).state = "running" THEN "interrupted"
                                    ELSE "reconfirm"
    BY <1>2, <1>6, <2>1, Zenon DEF Carried
  <2>3. ApprovalsEnd'
    BY <1>1, <2>2 DEF ApprovalsEnd, Unsettled
  <2>4. ReasonsKept'
    BY <1>1, <2>2 DEF ReasonsKept
  <2>5. StillOneRequest'
    <3>1. "j1" \in Jobs
      BY DEF Jobs, Roots
    <3>2. \A j \in Jobs : /\ jobs'[j] \in JobSet /\ jobs'[j].tags = jobs'["j1"].tags
                          /\ jobs'[j].credit <=> jobs'["j1"].credit
      BY <1>2, <1>6, <2>1, <2>2, Zenon
    <3>3. \A j \in Jobs : jobs'[j].credit \in BOOLEAN
      BY <3>2 DEF JobSet
    <3>q. QED BY <3>1, <3>2, <3>3 DEF StillOneRequest
  <2>6. legacy.provable => StillReplayed'
    <3> SUFFICES ASSUME legacy.provable PROVE StillReplayed'
      OBVIOUS
    <3>1. digest' = Payload(jobs'["j1"], "canonical", Given(legacy))
      BY <1>2, <2>1
    <3>2. Given(legacy) \in {Absent, legacy.copyright}
      BY DEF Given
    <3>q. QED BY <1>1, <3>1, <3>2 DEF StillReplayed
  <2>q. QED BY <1>1, <2>1, <2>3, <2>4, <2>5, <2>6 DEF LegacyInv, RowsCarried
<1>q. QED BY <1>5, <1>6

LEMMA MigrateEditingRows == LegacyInv /\ MigrateEditing => LegacyInv'
<1> SUFFICES ASSUME LegacyInv, MigrateEditing PROVE LegacyInv'
  OBVIOUS
<1>1. /\ legacy.of = "editing" /\ legacy' = legacy /\ phase' = "new"
      /\ sentinel' = (legacy.auth # "local" /\ OutcomeDoubtful(legacy))
  BY DEF MigrateEditing
<1>2. legacy \in Owners
  BY <1>1, LegacyKinds DEF LegacyInv
<1>3. legacy.started /\ legacy.state # "done" /\ legacy.code # "before" =>
        OutcomeDoubtful(legacy)
  BY <1>2 DEF Owners, OutcomeDoubtful
<1>q. QED BY <1>1, <1>2, <1>3 DEF LegacyInv, RowsCarried

\* The migration of the rows takes any old database to LegacyInv.
THEOREM LegacyInvariance == LegacySpec => []LegacyInv
<1>1. LegacyInv /\ [LegacyNext]_legacyVars => LegacyInv'
  <2>1. LegacyInv /\ UNCHANGED legacyVars => LegacyInv'
    BY DEF LegacyInv, legacyVars, RowsCarried, ApprovalsEnd, ReasonsKept, StillOneRequest,
           StillReplayed
  <2>q. QED BY <2>1, MigrateUploadsRows, MigrateEditingRows DEF LegacyNext
<1>q. QED BY LegacyBegins, <1>1, PTL DEF LegacySpec

\* No job keeps an approval for words that the migration changed, a stopped job
\* says why, a repeated request finds its jobs, and an AI call that may have been
\* taken is marked, for every database an old service could store.
THEOREM RowsAreCarried == LegacySpec => []RowsCarried
<1>1. LegacyInv => RowsCarried
  BY DEF LegacyInv
<1>q. QED BY <1>1, LegacyInvariance, PTL

-----------------------------------------------------------------------------
(***************************************************************************)
(* Installing a directory: RuntimeSetup                                    *)
(***************************************************************************)
\* A run that has looked and not yet ended.
Active == {"building", "smoking", "validating", "checking"}

\* What a directory can look like.
Dirs ==
    [by : Setups \cup {NoRun, "user"}, parts : Nat, half : BOOLEAN, bad : BOOLEAN,
     pending : SUBSET (Setups \cup {"litter"}), serial : Nat]

SetupTyped ==
    /\ what \in Bundle /\ direct \subseteq Setups /\ serials \in Nat
    /\ what \notin {"tools", "ai"} => direct = {}
    /\ foreign # 0 => what = "environment"
    /\ place \in Dirs /\ staging \in [Setups -> Dirs]
    /\ setup \in [Setups -> {"idle", "ended"} \cup Active]
    /\ vouched \in Setups \cup {NoRun, "user"}

\* Who may touch a place holds the lock, unless it was started without; the
\* application uses a place only while nobody holds it.
Locked ==
    /\ holder \in Setups \cup {NoRun}
    /\ \A p \in Setups : setup[p] \in Active => p \in direct \/ holder = p
    /\ app => holder = NoRun

\* What a run knows of the place it works for.
RunsKnow ==
    \A p \in Setups :
        /\ setup[p] = "smoking" => what = "tools"
        /\ setup[p] = "checking" => what = "upload"
        /\ setup[p] = "validating" =>
              /\ what = "ai" /\ place.by = p
              /\ p \notin direct => vouched # p
        /\ setup[p] = "building" /\ what \in {"tools", "ai"} => staging[p].by = p
        /\ setup[p] = "building" /\ what = "upload" => vouched = NoRun /\ place.by = p
        /\ setup[p] = "building" /\ what = "environment" => place.by \notin {"user", NoRun}

\* A part in the making is not the last one made; only a part that is being
\* made can be wrong in an environment.
PartsOrdered ==
    /\ place.by = NoRun => place.parts = 0
    /\ place.parts <= Complete /\ (place.half => place.parts < Complete)
    /\ what = "environment" /\ place.bad => place.half
    /\ \A p \in Setups :
          staging[p].parts <= Complete /\ (staging[p].half => staging[p].parts < Complete)

SetupInv ==
    /\ SetupTyped /\ Locked /\ RunsKnow /\ PartsOrdered
    /\ NamedIsComplete /\ ReadyStays /\ UsedIsStable /\ ForeignIsKept

\* A directory with one field changed, and the empty place.
LEMMA Directories ==
    /\ NoDirectory \in Dirs /\ NoDirectory.by = NoRun /\ NoDirectory.parts = 0
    /\ NoDirectory.half = FALSE /\ NoDirectory.bad = FALSE
    /\ \A d \in Dirs :
          /\ d.by \in Setups \cup {NoRun, "user"} /\ d.parts \in Nat
          /\ d.half \in BOOLEAN /\ d.bad \in BOOLEAN
          /\ d.pending \in SUBSET (Setups \cup {"litter"})
  BY DEF Dirs, NoDirectory

\* Two directories alike but for marks of the smoke test and serial numbers.
Alike(d, e) == e.by = d.by /\ e.parts = d.parts /\ e.half = d.half /\ e.bad = d.bad

LEMMA NewMarks ==
    ASSUME NEW d \in Dirs, NEW marks \in SUBSET (Setups \cup {"litter"})
    PROVE  [d EXCEPT !.pending = marks] \in Dirs /\ Alike(d, [d EXCEPT !.pending = marks])
  BY DEF Dirs, Alike

LEMMA SameMarks ==
    /\ \A d \in Dirs : [d EXCEPT !.pending = d.pending] = d
    /\ \A n : LET d == [NoDirectory EXCEPT !.by = "user", !.parts = n]
                 IN  d.pending = {} /\ d.by = "user"
  BY DEF Dirs, NoDirectory

LEMMA NewParts ==
    ASSUME NEW d \in Dirs, NEW n \in Nat
    PROVE  LET e == [d EXCEPT !.parts = n]
           IN  e \in Dirs /\ e.by = d.by /\ e.parts = n /\ e.half = d.half /\ e.bad = d.bad
  BY DEF Dirs

LEMMA NewMaker ==
    ASSUME NEW d \in Dirs, NEW p \in Setups
    PROVE  LET e == [d EXCEPT !.by = p]
           IN  e \in Dirs /\ e.by = p /\ e.parts = d.parts /\ e.half = d.half /\ e.bad = d.bad
  BY DEF Dirs

LEMMA PartBegun ==
    ASSUME NEW d \in Dirs, NEW b \in BOOLEAN
    PROVE  LET e == [d EXCEPT !.half = TRUE, !.bad = b]
           IN  e \in Dirs /\ e.by = d.by /\ e.parts = d.parts /\ e.half = TRUE /\ e.bad = b
  BY DEF Dirs

LEMMA PartEnded ==
    ASSUME NEW d \in Dirs, NEW n \in Nat,
           NEW e, e = [d EXCEPT !.parts = d.parts + 1, !.half = FALSE, !.serial = n]
    PROVE  e \in Dirs /\ e.by = d.by /\ e.parts = d.parts + 1 /\ ~e.half
<1>1. \A m \in Nat :
          LET f == [d EXCEPT !.parts = m, !.half = FALSE, !.serial = n]
          IN  f \in Dirs /\ f.by = d.by /\ f.parts = m /\ f.half = FALSE /\ f.bad = d.bad
  BY DEF Dirs
<1>2. d.parts + 1 \in Nat
  BY DEF Dirs
<1>q. QED BY <1>1, <1>2

LEMMA RightPartEnded ==
    ASSUME NEW d \in Dirs, NEW n \in Nat, NEW e, ~d.bad,
           e = [d EXCEPT !.parts = d.parts + 1, !.half = FALSE, !.serial = n]
    PROVE  ~e.bad
  BY DEF Dirs

LEMMA NothingPending ==
    ASSUME NEW d \in Dirs, NEW n \in Nat
    PROVE  LET e == [d EXCEPT !.parts = n, !.serial = 0]
           IN  e \in Dirs /\ e.by = d.by /\ e.parts = n /\ e.half = d.half /\ e.bad = d.bad
  BY DEF Dirs

LEMMA DamagedDir ==
    ASSUME NEW d \in Dirs
    PROVE  LET e == [d EXCEPT !.bad = TRUE]
           IN  /\ e \in Dirs /\ e.by = d.by /\ e.parts = d.parts /\ e.half = d.half
               /\ e.bad = TRUE
  BY DEF Dirs

\* How many parts a bundle has.
LEMMA Completes ==
    ASSUME what \in Bundle
    PROVE  /\ Complete \in Nat /\ Complete >= 2
           /\ what = "environment" => Complete = 3
           /\ what = "upload" => Complete = 4
           /\ what \in {"environment", "tools", "ai", "upload"}
  BY DEF Complete, LastPart, Bundle

LEMMA RefusedKeeps ==
    ASSUME SetupInv, NEW p \in Setups, Refused(p)
    PROVE  SetupInv'
<1>a. UNCHANGED <<what, direct, foreign, app, began, place, staging, serials>>
  BY DEF Refused
<1>b. setup' = [setup EXCEPT ![p] = "ended"]
  BY DEF Refused, Answers
<1>c. holder' = IF holder = p THEN NoRun ELSE holder
  BY DEF Refused, Answers
<1>d. vouched' = vouched
  BY DEF Refused, Answers
<1>e. Complete' = Complete
  BY <1>a DEF Complete
<1>f. Complete \in Nat /\ Complete >= 2 /\ what \in {"environment", "tools", "ai", "upload"}
  BY Completes DEF SetupInv, SetupTyped
<1>g. place.parts \in Nat /\ \A q \in Setups : staging[q] \in Dirs /\ staging[q].parts \in Nat
  BY Directories DEF SetupInv, SetupTyped
<1>1. SetupTyped'
  BY <1>a, <1>b, <1>c, <1>d, <1>e, <1>f, <1>g, Directories, SetupAssumption, SMTT(30)
  DEF SetupInv, SetupTyped, Active
<1>2. Locked'
  BY <1>a, <1>b, <1>c, <1>d, <1>e, <1>f, <1>g, Directories, SetupAssumption, SMTT(30)
  DEF SetupInv, SetupTyped, Locked, Active
<1>3. RunsKnow'
  BY <1>a, <1>b, <1>c, <1>d, <1>e, <1>f, <1>g, Directories, SetupAssumption, SMTT(30)
  DEF SetupInv, SetupTyped, Locked, RunsKnow, Active, ReadyStays, OnTrial, Exists, InPlace
<1>4. PartsOrdered'
  BY <1>a, <1>b, <1>c, <1>d, <1>e, <1>f, <1>g, Directories, SetupAssumption, SMTT(30)
  DEF SetupInv, SetupTyped, PartsOrdered
<1>5. NamedIsComplete'
  BY <1>a, <1>b, <1>c, <1>d, <1>e, <1>f, <1>g, Directories, SetupAssumption, SMTT(30)
  DEF SetupInv, SetupTyped, NamedIsComplete, InPlace, Exists
<1>6. ReadyStays'
  BY <1>a, <1>b, <1>c, <1>d, <1>e, <1>f, <1>g, Directories, SetupAssumption, SMTT(30)
  DEF SetupInv, SetupTyped, Locked, RunsKnow, Active, ReadyStays, OnTrial, Exists, InPlace
<1>7. UsedIsStable'
  BY <1>a, <1>b, <1>c, <1>d, <1>e, <1>f, <1>g, Directories, SetupAssumption, SMTT(30)
  DEF SetupInv, SetupTyped, Locked, RunsKnow, PartsOrdered, Active, UsedIsStable, OnTrial,
      Exists, InPlace
<1>8. ForeignIsKept'
  BY <1>a, <1>b, <1>c, <1>d, <1>e, <1>f, <1>g, Directories, SetupAssumption, SMTT(30)
  DEF SetupInv, SetupTyped, RunsKnow, ForeignIsKept, InPlace
<1>q. QED BY <1>1, <1>2, <1>3, <1>4, <1>5, <1>6, <1>7, <1>8 DEF SetupInv

LEMMA EnvironmentMadeKeeps ==
    ASSUME SetupInv, NEW p \in Setups, LookAtEnvironment(p), ~Exists, Proceeds(p, "building"),
           place' = [NoDirectory EXCEPT !.by = p]
    PROVE  SetupInv'
<1>a. UNCHANGED <<what, direct, foreign, app, began, staging, serials>>
  BY DEF LookAtEnvironment, Enters, LockFree
<1>b. setup' = [setup EXCEPT ![p] = "building"]
  BY DEF Proceeds
<1>c. holder' = IF p \in direct THEN holder ELSE p
  BY DEF Proceeds
<1>d. vouched' = vouched
  BY DEF Proceeds
<1>e. what = "environment" /\ direct = {} /\ ~app /\ holder = NoRun
  BY DEF LookAtEnvironment, Enters, LockFree, SetupInv, SetupTyped
<1>f. /\ place' \in Dirs /\ place'.by = p /\ place'.parts = 0 /\ place'.half = FALSE
      /\ place'.bad = FALSE
  BY Directories, NewMaker
<1>g. foreign = 0
  BY SameMarks DEF Exists, NoRun, SetupInv, ForeignIsKept
<1>h. Complete' = Complete
  BY <1>a DEF Complete
<1>i. Complete \in Nat /\ Complete >= 2 /\ what \in {"environment", "tools", "ai", "upload"}
  BY Completes DEF SetupInv, SetupTyped
<1>j. place.parts \in Nat /\ \A q \in Setups : staging[q] \in Dirs /\ staging[q].parts \in Nat
  BY Directories DEF SetupInv, SetupTyped
<1>1. SetupTyped'
  BY <1>a, <1>b, <1>c, <1>d, <1>e, <1>f, <1>g, <1>h, <1>i, <1>j, Directories, SetupAssumption,
     SMTT(30)
  DEF SetupInv, SetupTyped, Active
<1>2. Locked'
  BY <1>a, <1>b, <1>c, <1>d, <1>e, <1>f, <1>g, <1>h, <1>i, <1>j, Directories, SetupAssumption,
     SMTT(30)
  DEF SetupInv, SetupTyped, Locked, Active
<1>3. RunsKnow'
  BY <1>a, <1>b, <1>c, <1>d, <1>e, <1>f, <1>g, <1>h, <1>i, <1>j, Directories, SetupAssumption,
     SMTT(30)
  DEF SetupInv, SetupTyped, Locked, RunsKnow, Active, ReadyStays, OnTrial, Exists, InPlace
<1>4. PartsOrdered'
  BY <1>a, <1>b, <1>c, <1>d, <1>e, <1>f, <1>g, <1>h, <1>i, <1>j, Directories, SetupAssumption,
     SMTT(30)
  DEF SetupInv, SetupTyped, PartsOrdered
<1>5. NamedIsComplete'
  BY <1>a, <1>b, <1>c, <1>d, <1>e, <1>f, <1>g, <1>h, <1>i, <1>j, Directories, SetupAssumption,
     SMTT(30)
  DEF SetupInv, SetupTyped, NamedIsComplete, InPlace, Exists
<1>6. ReadyStays'
  BY <1>a, <1>b, <1>c, <1>d, <1>e, <1>f, <1>g, <1>h, <1>i, <1>j, Directories, SetupAssumption,
     SMTT(30)
  DEF SetupInv, SetupTyped, Locked, RunsKnow, Active, ReadyStays, OnTrial, Exists, InPlace
<1>7. UsedIsStable'
  BY <1>a, <1>b, <1>c, <1>d, <1>e, <1>f, <1>g, <1>h, <1>i, <1>j, Directories, SetupAssumption,
     SMTT(30)
  DEF SetupInv, SetupTyped, Locked, RunsKnow, PartsOrdered, Active, UsedIsStable, OnTrial,
      Exists, InPlace
<1>8. ForeignIsKept'
  BY <1>a, <1>b, <1>c, <1>d, <1>e, <1>f, <1>g, <1>h, <1>i, <1>j, Directories, SetupAssumption,
     SMTT(30)
  DEF SetupInv, SetupTyped, RunsKnow, ForeignIsKept, InPlace
<1>q. QED BY <1>1, <1>2, <1>3, <1>4, <1>5, <1>6, <1>7, <1>8 DEF SetupInv

LEMMA EnvironmentAnswersKeeps ==
    ASSUME SetupInv, NEW p \in Setups, LookAtEnvironment(p), UNCHANGED place,
           Answers(p, "ready") \/ Answers(p, "failed"), Exists
    PROVE  SetupInv'
<1>a. UNCHANGED <<what, direct, foreign, app, began, place, staging, serials>>
  BY DEF LookAtEnvironment, Enters, LockFree
<1>b. what = "environment" /\ direct = {} /\ ~app /\ holder = NoRun
  BY DEF LookAtEnvironment, Enters, LockFree, SetupInv, SetupTyped
<1>c. setup' = [setup EXCEPT ![p] = "ended"]
  BY DEF Answers
<1>d. holder' = IF holder = p THEN NoRun ELSE holder
  BY DEF Answers
<1>e. vouched' = vouched \/ vouched' = place.by
  BY DEF Answers
<1>f. Complete' = Complete
  BY <1>a DEF Complete
<1>g. Complete \in Nat /\ Complete >= 2 /\ what \in {"environment", "tools", "ai", "upload"}
  BY Completes DEF SetupInv, SetupTyped
<1>h. place.parts \in Nat /\ \A q \in Setups : staging[q] \in Dirs /\ staging[q].parts \in Nat
  BY Directories DEF SetupInv, SetupTyped
<1>1. SetupTyped'
  BY <1>a, <1>b, <1>c, <1>d, <1>e, <1>f, <1>g, <1>h, Directories, SetupAssumption, SMTT(30)
  DEF SetupInv, SetupTyped, Active
<1>2. Locked'
  BY <1>a, <1>b, <1>c, <1>d, <1>e, <1>f, <1>g, <1>h, Directories, SetupAssumption, SMTT(30)
  DEF SetupInv, SetupTyped, Locked, Active
<1>3. RunsKnow'
  BY <1>a, <1>b, <1>c, <1>d, <1>e, <1>f, <1>g, <1>h, Directories, SetupAssumption, SMTT(30)
  DEF SetupInv, SetupTyped, Locked, RunsKnow, Active, ReadyStays, OnTrial, Exists, InPlace
<1>4. PartsOrdered'
  BY <1>a, <1>b, <1>c, <1>d, <1>e, <1>f, <1>g, <1>h, Directories, SetupAssumption, SMTT(30)
  DEF SetupInv, SetupTyped, PartsOrdered
<1>5. NamedIsComplete'
  BY <1>a, <1>b, <1>c, <1>d, <1>e, <1>f, <1>g, <1>h, Directories, SetupAssumption, SMTT(30)
  DEF SetupInv, SetupTyped, NamedIsComplete, InPlace, Exists
<1>6. ReadyStays'
  BY <1>a, <1>b, <1>c, <1>d, <1>e, <1>f, <1>g, <1>h, Directories, SetupAssumption, SMTT(30)
  DEF SetupInv, SetupTyped, Locked, RunsKnow, Active, ReadyStays, OnTrial, Exists, InPlace
<1>7. UsedIsStable'
  BY <1>a, <1>b, <1>c, <1>d, <1>e, <1>f, <1>g, <1>h, Directories, SetupAssumption, SMTT(30)
  DEF SetupInv, SetupTyped, Locked, RunsKnow, PartsOrdered, Active, UsedIsStable, OnTrial,
      Exists, InPlace
<1>8. ForeignIsKept'
  BY <1>a, <1>b, <1>c, <1>d, <1>e, <1>f, <1>g, <1>h, Directories, SetupAssumption, SMTT(30)
  DEF SetupInv, SetupTyped, RunsKnow, ForeignIsKept, InPlace
<1>q. QED BY <1>1, <1>2, <1>3, <1>4, <1>5, <1>6, <1>7, <1>8 DEF SetupInv

LEMMA EnvironmentRepairedKeeps ==
    ASSUME SetupInv, NEW p \in Setups, LookAtEnvironment(p), Exists, Owned,
           Proceeds(p, "building"),
           place' = [place EXCEPT !.parts = IF @ = Complete THEN Complete - 1 ELSE @]
    PROVE  SetupInv'
<1>a. UNCHANGED <<what, direct, foreign, app, began, staging, serials>>
  BY DEF LookAtEnvironment, Enters, LockFree
<1>b. setup' = [setup EXCEPT ![p] = "building"]
  BY DEF Proceeds
<1>c. holder' = IF p \in direct THEN holder ELSE p
  BY DEF Proceeds
<1>d. vouched' = vouched
  BY DEF Proceeds
<1>e. what = "environment" /\ direct = {} /\ ~app /\ holder = NoRun
  BY DEF LookAtEnvironment, Enters, LockFree, SetupInv, SetupTyped
<1>f. (IF place.parts = Complete THEN Complete - 1 ELSE place.parts) \in Nat /\ Complete >= 2
  BY Directories, Completes DEF SetupInv, SetupTyped
<1>g. /\ place' \in Dirs /\ place'.by = place.by /\ place'.half = place.half
      /\ place'.bad = place.bad /\ place'.parts <= place.parts
      /\ (place'.parts = place.parts \/ ~place.half)
  BY NewParts, <1>f, Directories DEF SetupInv, SetupTyped, PartsOrdered
<1>h. place.by \notin {"user", NoRun} /\ foreign = 0
  BY SameMarks DEF Owned, Exists, SetupInv, ForeignIsKept
<1>i. Complete' = Complete
  BY <1>a DEF Complete
<1>j. Complete \in Nat /\ Complete >= 2 /\ what \in {"environment", "tools", "ai", "upload"}
  BY Completes DEF SetupInv, SetupTyped
<1>k. place.parts \in Nat /\ \A q \in Setups : staging[q] \in Dirs /\ staging[q].parts \in Nat
  BY Directories DEF SetupInv, SetupTyped
<1>1. SetupTyped'
  BY <1>a, <1>b, <1>c, <1>d, <1>e, <1>f, <1>g, <1>h, <1>i, <1>j, <1>k, Directories,
     SetupAssumption, SMTT(30)
  DEF SetupInv, SetupTyped, Active
<1>2. Locked'
  BY <1>a, <1>b, <1>c, <1>d, <1>e, <1>f, <1>g, <1>h, <1>i, <1>j, <1>k, Directories,
     SetupAssumption, SMTT(30)
  DEF SetupInv, SetupTyped, Locked, Active
<1>3. RunsKnow'
  BY <1>a, <1>b, <1>c, <1>d, <1>e, <1>f, <1>g, <1>h, <1>i, <1>j, <1>k, Directories,
     SetupAssumption, SMTT(30)
  DEF SetupInv, SetupTyped, Locked, RunsKnow, Active, ReadyStays, OnTrial, Exists, InPlace
<1>4. PartsOrdered'
  BY <1>a, <1>b, <1>c, <1>d, <1>e, <1>f, <1>g, <1>h, <1>i, <1>j, <1>k, Directories,
     SetupAssumption, SMTT(30)
  DEF SetupInv, SetupTyped, PartsOrdered
<1>5. NamedIsComplete'
  BY <1>a, <1>b, <1>c, <1>d, <1>e, <1>f, <1>g, <1>h, <1>i, <1>j, <1>k, Directories,
     SetupAssumption, SMTT(30)
  DEF SetupInv, SetupTyped, NamedIsComplete, InPlace, Exists
<1>6. ReadyStays'
  BY <1>a, <1>b, <1>c, <1>d, <1>e, <1>f, <1>g, <1>h, <1>i, <1>j, <1>k, Directories,
     SetupAssumption, SMTT(30)
  DEF SetupInv, SetupTyped, Locked, RunsKnow, Active, ReadyStays, OnTrial, Exists, InPlace
<1>7. UsedIsStable'
  BY <1>a, <1>b, <1>c, <1>d, <1>e, <1>f, <1>g, <1>h, <1>i, <1>j, <1>k, Directories,
     SetupAssumption, SMTT(30)
  DEF SetupInv, SetupTyped, Locked, RunsKnow, PartsOrdered, Active, UsedIsStable, OnTrial,
      Exists, InPlace
<1>8. ForeignIsKept'
  BY <1>a, <1>b, <1>c, <1>d, <1>e, <1>f, <1>g, <1>h, <1>i, <1>j, <1>k, Directories,
     SetupAssumption, SMTT(30)
  DEF SetupInv, SetupTyped, RunsKnow, ForeignIsKept, InPlace
<1>q. QED BY <1>1, <1>2, <1>3, <1>4, <1>5, <1>6, <1>7, <1>8 DEF SetupInv

LEMMA ToolsBuildKeeps ==
    ASSUME SetupInv, NEW p \in Setups, LookAtTools(p), Proceeds(p, "building"),
           staging' = [staging EXCEPT ![p].by = p]
    PROVE  SetupInv'
<1>a. UNCHANGED <<what, direct, foreign, app, began, place, serials>>
  BY DEF LookAtTools, Enters, LockFree
<1>b. setup' = [setup EXCEPT ![p] = "building"]
  BY DEF Proceeds
<1>c. holder' = IF p \in direct THEN holder ELSE p
  BY DEF Proceeds
<1>d. vouched' = vouched
  BY DEF Proceeds
<1>e. what = "tools" /\ setup[p] = "idle" /\ (p \in direct \/ (holder = NoRun /\ ~app))
  BY DEF LookAtTools, LookAtAiRuntime, LookAtUploadRuntime, Enters, LockFree
<1>f. staging' \in [Setups -> Dirs]
  BY NewMaker DEF SetupInv, SetupTyped
<1>g. \A q \in Setups :
          /\ staging'[q].parts = staging[q].parts /\ staging'[q].half = staging[q].half
          /\ staging'[q].by = (IF q = p THEN p ELSE staging[q].by)
  BY NewMaker DEF SetupInv, SetupTyped
<1>h. Complete' = Complete
  BY <1>a DEF Complete
<1>i. Complete \in Nat /\ Complete >= 2 /\ what \in {"environment", "tools", "ai", "upload"}
  BY Completes DEF SetupInv, SetupTyped
<1>j. place.parts \in Nat /\ \A q \in Setups : staging[q] \in Dirs /\ staging[q].parts \in Nat
  BY Directories DEF SetupInv, SetupTyped
<1>1. SetupTyped'
  BY <1>a, <1>b, <1>c, <1>d, <1>e, <1>f, <1>g, <1>h, <1>i, <1>j, Directories, SetupAssumption,
     SMTT(30)
  DEF SetupInv, SetupTyped, Active
<1>2. Locked'
  BY <1>a, <1>b, <1>c, <1>d, <1>e, <1>f, <1>g, <1>h, <1>i, <1>j, Directories, SetupAssumption,
     SMTT(30)
  DEF SetupInv, SetupTyped, Locked, Active
<1>3. RunsKnow'
  BY <1>a, <1>b, <1>c, <1>d, <1>e, <1>f, <1>g, <1>h, <1>i, <1>j, Directories, SetupAssumption,
     SMTT(30)
  DEF SetupInv, SetupTyped, Locked, RunsKnow, Active, ReadyStays, OnTrial, Exists, InPlace
<1>4. PartsOrdered'
  BY <1>a, <1>b, <1>c, <1>d, <1>e, <1>f, <1>g, <1>h, <1>i, <1>j, Directories, SetupAssumption,
     SMTT(30)
  DEF SetupInv, SetupTyped, PartsOrdered
<1>5. NamedIsComplete'
  BY <1>a, <1>b, <1>c, <1>d, <1>e, <1>f, <1>g, <1>h, <1>i, <1>j, Directories, SetupAssumption,
     SMTT(30)
  DEF SetupInv, SetupTyped, NamedIsComplete, InPlace, Exists
<1>6. ReadyStays'
  BY <1>a, <1>b, <1>c, <1>d, <1>e, <1>f, <1>g, <1>h, <1>i, <1>j, Directories, SetupAssumption,
     SMTT(30)
  DEF SetupInv, SetupTyped, Locked, RunsKnow, Active, ReadyStays, OnTrial, Exists, InPlace
<1>7. UsedIsStable'
  BY <1>a, <1>b, <1>c, <1>d, <1>e, <1>f, <1>g, <1>h, <1>i, <1>j, Directories, SetupAssumption,
     SMTT(30)
  DEF SetupInv, SetupTyped, Locked, RunsKnow, PartsOrdered, Active, UsedIsStable, OnTrial,
      Exists, InPlace
<1>8. ForeignIsKept'
  BY <1>a, <1>b, <1>c, <1>d, <1>e, <1>f, <1>g, <1>h, <1>i, <1>j, Directories, SetupAssumption,
     SMTT(30)
  DEF SetupInv, SetupTyped, RunsKnow, ForeignIsKept, InPlace
<1>q. QED BY <1>1, <1>2, <1>3, <1>4, <1>5, <1>6, <1>7, <1>8 DEF SetupInv

LEMMA ToolsTriedKeeps ==
    ASSUME SetupInv, NEW p \in Setups, LookAtTools(p), Proceeds(p, "smoking"),
           UNCHANGED staging
    PROVE  SetupInv'
<1>a. UNCHANGED <<what, direct, foreign, app, began, place, staging, serials>>
  BY DEF LookAtTools, Enters, LockFree
<1>b. setup' = [setup EXCEPT ![p] = "smoking"]
  BY DEF Proceeds
<1>c. holder' = IF p \in direct THEN holder ELSE p
  BY DEF Proceeds
<1>d. vouched' = vouched
  BY DEF Proceeds
<1>e. what = "tools" /\ setup[p] = "idle" /\ (p \in direct \/ (holder = NoRun /\ ~app))
  BY DEF LookAtTools, LookAtAiRuntime, LookAtUploadRuntime, Enters, LockFree
<1>f. Complete' = Complete
  BY <1>a DEF Complete
<1>g. Complete \in Nat /\ Complete >= 2 /\ what \in {"environment", "tools", "ai", "upload"}
  BY Completes DEF SetupInv, SetupTyped
<1>h. place.parts \in Nat /\ \A q \in Setups : staging[q] \in Dirs /\ staging[q].parts \in Nat
  BY Directories DEF SetupInv, SetupTyped
<1>1. SetupTyped'
  BY <1>a, <1>b, <1>c, <1>d, <1>e, <1>f, <1>g, <1>h, Directories, SetupAssumption, SMTT(30)
  DEF SetupInv, SetupTyped, Active
<1>2. Locked'
  BY <1>a, <1>b, <1>c, <1>d, <1>e, <1>f, <1>g, <1>h, Directories, SetupAssumption, SMTT(30)
  DEF SetupInv, SetupTyped, Locked, Active
<1>3. RunsKnow'
  BY <1>a, <1>b, <1>c, <1>d, <1>e, <1>f, <1>g, <1>h, Directories, SetupAssumption, SMTT(30)
  DEF SetupInv, SetupTyped, Locked, RunsKnow, Active, ReadyStays, OnTrial, Exists, InPlace
<1>4. PartsOrdered'
  BY <1>a, <1>b, <1>c, <1>d, <1>e, <1>f, <1>g, <1>h, Directories, SetupAssumption, SMTT(30)
  DEF SetupInv, SetupTyped, PartsOrdered
<1>5. NamedIsComplete'
  BY <1>a, <1>b, <1>c, <1>d, <1>e, <1>f, <1>g, <1>h, Directories, SetupAssumption, SMTT(30)
  DEF SetupInv, SetupTyped, NamedIsComplete, InPlace, Exists
<1>6. ReadyStays'
  BY <1>a, <1>b, <1>c, <1>d, <1>e, <1>f, <1>g, <1>h, Directories, SetupAssumption, SMTT(30)
  DEF SetupInv, SetupTyped, Locked, RunsKnow, Active, ReadyStays, OnTrial, Exists, InPlace
<1>7. UsedIsStable'
  BY <1>a, <1>b, <1>c, <1>d, <1>e, <1>f, <1>g, <1>h, Directories, SetupAssumption, SMTT(30)
  DEF SetupInv, SetupTyped, Locked, RunsKnow, PartsOrdered, Active, UsedIsStable, OnTrial,
      Exists, InPlace
<1>8. ForeignIsKept'
  BY <1>a, <1>b, <1>c, <1>d, <1>e, <1>f, <1>g, <1>h, Directories, SetupAssumption, SMTT(30)
  DEF SetupInv, SetupTyped, RunsKnow, ForeignIsKept, InPlace
<1>q. QED BY <1>1, <1>2, <1>3, <1>4, <1>5, <1>6, <1>7, <1>8 DEF SetupInv

LEMMA ToolsRefusedKeeps ==
    ASSUME SetupInv, NEW p \in Setups, LookAtTools(p), Answers(p, "failed"), UNCHANGED staging
    PROVE  SetupInv'
<1>a. UNCHANGED <<what, direct, foreign, app, began, place, staging, serials>>
  BY DEF LookAtTools, Enters, LockFree
<1>b. setup' = [setup EXCEPT ![p] = "ended"]
  BY DEF Answers
<1>c. holder' = IF holder = p THEN NoRun ELSE holder
  BY DEF Answers
<1>d. vouched' = vouched
  BY DEF Answers
<1>e. what = "tools" /\ setup[p] = "idle" /\ (p \in direct \/ (holder = NoRun /\ ~app))
  BY DEF LookAtTools, LookAtAiRuntime, LookAtUploadRuntime, Enters, LockFree
<1>f. Complete' = Complete
  BY <1>a DEF Complete
<1>g. Complete \in Nat /\ Complete >= 2 /\ what \in {"environment", "tools", "ai", "upload"}
  BY Completes DEF SetupInv, SetupTyped
<1>h. place.parts \in Nat /\ \A q \in Setups : staging[q] \in Dirs /\ staging[q].parts \in Nat
  BY Directories DEF SetupInv, SetupTyped
<1>1. SetupTyped'
  BY <1>a, <1>b, <1>c, <1>d, <1>e, <1>f, <1>g, <1>h, Directories, SetupAssumption, SMTT(30)
  DEF SetupInv, SetupTyped, Active
<1>2. Locked'
  BY <1>a, <1>b, <1>c, <1>d, <1>e, <1>f, <1>g, <1>h, Directories, SetupAssumption, SMTT(30)
  DEF SetupInv, SetupTyped, Locked, Active
<1>3. RunsKnow'
  BY <1>a, <1>b, <1>c, <1>d, <1>e, <1>f, <1>g, <1>h, Directories, SetupAssumption, SMTT(30)
  DEF SetupInv, SetupTyped, Locked, RunsKnow, Active, ReadyStays, OnTrial, Exists, InPlace
<1>4. PartsOrdered'
  BY <1>a, <1>b, <1>c, <1>d, <1>e, <1>f, <1>g, <1>h, Directories, SetupAssumption, SMTT(30)
  DEF SetupInv, SetupTyped, PartsOrdered
<1>5. NamedIsComplete'
  BY <1>a, <1>b, <1>c, <1>d, <1>e, <1>f, <1>g, <1>h, Directories, SetupAssumption, SMTT(30)
  DEF SetupInv, SetupTyped, NamedIsComplete, InPlace, Exists
<1>6. ReadyStays'
  BY <1>a, <1>b, <1>c, <1>d, <1>e, <1>f, <1>g, <1>h, Directories, SetupAssumption, SMTT(30)
  DEF SetupInv, SetupTyped, Locked, RunsKnow, Active, ReadyStays, OnTrial, Exists, InPlace
<1>7. UsedIsStable'
  BY <1>a, <1>b, <1>c, <1>d, <1>e, <1>f, <1>g, <1>h, Directories, SetupAssumption, SMTT(30)
  DEF SetupInv, SetupTyped, Locked, RunsKnow, PartsOrdered, Active, UsedIsStable, OnTrial,
      Exists, InPlace
<1>8. ForeignIsKept'
  BY <1>a, <1>b, <1>c, <1>d, <1>e, <1>f, <1>g, <1>h, Directories, SetupAssumption, SMTT(30)
  DEF SetupInv, SetupTyped, RunsKnow, ForeignIsKept, InPlace
<1>q. QED BY <1>1, <1>2, <1>3, <1>4, <1>5, <1>6, <1>7, <1>8 DEF SetupInv

LEMMA AiRuntimeBuildsKeeps ==
    ASSUME SetupInv, NEW p \in Setups, LookAtAiRuntime(p), Proceeds(p, "building"),
           staging' = [staging EXCEPT ![p].by = p]
    PROVE  SetupInv'
<1>a. UNCHANGED <<what, direct, foreign, app, began, place, serials>>
  BY DEF LookAtAiRuntime, Enters, LockFree
<1>b. setup' = [setup EXCEPT ![p] = "building"]
  BY DEF Proceeds
<1>c. holder' = IF p \in direct THEN holder ELSE p
  BY DEF Proceeds
<1>d. vouched' = vouched
  BY DEF Proceeds
<1>e. what = "ai" /\ setup[p] = "idle" /\ (p \in direct \/ (holder = NoRun /\ ~app))
  BY DEF LookAtTools, LookAtAiRuntime, LookAtUploadRuntime, Enters, LockFree
<1>f. staging' \in [Setups -> Dirs]
  BY NewMaker DEF SetupInv, SetupTyped
<1>g. \A q \in Setups :
          /\ staging'[q].parts = staging[q].parts /\ staging'[q].half = staging[q].half
          /\ staging'[q].by = (IF q = p THEN p ELSE staging[q].by)
  BY NewMaker DEF SetupInv, SetupTyped
<1>h. Complete' = Complete
  BY <1>a DEF Complete
<1>i. Complete \in Nat /\ Complete >= 2 /\ what \in {"environment", "tools", "ai", "upload"}
  BY Completes DEF SetupInv, SetupTyped
<1>j. place.parts \in Nat /\ \A q \in Setups : staging[q] \in Dirs /\ staging[q].parts \in Nat
  BY Directories DEF SetupInv, SetupTyped
<1>1. SetupTyped'
  BY <1>a, <1>b, <1>c, <1>d, <1>e, <1>f, <1>g, <1>h, <1>i, <1>j, Directories, SetupAssumption,
     SMTT(30)
  DEF SetupInv, SetupTyped, Active
<1>2. Locked'
  BY <1>a, <1>b, <1>c, <1>d, <1>e, <1>f, <1>g, <1>h, <1>i, <1>j, Directories, SetupAssumption,
     SMTT(30)
  DEF SetupInv, SetupTyped, Locked, Active
<1>3. RunsKnow'
  BY <1>a, <1>b, <1>c, <1>d, <1>e, <1>f, <1>g, <1>h, <1>i, <1>j, Directories, SetupAssumption,
     SMTT(30)
  DEF SetupInv, SetupTyped, Locked, RunsKnow, Active, ReadyStays, OnTrial, Exists, InPlace
<1>4. PartsOrdered'
  BY <1>a, <1>b, <1>c, <1>d, <1>e, <1>f, <1>g, <1>h, <1>i, <1>j, Directories, SetupAssumption,
     SMTT(30)
  DEF SetupInv, SetupTyped, PartsOrdered
<1>5. NamedIsComplete'
  BY <1>a, <1>b, <1>c, <1>d, <1>e, <1>f, <1>g, <1>h, <1>i, <1>j, Directories, SetupAssumption,
     SMTT(30)
  DEF SetupInv, SetupTyped, NamedIsComplete, InPlace, Exists
<1>6. ReadyStays'
  BY <1>a, <1>b, <1>c, <1>d, <1>e, <1>f, <1>g, <1>h, <1>i, <1>j, Directories, SetupAssumption,
     SMTT(30)
  DEF SetupInv, SetupTyped, Locked, RunsKnow, Active, ReadyStays, OnTrial, Exists, InPlace
<1>7. UsedIsStable'
  BY <1>a, <1>b, <1>c, <1>d, <1>e, <1>f, <1>g, <1>h, <1>i, <1>j, Directories, SetupAssumption,
     SMTT(30)
  DEF SetupInv, SetupTyped, Locked, RunsKnow, PartsOrdered, Active, UsedIsStable, OnTrial,
      Exists, InPlace
<1>8. ForeignIsKept'
  BY <1>a, <1>b, <1>c, <1>d, <1>e, <1>f, <1>g, <1>h, <1>i, <1>j, Directories, SetupAssumption,
     SMTT(30)
  DEF SetupInv, SetupTyped, RunsKnow, ForeignIsKept, InPlace
<1>q. QED BY <1>1, <1>2, <1>3, <1>4, <1>5, <1>6, <1>7, <1>8 DEF SetupInv

LEMMA AiRuntimeAnswersKeeps ==
    ASSUME SetupInv, NEW p \in Setups, LookAtAiRuntime(p), UNCHANGED staging,
           Answers(p, IF p \notin direct /\ WholeDirectory(place) THEN "ready" ELSE "failed")
    PROVE  SetupInv'
<1>a. UNCHANGED <<what, direct, foreign, app, began, place, staging, serials>>
  BY DEF LookAtAiRuntime, Enters, LockFree
<1>b. what = "ai" /\ setup[p] = "idle" /\ (p \in direct \/ (holder = NoRun /\ ~app))
  BY DEF LookAtTools, LookAtAiRuntime, LookAtUploadRuntime, Enters, LockFree
<1>c. setup' = [setup EXCEPT ![p] = "ended"]
  BY DEF Answers
<1>d. holder' = IF holder = p THEN NoRun ELSE holder
  BY DEF Answers
<1>e. vouched' = vouched \/ (p \notin direct /\ vouched' = place.by /\ place.parts = Complete)
  BY <1>a DEF Answers, WholeDirectory
<1>f. Complete' = Complete
  BY <1>a DEF Complete
<1>g. Complete \in Nat /\ Complete >= 2 /\ what \in {"environment", "tools", "ai", "upload"}
  BY Completes DEF SetupInv, SetupTyped
<1>h. place.parts \in Nat /\ \A q \in Setups : staging[q] \in Dirs /\ staging[q].parts \in Nat
  BY Directories DEF SetupInv, SetupTyped
<1>1. SetupTyped'
  BY <1>a, <1>b, <1>c, <1>d, <1>e, <1>f, <1>g, <1>h, Directories, SetupAssumption, SMTT(30)
  DEF SetupInv, SetupTyped, Active
<1>2. Locked'
  BY <1>a, <1>b, <1>c, <1>d, <1>e, <1>f, <1>g, <1>h, Directories, SetupAssumption, SMTT(30)
  DEF SetupInv, SetupTyped, Locked, Active
<1>3. RunsKnow'
  BY <1>a, <1>b, <1>c, <1>d, <1>e, <1>f, <1>g, <1>h, Directories, SetupAssumption, SMTT(30)
  DEF SetupInv, SetupTyped, Locked, RunsKnow, Active, ReadyStays, OnTrial, Exists, InPlace
<1>4. PartsOrdered'
  BY <1>a, <1>b, <1>c, <1>d, <1>e, <1>f, <1>g, <1>h, Directories, SetupAssumption, SMTT(30)
  DEF SetupInv, SetupTyped, PartsOrdered
<1>5. NamedIsComplete'
  BY <1>a, <1>b, <1>c, <1>d, <1>e, <1>f, <1>g, <1>h, Directories, SetupAssumption, SMTT(30)
  DEF SetupInv, SetupTyped, NamedIsComplete, InPlace, Exists
<1>6. ReadyStays'
  BY <1>a, <1>b, <1>c, <1>d, <1>e, <1>f, <1>g, <1>h, Directories, SetupAssumption, SMTT(30)
  DEF SetupInv, SetupTyped, Locked, RunsKnow, Active, ReadyStays, OnTrial, Exists, InPlace
<1>7. UsedIsStable'
  BY <1>a, <1>b, <1>c, <1>d, <1>e, <1>f, <1>g, <1>h, Directories, SetupAssumption, SMTT(30)
  DEF SetupInv, SetupTyped, Locked, RunsKnow, PartsOrdered, Active, UsedIsStable, OnTrial,
      Exists, InPlace
<1>8. ForeignIsKept'
  BY <1>a, <1>b, <1>c, <1>d, <1>e, <1>f, <1>g, <1>h, Directories, SetupAssumption, SMTT(30)
  DEF SetupInv, SetupTyped, RunsKnow, ForeignIsKept, InPlace
<1>q. QED BY <1>1, <1>2, <1>3, <1>4, <1>5, <1>6, <1>7, <1>8 DEF SetupInv

LEMMA UploadRuntimeLooksKeeps ==
    ASSUME SetupInv, NEW p \in Setups, LookAtUploadRuntime(p), UNCHANGED place,
           Proceeds(p, "checking")
    PROVE  SetupInv'
<1>a. UNCHANGED <<what, direct, foreign, app, began, place, staging, serials>>
  BY DEF LookAtUploadRuntime, Enters, LockFree
<1>b. what = "upload" /\ setup[p] = "idle" /\ (p \in direct \/ (holder = NoRun /\ ~app))
  BY DEF LookAtTools, LookAtAiRuntime, LookAtUploadRuntime, Enters, LockFree
<1>c. direct = {} /\ ~app /\ holder = NoRun
  BY DEF LookAtUploadRuntime, Enters, LockFree, SetupInv, SetupTyped
<1>d. setup' = [setup EXCEPT ![p] = "checking"]
  BY DEF Proceeds
<1>e. holder' = IF p \in direct THEN holder ELSE p
  BY DEF Proceeds
<1>f. vouched' = vouched
  BY DEF Proceeds
<1>g. Complete' = Complete
  BY <1>a DEF Complete
<1>h. Complete \in Nat /\ Complete >= 2 /\ what \in {"environment", "tools", "ai", "upload"}
  BY Completes DEF SetupInv, SetupTyped
<1>i. place.parts \in Nat /\ \A q \in Setups : staging[q] \in Dirs /\ staging[q].parts \in Nat
  BY Directories DEF SetupInv, SetupTyped
<1>1. SetupTyped'
  BY <1>a, <1>b, <1>c, <1>d, <1>e, <1>f, <1>g, <1>h, <1>i, Directories, SetupAssumption,
     SMTT(30)
  DEF SetupInv, SetupTyped, Active
<1>2. Locked'
  BY <1>a, <1>b, <1>c, <1>d, <1>e, <1>f, <1>g, <1>h, <1>i, Directories, SetupAssumption,
     SMTT(30)
  DEF SetupInv, SetupTyped, Locked, Active
<1>3. RunsKnow'
  BY <1>a, <1>b, <1>c, <1>d, <1>e, <1>f, <1>g, <1>h, <1>i, Directories, SetupAssumption,
     SMTT(30)
  DEF SetupInv, SetupTyped, Locked, RunsKnow, Active, ReadyStays, OnTrial, Exists, InPlace
<1>4. PartsOrdered'
  BY <1>a, <1>b, <1>c, <1>d, <1>e, <1>f, <1>g, <1>h, <1>i, Directories, SetupAssumption,
     SMTT(30)
  DEF SetupInv, SetupTyped, PartsOrdered
<1>5. NamedIsComplete'
  BY <1>a, <1>b, <1>c, <1>d, <1>e, <1>f, <1>g, <1>h, <1>i, Directories, SetupAssumption,
     SMTT(30)
  DEF SetupInv, SetupTyped, NamedIsComplete, InPlace, Exists
<1>6. ReadyStays'
  BY <1>a, <1>b, <1>c, <1>d, <1>e, <1>f, <1>g, <1>h, <1>i, Directories, SetupAssumption,
     SMTT(30)
  DEF SetupInv, SetupTyped, Locked, RunsKnow, Active, ReadyStays, OnTrial, Exists, InPlace
<1>7. UsedIsStable'
  BY <1>a, <1>b, <1>c, <1>d, <1>e, <1>f, <1>g, <1>h, <1>i, Directories, SetupAssumption,
     SMTT(30)
  DEF SetupInv, SetupTyped, Locked, RunsKnow, PartsOrdered, Active, UsedIsStable, OnTrial,
      Exists, InPlace
<1>8. ForeignIsKept'
  BY <1>a, <1>b, <1>c, <1>d, <1>e, <1>f, <1>g, <1>h, <1>i, Directories, SetupAssumption,
     SMTT(30)
  DEF SetupInv, SetupTyped, RunsKnow, ForeignIsKept, InPlace
<1>q. QED BY <1>1, <1>2, <1>3, <1>4, <1>5, <1>6, <1>7, <1>8 DEF SetupInv

LEMMA UploadRuntimeRefusedKeeps ==
    ASSUME SetupInv, NEW p \in Setups, LookAtUploadRuntime(p), UNCHANGED place,
           Answers(p, "failed")
    PROVE  SetupInv'
<1>a. UNCHANGED <<what, direct, foreign, app, began, place, staging, serials>>
  BY DEF LookAtUploadRuntime, Enters, LockFree
<1>b. what = "upload" /\ setup[p] = "idle" /\ (p \in direct \/ (holder = NoRun /\ ~app))
  BY DEF LookAtTools, LookAtAiRuntime, LookAtUploadRuntime, Enters, LockFree
<1>c. direct = {} /\ ~app /\ holder = NoRun
  BY DEF LookAtUploadRuntime, Enters, LockFree, SetupInv, SetupTyped
<1>d. setup' = [setup EXCEPT ![p] = "ended"]
  BY DEF Answers
<1>e. holder' = IF holder = p THEN NoRun ELSE holder
  BY DEF Answers
<1>f. vouched' = vouched
  BY DEF Answers
<1>g. Complete' = Complete
  BY <1>a DEF Complete
<1>h. Complete \in Nat /\ Complete >= 2 /\ what \in {"environment", "tools", "ai", "upload"}
  BY Completes DEF SetupInv, SetupTyped
<1>i. place.parts \in Nat /\ \A q \in Setups : staging[q] \in Dirs /\ staging[q].parts \in Nat
  BY Directories DEF SetupInv, SetupTyped
<1>1. SetupTyped'
  BY <1>a, <1>b, <1>c, <1>d, <1>e, <1>f, <1>g, <1>h, <1>i, Directories, SetupAssumption,
     SMTT(30)
  DEF SetupInv, SetupTyped, Active
<1>2. Locked'
  BY <1>a, <1>b, <1>c, <1>d, <1>e, <1>f, <1>g, <1>h, <1>i, Directories, SetupAssumption,
     SMTT(30)
  DEF SetupInv, SetupTyped, Locked, Active
<1>3. RunsKnow'
  BY <1>a, <1>b, <1>c, <1>d, <1>e, <1>f, <1>g, <1>h, <1>i, Directories, SetupAssumption,
     SMTT(30)
  DEF SetupInv, SetupTyped, Locked, RunsKnow, Active, ReadyStays, OnTrial, Exists, InPlace
<1>4. PartsOrdered'
  BY <1>a, <1>b, <1>c, <1>d, <1>e, <1>f, <1>g, <1>h, <1>i, Directories, SetupAssumption,
     SMTT(30)
  DEF SetupInv, SetupTyped, PartsOrdered
<1>5. NamedIsComplete'
  BY <1>a, <1>b, <1>c, <1>d, <1>e, <1>f, <1>g, <1>h, <1>i, Directories, SetupAssumption,
     SMTT(30)
  DEF SetupInv, SetupTyped, NamedIsComplete, InPlace, Exists
<1>6. ReadyStays'
  BY <1>a, <1>b, <1>c, <1>d, <1>e, <1>f, <1>g, <1>h, <1>i, Directories, SetupAssumption,
     SMTT(30)
  DEF SetupInv, SetupTyped, Locked, RunsKnow, Active, ReadyStays, OnTrial, Exists, InPlace
<1>7. UsedIsStable'
  BY <1>a, <1>b, <1>c, <1>d, <1>e, <1>f, <1>g, <1>h, <1>i, Directories, SetupAssumption,
     SMTT(30)
  DEF SetupInv, SetupTyped, Locked, RunsKnow, PartsOrdered, Active, UsedIsStable, OnTrial,
      Exists, InPlace
<1>8. ForeignIsKept'
  BY <1>a, <1>b, <1>c, <1>d, <1>e, <1>f, <1>g, <1>h, <1>i, Directories, SetupAssumption,
     SMTT(30)
  DEF SetupInv, SetupTyped, RunsKnow, ForeignIsKept, InPlace
<1>q. QED BY <1>1, <1>2, <1>3, <1>4, <1>5, <1>6, <1>7, <1>8 DEF SetupInv

LEMMA UploadRuntimeInstallsKeeps ==
    ASSUME SetupInv, NEW p \in Setups, LookAtUploadRuntime(p), UploadVerdict = "install",
           Proceeds(p, "building"), place' = [place EXCEPT !.by = p]
    PROVE  SetupInv'
<1>a. UNCHANGED <<what, direct, foreign, app, began, staging, serials>>
  BY DEF LookAtUploadRuntime, Enters, LockFree
<1>b. what = "upload" /\ setup[p] = "idle" /\ (p \in direct \/ (holder = NoRun /\ ~app))
  BY DEF LookAtTools, LookAtAiRuntime, LookAtUploadRuntime, Enters, LockFree
<1>c. direct = {} /\ ~app /\ holder = NoRun
  BY DEF LookAtUploadRuntime, Enters, LockFree, SetupInv, SetupTyped
<1>d. setup' = [setup EXCEPT ![p] = "building"]
  BY DEF Proceeds
<1>e. holder' = IF p \in direct THEN holder ELSE p
  BY DEF Proceeds
<1>f. vouched' = vouched
  BY DEF Proceeds
<1>g. place.parts < Complete
  BY Directories, Completes DEF UploadVerdict, SetupInv, SetupTyped
<1>h. /\ place' \in Dirs /\ place'.by = p /\ place'.parts = place.parts
      /\ place'.half = place.half /\ place'.bad = place.bad
  BY NewMaker DEF SetupInv, SetupTyped
<1>i. vouched = NoRun /\ foreign = 0
  BY <1>b, <1>g, Directories, Completes DEF SetupInv, SetupTyped, ReadyStays, OnTrial
<1>j. Complete' = Complete
  BY <1>a DEF Complete
<1>k. Complete \in Nat /\ Complete >= 2 /\ what \in {"environment", "tools", "ai", "upload"}
  BY Completes DEF SetupInv, SetupTyped
<1>l. place.parts \in Nat /\ \A q \in Setups : staging[q] \in Dirs /\ staging[q].parts \in Nat
  BY Directories DEF SetupInv, SetupTyped
<1>1. SetupTyped'
  BY <1>a, <1>b, <1>c, <1>d, <1>e, <1>f, <1>g, <1>h, <1>i, <1>j, <1>k, <1>l, Directories,
     SetupAssumption, SMTT(30)
  DEF SetupInv, SetupTyped, Active
<1>2. Locked'
  BY <1>a, <1>b, <1>c, <1>d, <1>e, <1>f, <1>g, <1>h, <1>i, <1>j, <1>k, <1>l, Directories,
     SetupAssumption, SMTT(30)
  DEF SetupInv, SetupTyped, Locked, Active
<1>3. RunsKnow'
  BY <1>a, <1>b, <1>c, <1>d, <1>e, <1>f, <1>g, <1>h, <1>i, <1>j, <1>k, <1>l, Directories,
     SetupAssumption, SMTT(30)
  DEF SetupInv, SetupTyped, Locked, RunsKnow, Active, ReadyStays, OnTrial, Exists, InPlace
<1>4. PartsOrdered'
  BY <1>a, <1>b, <1>c, <1>d, <1>e, <1>f, <1>g, <1>h, <1>i, <1>j, <1>k, <1>l, Directories,
     SetupAssumption, SMTT(30)
  DEF SetupInv, SetupTyped, PartsOrdered
<1>5. NamedIsComplete'
  BY <1>a, <1>b, <1>c, <1>d, <1>e, <1>f, <1>g, <1>h, <1>i, <1>j, <1>k, <1>l, Directories,
     SetupAssumption, SMTT(30)
  DEF SetupInv, SetupTyped, NamedIsComplete, InPlace, Exists
<1>6. ReadyStays'
  BY <1>a, <1>b, <1>c, <1>d, <1>e, <1>f, <1>g, <1>h, <1>i, <1>j, <1>k, <1>l, Directories,
     SetupAssumption, SMTT(30)
  DEF SetupInv, SetupTyped, Locked, RunsKnow, Active, ReadyStays, OnTrial, Exists, InPlace
<1>7. UsedIsStable'
  BY <1>a, <1>b, <1>c, <1>d, <1>e, <1>f, <1>g, <1>h, <1>i, <1>j, <1>k, <1>l, Directories,
     SetupAssumption, SMTT(30)
  DEF SetupInv, SetupTyped, Locked, RunsKnow, PartsOrdered, Active, UsedIsStable, OnTrial,
      Exists, InPlace
<1>8. ForeignIsKept'
  BY <1>a, <1>b, <1>c, <1>d, <1>e, <1>f, <1>g, <1>h, <1>i, <1>j, <1>k, <1>l, Directories,
     SetupAssumption, SMTT(30)
  DEF SetupInv, SetupTyped, RunsKnow, ForeignIsKept, InPlace
<1>q. QED BY <1>1, <1>2, <1>3, <1>4, <1>5, <1>6, <1>7, <1>8 DEF SetupInv

LEMMA BuiltInPlaceKeeps ==
    ASSUME SetupInv, NEW p \in Setups, BeginPart(p), InPlace
    PROVE  SetupInv'
<1>a. UNCHANGED <<what, direct, foreign, app, began, staging, serials, setup, holder, vouched>>
  BY DEF BeginPart, Put, counters
<1>b. setup[p] = "building"
  BY DEF BeginPart, Put, counters
<1>c. PICK b \in BOOLEAN : place' = [place EXCEPT !.half = TRUE, !.bad = b]
  BY Directories DEF BeginPart, Put, Site, SetupInv, SetupTyped
<1>d. /\ place' \in Dirs /\ place'.by = place.by /\ place'.parts = place.parts
      /\ place'.half = TRUE
  BY <1>c, PartBegun DEF SetupInv, SetupTyped
<1>e. place.parts < Complete /\ what \in {"environment", "upload"}
  BY DEF BeginPart, Site, InPlace
<1>f. foreign = 0
  BY <1>b, SameMarks DEF SetupInv, SetupTyped, RunsKnow, ForeignIsKept
<1>g. Complete' = Complete
  BY <1>a DEF Complete
<1>h. Complete \in Nat /\ Complete >= 2 /\ what \in {"environment", "tools", "ai", "upload"}
  BY Completes DEF SetupInv, SetupTyped
<1>i. place.parts \in Nat /\ \A q \in Setups : staging[q] \in Dirs /\ staging[q].parts \in Nat
  BY Directories DEF SetupInv, SetupTyped
<1>1. SetupTyped'
  BY <1>a, <1>b, <1>d, <1>e, <1>f, <1>g, <1>h, <1>i, Directories, SetupAssumption, SMTT(30)
  DEF SetupInv, SetupTyped, Active
<1>2. Locked'
  BY <1>a, <1>b, <1>d, <1>e, <1>f, <1>g, <1>h, <1>i, Directories, SetupAssumption, SMTT(30)
  DEF SetupInv, SetupTyped, Locked, Active
<1>3. RunsKnow'
  BY <1>a, <1>b, <1>d, <1>e, <1>f, <1>g, <1>h, <1>i, Directories, SetupAssumption, SMTT(30)
  DEF SetupInv, SetupTyped, Locked, RunsKnow, Active, ReadyStays, OnTrial, Exists, InPlace
<1>4. PartsOrdered'
  BY <1>a, <1>b, <1>d, <1>e, <1>f, <1>g, <1>h, <1>i, Directories, SetupAssumption, SMTT(30)
  DEF SetupInv, SetupTyped, PartsOrdered
<1>5. NamedIsComplete'
  BY <1>a, <1>b, <1>d, <1>e, <1>f, <1>g, <1>h, <1>i, Directories, SetupAssumption, SMTT(30)
  DEF SetupInv, SetupTyped, NamedIsComplete, InPlace, Exists
<1>6. ReadyStays'
  BY <1>a, <1>b, <1>d, <1>e, <1>f, <1>g, <1>h, <1>i, Directories, SetupAssumption, SMTT(30)
  DEF SetupInv, SetupTyped, Locked, RunsKnow, Active, ReadyStays, OnTrial, Exists, InPlace
<1>7. UsedIsStable'
  BY <1>a, <1>b, <1>d, <1>e, <1>f, <1>g, <1>h, <1>i, Directories, SetupAssumption, SMTT(30)
  DEF SetupInv, SetupTyped, Locked, RunsKnow, PartsOrdered, Active, UsedIsStable, OnTrial,
      Exists, InPlace
<1>8. ForeignIsKept'
  BY <1>a, <1>b, <1>d, <1>e, <1>f, <1>g, <1>h, <1>i, Directories, SetupAssumption, SMTT(30)
  DEF SetupInv, SetupTyped, RunsKnow, ForeignIsKept, InPlace
<1>q. QED BY <1>1, <1>2, <1>3, <1>4, <1>5, <1>6, <1>7, <1>8 DEF SetupInv

LEMMA BuiltBesideKeeps ==
    ASSUME SetupInv, NEW p \in Setups, BeginPart(p), ~InPlace
    PROVE  SetupInv'
<1>a. UNCHANGED <<what, direct, foreign, app, began, place, serials, setup, holder, vouched>>
  BY DEF BeginPart, Put, counters
<1>b. setup[p] = "building"
  BY DEF BeginPart, Put, counters
<1>c. PICK b \in BOOLEAN :
        staging' = [staging EXCEPT ![p] = [staging[p] EXCEPT !.half = TRUE, !.bad = b]]
  BY Directories DEF BeginPart, Put, Site, SetupInv, SetupTyped
<1>d. PICK e \in Dirs : /\ staging' = [staging EXCEPT ![p] = e] /\ e.by = staging[p].by
                        /\ e.parts = staging[p].parts
  BY <1>c, PartBegun DEF SetupInv, SetupTyped
<1>e. /\ staging' \in [Setups -> Dirs] /\ staging'[p] = e
      /\ \A q \in Setups : q # p => staging'[q] = staging[q]
  BY <1>d DEF SetupInv, SetupTyped
<1>f. staging[p].parts < Complete
  BY DEF BeginPart, Site
<1>g. Complete' = Complete
  BY <1>a DEF Complete
<1>h. Complete \in Nat /\ Complete >= 2 /\ what \in {"environment", "tools", "ai", "upload"}
  BY Completes DEF SetupInv, SetupTyped
<1>i. place.parts \in Nat /\ \A q \in Setups : staging[q] \in Dirs /\ staging[q].parts \in Nat
  BY Directories DEF SetupInv, SetupTyped
<1>1. SetupTyped'
  BY <1>a, <1>b, <1>d, <1>e, <1>f, <1>g, <1>h, <1>i, Directories, SetupAssumption, SMTT(30)
  DEF SetupInv, SetupTyped, Active
<1>2. Locked'
  BY <1>a, <1>b, <1>d, <1>e, <1>f, <1>g, <1>h, <1>i, Directories, SetupAssumption, SMTT(30)
  DEF SetupInv, SetupTyped, Locked, Active
<1>3. RunsKnow'
  BY <1>a, <1>b, <1>d, <1>e, <1>f, <1>g, <1>h, <1>i, Directories, SetupAssumption, SMTT(30)
  DEF SetupInv, SetupTyped, Locked, RunsKnow, Active, ReadyStays, OnTrial, Exists, InPlace
<1>4. PartsOrdered'
  BY <1>a, <1>b, <1>d, <1>e, <1>f, <1>g, <1>h, <1>i, Directories, SetupAssumption, SMTT(30)
  DEF SetupInv, SetupTyped, PartsOrdered
<1>5. NamedIsComplete'
  BY <1>a, <1>b, <1>d, <1>e, <1>f, <1>g, <1>h, <1>i, Directories, SetupAssumption, SMTT(30)
  DEF SetupInv, SetupTyped, NamedIsComplete, InPlace, Exists
<1>6. ReadyStays'
  BY <1>a, <1>b, <1>d, <1>e, <1>f, <1>g, <1>h, <1>i, Directories, SetupAssumption, SMTT(30)
  DEF SetupInv, SetupTyped, Locked, RunsKnow, Active, ReadyStays, OnTrial, Exists, InPlace
<1>7. UsedIsStable'
  BY <1>a, <1>b, <1>d, <1>e, <1>f, <1>g, <1>h, <1>i, Directories, SetupAssumption, SMTT(30)
  DEF SetupInv, SetupTyped, Locked, RunsKnow, PartsOrdered, Active, UsedIsStable, OnTrial,
      Exists, InPlace
<1>8. ForeignIsKept'
  BY <1>a, <1>b, <1>d, <1>e, <1>f, <1>g, <1>h, <1>i, Directories, SetupAssumption, SMTT(30)
  DEF SetupInv, SetupTyped, RunsKnow, ForeignIsKept, InPlace
<1>q. QED BY <1>1, <1>2, <1>3, <1>4, <1>5, <1>6, <1>7, <1>8 DEF SetupInv

LEMMA EndedInPlaceKeeps ==
    ASSUME SetupInv, NEW p \in Setups, EndPart(p), InPlace
    PROVE  SetupInv'
<1>a. UNCHANGED <<what, direct, foreign, app, began, staging, setup, holder, vouched>>
  BY DEF EndPart, Put, counters
<1>b. setup[p] = "building"
  BY DEF EndPart, Put, counters
<1>c. serials' \in Nat
  BY DEF EndPart, SetupInv, SetupTyped
<1>d. PICK n \in Nat :
        place' = [place EXCEPT !.parts = place.parts + 1, !.half = FALSE, !.serial = n]
  BY <1>c DEF EndPart, Put, Site, SetupInv, SetupTyped, Dirs
<1>e. place \in Dirs
  BY <1>d DEF SetupInv, SetupTyped
<1>f. place' \in Dirs /\ place'.by = place.by /\ place'.parts = place.parts + 1 /\ ~place'.half
  BY PartEnded, <1>d, <1>e, Zenon
<1>g. ~place.bad
  BY DEF EndPart, PartIsRight, Site
<1>h. ~place'.bad
  BY RightPartEnded, <1>d, <1>e, <1>g, Zenon
<1>i. place.half /\ place.parts + 1 <= Complete /\ what \in {"environment", "upload"}
  BY Completes, Directories DEF EndPart, Site, InPlace, SetupInv, SetupTyped, PartsOrdered
<1>j. place.by # NoRun
  BY <1>b, <1>i, SetupAssumption DEF SetupInv, SetupTyped, RunsKnow
<1>k. foreign = 0
  BY <1>b, SameMarks DEF SetupInv, SetupTyped, RunsKnow, ForeignIsKept
<1>l. Complete' = Complete
  BY <1>a DEF Complete
<1>m. Complete \in Nat /\ Complete >= 2 /\ what \in {"environment", "tools", "ai", "upload"}
  BY Completes DEF SetupInv, SetupTyped
<1>n. place.parts \in Nat /\ \A q \in Setups : staging[q] \in Dirs /\ staging[q].parts \in Nat
  BY Directories DEF SetupInv, SetupTyped
<1>1. SetupTyped'
  BY <1>a, <1>b, <1>c, <1>e, <1>f, <1>g, <1>h, <1>i, <1>j, <1>k, <1>l, <1>m, <1>n, Directories,
     SetupAssumption, SMTT(30)
  DEF SetupInv, SetupTyped, Active
<1>2. Locked'
  BY <1>a, <1>b, <1>c, <1>e, <1>f, <1>g, <1>h, <1>i, <1>j, <1>k, <1>l, <1>m, <1>n, Directories,
     SetupAssumption, SMTT(30)
  DEF SetupInv, SetupTyped, Locked, Active
<1>3. RunsKnow'
  BY <1>a, <1>b, <1>c, <1>e, <1>f, <1>g, <1>h, <1>i, <1>j, <1>k, <1>l, <1>m, <1>n, Directories,
     SetupAssumption, SMTT(30)
  DEF SetupInv, SetupTyped, Locked, RunsKnow, Active, ReadyStays, OnTrial, Exists, InPlace
<1>4. PartsOrdered'
  BY <1>a, <1>b, <1>c, <1>e, <1>f, <1>g, <1>h, <1>i, <1>j, <1>k, <1>l, <1>m, <1>n, Directories,
     SetupAssumption, SMTT(30)
  DEF SetupInv, SetupTyped, PartsOrdered
<1>5. NamedIsComplete'
  BY <1>a, <1>b, <1>c, <1>e, <1>f, <1>g, <1>h, <1>i, <1>j, <1>k, <1>l, <1>m, <1>n, Directories,
     SetupAssumption, SMTT(30)
  DEF SetupInv, SetupTyped, NamedIsComplete, InPlace, Exists
<1>6. ReadyStays'
  BY <1>a, <1>b, <1>c, <1>e, <1>f, <1>g, <1>h, <1>i, <1>j, <1>k, <1>l, <1>m, <1>n, Directories,
     SetupAssumption, SMTT(30)
  DEF SetupInv, SetupTyped, Locked, RunsKnow, Active, ReadyStays, OnTrial, Exists, InPlace
<1>7. UsedIsStable'
  BY <1>a, <1>b, <1>c, <1>e, <1>f, <1>g, <1>h, <1>i, <1>j, <1>k, <1>l, <1>m, <1>n, Directories,
     SetupAssumption, SMTT(30)
  DEF SetupInv, SetupTyped, Locked, RunsKnow, PartsOrdered, Active, UsedIsStable, OnTrial,
      Exists, InPlace
<1>8. ForeignIsKept'
  BY <1>a, <1>b, <1>c, <1>e, <1>f, <1>g, <1>h, <1>i, <1>j, <1>k, <1>l, <1>m, <1>n, Directories,
     SetupAssumption, SMTT(30)
  DEF SetupInv, SetupTyped, RunsKnow, ForeignIsKept, InPlace
<1>q. QED BY <1>1, <1>2, <1>3, <1>4, <1>5, <1>6, <1>7, <1>8 DEF SetupInv

LEMMA EndedBesideKeeps ==
    ASSUME SetupInv, NEW p \in Setups, EndPart(p), ~InPlace
    PROVE  SetupInv'
<1>a. UNCHANGED <<what, direct, foreign, app, began, place, setup, holder, vouched>>
  BY DEF EndPart, Put, counters
<1>b. setup[p] = "building"
  BY DEF EndPart, Put, counters
<1>c. serials' \in Nat
  BY DEF EndPart, SetupInv, SetupTyped
<1>d. PICK n \in Nat :
        staging' = [staging EXCEPT ![p] =
          [staging[p] EXCEPT !.parts = staging[p].parts + 1, !.half = FALSE, !.serial = n]]
  BY <1>c DEF EndPart, Put, Site, SetupInv, SetupTyped, Dirs
<1>e. staging[p] \in Dirs /\ staging[p].parts + 1 \in Nat
  BY <1>d, Directories DEF SetupInv, SetupTyped
<1>f. PICK e \in Dirs : /\ staging' = [staging EXCEPT ![p] = e] /\ e.by = staging[p].by
                        /\ e.parts = staging[p].parts + 1 /\ ~e.half
  BY PartEnded, <1>d, <1>e, Zenon
<1>g. /\ staging' \in [Setups -> Dirs] /\ staging'[p] = e
      /\ \A q \in Setups : q # p => staging'[q] = staging[q]
  BY <1>f DEF SetupInv, SetupTyped
<1>h. staging[p].parts + 1 <= Complete
  BY Completes, Directories DEF EndPart, Site, SetupInv, SetupTyped, PartsOrdered
<1>i. Complete' = Complete
  BY <1>a DEF Complete
<1>j. Complete \in Nat /\ Complete >= 2 /\ what \in {"environment", "tools", "ai", "upload"}
  BY Completes DEF SetupInv, SetupTyped
<1>k. place.parts \in Nat /\ \A q \in Setups : staging[q] \in Dirs /\ staging[q].parts \in Nat
  BY Directories DEF SetupInv, SetupTyped
<1>1. SetupTyped'
  BY <1>a, <1>b, <1>c, <1>e, <1>f, <1>g, <1>h, <1>i, <1>j, <1>k, Directories, SetupAssumption,
     SMTT(30)
  DEF SetupInv, SetupTyped, Active
<1>2. Locked'
  BY <1>a, <1>b, <1>c, <1>e, <1>f, <1>g, <1>h, <1>i, <1>j, <1>k, Directories, SetupAssumption,
     SMTT(30)
  DEF SetupInv, SetupTyped, Locked, Active
<1>3. RunsKnow'
  BY <1>a, <1>b, <1>c, <1>e, <1>f, <1>g, <1>h, <1>i, <1>j, <1>k, Directories, SetupAssumption,
     SMTT(30)
  DEF SetupInv, SetupTyped, Locked, RunsKnow, Active, ReadyStays, OnTrial, Exists, InPlace
<1>4. PartsOrdered'
  BY <1>a, <1>b, <1>c, <1>e, <1>f, <1>g, <1>h, <1>i, <1>j, <1>k, Directories, SetupAssumption,
     SMTT(30)
  DEF SetupInv, SetupTyped, PartsOrdered
<1>5. NamedIsComplete'
  BY <1>a, <1>b, <1>c, <1>e, <1>f, <1>g, <1>h, <1>i, <1>j, <1>k, Directories, SetupAssumption,
     SMTT(30)
  DEF SetupInv, SetupTyped, NamedIsComplete, InPlace, Exists
<1>6. ReadyStays'
  BY <1>a, <1>b, <1>c, <1>e, <1>f, <1>g, <1>h, <1>i, <1>j, <1>k, Directories, SetupAssumption,
     SMTT(30)
  DEF SetupInv, SetupTyped, Locked, RunsKnow, Active, ReadyStays, OnTrial, Exists, InPlace
<1>7. UsedIsStable'
  BY <1>a, <1>b, <1>c, <1>e, <1>f, <1>g, <1>h, <1>i, <1>j, <1>k, Directories, SetupAssumption,
     SMTT(30)
  DEF SetupInv, SetupTyped, Locked, RunsKnow, PartsOrdered, Active, UsedIsStable, OnTrial,
      Exists, InPlace
<1>8. ForeignIsKept'
  BY <1>a, <1>b, <1>c, <1>e, <1>f, <1>g, <1>h, <1>i, <1>j, <1>k, Directories, SetupAssumption,
     SMTT(30)
  DEF SetupInv, SetupTyped, RunsKnow, ForeignIsKept, InPlace
<1>q. QED BY <1>1, <1>2, <1>3, <1>4, <1>5, <1>6, <1>7, <1>8 DEF SetupInv

LEMMA ToolsPublishedKeeps ==
    ASSUME SetupInv, NEW p \in Setups, Publish(p), what = "tools"
    PROVE  SetupInv'
<1>a. UNCHANGED <<what, direct, foreign, app, began, serials>>
  BY DEF Publish
<1>b. ~InPlace /\ ~Exists /\ setup[p] = "building"
  BY DEF Publish
<1>c. place' \in Dirs /\ place'.parts = Complete /\ ~place'.half
  BY Completes, Directories DEF Publish, SetupInv, SetupTyped, PartsOrdered
<1>d. place'.by = p
  BY Completes DEF Publish, SetupInv, SetupTyped, RunsKnow, InPlace
<1>e. staging' = [staging EXCEPT ![p] = NoDirectory]
  BY Directories DEF Publish, SetupInv, SetupTyped
<1>f. setup' = [setup EXCEPT ![p] = "ended"]
  BY DEF Publish, Answers
<1>g. holder' = IF holder = p THEN NoRun ELSE holder
  BY DEF Publish, Answers
<1>h. vouched' = place'.by
  BY DEF Publish, Answers
<1>i. Complete' = Complete
  BY <1>a DEF Complete
<1>j. Complete \in Nat /\ Complete >= 2 /\ what \in {"environment", "tools", "ai", "upload"}
  BY Completes DEF SetupInv, SetupTyped
<1>k. place.parts \in Nat /\ \A q \in Setups : staging[q] \in Dirs /\ staging[q].parts \in Nat
  BY Directories DEF SetupInv, SetupTyped
<1>1. SetupTyped'
  BY <1>a, <1>b, <1>c, <1>d, <1>e, <1>f, <1>g, <1>h, <1>i, <1>j, <1>k, Directories,
     SetupAssumption, SMTT(30)
  DEF SetupInv, SetupTyped, Active
<1>2. Locked'
  BY <1>a, <1>b, <1>c, <1>d, <1>e, <1>f, <1>g, <1>h, <1>i, <1>j, <1>k, Directories,
     SetupAssumption, SMTT(30)
  DEF SetupInv, SetupTyped, Locked, Active
<1>3. RunsKnow'
  BY <1>a, <1>b, <1>c, <1>d, <1>e, <1>f, <1>g, <1>h, <1>i, <1>j, <1>k, Directories,
     SetupAssumption, SMTT(30)
  DEF SetupInv, SetupTyped, Locked, RunsKnow, Active, ReadyStays, OnTrial, Exists, InPlace
<1>4. PartsOrdered'
  BY <1>a, <1>b, <1>c, <1>d, <1>e, <1>f, <1>g, <1>h, <1>i, <1>j, <1>k, Directories,
     SetupAssumption, SMTT(30)
  DEF SetupInv, SetupTyped, PartsOrdered
<1>5. NamedIsComplete'
  BY <1>a, <1>b, <1>c, <1>d, <1>e, <1>f, <1>g, <1>h, <1>i, <1>j, <1>k, Directories,
     SetupAssumption, SMTT(30)
  DEF SetupInv, SetupTyped, NamedIsComplete, InPlace, Exists
<1>6. ReadyStays'
  BY <1>a, <1>b, <1>c, <1>d, <1>e, <1>f, <1>g, <1>h, <1>i, <1>j, <1>k, Directories,
     SetupAssumption, SMTT(30)
  DEF SetupInv, SetupTyped, Locked, RunsKnow, Active, ReadyStays, OnTrial, Exists, InPlace
<1>7. UsedIsStable'
  BY <1>a, <1>b, <1>c, <1>d, <1>e, <1>f, <1>g, <1>h, <1>i, <1>j, <1>k, Directories,
     SetupAssumption, SMTT(30)
  DEF SetupInv, SetupTyped, Locked, RunsKnow, PartsOrdered, Active, UsedIsStable, OnTrial,
      Exists, InPlace
<1>8. ForeignIsKept'
  BY <1>a, <1>b, <1>c, <1>d, <1>e, <1>f, <1>g, <1>h, <1>i, <1>j, <1>k, Directories,
     SetupAssumption, SMTT(30)
  DEF SetupInv, SetupTyped, RunsKnow, ForeignIsKept, InPlace
<1>q. QED BY <1>1, <1>2, <1>3, <1>4, <1>5, <1>6, <1>7, <1>8 DEF SetupInv

LEMMA AiRuntimePublishedKeeps ==
    ASSUME SetupInv, NEW p \in Setups, Publish(p), what # "tools"
    PROVE  SetupInv'
<1>a. UNCHANGED <<what, direct, foreign, app, began, serials>>
  BY DEF Publish
<1>b. ~InPlace /\ ~Exists /\ setup[p] = "building"
  BY DEF Publish
<1>c. place' \in Dirs /\ place'.parts = Complete /\ ~place'.half
  BY Completes, Directories DEF Publish, SetupInv, SetupTyped, PartsOrdered
<1>d. place'.by = p
  BY Completes DEF Publish, SetupInv, SetupTyped, RunsKnow, InPlace
<1>e. staging' = [staging EXCEPT ![p] = NoDirectory]
  BY Directories DEF Publish, SetupInv, SetupTyped
<1>f. setup' = [setup EXCEPT ![p] = "validating"] /\ UNCHANGED <<holder, vouched>>
  BY DEF Publish, To
<1>g. what = "ai"
  BY Completes, <1>b DEF InPlace, SetupInv, SetupTyped
<1>h. Complete' = Complete
  BY <1>a DEF Complete
<1>i. Complete \in Nat /\ Complete >= 2 /\ what \in {"environment", "tools", "ai", "upload"}
  BY Completes DEF SetupInv, SetupTyped
<1>j. place.parts \in Nat /\ \A q \in Setups : staging[q] \in Dirs /\ staging[q].parts \in Nat
  BY Directories DEF SetupInv, SetupTyped
<1>1. SetupTyped'
  BY <1>a, <1>b, <1>c, <1>d, <1>e, <1>f, <1>g, <1>h, <1>i, <1>j, Directories, SetupAssumption,
     SMTT(30)
  DEF SetupInv, SetupTyped, Active
<1>2. Locked'
  BY <1>a, <1>b, <1>c, <1>d, <1>e, <1>f, <1>g, <1>h, <1>i, <1>j, Directories, SetupAssumption,
     SMTT(30)
  DEF SetupInv, SetupTyped, Locked, Active
<1>3. RunsKnow'
  BY <1>a, <1>b, <1>c, <1>d, <1>e, <1>f, <1>g, <1>h, <1>i, <1>j, Directories, SetupAssumption,
     SMTT(30)
  DEF SetupInv, SetupTyped, Locked, RunsKnow, Active, ReadyStays, OnTrial, Exists, InPlace
<1>4. PartsOrdered'
  BY <1>a, <1>b, <1>c, <1>d, <1>e, <1>f, <1>g, <1>h, <1>i, <1>j, Directories, SetupAssumption,
     SMTT(30)
  DEF SetupInv, SetupTyped, PartsOrdered
<1>5. NamedIsComplete'
  BY <1>a, <1>b, <1>c, <1>d, <1>e, <1>f, <1>g, <1>h, <1>i, <1>j, Directories, SetupAssumption,
     SMTT(30)
  DEF SetupInv, SetupTyped, NamedIsComplete, InPlace, Exists
<1>6. ReadyStays'
  BY <1>a, <1>b, <1>c, <1>d, <1>e, <1>f, <1>g, <1>h, <1>i, <1>j, Directories, SetupAssumption,
     SMTT(30)
  DEF SetupInv, SetupTyped, Locked, RunsKnow, Active, ReadyStays, OnTrial, Exists, InPlace
<1>7. UsedIsStable'
  BY <1>a, <1>b, <1>c, <1>d, <1>e, <1>f, <1>g, <1>h, <1>i, <1>j, Directories, SetupAssumption,
     SMTT(30)
  DEF SetupInv, SetupTyped, Locked, RunsKnow, PartsOrdered, Active, UsedIsStable, OnTrial,
      Exists, InPlace
<1>8. ForeignIsKept'
  BY <1>a, <1>b, <1>c, <1>d, <1>e, <1>f, <1>g, <1>h, <1>i, <1>j, Directories, SetupAssumption,
     SMTT(30)
  DEF SetupInv, SetupTyped, RunsKnow, ForeignIsKept, InPlace
<1>q. QED BY <1>1, <1>2, <1>3, <1>4, <1>5, <1>6, <1>7, <1>8 DEF SetupInv

LEMMA FinishKeeps ==
    ASSUME SetupInv, NEW p \in Setups, Finish(p)
    PROVE  SetupInv'
<1>a. UNCHANGED <<what, direct, foreign, app, began, place, staging, serials>>
  BY DEF Finish
<1>b. setup' = [setup EXCEPT ![p] = "ended"]
  BY DEF Finish, Answers
<1>c. holder' = IF holder = p THEN NoRun ELSE holder
  BY DEF Finish, Answers
<1>d. vouched' = vouched \/ vouched' = place.by
  BY DEF Finish, Answers
<1>e. setup[p] = "validating" \/ (setup[p] = "building" /\ InPlace /\ place.parts = Complete)
  BY DEF Finish
<1>f. what = "environment" \/ place.parts = Complete
  BY DEF Finish, WholeDirectory
<1>g. vouched' = place.by
  BY DEF Finish, Answers
<1>h. Complete' = Complete
  BY <1>a DEF Complete
<1>i. Complete \in Nat /\ Complete >= 2 /\ what \in {"environment", "tools", "ai", "upload"}
  BY Completes DEF SetupInv, SetupTyped
<1>j. place.parts \in Nat /\ \A q \in Setups : staging[q] \in Dirs /\ staging[q].parts \in Nat
  BY Directories DEF SetupInv, SetupTyped
<1>1. SetupTyped'
  BY <1>a, <1>b, <1>c, <1>d, <1>e, <1>f, <1>g, <1>h, <1>i, <1>j, Directories, SetupAssumption,
     SMTT(30)
  DEF SetupInv, SetupTyped, Active
<1>2. Locked'
  BY <1>a, <1>b, <1>c, <1>d, <1>e, <1>f, <1>g, <1>h, <1>i, <1>j, Directories, SetupAssumption,
     SMTT(30)
  DEF SetupInv, SetupTyped, Locked, Active
<1>3. RunsKnow'
  BY <1>a, <1>b, <1>c, <1>d, <1>e, <1>f, <1>g, <1>h, <1>i, <1>j, Directories, SetupAssumption,
     SMTT(30)
  DEF SetupInv, SetupTyped, Locked, RunsKnow, Active, ReadyStays, OnTrial, Exists, InPlace
<1>4. PartsOrdered'
  BY <1>a, <1>b, <1>c, <1>d, <1>e, <1>f, <1>g, <1>h, <1>i, <1>j, Directories, SetupAssumption,
     SMTT(30)
  DEF SetupInv, SetupTyped, PartsOrdered
<1>5. NamedIsComplete'
  BY <1>a, <1>b, <1>c, <1>d, <1>e, <1>f, <1>g, <1>h, <1>i, <1>j, Directories, SetupAssumption,
     SMTT(30)
  DEF SetupInv, SetupTyped, NamedIsComplete, InPlace, Exists
<1>6. ReadyStays'
  BY <1>a, <1>b, <1>c, <1>d, <1>e, <1>f, <1>g, <1>h, <1>i, <1>j, Directories, SetupAssumption,
     SMTT(30)
  DEF SetupInv, SetupTyped, Locked, RunsKnow, Active, ReadyStays, OnTrial, Exists, InPlace
<1>7. UsedIsStable'
  BY <1>a, <1>b, <1>c, <1>d, <1>e, <1>f, <1>g, <1>h, <1>i, <1>j, Directories, SetupAssumption,
     SMTT(30)
  DEF SetupInv, SetupTyped, Locked, RunsKnow, PartsOrdered, Active, UsedIsStable, OnTrial,
      Exists, InPlace
<1>8. ForeignIsKept'
  BY <1>a, <1>b, <1>c, <1>d, <1>e, <1>f, <1>g, <1>h, <1>i, <1>j, Directories, SetupAssumption,
     SMTT(30)
  DEF SetupInv, SetupTyped, RunsKnow, ForeignIsKept, InPlace
<1>q. QED BY <1>1, <1>2, <1>3, <1>4, <1>5, <1>6, <1>7, <1>8 DEF SetupInv

LEMMA UnvouchKeeps ==
    ASSUME SetupInv, NEW p \in Setups, Unvouch(p)
    PROVE  SetupInv'
<1>a. UNCHANGED <<what, direct, foreign, app, began, staging, serials>>
  BY DEF Unvouch
<1>b. setup' = [setup EXCEPT ![p] = "ended"]
  BY DEF Unvouch, Answers
<1>c. holder' = IF holder = p THEN NoRun ELSE holder
  BY DEF Unvouch, Answers
<1>d. vouched' = vouched
  BY DEF Unvouch, Answers
<1>e. what = "upload" /\ setup[p] = "building" /\ place.parts = Complete
  BY DEF Unvouch
<1>f. Complete - 1 \in Nat
  BY Completes DEF SetupInv, SetupTyped
<1>g. /\ place' \in Dirs /\ place'.by = place.by /\ place'.parts = Complete - 1
      /\ place'.half = place.half /\ place'.bad = place.bad
  BY NothingPending, <1>f DEF Unvouch, SetupInv, SetupTyped
<1>h. Complete' = Complete
  BY <1>a DEF Complete
<1>i. Complete \in Nat /\ Complete >= 2 /\ what \in {"environment", "tools", "ai", "upload"}
  BY Completes DEF SetupInv, SetupTyped
<1>j. place.parts \in Nat /\ \A q \in Setups : staging[q] \in Dirs /\ staging[q].parts \in Nat
  BY Directories DEF SetupInv, SetupTyped
<1>1. SetupTyped'
  BY <1>a, <1>b, <1>c, <1>d, <1>e, <1>f, <1>g, <1>h, <1>i, <1>j, Directories, SetupAssumption,
     SMTT(30)
  DEF SetupInv, SetupTyped, Active
<1>2. Locked'
  BY <1>a, <1>b, <1>c, <1>d, <1>e, <1>f, <1>g, <1>h, <1>i, <1>j, Directories, SetupAssumption,
     SMTT(30)
  DEF SetupInv, SetupTyped, Locked, Active
<1>3. RunsKnow'
  BY <1>a, <1>b, <1>c, <1>d, <1>e, <1>f, <1>g, <1>h, <1>i, <1>j, Directories, SetupAssumption,
     SMTT(30)
  DEF SetupInv, SetupTyped, Locked, RunsKnow, Active, ReadyStays, OnTrial, Exists, InPlace
<1>4. PartsOrdered'
  BY <1>a, <1>b, <1>c, <1>d, <1>e, <1>f, <1>g, <1>h, <1>i, <1>j, Directories, SetupAssumption,
     SMTT(30)
  DEF SetupInv, SetupTyped, PartsOrdered
<1>5. NamedIsComplete'
  BY <1>a, <1>b, <1>c, <1>d, <1>e, <1>f, <1>g, <1>h, <1>i, <1>j, Directories, SetupAssumption,
     SMTT(30)
  DEF SetupInv, SetupTyped, NamedIsComplete, InPlace, Exists
<1>6. ReadyStays'
  BY <1>a, <1>b, <1>c, <1>d, <1>e, <1>f, <1>g, <1>h, <1>i, <1>j, Directories, SetupAssumption,
     SMTT(30)
  DEF SetupInv, SetupTyped, Locked, RunsKnow, Active, ReadyStays, OnTrial, Exists, InPlace
<1>7. UsedIsStable'
  BY <1>a, <1>b, <1>c, <1>d, <1>e, <1>f, <1>g, <1>h, <1>i, <1>j, Directories, SetupAssumption,
     SMTT(30)
  DEF SetupInv, SetupTyped, Locked, RunsKnow, PartsOrdered, Active, UsedIsStable, OnTrial,
      Exists, InPlace
<1>8. ForeignIsKept'
  BY <1>a, <1>b, <1>c, <1>d, <1>e, <1>f, <1>g, <1>h, <1>i, <1>j, Directories, SetupAssumption,
     SMTT(30)
  DEF SetupInv, SetupTyped, RunsKnow, ForeignIsKept, InPlace
<1>q. QED BY <1>1, <1>2, <1>3, <1>4, <1>5, <1>6, <1>7, <1>8 DEF SetupInv

LEMMA FailsBesideKeeps ==
    ASSUME SetupInv, NEW p \in Setups, Fails(p), UNCHANGED place
    PROVE  SetupInv'
<1>a. UNCHANGED <<what, direct, foreign, app, began, serials>>
  BY DEF Fails
<1>b. setup' = [setup EXCEPT ![p] = "ended"]
  BY DEF Fails, Answers
<1>c. holder' = IF holder = p THEN NoRun ELSE holder
  BY DEF Fails, Answers
<1>d. vouched' = vouched
  BY DEF Fails, Answers
<1>e. staging' = [staging EXCEPT ![p] = NoDirectory]
  BY DEF Fails
<1>f. setup[p] \in {"building", "validating"}
  BY DEF Fails
<1>g. Complete' = Complete
  BY <1>a DEF Complete
<1>h. Complete \in Nat /\ Complete >= 2 /\ what \in {"environment", "tools", "ai", "upload"}
  BY Completes DEF SetupInv, SetupTyped
<1>i. place.parts \in Nat /\ \A q \in Setups : staging[q] \in Dirs /\ staging[q].parts \in Nat
  BY Directories DEF SetupInv, SetupTyped
<1>1. SetupTyped'
  BY <1>a, <1>b, <1>c, <1>d, <1>e, <1>f, <1>g, <1>h, <1>i, Directories, SetupAssumption,
     SMTT(30)
  DEF SetupInv, SetupTyped, Active
<1>2. Locked'
  BY <1>a, <1>b, <1>c, <1>d, <1>e, <1>f, <1>g, <1>h, <1>i, Directories, SetupAssumption,
     SMTT(30)
  DEF SetupInv, SetupTyped, Locked, Active
<1>3. RunsKnow'
  BY <1>a, <1>b, <1>c, <1>d, <1>e, <1>f, <1>g, <1>h, <1>i, Directories, SetupAssumption,
     SMTT(30)
  DEF SetupInv, SetupTyped, Locked, RunsKnow, Active, ReadyStays, OnTrial, Exists, InPlace
<1>4. PartsOrdered'
  BY <1>a, <1>b, <1>c, <1>d, <1>e, <1>f, <1>g, <1>h, <1>i, Directories, SetupAssumption,
     SMTT(30)
  DEF SetupInv, SetupTyped, PartsOrdered
<1>5. NamedIsComplete'
  BY <1>a, <1>b, <1>c, <1>d, <1>e, <1>f, <1>g, <1>h, <1>i, Directories, SetupAssumption,
     SMTT(30)
  DEF SetupInv, SetupTyped, NamedIsComplete, InPlace, Exists
<1>6. ReadyStays'
  BY <1>a, <1>b, <1>c, <1>d, <1>e, <1>f, <1>g, <1>h, <1>i, Directories, SetupAssumption,
     SMTT(30)
  DEF SetupInv, SetupTyped, Locked, RunsKnow, Active, ReadyStays, OnTrial, Exists, InPlace
<1>7. UsedIsStable'
  BY <1>a, <1>b, <1>c, <1>d, <1>e, <1>f, <1>g, <1>h, <1>i, Directories, SetupAssumption,
     SMTT(30)
  DEF SetupInv, SetupTyped, Locked, RunsKnow, PartsOrdered, Active, UsedIsStable, OnTrial,
      Exists, InPlace
<1>8. ForeignIsKept'
  BY <1>a, <1>b, <1>c, <1>d, <1>e, <1>f, <1>g, <1>h, <1>i, Directories, SetupAssumption,
     SMTT(30)
  DEF SetupInv, SetupTyped, RunsKnow, ForeignIsKept, InPlace
<1>q. QED BY <1>1, <1>2, <1>3, <1>4, <1>5, <1>6, <1>7, <1>8 DEF SetupInv

LEMMA FailsPublishedKeeps ==
    ASSUME SetupInv, NEW p \in Setups, Fails(p), ~InPlace, what = "ai", Published(p),
           place' = NoDirectory
    PROVE  SetupInv'
<1>a. UNCHANGED <<what, direct, foreign, app, began, serials>>
  BY DEF Fails
<1>b. setup' = [setup EXCEPT ![p] = "ended"]
  BY DEF Fails, Answers
<1>c. holder' = IF holder = p THEN NoRun ELSE holder
  BY DEF Fails, Answers
<1>d. vouched' = vouched
  BY DEF Fails, Answers
<1>e. staging' = [staging EXCEPT ![p] = NoDirectory]
  BY DEF Fails
<1>f. setup[p] \in {"building", "validating"}
  BY DEF Fails
<1>g. place.by = p /\ setup[p] = "validating"
  BY DEF Published
<1>h. /\ place' \in Dirs /\ place'.by = NoRun /\ place'.parts = 0 /\ place'.half = FALSE
      /\ place'.bad = FALSE
  BY Directories
<1>i. Complete' = Complete
  BY <1>a DEF Complete
<1>j. Complete \in Nat /\ Complete >= 2 /\ what \in {"environment", "tools", "ai", "upload"}
  BY Completes DEF SetupInv, SetupTyped
<1>k. place.parts \in Nat /\ \A q \in Setups : staging[q] \in Dirs /\ staging[q].parts \in Nat
  BY Directories DEF SetupInv, SetupTyped
<1>1. SetupTyped'
  BY <1>a, <1>b, <1>c, <1>d, <1>e, <1>f, <1>g, <1>h, <1>i, <1>j, <1>k, Directories,
     SetupAssumption, SMTT(30)
  DEF SetupInv, SetupTyped, Active
<1>2. Locked'
  BY <1>a, <1>b, <1>c, <1>d, <1>e, <1>f, <1>g, <1>h, <1>i, <1>j, <1>k, Directories,
     SetupAssumption, SMTT(30)
  DEF SetupInv, SetupTyped, Locked, Active
<1>3. RunsKnow'
  BY <1>a, <1>b, <1>c, <1>d, <1>e, <1>f, <1>g, <1>h, <1>i, <1>j, <1>k, Directories,
     SetupAssumption, SMTT(30)
  DEF SetupInv, SetupTyped, Locked, RunsKnow, Active, ReadyStays, OnTrial, Exists, InPlace
<1>4. PartsOrdered'
  BY <1>a, <1>b, <1>c, <1>d, <1>e, <1>f, <1>g, <1>h, <1>i, <1>j, <1>k, Directories,
     SetupAssumption, SMTT(30)
  DEF SetupInv, SetupTyped, PartsOrdered
<1>5. NamedIsComplete'
  BY <1>a, <1>b, <1>c, <1>d, <1>e, <1>f, <1>g, <1>h, <1>i, <1>j, <1>k, Directories,
     SetupAssumption, SMTT(30)
  DEF SetupInv, SetupTyped, NamedIsComplete, InPlace, Exists
<1>6. ReadyStays'
  BY <1>a, <1>b, <1>c, <1>d, <1>e, <1>f, <1>g, <1>h, <1>i, <1>j, <1>k, Directories,
     SetupAssumption, SMTT(30)
  DEF SetupInv, SetupTyped, Locked, RunsKnow, Active, ReadyStays, OnTrial, Exists, InPlace
<1>7. UsedIsStable'
  BY <1>a, <1>b, <1>c, <1>d, <1>e, <1>f, <1>g, <1>h, <1>i, <1>j, <1>k, Directories,
     SetupAssumption, SMTT(30)
  DEF SetupInv, SetupTyped, Locked, RunsKnow, PartsOrdered, Active, UsedIsStable, OnTrial,
      Exists, InPlace
<1>8. ForeignIsKept'
  BY <1>a, <1>b, <1>c, <1>d, <1>e, <1>f, <1>g, <1>h, <1>i, <1>j, <1>k, Directories,
     SetupAssumption, SMTT(30)
  DEF SetupInv, SetupTyped, RunsKnow, ForeignIsKept, InPlace
<1>q. QED BY <1>1, <1>2, <1>3, <1>4, <1>5, <1>6, <1>7, <1>8 DEF SetupInv

LEMMA RecheckKeeps ==
    ASSUME SetupInv, NEW p \in Setups, Recheck(p)
    PROVE  SetupInv'
<1>a. UNCHANGED <<what, direct, foreign, app, began, place, staging, serials>>
  BY DEF Recheck
<1>b. setup' = [setup EXCEPT ![p] = "ended"]
  BY DEF Recheck, Answers
<1>c. holder' = IF holder = p THEN NoRun ELSE holder
  BY DEF Recheck, Answers
<1>d. vouched' = vouched \/ (vouched' = place.by /\ place.parts = Complete)
  BY DEF Recheck, Answers, WholeDirectory
<1>e. setup[p] = "checking"
  BY DEF Recheck
<1>f. Complete' = Complete
  BY <1>a DEF Complete
<1>g. Complete \in Nat /\ Complete >= 2 /\ what \in {"environment", "tools", "ai", "upload"}
  BY Completes DEF SetupInv, SetupTyped
<1>h. place.parts \in Nat /\ \A q \in Setups : staging[q] \in Dirs /\ staging[q].parts \in Nat
  BY Directories DEF SetupInv, SetupTyped
<1>1. SetupTyped'
  BY <1>a, <1>b, <1>c, <1>d, <1>e, <1>f, <1>g, <1>h, Directories, SetupAssumption, SMTT(30)
  DEF SetupInv, SetupTyped, Active
<1>2. Locked'
  BY <1>a, <1>b, <1>c, <1>d, <1>e, <1>f, <1>g, <1>h, Directories, SetupAssumption, SMTT(30)
  DEF SetupInv, SetupTyped, Locked, Active
<1>3. RunsKnow'
  BY <1>a, <1>b, <1>c, <1>d, <1>e, <1>f, <1>g, <1>h, Directories, SetupAssumption, SMTT(30)
  DEF SetupInv, SetupTyped, Locked, RunsKnow, Active, ReadyStays, OnTrial, Exists, InPlace
<1>4. PartsOrdered'
  BY <1>a, <1>b, <1>c, <1>d, <1>e, <1>f, <1>g, <1>h, Directories, SetupAssumption, SMTT(30)
  DEF SetupInv, SetupTyped, PartsOrdered
<1>5. NamedIsComplete'
  BY <1>a, <1>b, <1>c, <1>d, <1>e, <1>f, <1>g, <1>h, Directories, SetupAssumption, SMTT(30)
  DEF SetupInv, SetupTyped, NamedIsComplete, InPlace, Exists
<1>6. ReadyStays'
  BY <1>a, <1>b, <1>c, <1>d, <1>e, <1>f, <1>g, <1>h, Directories, SetupAssumption, SMTT(30)
  DEF SetupInv, SetupTyped, Locked, RunsKnow, Active, ReadyStays, OnTrial, Exists, InPlace
<1>7. UsedIsStable'
  BY <1>a, <1>b, <1>c, <1>d, <1>e, <1>f, <1>g, <1>h, Directories, SetupAssumption, SMTT(30)
  DEF SetupInv, SetupTyped, Locked, RunsKnow, PartsOrdered, Active, UsedIsStable, OnTrial,
      Exists, InPlace
<1>8. ForeignIsKept'
  BY <1>a, <1>b, <1>c, <1>d, <1>e, <1>f, <1>g, <1>h, Directories, SetupAssumption, SMTT(30)
  DEF SetupInv, SetupTyped, RunsKnow, ForeignIsKept, InPlace
<1>q. QED BY <1>1, <1>2, <1>3, <1>4, <1>5, <1>6, <1>7, <1>8 DEF SetupInv

LEMMA MarkWrittenKeeps ==
    ASSUME SetupInv, NEW p \in Setups, WriteMark(p), Exists,
           place' = [place EXCEPT !.pending = @ \cup {p}], To(p, "smoking")
    PROVE  SetupInv'
<1>a. UNCHANGED <<what, direct, foreign, app, began, staging, serials, holder, vouched>>
  BY DEF WriteMark, To, counters
<1>b. setup' = [setup EXCEPT ![p] = "smoking"] /\ setup[p] = "smoking"
  BY DEF WriteMark, To
<1>c. place.pending \cup {p} \in SUBSET (Setups \cup {"litter"})
  BY Directories DEF SetupInv, SetupTyped
<1>d. place' \in Dirs /\ Alike(place, place')
  BY NewMarks, <1>c DEF SetupInv, SetupTyped
<1>e. Complete' = Complete
  BY <1>a DEF Complete
<1>f. Complete \in Nat /\ Complete >= 2 /\ what \in {"environment", "tools", "ai", "upload"}
  BY Completes DEF SetupInv, SetupTyped
<1>g. place.parts \in Nat /\ \A q \in Setups : staging[q] \in Dirs /\ staging[q].parts \in Nat
  BY Directories DEF SetupInv, SetupTyped
<1>1. SetupTyped'
  BY <1>a, <1>b, <1>c, <1>d, <1>e, <1>f, <1>g, Directories, SetupAssumption, SMTT(30)
  DEF SetupInv, SetupTyped, Active, Alike
<1>2. Locked'
  BY <1>a, <1>b, <1>c, <1>d, <1>e, <1>f, <1>g, Directories, SetupAssumption, SMTT(30)
  DEF SetupInv, SetupTyped, Locked, Active, Alike
<1>3. RunsKnow'
  BY <1>a, <1>b, <1>c, <1>d, <1>e, <1>f, <1>g, Directories, SetupAssumption, SMTT(30)
  DEF SetupInv, SetupTyped, Locked, RunsKnow, Active, ReadyStays, OnTrial, Exists, InPlace,
      Alike
<1>4. PartsOrdered'
  BY <1>a, <1>b, <1>c, <1>d, <1>e, <1>f, <1>g, Directories, SetupAssumption, SMTT(30)
  DEF SetupInv, SetupTyped, PartsOrdered, Alike
<1>5. NamedIsComplete'
  BY <1>a, <1>b, <1>c, <1>d, <1>e, <1>f, <1>g, Directories, SetupAssumption, SMTT(30)
  DEF SetupInv, SetupTyped, NamedIsComplete, InPlace, Exists, Alike
<1>6. ReadyStays'
  BY <1>a, <1>b, <1>c, <1>d, <1>e, <1>f, <1>g, Directories, SetupAssumption, SMTT(30)
  DEF SetupInv, SetupTyped, Locked, RunsKnow, Active, ReadyStays, OnTrial, Exists, InPlace,
      Alike
<1>7. UsedIsStable'
  BY <1>a, <1>b, <1>c, <1>d, <1>e, <1>f, <1>g, Directories, SetupAssumption, SMTT(30)
  DEF SetupInv, SetupTyped, Locked, RunsKnow, PartsOrdered, Active, UsedIsStable, OnTrial,
      Exists, InPlace, Alike
<1>8. ForeignIsKept'
  BY <1>a, <1>b, <1>c, <1>d, <1>e, <1>f, <1>g, Directories, SetupAssumption, SMTT(30)
  DEF SetupInv, SetupTyped, RunsKnow, ForeignIsKept, InPlace, Alike
<1>q. QED BY <1>1, <1>2, <1>3, <1>4, <1>5, <1>6, <1>7, <1>8 DEF SetupInv

LEMMA MarkNotWrittenKeeps ==
    ASSUME SetupInv, NEW p \in Setups, WriteMark(p), UNCHANGED place, Answers(p, "failed")
    PROVE  SetupInv'
<1>a. UNCHANGED <<what, direct, foreign, app, began, place, staging, serials>>
  BY DEF WriteMark, To, counters
<1>b. setup' = [setup EXCEPT ![p] = "ended"]
  BY DEF Answers
<1>c. holder' = IF holder = p THEN NoRun ELSE holder
  BY DEF Answers
<1>d. vouched' = vouched
  BY DEF Answers
<1>e. Complete' = Complete
  BY <1>a DEF Complete
<1>f. Complete \in Nat /\ Complete >= 2 /\ what \in {"environment", "tools", "ai", "upload"}
  BY Completes DEF SetupInv, SetupTyped
<1>g. place.parts \in Nat /\ \A q \in Setups : staging[q] \in Dirs /\ staging[q].parts \in Nat
  BY Directories DEF SetupInv, SetupTyped
<1>1. SetupTyped'
  BY <1>a, <1>b, <1>c, <1>d, <1>e, <1>f, <1>g, Directories, SetupAssumption, SMTT(30)
  DEF SetupInv, SetupTyped, Active
<1>2. Locked'
  BY <1>a, <1>b, <1>c, <1>d, <1>e, <1>f, <1>g, Directories, SetupAssumption, SMTT(30)
  DEF SetupInv, SetupTyped, Locked, Active
<1>3. RunsKnow'
  BY <1>a, <1>b, <1>c, <1>d, <1>e, <1>f, <1>g, Directories, SetupAssumption, SMTT(30)
  DEF SetupInv, SetupTyped, Locked, RunsKnow, Active, ReadyStays, OnTrial, Exists, InPlace
<1>4. PartsOrdered'
  BY <1>a, <1>b, <1>c, <1>d, <1>e, <1>f, <1>g, Directories, SetupAssumption, SMTT(30)
  DEF SetupInv, SetupTyped, PartsOrdered
<1>5. NamedIsComplete'
  BY <1>a, <1>b, <1>c, <1>d, <1>e, <1>f, <1>g, Directories, SetupAssumption, SMTT(30)
  DEF SetupInv, SetupTyped, NamedIsComplete, InPlace, Exists
<1>6. ReadyStays'
  BY <1>a, <1>b, <1>c, <1>d, <1>e, <1>f, <1>g, Directories, SetupAssumption, SMTT(30)
  DEF SetupInv, SetupTyped, Locked, RunsKnow, Active, ReadyStays, OnTrial, Exists, InPlace
<1>7. UsedIsStable'
  BY <1>a, <1>b, <1>c, <1>d, <1>e, <1>f, <1>g, Directories, SetupAssumption, SMTT(30)
  DEF SetupInv, SetupTyped, Locked, RunsKnow, PartsOrdered, Active, UsedIsStable, OnTrial,
      Exists, InPlace
<1>8. ForeignIsKept'
  BY <1>a, <1>b, <1>c, <1>d, <1>e, <1>f, <1>g, Directories, SetupAssumption, SMTT(30)
  DEF SetupInv, SetupTyped, RunsKnow, ForeignIsKept, InPlace
<1>q. QED BY <1>1, <1>2, <1>3, <1>4, <1>5, <1>6, <1>7, <1>8 DEF SetupInv

LEMMA ReplaceMarkKeeps ==
    ASSUME SetupInv, NEW p \in Setups, ReplaceMark(p)
    PROVE  SetupInv'
<1>a. UNCHANGED <<what, direct, foreign, app, began, staging, serials>>
  BY DEF ReplaceMark
<1>b. setup' = [setup EXCEPT ![p] = "ended"]
  BY DEF ReplaceMark, Answers
<1>c. holder' = IF holder = p THEN NoRun ELSE holder
  BY DEF ReplaceMark, Answers
<1>d. vouched' = vouched \/ (vouched' = place'.by /\ place'.parts = Complete)
  BY DEF ReplaceMark, Answers, WholeDirectory, Complete
<1>e. setup[p] = "smoking"
  BY DEF ReplaceMark
<1>f. place.pending \ {p} \in SUBSET (Setups \cup {"litter"})
  BY Directories DEF SetupInv, SetupTyped
<1>g. place' \in Dirs /\ Alike(place, place')
  BY NewMarks, <1>f DEF ReplaceMark, SetupInv, SetupTyped
<1>h. Complete' = Complete
  BY <1>a DEF Complete
<1>i. Complete \in Nat /\ Complete >= 2 /\ what \in {"environment", "tools", "ai", "upload"}
  BY Completes DEF SetupInv, SetupTyped
<1>j. place.parts \in Nat /\ \A q \in Setups : staging[q] \in Dirs /\ staging[q].parts \in Nat
  BY Directories DEF SetupInv, SetupTyped
<1>1. SetupTyped'
  BY <1>a, <1>b, <1>c, <1>d, <1>e, <1>f, <1>g, <1>h, <1>i, <1>j, Directories, SetupAssumption,
     SMTT(30)
  DEF SetupInv, SetupTyped, Active, Alike
<1>2. Locked'
  BY <1>a, <1>b, <1>c, <1>d, <1>e, <1>f, <1>g, <1>h, <1>i, <1>j, Directories, SetupAssumption,
     SMTT(30)
  DEF SetupInv, SetupTyped, Locked, Active, Alike
<1>3. RunsKnow'
  BY <1>a, <1>b, <1>c, <1>d, <1>e, <1>f, <1>g, <1>h, <1>i, <1>j, Directories, SetupAssumption,
     SMTT(30)
  DEF SetupInv, SetupTyped, Locked, RunsKnow, Active, ReadyStays, OnTrial, Exists, InPlace,
      Alike
<1>4. PartsOrdered'
  BY <1>a, <1>b, <1>c, <1>d, <1>e, <1>f, <1>g, <1>h, <1>i, <1>j, Directories, SetupAssumption,
     SMTT(30)
  DEF SetupInv, SetupTyped, PartsOrdered, Alike
<1>5. NamedIsComplete'
  BY <1>a, <1>b, <1>c, <1>d, <1>e, <1>f, <1>g, <1>h, <1>i, <1>j, Directories, SetupAssumption,
     SMTT(30)
  DEF SetupInv, SetupTyped, NamedIsComplete, InPlace, Exists, Alike
<1>6. ReadyStays'
  BY <1>a, <1>b, <1>c, <1>d, <1>e, <1>f, <1>g, <1>h, <1>i, <1>j, Directories, SetupAssumption,
     SMTT(30)
  DEF SetupInv, SetupTyped, Locked, RunsKnow, Active, ReadyStays, OnTrial, Exists, InPlace,
      Alike
<1>7. UsedIsStable'
  BY <1>a, <1>b, <1>c, <1>d, <1>e, <1>f, <1>g, <1>h, <1>i, <1>j, Directories, SetupAssumption,
     SMTT(30)
  DEF SetupInv, SetupTyped, Locked, RunsKnow, PartsOrdered, Active, UsedIsStable, OnTrial,
      Exists, InPlace, Alike
<1>8. ForeignIsKept'
  BY <1>a, <1>b, <1>c, <1>d, <1>e, <1>f, <1>g, <1>h, <1>i, <1>j, Directories, SetupAssumption,
     SMTT(30)
  DEF SetupInv, SetupTyped, RunsKnow, ForeignIsKept, InPlace, Alike
<1>q. QED BY <1>1, <1>2, <1>3, <1>4, <1>5, <1>6, <1>7, <1>8 DEF SetupInv

LEMMA EndsAbruptlyKeeps ==
    ASSUME SetupInv, NEW p \in Setups, EndsAbruptly(p)
    PROVE  SetupInv'
<1>a. UNCHANGED <<what, direct, foreign, app, began, serials>>
  BY DEF EndsAbruptly
<1>b. setup' = [setup EXCEPT ![p] = "ended"]
  BY DEF EndsAbruptly, Answers
<1>c. holder' = IF holder = p THEN NoRun ELSE holder
  BY DEF EndsAbruptly, Answers
<1>d. vouched' = vouched
  BY DEF EndsAbruptly, Answers
<1>e. staging' = [staging EXCEPT ![p] = NoDirectory]
  BY Directories DEF EndsAbruptly, SetupInv, SetupTyped
<1>f. (IF p \in place.pending THEN (place.pending \ {p}) \cup {"litter"} ELSE place.pending)
        \in SUBSET (Setups \cup {"litter"})
  BY Directories DEF SetupInv, SetupTyped
<1>g. place' \in Dirs /\ Alike(place, place')
  BY NewMarks, <1>f DEF EndsAbruptly, SetupInv, SetupTyped
<1>h. foreign # 0 => place' = place
  BY SameMarks DEF EndsAbruptly, SetupInv, SetupTyped, ForeignIsKept
<1>i. Complete' = Complete
  BY <1>a DEF Complete
<1>j. Complete \in Nat /\ Complete >= 2 /\ what \in {"environment", "tools", "ai", "upload"}
  BY Completes DEF SetupInv, SetupTyped
<1>k. place.parts \in Nat /\ \A q \in Setups : staging[q] \in Dirs /\ staging[q].parts \in Nat
  BY Directories DEF SetupInv, SetupTyped
<1>1. SetupTyped'
  BY <1>a, <1>b, <1>c, <1>d, <1>e, <1>f, <1>g, <1>h, <1>i, <1>j, <1>k, Directories,
     SetupAssumption, SMTT(30)
  DEF SetupInv, SetupTyped, Active, Alike
<1>2. Locked'
  BY <1>a, <1>b, <1>c, <1>d, <1>e, <1>f, <1>g, <1>h, <1>i, <1>j, <1>k, Directories,
     SetupAssumption, SMTT(30)
  DEF SetupInv, SetupTyped, Locked, Active, Alike
<1>3. RunsKnow'
  BY <1>a, <1>b, <1>c, <1>d, <1>e, <1>f, <1>g, <1>h, <1>i, <1>j, <1>k, Directories,
     SetupAssumption, SMTT(30)
  DEF SetupInv, SetupTyped, Locked, RunsKnow, Active, ReadyStays, OnTrial, Exists, InPlace,
      Alike
<1>4. PartsOrdered'
  BY <1>a, <1>b, <1>c, <1>d, <1>e, <1>f, <1>g, <1>h, <1>i, <1>j, <1>k, Directories,
     SetupAssumption, SMTT(30)
  DEF SetupInv, SetupTyped, PartsOrdered, Alike
<1>5. NamedIsComplete'
  BY <1>a, <1>b, <1>c, <1>d, <1>e, <1>f, <1>g, <1>h, <1>i, <1>j, <1>k, Directories,
     SetupAssumption, SMTT(30)
  DEF SetupInv, SetupTyped, NamedIsComplete, InPlace, Exists, Alike
<1>6. ReadyStays'
  BY <1>a, <1>b, <1>c, <1>d, <1>e, <1>f, <1>g, <1>h, <1>i, <1>j, <1>k, Directories,
     SetupAssumption, SMTT(30)
  DEF SetupInv, SetupTyped, Locked, RunsKnow, Active, ReadyStays, OnTrial, Exists, InPlace,
      Alike
<1>7. UsedIsStable'
  BY <1>a, <1>b, <1>c, <1>d, <1>e, <1>f, <1>g, <1>h, <1>i, <1>j, <1>k, Directories,
     SetupAssumption, SMTT(30)
  DEF SetupInv, SetupTyped, Locked, RunsKnow, PartsOrdered, Active, UsedIsStable, OnTrial,
      Exists, InPlace, Alike
<1>8. ForeignIsKept'
  BY <1>a, <1>b, <1>c, <1>d, <1>e, <1>f, <1>g, <1>h, <1>i, <1>j, <1>k, Directories,
     SetupAssumption, SMTT(30)
  DEF SetupInv, SetupTyped, RunsKnow, ForeignIsKept, InPlace, Alike
<1>q. QED BY <1>1, <1>2, <1>3, <1>4, <1>5, <1>6, <1>7, <1>8 DEF SetupInv

LEMMA RerunKeeps ==
    ASSUME SetupInv, NEW p \in Setups, Rerun(p)
    PROVE  SetupInv'
<1>a. UNCHANGED <<what, direct, foreign, app, began, place, staging, serials, vouched, holder>>
  BY DEF Rerun
<1>b. setup' = [setup EXCEPT ![p] = "idle"]
  BY DEF Rerun
<1>c. Complete' = Complete
  BY <1>a DEF Complete
<1>d. Complete \in Nat /\ Complete >= 2 /\ what \in {"environment", "tools", "ai", "upload"}
  BY Completes DEF SetupInv, SetupTyped
<1>e. place.parts \in Nat /\ \A q \in Setups : staging[q] \in Dirs /\ staging[q].parts \in Nat
  BY Directories DEF SetupInv, SetupTyped
<1>1. SetupTyped'
  BY <1>a, <1>b, <1>c, <1>d, <1>e, Directories, SetupAssumption, SMTT(30)
  DEF SetupInv, SetupTyped, Active
<1>2. Locked'
  BY <1>a, <1>b, <1>c, <1>d, <1>e, Directories, SetupAssumption, SMTT(30)
  DEF SetupInv, SetupTyped, Locked, Active
<1>3. RunsKnow'
  BY <1>a, <1>b, <1>c, <1>d, <1>e, Directories, SetupAssumption, SMTT(30)
  DEF SetupInv, SetupTyped, Locked, RunsKnow, Active, ReadyStays, OnTrial, Exists, InPlace
<1>4. PartsOrdered'
  BY <1>a, <1>b, <1>c, <1>d, <1>e, Directories, SetupAssumption, SMTT(30)
  DEF SetupInv, SetupTyped, PartsOrdered
<1>5. NamedIsComplete'
  BY <1>a, <1>b, <1>c, <1>d, <1>e, Directories, SetupAssumption, SMTT(30)
  DEF SetupInv, SetupTyped, NamedIsComplete, InPlace, Exists
<1>6. ReadyStays'
  BY <1>a, <1>b, <1>c, <1>d, <1>e, Directories, SetupAssumption, SMTT(30)
  DEF SetupInv, SetupTyped, Locked, RunsKnow, Active, ReadyStays, OnTrial, Exists, InPlace
<1>7. UsedIsStable'
  BY <1>a, <1>b, <1>c, <1>d, <1>e, Directories, SetupAssumption, SMTT(30)
  DEF SetupInv, SetupTyped, Locked, RunsKnow, PartsOrdered, Active, UsedIsStable, OnTrial,
      Exists, InPlace
<1>8. ForeignIsKept'
  BY <1>a, <1>b, <1>c, <1>d, <1>e, Directories, SetupAssumption, SMTT(30)
  DEF SetupInv, SetupTyped, RunsKnow, ForeignIsKept, InPlace
<1>q. QED BY <1>1, <1>2, <1>3, <1>4, <1>5, <1>6, <1>7, <1>8 DEF SetupInv

LEMMA PollKeeps ==
    ASSUME SetupInv, Poll
    PROVE  SetupInv'
<1>a. UNCHANGED << what, direct, foreign, app, began, place, staging, serials, vouched, holder,
                  setup>>
  BY DEF Poll
<1>b. Complete' = Complete
  BY <1>a DEF Complete
<1>c. Complete \in Nat /\ Complete >= 2 /\ what \in {"environment", "tools", "ai", "upload"}
  BY Completes DEF SetupInv, SetupTyped
<1>d. place.parts \in Nat /\ \A q \in Setups : staging[q] \in Dirs /\ staging[q].parts \in Nat
  BY Directories DEF SetupInv, SetupTyped
<1>1. SetupTyped'
  BY <1>a, <1>b, <1>c, <1>d, Directories, SetupAssumption, SMTT(30)
  DEF SetupInv, SetupTyped, Active
<1>2. Locked'
  BY <1>a, <1>b, <1>c, <1>d, Directories, SetupAssumption, SMTT(30)
  DEF SetupInv, SetupTyped, Locked, Active
<1>3. RunsKnow'
  BY <1>a, <1>b, <1>c, <1>d, Directories, SetupAssumption, SMTT(30)
  DEF SetupInv, SetupTyped, Locked, RunsKnow, Active, ReadyStays, OnTrial, Exists, InPlace
<1>4. PartsOrdered'
  BY <1>a, <1>b, <1>c, <1>d, Directories, SetupAssumption, SMTT(30)
  DEF SetupInv, SetupTyped, PartsOrdered
<1>5. NamedIsComplete'
  BY <1>a, <1>b, <1>c, <1>d, Directories, SetupAssumption, SMTT(30)
  DEF SetupInv, SetupTyped, NamedIsComplete, InPlace, Exists
<1>6. ReadyStays'
  BY <1>a, <1>b, <1>c, <1>d, Directories, SetupAssumption, SMTT(30)
  DEF SetupInv, SetupTyped, Locked, RunsKnow, Active, ReadyStays, OnTrial, Exists, InPlace
<1>7. UsedIsStable'
  BY <1>a, <1>b, <1>c, <1>d, Directories, SetupAssumption, SMTT(30)
  DEF SetupInv, SetupTyped, Locked, RunsKnow, PartsOrdered, Active, UsedIsStable, OnTrial,
      Exists, InPlace
<1>8. ForeignIsKept'
  BY <1>a, <1>b, <1>c, <1>d, Directories, SetupAssumption, SMTT(30)
  DEF SetupInv, SetupTyped, RunsKnow, ForeignIsKept, InPlace
<1>q. QED BY <1>1, <1>2, <1>3, <1>4, <1>5, <1>6, <1>7, <1>8 DEF SetupInv

LEMMA StatusExpiresKeeps ==
    ASSUME SetupInv, StatusExpires
    PROVE  SetupInv'
<1>a. UNCHANGED << what, direct, foreign, app, began, place, staging, serials, vouched, holder,
                  setup>>
  BY DEF StatusExpires
<1>b. Complete' = Complete
  BY <1>a DEF Complete
<1>c. Complete \in Nat /\ Complete >= 2 /\ what \in {"environment", "tools", "ai", "upload"}
  BY Completes DEF SetupInv, SetupTyped
<1>d. place.parts \in Nat /\ \A q \in Setups : staging[q] \in Dirs /\ staging[q].parts \in Nat
  BY Directories DEF SetupInv, SetupTyped
<1>1. SetupTyped'
  BY <1>a, <1>b, <1>c, <1>d, Directories, SetupAssumption, SMTT(30)
  DEF SetupInv, SetupTyped, Active
<1>2. Locked'
  BY <1>a, <1>b, <1>c, <1>d, Directories, SetupAssumption, SMTT(30)
  DEF SetupInv, SetupTyped, Locked, Active
<1>3. RunsKnow'
  BY <1>a, <1>b, <1>c, <1>d, Directories, SetupAssumption, SMTT(30)
  DEF SetupInv, SetupTyped, Locked, RunsKnow, Active, ReadyStays, OnTrial, Exists, InPlace
<1>4. PartsOrdered'
  BY <1>a, <1>b, <1>c, <1>d, Directories, SetupAssumption, SMTT(30)
  DEF SetupInv, SetupTyped, PartsOrdered
<1>5. NamedIsComplete'
  BY <1>a, <1>b, <1>c, <1>d, Directories, SetupAssumption, SMTT(30)
  DEF SetupInv, SetupTyped, NamedIsComplete, InPlace, Exists
<1>6. ReadyStays'
  BY <1>a, <1>b, <1>c, <1>d, Directories, SetupAssumption, SMTT(30)
  DEF SetupInv, SetupTyped, Locked, RunsKnow, Active, ReadyStays, OnTrial, Exists, InPlace
<1>7. UsedIsStable'
  BY <1>a, <1>b, <1>c, <1>d, Directories, SetupAssumption, SMTT(30)
  DEF SetupInv, SetupTyped, Locked, RunsKnow, PartsOrdered, Active, UsedIsStable, OnTrial,
      Exists, InPlace
<1>8. ForeignIsKept'
  BY <1>a, <1>b, <1>c, <1>d, Directories, SetupAssumption, SMTT(30)
  DEF SetupInv, SetupTyped, RunsKnow, ForeignIsKept, InPlace
<1>q. QED BY <1>1, <1>2, <1>3, <1>4, <1>5, <1>6, <1>7, <1>8 DEF SetupInv

LEMMA BeginUseKeeps ==
    ASSUME SetupInv, BeginUse
    PROVE  SetupInv'
<1>a. UNCHANGED <<what, direct, foreign, place, staging, serials, vouched, holder, setup>>
  BY DEF BeginUse
<1>b. app' = TRUE /\ began' = place /\ holder = NoRun
  BY DEF BeginUse
<1>c. place.parts = Complete /\ ~place.half /\ ~place.bad
  BY DEF BeginUse, FoundReady, ProbeReady, WholeDirectory, SetupInv, PartsOrdered
<1>d. Complete' = Complete
  BY <1>a DEF Complete
<1>e. Complete \in Nat /\ Complete >= 2 /\ what \in {"environment", "tools", "ai", "upload"}
  BY Completes DEF SetupInv, SetupTyped
<1>f. place.parts \in Nat /\ \A q \in Setups : staging[q] \in Dirs /\ staging[q].parts \in Nat
  BY Directories DEF SetupInv, SetupTyped
<1>1. SetupTyped'
  BY <1>a, <1>b, <1>c, <1>d, <1>e, <1>f, Directories, SetupAssumption, SMTT(30)
  DEF SetupInv, SetupTyped, Active
<1>2. Locked'
  BY <1>a, <1>b, <1>c, <1>d, <1>e, <1>f, Directories, SetupAssumption, SMTT(30)
  DEF SetupInv, SetupTyped, Locked, Active
<1>3. RunsKnow'
  BY <1>a, <1>b, <1>c, <1>d, <1>e, <1>f, Directories, SetupAssumption, SMTT(30)
  DEF SetupInv, SetupTyped, Locked, RunsKnow, Active, ReadyStays, OnTrial, Exists, InPlace
<1>4. PartsOrdered'
  BY <1>a, <1>b, <1>c, <1>d, <1>e, <1>f, Directories, SetupAssumption, SMTT(30)
  DEF SetupInv, SetupTyped, PartsOrdered
<1>5. NamedIsComplete'
  BY <1>a, <1>b, <1>c, <1>d, <1>e, <1>f, Directories, SetupAssumption, SMTT(30)
  DEF SetupInv, SetupTyped, NamedIsComplete, InPlace, Exists
<1>6. ReadyStays'
  BY <1>a, <1>b, <1>c, <1>d, <1>e, <1>f, Directories, SetupAssumption, SMTT(30)
  DEF SetupInv, SetupTyped, Locked, RunsKnow, Active, ReadyStays, OnTrial, Exists, InPlace
<1>7. UsedIsStable'
  BY <1>a, <1>b, <1>c, <1>d, <1>e, <1>f, Directories, SetupAssumption, SMTT(30)
  DEF SetupInv, SetupTyped, Locked, RunsKnow, PartsOrdered, Active, UsedIsStable, OnTrial,
      Exists, InPlace
<1>8. ForeignIsKept'
  BY <1>a, <1>b, <1>c, <1>d, <1>e, <1>f, Directories, SetupAssumption, SMTT(30)
  DEF SetupInv, SetupTyped, RunsKnow, ForeignIsKept, InPlace
<1>q. QED BY <1>1, <1>2, <1>3, <1>4, <1>5, <1>6, <1>7, <1>8 DEF SetupInv

LEMMA EndUseKeeps ==
    ASSUME SetupInv, EndUse
    PROVE  SetupInv'
<1>a. UNCHANGED <<what, direct, foreign, place, staging, serials, vouched, holder, setup>>
  BY DEF EndUse
<1>b. app' = FALSE
  BY DEF EndUse
<1>c. Complete' = Complete
  BY <1>a DEF Complete
<1>d. Complete \in Nat /\ Complete >= 2 /\ what \in {"environment", "tools", "ai", "upload"}
  BY Completes DEF SetupInv, SetupTyped
<1>e. place.parts \in Nat /\ \A q \in Setups : staging[q] \in Dirs /\ staging[q].parts \in Nat
  BY Directories DEF SetupInv, SetupTyped
<1>1. SetupTyped'
  BY <1>a, <1>b, <1>c, <1>d, <1>e, Directories, SetupAssumption, SMTT(30)
  DEF SetupInv, SetupTyped, Active
<1>2. Locked'
  BY <1>a, <1>b, <1>c, <1>d, <1>e, Directories, SetupAssumption, SMTT(30)
  DEF SetupInv, SetupTyped, Locked, Active
<1>3. RunsKnow'
  BY <1>a, <1>b, <1>c, <1>d, <1>e, Directories, SetupAssumption, SMTT(30)
  DEF SetupInv, SetupTyped, Locked, RunsKnow, Active, ReadyStays, OnTrial, Exists, InPlace
<1>4. PartsOrdered'
  BY <1>a, <1>b, <1>c, <1>d, <1>e, Directories, SetupAssumption, SMTT(30)
  DEF SetupInv, SetupTyped, PartsOrdered
<1>5. NamedIsComplete'
  BY <1>a, <1>b, <1>c, <1>d, <1>e, Directories, SetupAssumption, SMTT(30)
  DEF SetupInv, SetupTyped, NamedIsComplete, InPlace, Exists
<1>6. ReadyStays'
  BY <1>a, <1>b, <1>c, <1>d, <1>e, Directories, SetupAssumption, SMTT(30)
  DEF SetupInv, SetupTyped, Locked, RunsKnow, Active, ReadyStays, OnTrial, Exists, InPlace
<1>7. UsedIsStable'
  BY <1>a, <1>b, <1>c, <1>d, <1>e, Directories, SetupAssumption, SMTT(30)
  DEF SetupInv, SetupTyped, Locked, RunsKnow, PartsOrdered, Active, UsedIsStable, OnTrial,
      Exists, InPlace
<1>8. ForeignIsKept'
  BY <1>a, <1>b, <1>c, <1>d, <1>e, Directories, SetupAssumption, SMTT(30)
  DEF SetupInv, SetupTyped, RunsKnow, ForeignIsKept, InPlace
<1>q. QED BY <1>1, <1>2, <1>3, <1>4, <1>5, <1>6, <1>7, <1>8 DEF SetupInv

LEMMA DamageKeeps ==
    ASSUME SetupInv, Damage
    PROVE  SetupInv'
<1>a. UNCHANGED <<what, direct, foreign, app, began, staging, setup, holder, vouched, serials>>
  BY DEF Damage
<1>b. what # "environment" /\ Exists
  BY DEF Damage
<1>c. /\ place' \in Dirs /\ place'.by = place.by /\ place'.parts = place.parts
      /\ place'.half = place.half
  BY DamagedDir DEF Damage, SetupInv, SetupTyped
<1>d. Complete' = Complete
  BY <1>a DEF Complete
<1>e. Complete \in Nat /\ Complete >= 2 /\ what \in {"environment", "tools", "ai", "upload"}
  BY Completes DEF SetupInv, SetupTyped
<1>f. place.parts \in Nat /\ \A q \in Setups : staging[q] \in Dirs /\ staging[q].parts \in Nat
  BY Directories DEF SetupInv, SetupTyped
<1>1. SetupTyped'
  BY <1>a, <1>b, <1>c, <1>d, <1>e, <1>f, Directories, SetupAssumption, SMTT(30)
  DEF SetupInv, SetupTyped, Active
<1>2. Locked'
  BY <1>a, <1>b, <1>c, <1>d, <1>e, <1>f, Directories, SetupAssumption, SMTT(30)
  DEF SetupInv, SetupTyped, Locked, Active
<1>3. RunsKnow'
  BY <1>a, <1>b, <1>c, <1>d, <1>e, <1>f, Directories, SetupAssumption, SMTT(30)
  DEF SetupInv, SetupTyped, Locked, RunsKnow, Active, ReadyStays, OnTrial, Exists, InPlace
<1>4. PartsOrdered'
  BY <1>a, <1>b, <1>c, <1>d, <1>e, <1>f, Directories, SetupAssumption, SMTT(30)
  DEF SetupInv, SetupTyped, PartsOrdered
<1>5. NamedIsComplete'
  BY <1>a, <1>b, <1>c, <1>d, <1>e, <1>f, Directories, SetupAssumption, SMTT(30)
  DEF SetupInv, SetupTyped, NamedIsComplete, InPlace, Exists
<1>6. ReadyStays'
  BY <1>a, <1>b, <1>c, <1>d, <1>e, <1>f, Directories, SetupAssumption, SMTT(30)
  DEF SetupInv, SetupTyped, Locked, RunsKnow, Active, ReadyStays, OnTrial, Exists, InPlace
<1>7. UsedIsStable'
  BY <1>a, <1>b, <1>c, <1>d, <1>e, <1>f, Directories, SetupAssumption, SMTT(30)
  DEF SetupInv, SetupTyped, Locked, RunsKnow, PartsOrdered, Active, UsedIsStable, OnTrial,
      Exists, InPlace
<1>8. ForeignIsKept'
  BY <1>a, <1>b, <1>c, <1>d, <1>e, <1>f, Directories, SetupAssumption, SMTT(30)
  DEF SetupInv, SetupTyped, RunsKnow, ForeignIsKept, InPlace
<1>q. QED BY <1>1, <1>2, <1>3, <1>4, <1>5, <1>6, <1>7, <1>8 DEF SetupInv

LEMMA RemoveKeeps ==
    ASSUME SetupInv, Remove
    PROVE  SetupInv'
<1>a. UNCHANGED <<what, direct, app, began, staging, setup, holder, serials>>
  BY DEF Remove
<1>b. place' = NoDirectory /\ vouched' = NoRun /\ foreign' = 0 /\ ~app
  BY DEF Remove
<1>c. \A p \in Setups : setup[p] \in {"idle", "ended"}
  BY DEF Remove
<1>d. /\ place' \in Dirs /\ place'.by = NoRun /\ place'.parts = 0 /\ place'.half = FALSE
      /\ place'.bad = FALSE
  BY Directories, <1>b
<1>e. Complete' = Complete
  BY <1>a DEF Complete
<1>f. Complete \in Nat /\ Complete >= 2 /\ what \in {"environment", "tools", "ai", "upload"}
  BY Completes DEF SetupInv, SetupTyped
<1>g. place.parts \in Nat /\ \A q \in Setups : staging[q] \in Dirs /\ staging[q].parts \in Nat
  BY Directories DEF SetupInv, SetupTyped
<1>1. SetupTyped'
  BY <1>a, <1>b, <1>c, <1>d, <1>e, <1>f, <1>g, Directories, SetupAssumption, SMTT(30)
  DEF SetupInv, SetupTyped, Active
<1>2. Locked'
  BY <1>a, <1>b, <1>c, <1>d, <1>e, <1>f, <1>g, Directories, SetupAssumption, SMTT(30)
  DEF SetupInv, SetupTyped, Locked, Active
<1>3. RunsKnow'
  BY <1>a, <1>b, <1>c, <1>d, <1>e, <1>f, <1>g, Directories, SetupAssumption, SMTT(30)
  DEF SetupInv, SetupTyped, Locked, RunsKnow, Active, ReadyStays, OnTrial, Exists, InPlace
<1>4. PartsOrdered'
  BY <1>a, <1>b, <1>c, <1>d, <1>e, <1>f, <1>g, Directories, SetupAssumption, SMTT(30)
  DEF SetupInv, SetupTyped, PartsOrdered
<1>5. NamedIsComplete'
  BY <1>a, <1>b, <1>c, <1>d, <1>e, <1>f, <1>g, Directories, SetupAssumption, SMTT(30)
  DEF SetupInv, SetupTyped, NamedIsComplete, InPlace, Exists
<1>6. ReadyStays'
  BY <1>a, <1>b, <1>c, <1>d, <1>e, <1>f, <1>g, Directories, SetupAssumption, SMTT(30)
  DEF SetupInv, SetupTyped, Locked, RunsKnow, Active, ReadyStays, OnTrial, Exists, InPlace
<1>7. UsedIsStable'
  BY <1>a, <1>b, <1>c, <1>d, <1>e, <1>f, <1>g, Directories, SetupAssumption, SMTT(30)
  DEF SetupInv, SetupTyped, Locked, RunsKnow, PartsOrdered, Active, UsedIsStable, OnTrial,
      Exists, InPlace
<1>8. ForeignIsKept'
  BY <1>a, <1>b, <1>c, <1>d, <1>e, <1>f, <1>g, Directories, SetupAssumption, SMTT(30)
  DEF SetupInv, SetupTyped, RunsKnow, ForeignIsKept, InPlace
<1>q. QED BY <1>1, <1>2, <1>3, <1>4, <1>5, <1>6, <1>7, <1>8 DEF SetupInv

LEMMA LookAtEnvironmentKeeps ==
    ASSUME SetupInv, NEW p \in Setups, LookAtEnvironment(p)
    PROVE  SetupInv'
  BY EnvironmentMadeKeeps, EnvironmentAnswersKeeps, EnvironmentRepairedKeeps
     DEF LookAtEnvironment

LEMMA LookAtToolsKeeps ==
    ASSUME SetupInv, NEW p \in Setups, LookAtTools(p)
    PROVE  SetupInv'
  BY ToolsBuildKeeps, ToolsTriedKeeps, ToolsRefusedKeeps DEF LookAtTools

LEMMA LookAtAiRuntimeKeeps ==
    ASSUME SetupInv, NEW p \in Setups, LookAtAiRuntime(p)
    PROVE  SetupInv'
  BY AiRuntimeBuildsKeeps, AiRuntimeAnswersKeeps DEF LookAtAiRuntime

LEMMA LookAtUploadRuntimeKeeps ==
    ASSUME SetupInv, NEW p \in Setups, LookAtUploadRuntime(p)
    PROVE  SetupInv'
  BY UploadRuntimeLooksKeeps, UploadRuntimeRefusedKeeps, UploadRuntimeInstallsKeeps
     DEF LookAtUploadRuntime

LEMMA BeginPartKeeps ==
    ASSUME SetupInv, NEW p \in Setups, BeginPart(p)
    PROVE  SetupInv'
  BY BuiltInPlaceKeeps, BuiltBesideKeeps

LEMMA EndPartKeeps ==
    ASSUME SetupInv, NEW p \in Setups, EndPart(p)
    PROVE  SetupInv'
  BY EndedInPlaceKeeps, EndedBesideKeeps

LEMMA PublishKeeps ==
    ASSUME SetupInv, NEW p \in Setups, Publish(p)
    PROVE  SetupInv'
  BY ToolsPublishedKeeps, AiRuntimePublishedKeeps

LEMMA FailsKeeps ==
    ASSUME SetupInv, NEW p \in Setups, Fails(p)
    PROVE  SetupInv'
  BY FailsBesideKeeps, FailsPublishedKeeps DEF Fails

LEMMA WriteMarkKeeps ==
    ASSUME SetupInv, NEW p \in Setups, WriteMark(p)
    PROVE  SetupInv'
  BY MarkWrittenKeeps, MarkNotWrittenKeeps DEF WriteMark

LEMMA SetupStep == SetupInv /\ SetupNext => SetupInv'
  BY RefusedKeeps, LookAtEnvironmentKeeps, LookAtToolsKeeps, LookAtAiRuntimeKeeps,
     LookAtUploadRuntimeKeeps, BeginPartKeeps, EndPartKeeps, PublishKeeps, FinishKeeps,
     UnvouchKeeps, FailsKeeps, RecheckKeeps, WriteMarkKeeps, ReplaceMarkKeeps,
     EndsAbruptlyKeeps, RerunKeeps, PollKeeps, StatusExpiresKeeps, BeginUseKeeps,
     EndUseKeeps, DamageKeeps, RemoveKeeps DEF SetupNext

LEMMA SetupStutters == SetupInv /\ UNCHANGED setupVars => SetupInv'
<1> SUFFICES ASSUME SetupInv, UNCHANGED setupVars PROVE SetupInv'
  OBVIOUS
<1>u. UNCHANGED << what, direct, place, staging, setup, holder, app, began, vouched, serials,
                  foreign>>
  BY DEF setupVars
<1>1. SetupTyped' /\ Locked' /\ RunsKnow'
  BY <1>u DEF SetupInv, SetupTyped, Locked, RunsKnow
<1>2. PartsOrdered' /\ NamedIsComplete' /\ ReadyStays' /\ UsedIsStable' /\ ForeignIsKept'
  BY <1>u DEF SetupInv, PartsOrdered, NamedIsComplete, ReadyStays, UsedIsStable,
              ForeignIsKept, Complete, InPlace, Exists, OnTrial
<1>q. QED BY <1>1, <1>2 DEF SetupInv

LEMMA SetupBegins == SetupInit => SetupInv
<1> SUFFICES ASSUME SetupInit PROVE SetupInv
  OBVIOUS
<1>1. /\ what \in Bundle /\ direct \in SUBSET Setups /\ (what \notin {"tools", "ai"} => direct = {})
      /\ foreign \in {0, 2, 3} /\ (foreign # 0 => what = "environment")
      /\ setup = [p \in Setups |-> "idle"] /\ staging = [p \in Setups |-> NoDirectory]
      /\ holder = NoRun /\ app = FALSE /\ vouched = NoRun /\ serials = 0
  BY DEF SetupInit
<1>2. \A n \in Nat : LET d == [NoDirectory EXCEPT !.by = "user", !.parts = n]
                     IN  /\ d \in Dirs /\ d.by = "user" /\ d.parts = n
                         /\ d.half = FALSE /\ d.bad = FALSE
  BY DEF Dirs, NoDirectory
<1>3. /\ place \in Dirs /\ place.half = FALSE /\ place.bad = FALSE
      /\ \/ place.by = NoRun /\ place.parts = 0 /\ foreign = 0
         \/ place.by = "user" /\ place.parts = foreign /\ what = "environment"
      /\ foreign # 0 => place = [NoDirectory EXCEPT !.by = "user", !.parts = foreign]
  <2>1. CASE foreign = 0
    <3>1. place = NoDirectory
      BY <2>1 DEF SetupInit
    <3>q. QED BY <2>1, <3>1, Directories
  <2>2. CASE foreign # 0
    <3>1. place = [NoDirectory EXCEPT !.by = "user", !.parts = foreign]
      BY <2>2 DEF SetupInit
    <3>2. foreign \in Nat
      BY <1>1
    <3>q. QED BY <1>1, <1>2, <2>2, <3>1, <3>2
  <2>q. QED BY <2>1, <2>2
<1>4. SetupTyped /\ Locked /\ RunsKnow
  BY <1>1, <1>3, Directories DEF SetupTyped, Locked, RunsKnow, Active
<1>5. PartsOrdered
  <2>1. Complete \in Nat /\ Complete >= 2 /\ (what = "environment" => Complete = 3)
    BY <1>1, Completes
  <2>2. place.parts <= Complete /\ (place.by = NoRun => place.parts = 0)
    <3>1. foreign \in {0, 2, 3}
      BY <1>1
    <3>2. \/ place.by = NoRun /\ place.parts = 0
          \/ place.by = "user" /\ place.parts = foreign /\ what = "environment"
      BY <1>3
    <3>3. NoRun # "user"
      BY DEF NoRun
    <3>4. place.by = NoRun => place.parts = 0
      BY <3>2, <3>3, Zenon
    <3>5. foreign <= Complete
      BY <1>1, <2>1, <3>1
    <3>6. place.parts = 0 \/ place.parts = foreign
      BY <3>2, Zenon
    <3>7. place.parts <= Complete
      <4> HIDE DEF Complete
      <4>1. CASE place.parts = 0
        BY <2>1, <4>1
      <4>2. CASE place.parts = foreign
        BY <3>5, <4>2
      <4>q. QED BY <3>6, <4>1, <4>2
    <3>q. QED BY <3>4, <3>7
  <2>3. \A p \in Setups : staging[p].parts = 0 /\ staging[p].half = FALSE
    BY <1>1, Directories
  <2>q. QED BY <1>3, <2>1, <2>2, <2>3 DEF PartsOrdered
<1>7. NamedIsComplete
  BY <1>1, <1>3 DEF NamedIsComplete, InPlace, Exists
<1>6. ReadyStays /\ UsedIsStable /\ ForeignIsKept
  BY <1>1, <1>3 DEF ReadyStays, UsedIsStable, ForeignIsKept
<1>q. QED BY <1>4, <1>5, <1>6, <1>7 DEF SetupInv

\* The lock, the run that installs and the order of the parts keep SetupInv,
\* whoever dies, whatever the user removes and whatever damages a file.
THEOREM SetupInvariance == SetupSpec => []SetupInv
  BY SetupBegins, SetupStep, SetupStutters, PTL DEF SetupSpec

LEMMA SetupInvSound == SetupInv => SetupSound
  BY DEF SetupInv, SetupSound

\* For any number of runs of the setups: tools and AI runtimes have their name
\* only when they are whole, what one run called ready no other takes away or
\* apart, what the application uses stays whole until it ends, and an
\* environment that no setup made is left as it is.
THEOREM SetupIsSound == SetupSpec => []SetupSound
  BY SetupInvariance, SetupInvSound, PTL

=============================================================================
