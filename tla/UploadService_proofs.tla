------------------------ MODULE UploadService_proofs ------------------------
(***************************************************************************)
(* Theorems about the upload service, for every set of instances, accounts *)
(* and requests and every bound.  First the types of its rows, and that    *)
(* who executes a job may execute it and sends it under a current          *)
(* approval.  Then what the service sends: a job the platform took is the  *)
(* end of its chain of retries, and no chain forks; no deletion or         *)
(* restoration takes the file of a job that may be sent, and what ran has  *)
(* its receipt; a cancellation before dispatch prevents it.                *)
(***************************************************************************)
EXTENDS UploadService, FiniteSetTheorems, WellFoundedInduction, TLAPS

\* The jobs are numbered without gaps: a new row never replaces an old one.
Numbered == \E m \in 0..MaxJobs : \A j \in JobIds : Exists(j) <=> j <= m

\* OneExecutor with what it rests on: an upload is in the hands of its
\* execution from the claim to the return of the backend.
Executing ==
    \A p \in Procs : exec[p].step # "idle" =>
      /\ owner = p
      /\ exec[p].kind \in {"account", "upload"}
      /\ exec[p].step \in {"prepared", "invoked"} => exec[p].kind = "upload"
      /\ exec[p].kind = "upload" =>
           /\ exec[p].job \in JobIds /\ job[exec[p].job].state = "running"
           /\ exec[p].account \in Accounts
           /\ exec[p].step = "returned" => exec[p].result \in Results
      /\ exec[p].kind = "account" =>
           /\ exec[p].account \in Accounts
           /\ \/ op[exec[p].account].state = "running"
              \/ account[exec[p].account].life = "disconnected"

\* An approval that still waits is of the current login and of the time since
\* the last recovery; the one a job runs under is of the login its receipt
\* names.
Approved ==
    \A j \in JobIds :
      /\ Exists(j) => job[j].account \in Accounts
      /\ job[j].state \in {"none", "draft", "queued"} => ~attempt[j].dispatched
      /\ job[j].state = "queued" =>
           job[j].approved = <<account[job[j].account].session, epoch>>
      /\ job[j].state = "running" =>
           job[j].approved = <<attempt[j].session, epoch>>
      /\ attempt[j].dispatched => attempt[j].under = job[j].approved

\* While the root is copied nobody executes and the rows stay as copied.
Copying == Exclusive => owner = Nobody /\ backup.rows = Rows

IInv == RowTypes /\ Numbered /\ Executing /\ Approved /\ Copying

\* A backup begins only when no deletion or restoration of media is in flight,
\* and none begins while it copies.
Quiet == Exclusive => \A s \in Sources : move[s] = NoMove

LEMMA Bounds == /\ MaxJobs \in Nat /\ MaxLogins \in Nat
                /\ MaxChecks \in Nat /\ MaxEpochs \in Nat
  BY UploadAssumption

LEMMA InitIInv == Init => IInv
  <1> SUFFICES ASSUME Init PROVE IInv
    OBVIOUS
  <1> USE Bounds DEF Init, NoJob, NoAttempt, IdleExec, NoApproval, JobIds
  <1>1. RowTypes
    BY SMTT(30) DEF RowTypes, AccountRecord, OpRecord, JobRecord, AttemptRecord, ExecRecord,
           JobState, Settled, Results, Approvals, Alive
  <1>2. Numbered
    <2>1. 0 \in 0..MaxJobs /\ \A j \in JobIds : Exists(j) <=> j <= 0
      BY DEF Exists
    <2> QED BY <2>1 DEF Numbered
  <1>3. Executing /\ Approved /\ Copying
    BY DEF Executing, Approved, Copying, Exclusive, Exists
  <1> QED BY <1>1, <1>2, <1>3 DEF IInv

-----------------------------------------------------------------------------
(***************************************************************************)
(* Deletions and restorations of media in flight                           *)
(***************************************************************************)
Moves == FileTypes /\ Quiet

\* Every other operation leaves the files and what is in flight alone.
LEMMA UserFiles ==
  ASSUME UserStep
  PROVE  \/ UNCHANGED <<media, fileVars, backup>>
         \/ \E s \in Sources, p \in Procs :
              DeleteSourceMedia(p, s) \/ RestoreSourceMedia(p, s)
  BY DEF UserStep, CreateJobs, TombstoneRequest, RetryMany, Confirm, Cancel, Retry, OnlyJobs,
         ReconcileUnknown, Check, Login, CancelOperation, DisconnectAccount, dbVars

LEMMA SchedulerFiles ==
  ASSUME NEW p \in Procs,
         \/ Start(p) \/ StartFaults(p) \/ StartStandby(p) \/ Stop(p)
         \/ WatchCancellation(p) \/ WatcherBlind(p) \/ SchedulerStep(p)
         \/ SchedulerFails(p)
  PROVE  UNCHANGED <<media, fileVars, backup>>
  <1> USE DEF dbVars
  <1>1. CASE SchedulerStep(p)
    BY <1>1 DEF SchedulerStep, ClaimOperation, ClaimUpload, BackendAccount, FinishOperation,
           Prepare, MarkDispatch, FinishUpload, BackendUpload, ThreadExits
  <1>2. CASE SchedulerFails(p)
    BY <1>2 DEF SchedulerFails, RecoverInterruptedRecords
  <1> QED BY <1>1, <1>2 DEF Start, StartFaults, StartStandby, Stop, WatchCancellation,
             WatcherBlind, RecoverInterruptedRecords

LEMMA NoMoveType == NoMove \in MoveRecord
  BY DEF NoMove, MoveRecord

\* A move begins at a serving instance, so under no backup, and goes on from there.
LEMMA MovesGoOn ==
  ASSUME Moves, NEW s \in Sources,
         \/ MediaStep(s)
         \/ \E p \in Procs : DeleteSourceMedia(p, s) \/ RestoreSourceMedia(p, s)
  PROVE  Moves'
  <1>1. CASE MediaStep(s)
    <2>1. /\ ~Exclusive /\ backup' = backup
          /\ files' \subseteq Sources /\ cut' \subseteq Sources
      BY <1>1 DEF MediaStep, CommitMedia, RollBackMedia, UndoMedia, Moves, Quiet, NoMove, FileTypes
    <2>2. [move[s] EXCEPT !.step = "undoing"] \in MoveRecord
      BY DEF Moves, FileTypes, MoveRecord
    <2>3. move' \in [Sources -> MoveRecord]
      BY <1>1, <2>2, NoMoveType DEF MediaStep, CommitMedia, RollBackMedia, UndoMedia, Moves, FileTypes
    <2> QED BY <2>1, <2>3 DEF Moves, FileTypes, Quiet, Exclusive
  <1>2. ASSUME NEW p \in Procs, DeleteSourceMedia(p, s) \/ RestoreSourceMedia(p, s)
        PROVE  Moves'
    <2>1. /\ ~Exclusive /\ backup' = backup
          /\ files' \subseteq Sources /\ cut' \subseteq Sources
      BY <1>2 DEF DeleteSourceMedia, RestoreSourceMedia, Serves, Moves, FileTypes
    <2>2. \A row \in {"present", "deleted"} : Moving(p, row) \in MoveRecord
      BY DEF Moving, MoveRecord
    <2>3. move' \in [Sources -> MoveRecord]
      BY <1>2, <2>2 DEF DeleteSourceMedia, RestoreSourceMedia, Moves, FileTypes
    <2> QED BY <2>1, <2>3 DEF Moves, FileTypes, Quiet, Exclusive
  <1> QED BY <1>1, <1>2

LEMMA CrashMoves ==
  ASSUME Moves, NEW p \in Procs, Crash(p)
  PROVE  Moves'
  BY NoMoveType DEF Crash, MovesOf, Moves, FileTypes, Quiet, Exclusive

LEMMA BackupMoves ==
  ASSUME Moves, BackupStep
  PROVE  Moves'
  BY DEF BackupStep, BeginBackup, EndBackup, RestoreBackup, Leased, fileVars,
         Moves, FileTypes, Quiet, Exclusive

LEMMA NextMoves == Moves /\ [Next]_vars => Moves'
  <1> SUFFICES ASSUME Moves, [Next]_vars PROVE Moves'
    OBVIOUS
  <1>1. ASSUME UNCHANGED <<fileVars, backup>> PROVE Moves'
    BY <1>1 DEF fileVars, Moves, FileTypes, Quiet, Exclusive
  <1>2. CASE UserStep
    BY <1>1, <1>2, UserFiles, MovesGoOn
  <1>3. CASE BackupStep
    BY <1>3, BackupMoves
  <1>4. CASE \E s \in Sources : MediaStep(s)
    BY <1>4, MovesGoOn
  <1>5. CASE \E j \in JobIds : RemoteAccepts(j)
    BY <1>1, <1>5 DEF RemoteAccepts
  <1>6. ASSUME NEW p \in Procs,
               \/ Start(p) \/ StartFaults(p) \/ StartStandby(p) \/ Stop(p) \/ Crash(p)
               \/ WatchCancellation(p) \/ WatcherBlind(p)
               \/ SchedulerStep(p) \/ SchedulerFails(p)
        PROVE  Moves'
    BY <1>1, <1>6, SchedulerFiles, CrashMoves
  <1>7. CASE UNCHANGED vars
    BY <1>1, <1>7 DEF vars
  <1> QED BY <1>2, <1>3, <1>4, <1>5, <1>6, <1>7 DEF Next

LEMMA InitMoves == Init => Moves
  BY NoMoveType DEF Init, Moves, FileTypes, Quiet, Exclusive

LEMMA MediaMoves == Spec => []Moves
  BY InitMoves, NextMoves, PTL DEF Spec

-----------------------------------------------------------------------------
(***************************************************************************)
(* Rows and executions                                                     *)
(***************************************************************************)
LEMMA IdleType ==
  /\ IdleExec \in ExecRecord /\ IdleExec.step = "idle"
  /\ JobIds \subseteq 0..MaxJobs
  BY Bounds DEF IdleExec, ExecRecord, JobIds

\* While rows stay as they are, only the executions matter.
LEMMA RowsKept ==
  ASSUME IInv, UNCHANGED <<dbVars, epoch, checks, backup>>,
         accepted' \subseteq JobIds,
         up' \in [Procs -> Alive \cup {"down"}],
         owner' \in Procs \cup {Nobody},
         exec' \in [Procs -> ExecRecord],
         Executing', Exclusive => owner' = Nobody
  PROVE  IInv'
  BY DEF IInv, RowTypes, Numbered, Approved, Copying, Exclusive, Exists, dbVars, Rows

\* An execution that does not end stays in the hands of its instance.
LEMMA ExecutionGoesOn ==
  ASSUME IInv, NEW p \in Procs, exec[p].step # "idle",
         NEW e \in ExecRecord, exec' = [exec EXCEPT ![p] = e],
         e.step # "idle", e.kind = exec[p].kind, e.job = exec[p].job,
         e.account = exec[p].account,
         e.step \in {"prepared", "invoked"} => e.kind = "upload",
         e.kind = "upload" /\ e.step = "returned" => e.result \in Results,
         UNCHANGED <<dbVars, up, owner, accepted, epoch, checks, backup>>
  PROVE  IInv'
  <1>1. Executing'
    BY DEF IInv, Executing, RowTypes, dbVars
  <1>2. ~Exclusive
    BY UploadNames DEF IInv, Executing, Copying
  <1> QED BY <1>1, <1>2, RowsKept DEF IInv, RowTypes
\* What a stop request writes into the registers of an execution.
LEMMA StopType ==
  ASSUME NEW e \in ExecRecord, NEW b \in BOOLEAN
  PROVE  LET f == [e EXCEPT !.stop = b]
         IN  /\ f \in ExecRecord /\ f.step = e.step /\ f.kind = e.kind
             /\ f.job = e.job /\ f.account = e.account /\ f.result = e.result
             /\ f.invoked = e.invoked
  BY DEF ExecRecord

LEMMA LifecycleIInv ==
  ASSUME IInv, NEW p \in Procs,
         \/ StartFaults(p) \/ StartStandby(p) \/ Stop(p) \/ ThreadExits(p)
         \/ Crash(p)
  PROVE  IInv'
  <1> USE DEF IInv, RowTypes, Executing, Copying, Exclusive, Alive
  <1>1. CASE StartFaults(p)
    BY <1>1, RowsKept DEF StartFaults, dbVars
  <1>2. CASE StartStandby(p)
    BY <1>2, RowsKept DEF StartStandby, dbVars
  <1>3. CASE Stop(p)
    <2>1. exec' \in [Procs -> ExecRecord]
      <3> DEFINE b == exec[p].step # "idle"
      <3>1. b \in BOOLEAN /\ exec' = [exec EXCEPT ![p] = [exec[p] EXCEPT !.stop = b]]
        BY <1>3 DEF Stop
      <3> HIDE DEF b
      <3> QED BY <3>1, StopType
    <2>2. Executing'
      BY <1>3 DEF Stop, dbVars, ExecRecord
    <2> QED BY <1>3, <2>1, <2>2, RowsKept DEF Stop, dbVars
  <1>4. CASE ThreadExits(p)
    <2>1. Executing'
      BY <1>4 DEF ThreadExits, LockKeptUntilExit, dbVars
    <2> QED BY <1>4, <2>1, RowsKept DEF ThreadExits, dbVars
  <1>5. CASE Crash(p)
    <2>1. Executing'
      BY IdleType, <1>5 DEF Crash, dbVars
    <2> QED BY IdleType, <1>5, <2>1, RowsKept DEF Crash, dbVars
  <1> QED BY <1>1, <1>2, <1>3, <1>4, <1>5

LEMMA WatcherIInv ==
  ASSUME IInv, NEW p \in Procs, WatchCancellation(p) \/ WatcherBlind(p)
  PROVE  IInv'
  <1> DEFINE e == [exec[p] EXCEPT !.stop = TRUE]
  <1>1. exec' = [exec EXCEPT ![p] = e]
    BY DEF WatchCancellation, WatcherBlind
  <1>2. /\ exec[p].step # "idle"
        /\ UNCHANGED <<dbVars, up, owner, accepted, epoch, checks, backup>>
    BY DEF WatchCancellation, WatcherBlind
  <1>3. exec[p] \in ExecRecord
    BY DEF IInv, RowTypes
  <1>4. /\ e \in ExecRecord /\ e.step = exec[p].step /\ e.kind = exec[p].kind
        /\ e.job = exec[p].job /\ e.account = exec[p].account
        /\ e.result = exec[p].result
    BY <1>3, StopType
  <1> HIDE DEF e
  <1> QED BY <1>1, <1>2, <1>4, ExecutionGoesOn DEF IInv, Executing

LEMMA ReturnIInv ==
  ASSUME IInv, NEW p \in Procs, exec[p].step # "idle",
         NEW r \in Results \cup {"ready"}, NEW bad \in BOOLEAN, Return(p, r, bad),
         exec[p].kind = "upload" => r \in Results,
         UNCHANGED <<dbVars, up, owner, accepted, epoch, checks, backup>>
  PROVE  IInv'
  <1> DEFINE e == [exec[p] EXCEPT !.step = "returned", !.result = r, !.badAuth = bad]
  <1>1. exec[p] \in ExecRecord
    BY DEF IInv, RowTypes
  <1>2. exec' = [exec EXCEPT ![p] = e]
    BY DEF Return
  <1>3. /\ e \in ExecRecord /\ e.step = "returned" /\ e.kind = exec[p].kind
        /\ e.job = exec[p].job /\ e.account = exec[p].account /\ e.result = r
    BY <1>1 DEF ExecRecord
  <1> HIDE DEF e
  <1>4. /\ e.step # "idle" /\ e.step \notin {"prepared", "invoked"}
        /\ e.kind = "upload" => e.result \in Results
    BY <1>3
  <1> QED BY <1>2, <1>3, <1>4, ExecutionGoesOn

\* The steps of the scheduler thread that only touch its own registers.
LEMMA CallIInv ==
  ASSUME IInv, NEW p \in Procs,
         \/ BackendAccount(p) \/ Prepare(p)
         \/ \E r \in Results, bad \in BOOLEAN : BackendUpload(p, r, bad)
  PROVE  IInv'
  <1>1. /\ exec[p].step \in {"claimed", "invoked"}
        /\ UNCHANGED <<dbVars, up, owner, accepted, epoch, checks, backup>>
    BY DEF BackendAccount, Prepare, BackendUpload
  <1>2. CASE BackendAccount(p)
    BY <1>1, <1>2, ReturnIInv DEF BackendAccount, Results
  <1>3. CASE \E r \in Results, bad \in BOOLEAN : BackendUpload(p, r, bad)
    BY <1>1, <1>3, ReturnIInv DEF BackendUpload
  <1>4. CASE Prepare(p)
    <2>1. CASE \E r \in {"failed", "canceled"} : Return(p, r, FALSE)
      BY <1>1, <2>1, ReturnIInv DEF Results
    <2>2. CASE exec' = [exec EXCEPT ![p].step = "prepared"]
      <3> DEFINE e == [exec[p] EXCEPT !.step = "prepared"]
      <3>1. exec' = [exec EXCEPT ![p] = e] /\ exec[p].kind = "upload"
        BY <1>4, <2>2 DEF Prepare
      <3>2. exec[p] \in ExecRecord
        BY DEF IInv, RowTypes
      <3>3. /\ e \in ExecRecord /\ e.step = "prepared" /\ e.kind = exec[p].kind
            /\ e.job = exec[p].job /\ e.account = exec[p].account
        BY <3>2 DEF ExecRecord
      <3> HIDE DEF e
      <3> QED BY <1>1, <3>1, <3>3, ExecutionGoesOn
    <2> QED BY <1>4, <2>1, <2>2 DEF Prepare
  <1> QED BY <1>2, <1>3, <1>4

LEMMA RemoteIInv ==
  ASSUME IInv, NEW j \in JobIds, RemoteAccepts(j)
  PROVE  IInv'
  BY RowsKept DEF RemoteAccepts, IInv, RowTypes, Executing, Copying, procVars, dbVars

LEMMA BackupIInv ==
  ASSUME IInv, BeginBackup \/ EndBackup
  PROVE  IInv'
  BY DEF BeginBackup, EndBackup, SchedulerIdle, Exclusive, Rows,
         IInv, RowTypes, Numbered, Exists, Executing, Approved, Copying, dbVars, procVars
\* What the API operations share: the rows change, the schedulers do not.
LEMMA RowsChange ==
  ASSUME IInv, AppUp \/ ~Exclusive,
         UNCHANGED <<up, owner, exec, accepted, epoch, backup>>,
         account' \in [Accounts -> AccountRecord],
         op' \in [Accounts -> OpRecord],
         job' \in [JobIds -> JobRecord],
         attempt' \in [JobIds -> AttemptRecord],
         request' \in [Keys -> {"absent", "tombstone", "jobs"}],
         media' \in [Sources -> {"present", "deleted"}],
         checks' \in 0..MaxChecks,
         Numbered', Executing', Approved'
  PROVE  IInv'
  BY DEF IInv, RowTypes, Copying, Exclusive, AppUp, Serves

\* What the program counts is where the numbering ends.
LEMMA JobCountIs ==
  ASSUME NEW m \in 0..MaxJobs, \A j \in JobIds : Exists(j) <=> j <= m
  PROVE  JobCount = m
  <1>1. {j \in JobIds : Exists(j)} = 1..m
    BY Bounds DEF JobIds
  <1>2. Cardinality(1..m) = m
    BY FS_Interval
  <1> QED BY <1>1, <1>2 DEF JobCount

LEMMA NoJobType == NoJob \in JobRecord
  <1>1. <<0, 0>> \in Approvals
    BY Bounds DEF Approvals
  <1> QED BY <1>1, Bounds DEF NoJob, NoApproval, JobRecord, JobState

LEMMA DraftType ==
  ASSUME NEW a \in Accounts, NEW k \in Keys \cup {Nobody}, NEW i \in 0..MaxJobs
  PROVE  /\ Draft(a, k, i) \in JobRecord /\ Draft(a, k, i).state = "draft"
         /\ Draft(a, k, i).account = a
  <1>1. ASSUME NEW r \in JobRecord
        PROVE  LET f == [r EXCEPT !.state = "draft", !.account = a, !.key = k,
                                  !.retryOf = i]
               IN  f \in JobRecord /\ f.state = "draft" /\ f.account = a
    BY DEF JobRecord, JobState
  <1> QED BY <1>1, NoJobType DEF Draft

\* New drafts take the next numbers.
LEMMA NewDrafts ==
  ASSUME IInv, AppUp, NEW m \in 0..MaxJobs, NEW n \in m..MaxJobs,
         \A j \in JobIds : Exists(j) <=> j <= m,
         job' = [j \in JobIds |-> job'[j]],
         \A j \in JobIds : m < j /\ j <= n =>
           \E a \in Accounts, k \in Keys \cup {Nobody}, i \in 0..MaxJobs :
             job'[j] = Draft(a, k, i),
         \A j \in JobIds : ~(m < j /\ j <= n) => job'[j] = job[j],
         request' \in [Keys -> {"absent", "tombstone", "jobs"}],
         UNCHANGED <<account, op, attempt, media, procVars, accepted, epoch,
                     checks, backup>>
  PROVE  IInv'
  <1>1. ASSUME NEW a \in Accounts, NEW k \in Keys \cup {Nobody},
               NEW i \in 0..MaxJobs
        PROVE  /\ Draft(a, k, i) \in JobRecord /\ Draft(a, k, i).state = "draft"
               /\ Draft(a, k, i).account = a
    BY DraftType
  <1>2. job' \in [JobIds -> JobRecord]
    <2>1. \A j \in JobIds : job[j] \in JobRecord
      BY DEF IInv, RowTypes
    <2>2. \A j \in JobIds : job'[j] \in JobRecord
      BY <1>1, <2>1
    <2> QED BY <2>2
  <1>3. \A j \in JobIds : Exists(j) => job'[j] = job[j]
    BY Bounds DEF JobIds
  <1>4. \A j \in JobIds : ~Exists(j) /\ j <= n =>
          job'[j].state = "draft" /\ job'[j].account \in Accounts
    BY <1>1 DEF JobIds
  <1>5. Numbered'
    <2>1. \A j \in JobIds : Exists(j)' <=> j <= n
      BY <1>3, <1>4 DEF Exists, JobIds
    <2>2. n \in 0..MaxJobs
      BY Bounds
    <2> QED BY <2>1, <2>2 DEF Numbered
  <1>6. Executing'
    BY <1>3 DEF IInv, Executing, Exists, procVars
  <1>7. Approved'
    <2>1. \A j \in JobIds : Exists(j) \/ (~Exists(j) /\ j <= n) \/ job'[j] = job[j]
      BY Bounds DEF JobIds
    <2> QED BY <1>3, <1>4, <2>1 DEF IInv, Approved, Exists
  <1> QED BY <1>2, <1>5, <1>6, <1>7, RowsChange DEF IInv, RowTypes, procVars

LEMMA CreateJobsIInv ==
  ASSUME IInv, NEW k \in Keys, CreateJobs(k)
  PROVE  IInv'
  <1>1. PICK m \in 0..MaxJobs : \A j \in JobIds : Exists(j) <=> j <= m
    BY DEF IInv, Numbered
  <1>2. JobCount = m
    BY <1>1, JobCountIs
  <1>3. TargetsOf[k] \in Seq(Accounts)
    BY UploadAssumption
  <1> DEFINE n == m + Len(TargetsOf[k])
  <1>4. /\ Len(TargetsOf[k]) \in Nat /\ DOMAIN TargetsOf[k] = 1..Len(TargetsOf[k])
        /\ \A i \in DOMAIN TargetsOf[k] : TargetsOf[k][i] \in Accounts
    BY <1>3
  <1>5. n \in m..MaxJobs
    BY <1>2, <1>4, Bounds DEF CreateJobs
  <1>6. ASSUME NEW j \in JobIds
        PROVE  /\ j - m \in DOMAIN TargetsOf[k] <=> m < j /\ j <= n
               /\ job'[j] = IF m < j /\ j <= n
                            THEN Draft(TargetsOf[k][j - m], k, 0) ELSE job[j]
    <2>1. j - m \in 1..Len(TargetsOf[k]) <=> m < j /\ j <= n
      BY <1>4, Bounds DEF JobIds
    <2> QED BY <1>2, <1>4, <2>1 DEF CreateJobs
  <1>7. 0 \in 0..MaxJobs
    BY Bounds
  <1>8. /\ request' \in [Keys -> {"absent", "tombstone", "jobs"}]
        /\ job' = [j \in JobIds |-> job'[j]]
        /\ AppUp
        /\ UNCHANGED <<account, op, attempt, media, procVars, accepted, epoch,
                       checks, backup>>
    BY DEF CreateJobs, IInv, RowTypes
  <1> HIDE DEF n
  <1>9. \A j \in JobIds : m < j /\ j <= n =>
          \E a \in Accounts, q \in Keys \cup {Nobody}, i \in 0..MaxJobs :
            job'[j] = Draft(a, q, i)
    BY <1>4, <1>6, <1>7
  <1> QED BY <1>1, <1>5, <1>6, <1>8, <1>9, NewDrafts
LEMMA InsertedIInv ==
  ASSUME IInv, AppUp, NEW J \in SUBSET {j \in JobIds : Exists(j)},
         JobCount + Cardinality(J) <= MaxJobs,
         job' \in WithRetries(J), OnlyJobs
  PROVE  IInv'
  <1>1. PICK m \in 0..MaxJobs : \A j \in JobIds : Exists(j) <=> j <= m
    BY DEF IInv, Numbered
  <1>2. JobCount = m
    BY <1>1, JobCountIs
  <1>3. IsFiniteSet(J)
    <2>1. IsFiniteSet(JobIds) /\ J \in SUBSET JobIds
      BY Bounds, FS_Interval DEF JobIds
    <2> QED BY <2>1, FS_Subset
  <1> DEFINE c == Cardinality(J)
             n == m + c
  <1>4. c \in Nat
    BY <1>3, FS_CardinalityType
  <1>5. n \in m..MaxJobs
    BY <1>2, <1>4, Bounds
  <1>6. PICK place \in [J -> 1..c] :
          /\ \A i, j \in J : place[i] = place[j] => i = j
          /\ job' = [q \in JobIds |->
                       IF \E j \in J : q = JobCount + place[j]
                       THEN LET j == CHOOSE i \in J : q = JobCount + place[i]
                            IN  Draft(job[j].account, job[j].key, j)
                       ELSE job[q]]
    BY DEF WithRetries
  <1>7. \A q \in 1..c : \E j \in J : place[j] = q
    <2>1. place \in Injection(J, 1..c)
      BY <1>6 DEF Injection, IsInjective
    <2>2. IsFiniteSet(1..c) /\ Cardinality(1..c) = c
      BY <1>4, FS_Interval
    <2>3. place \in Surjection(J, 1..c)
      BY <2>1, <2>2, FS_Injection
    <2> QED BY <2>3 DEF Surjection
  <1>8. ASSUME NEW q \in JobIds
        PROVE  (\E j \in J : q = JobCount + place[j]) <=> m < q /\ q <= n
    <2>1. ASSUME NEW j \in J, q = JobCount + place[j]
          PROVE  m < q /\ q <= n
      <3>1. place[j] \in 1..c
        BY <1>6
      <3> QED BY <1>2, <1>4, <2>1, <3>1
    <2>2. ASSUME m < q, q <= n
          PROVE  \E j \in J : q = JobCount + place[j]
      <3>1. q - m \in 1..c
        BY <1>4, <2>2, Bounds DEF JobIds
      <3>2. PICK j \in J : place[j] = q - m
        BY <1>7, <3>1
      <3>3. q = m + place[j]
        BY <3>2, Bounds DEF JobIds
      <3> QED BY <1>2, <3>3
    <2> QED BY <2>1, <2>2
  <1>9. ASSUME NEW q \in JobIds, m < q, q <= n
        PROVE  \E a \in Accounts, k \in Keys \cup {Nobody}, i \in 0..MaxJobs :
                 job'[q] = Draft(a, k, i)
    <2>1. PICK j \in J : job'[q] = Draft(job[j].account, job[j].key, j)
      <3> DEFINE j == CHOOSE i \in J : q = JobCount + place[i]
      <3>1. j \in J
        BY <1>8, <1>9
      <3>2. job'[q] = Draft(job[j].account, job[j].key, j)
        BY <1>6, <1>8, <1>9
      <3> QED BY <3>1, <3>2
    <2>2. job[j].account \in Accounts /\ j \in 0..MaxJobs
      BY Bounds DEF IInv, Approved, JobIds
    <2>3. job[j].key \in Keys \cup {Nobody}
      BY DEF IInv, RowTypes, JobRecord
    <2> QED BY <2>1, <2>2, <2>3
  <1>10. \A q \in JobIds : ~(m < q /\ q <= n) => job'[q] = job[q]
    BY <1>6, <1>8
  <1>11. job' = [q \in JobIds |-> job'[q]]
    BY <1>6
  <1>12. request' \in [Keys -> {"absent", "tombstone", "jobs"}]
    BY DEF OnlyJobs, IInv, RowTypes
  <1> HIDE DEF n
  <1> QED BY <1>1, <1>5, <1>9, <1>10, <1>11, <1>12, NewDrafts DEF OnlyJobs

LEMMA RetryIInv ==
  ASSUME IInv, \/ \E j \in JobIds : Retry(j)
               \/ \E k \in Keys : RetryMany(k)
  PROVE  IInv'
  <1>1. ASSUME NEW j \in JobIds, Retry(j)
        PROVE  IInv'
    <2>1. Cardinality({j}) = 1 /\ {j} \in SUBSET {i \in JobIds : Exists(i)}
      BY <1>1, FS_Singleton DEF Retry, Retryable, Exists
    <2>2. JobCount \in Nat
      <3>1. PICK m \in 0..MaxJobs : \A i \in JobIds : Exists(i) <=> i <= m
        BY DEF IInv, Numbered
      <3> QED BY <3>1, JobCountIs, Bounds
    <2>3. JobCount + Cardinality({j}) <= MaxJobs
      BY <1>1, <2>1, <2>2, Bounds DEF Retry
    <2> QED BY <1>1, <2>1, <2>3, InsertedIInv DEF Retry
  <1>2. ASSUME NEW k \in Keys, RetryMany(k)
        PROVE  IInv'
    <2> DEFINE leaves     == {j \in JobIds : Exists(j) /\ job[j].key = k /\ Leaf(j)}
               candidates == {j \in leaves : job[j].state \in {"failed", "canceled"}}
    <2>1. candidates \in SUBSET {i \in JobIds : Exists(i)}
      OBVIOUS
    <2>2. /\ AppUp /\ JobCount + Cardinality(candidates) <= MaxJobs
          /\ job' \in WithRetries(candidates) /\ OnlyJobs
      BY <1>2 DEF RetryMany
    <2> HIDE DEF candidates
    <2> QED BY <2>1, <2>2, InsertedIInv
  <1> QED BY <1>1, <1>2

LEMMA RequestIInv ==
  ASSUME IInv, NEW k \in Keys, TombstoneRequest(k)
  PROVE  IInv'
  <1> USE DEF procVars
  <1>1. /\ AppUp /\ UNCHANGED <<account, op, job, attempt, media, procVars, accepted,
                                epoch, checks, backup>>
        /\ request' \in [Keys -> {"absent", "tombstone", "jobs"}]
    BY DEF TombstoneRequest, IInv, RowTypes
  <1>2. Numbered' /\ Executing' /\ Approved'
    BY <1>1 DEF IInv, Numbered, Executing, Approved, Exists
  <1> QED BY <1>1, <1>2, RowsChange DEF IInv, RowTypes

\* A step that leaves the rows, the schedulers and the backup alone
LEMMA StillIInv ==
  ASSUME IInv, UNCHANGED <<dbVars, procVars, accepted, epoch, checks, backup>>
  PROVE  IInv'
  <1>1. UNCHANGED <<dbVars, up, owner, exec, accepted, epoch, checks, backup>>
    BY DEF procVars
  <1>2. Executing'
    BY <1>1 DEF IInv, Executing, dbVars
  <1> QED BY <1>1, <1>2, RowsKept DEF IInv, RowTypes, Copying

LEMMA MovesIInv ==
  ASSUME IInv, NEW s \in Sources,
         \/ RollBackMedia(s) \/ UndoMedia(s)
         \/ \E p \in Procs : DeleteSourceMedia(p, s) \/ RestoreSourceMedia(p, s)
  PROVE  IInv'
  BY StillIInv DEF RollBackMedia, UndoMedia, DeleteSourceMedia, RestoreSourceMedia

\* The row of a source is written while its move is in flight, so under no backup.
LEMMA CommitMediaIInv ==
  ASSUME IInv, Quiet, FileTypes, NEW s \in Sources, CommitMedia(s)
  PROVE  IInv'
  <1>1. ~Exclusive /\ ~Exclusive'
    BY DEF CommitMedia, Quiet, NoMove, Exclusive
  <1>2. /\ UNCHANGED <<account, op, job, attempt, request, up, owner, exec, accepted,
                       epoch, checks, backup>>
        /\ media' \in [Sources -> {"present", "deleted"}]
    BY DEF CommitMedia, procVars, IInv, RowTypes, FileTypes, MoveRecord
  <1>3. Numbered' /\ Executing' /\ Approved'
    BY <1>2 DEF IInv, Numbered, Executing, Approved, Exists
  <1> QED BY <1>1, <1>2, <1>3 DEF IInv, RowTypes, Copying

\* Changing the state and the flag of a job leaves the rest of its row.
LEMMA JobStateType ==
  ASSUME NEW r \in JobRecord, NEW s \in JobState, NEW c \in BOOLEAN
  PROVE  LET f == [r EXCEPT !.state = s, !.cancel = c]
         IN  /\ f \in JobRecord /\ f.state = s /\ f.account = r.account
             /\ f.approved = r.approved /\ f.retryOf = r.retryOf
  BY DEF JobRecord

LEMMA ConfirmIInv ==
  ASSUME IInv, NEW J \in SUBSET JobIds, Confirm(J)
  PROVE  IInv'
  <1> DEFINE pending == {j \in J : job[j].state = "draft"}
             now(j)  == <<account[job[j].account].session, epoch>>
             f(j)    == [job[j] EXCEPT !.state = "queued", !.cancel = FALSE,
                                       !.approved = now(j)]
  <1>1. /\ AppUp /\ job' = [j \in JobIds |-> IF j \in pending THEN f(j) ELSE job[j]]
        /\ UNCHANGED <<account, op, attempt, request, media, procVars,
                       accepted, epoch, checks, backup>>
    BY DEF Confirm
  <1>2. ASSUME NEW r \in JobRecord, NEW v \in Approvals
        PROVE  LET g == [r EXCEPT !.state = "queued", !.cancel = FALSE, !.approved = v]
               IN  /\ g \in JobRecord /\ g.state = "queued" /\ g.account = r.account
                   /\ g.approved = v
    BY DEF JobRecord, JobState
  <1>3. ASSUME NEW j \in pending
        PROVE  /\ f(j) \in JobRecord /\ f(j).state = "queued"
               /\ f(j).account = job[j].account /\ f(j).approved = now(j)
    <2>1. job[j].account \in Accounts
      BY DEF IInv, Approved, Exists
    <2>2. account[job[j].account] \in AccountRecord
      BY <2>1 DEF IInv, RowTypes
    <2>3. now(j) \in Approvals
      BY <2>2 DEF AccountRecord, Approvals, IInv, RowTypes
    <2>4. job[j] \in JobRecord
      BY DEF IInv, RowTypes
    <2> QED BY <1>2, <2>3, <2>4
  <1> HIDE DEF f, now
  <1>4. job' \in [JobIds -> JobRecord]
    BY <1>1, <1>3 DEF IInv, RowTypes
  <1>5. ASSUME NEW j \in JobIds
        PROVE  \/ /\ job[j].state = "draft" /\ job'[j].state = "queued"
                  /\ job'[j].account = job[j].account /\ job'[j].approved = now(j)
               \/ job'[j] = job[j]
    BY <1>1, <1>3
  <1>6. Numbered'
    BY <1>5 DEF IInv, Numbered, Exists
  <1>7. Executing'
    BY <1>1, <1>5 DEF IInv, Executing, procVars
  <1>8. Approved'
    BY <1>1, <1>5 DEF IInv, Approved, Exists, now
  <1> QED BY <1>1, <1>4, <1>6, <1>7, <1>8, RowsChange DEF IInv, RowTypes, procVars

LEMMA ReconcileIInv ==
  ASSUME IInv, NEW j \in JobIds, ReconcileUnknown(j)
  PROVE  IInv'
  <1>1. PICK s \in Settled : job' = [job EXCEPT ![j].state = s]
    <2> DEFINE s == IF j \in accepted THEN Outcome(job[j].account) ELSE "failed"
    <2>1. s \in Settled
      BY DEF Settled, Outcome
    <2>2. job' = [job EXCEPT ![j].state = s]
      BY DEF ReconcileUnknown
    <2> HIDE DEF s
    <2> QED BY <2>1, <2>2
  <1>2. PICK v \in {"yes", "no"} :
          attempt' = [attempt EXCEPT ![j].state = "reconciled",
                                     ![j].revision = @ + 1, ![j].accepted = v]
    BY DEF ReconcileUnknown
  <1>3. /\ AppUp /\ job[j].state = "unknown" /\ attempt[j].revision = 2
        /\ UNCHANGED <<account, op, request, media, procVars, accepted, epoch,
                       checks, backup>>
    BY DEF ReconcileUnknown, ValidReceipt
  <1>4. job[j] \in JobRecord /\ attempt[j] \in AttemptRecord
    BY DEF IInv, RowTypes
  <1>5. LET f == [job[j] EXCEPT !.state = s]
        IN  /\ f \in JobRecord /\ f.state = s /\ f.account = job[j].account
            /\ f.approved = job[j].approved
    BY <1>4 DEF JobRecord, JobState
  <1>6. LET f == [attempt[j] EXCEPT !.state = "reconciled", !.revision = @ + 1,
                                    !.accepted = v]
        IN  /\ f \in AttemptRecord /\ f.session = attempt[j].session
            /\ f.dispatched = attempt[j].dispatched /\ f.under = attempt[j].under
    <2>1. attempt[j].revision + 1 \in 0..3
      BY <1>3
    <2>2. ASSUME NEW t \in AttemptRecord, NEW n \in 0..3
          PROVE  LET f == [t EXCEPT !.state = "reconciled", !.revision = n,
                                    !.accepted = v]
                 IN  /\ f \in AttemptRecord /\ f.session = t.session
                     /\ f.dispatched = t.dispatched /\ f.under = t.under
      BY DEF AttemptRecord
    <2> QED BY <1>4, <2>1, <2>2
  <1>7. job' \in [JobIds -> JobRecord] /\ attempt' \in [JobIds -> AttemptRecord]
    BY <1>1, <1>2, <1>5, <1>6 DEF IInv, RowTypes
  <1>8. /\ \A i \in JobIds \ {j} : job'[i] = job[i] /\ attempt'[i] = attempt[i]
        /\ job'[j].state = s /\ job'[j].account = job[j].account
        /\ job'[j].approved = job[j].approved
        /\ attempt'[j].dispatched = attempt[j].dispatched
        /\ attempt'[j].under = attempt[j].under
    BY <1>1, <1>2, <1>5, <1>6 DEF IInv, RowTypes
  <1>9. Numbered'
    BY <1>3, <1>8 DEF IInv, Numbered, Exists, Settled
  <1>10. Executing'
    BY <1>3, <1>8 DEF IInv, Executing, procVars
  <1>11. Approved'
    BY <1>3, <1>8 DEF IInv, Approved, Exists, Settled
  <1> QED BY <1>3, <1>7, <1>9, <1>10, <1>11, RowsChange DEF IInv, RowTypes, procVars
\* What _revoke_queued leaves of a job.
LEMMA Revoked ==
  ASSUME NEW jb \in [JobIds -> JobRecord], NEW a
  PROVE  /\ RevokeQueued(jb, a) \in [JobIds -> JobRecord]
         /\ \A j \in JobIds :
              LET r == RevokeQueued(jb, a)[j]
              IN  /\ r = jb[j] \/ (jb[j].state = "queued" /\ r.state = "draft")
                  /\ r.account = jb[j].account /\ r.approved = jb[j].approved
                  /\ r.retryOf = jb[j].retryOf
                  /\ jb[j].account = a => r.state # "queued"
  <1>1. ASSUME NEW j \in JobIds
        PROVE  LET r == RevokeQueued(jb, a)[j]
               IN  /\ r \in JobRecord
                   /\ r = jb[j] \/ (jb[j].state = "queued" /\ r.state = "draft")
                   /\ r.account = jb[j].account /\ r.approved = jb[j].approved
                   /\ r.retryOf = jb[j].retryOf
                   /\ jb[j].account = a => r.state # "queued"
    <2>1. LET f == [jb[j] EXCEPT !.state = "draft"]
          IN  /\ f \in JobRecord /\ f.state = "draft" /\ f.account = jb[j].account
              /\ f.approved = jb[j].approved /\ f.retryOf = jb[j].retryOf
      BY DEF JobRecord, JobState
    <2> QED BY <2>1 DEF RevokeQueued, JobsOf
  <1> QED BY <1>1 DEF RevokeQueued

\* What an account row and an operation row can become.
LEMMA AccountType ==
  ASSUME NEW r \in AccountRecord
  PROVE  /\ \A x \in {"unchecked", "checking", "ready", "invalid"} :
              LET f == [r EXCEPT !.auth = x]
              IN  f \in AccountRecord /\ f.life = r.life /\ f.session = r.session
         /\ \A n \in 0..MaxLogins :
              LET f == [r EXCEPT !.auth = "checking", !.session = n]
              IN  f \in AccountRecord /\ f.life = r.life /\ f.session = n
         /\ LET f == [r EXCEPT !.auth = "unchecked", !.life = "disconnected"]
            IN  f \in AccountRecord /\ f.life = "disconnected" /\ f.session = r.session
  BY DEF AccountRecord

LEMMA OpType ==
  ASSUME NEW r \in OpRecord
  PROVE  /\ [r EXCEPT !.state = "done"] \in OpRecord
         /\ [r EXCEPT !.cancel = TRUE] \in OpRecord
         /\ [r EXCEPT !.cancel = TRUE].state = r.state
         /\ LET f == [r EXCEPT !.state = "running", !.cancel = FALSE]
            IN  f \in OpRecord /\ f.state = "running"
  BY DEF OpRecord

\* Under a backup nobody holds the lock.
LEMMA HolderServes ==
  ASSUME IInv, NEW p \in Procs, owner = p
  PROVE  ~Exclusive
  BY UploadNames DEF IInv, Copying

LEMMA LoginIInv ==
  ASSUME IInv, NEW p \in Procs, NEW a \in Accounts, Login(p, a)
  PROVE  IInv'
  <1> DEFINE q == [action |-> "login", state |-> "queued", cancel |-> FALSE]
             f == [account[a] EXCEPT !.auth = "checking", !.session = @ + 1]
  <1>1. /\ ~Exclusive /\ op[a].state = "done" /\ account[a].life = "active"
        /\ op' = [op EXCEPT ![a] = q] /\ account' = [account EXCEPT ![a] = f]
        /\ job' = RevokeQueued(job, a)
        /\ UNCHANGED <<attempt, request, media, procVars, accepted, epoch, checks, backup>>
    BY HolderServes DEF Login, LoginRevokes
  <1>2. /\ account \in [Accounts -> AccountRecord] /\ op \in [Accounts -> OpRecord]
        /\ job \in [JobIds -> JobRecord]
    BY DEF IInv, RowTypes
  <1>3. f \in AccountRecord /\ f.life = account[a].life
    <2>1. account[a].session + 1 \in 0..MaxLogins
      BY <1>2, Bounds DEF Login, AccountRecord
    <2> QED BY <1>2, <2>1, AccountType
  <1>4. q \in OpRecord
    BY DEF OpRecord
  <1> HIDE DEF f, q
  <1>5. \A j \in JobIds :
          /\ job'[j] = job[j] \/ (job[j].state = "queued" /\ job'[j].state = "draft")
          /\ job'[j].account = job[j].account /\ job'[j].approved = job[j].approved
          /\ job[j].account = a => job'[j].state # "queued"
    BY <1>1, <1>2, Revoked
  <1>6. job' \in [JobIds -> JobRecord]
    BY <1>1, <1>2, Revoked
  <1>7. Numbered'
    BY <1>5 DEF IInv, Numbered, Exists
  <1>8. Executing'
    BY <1>1, <1>2, <1>3, <1>5 DEF IInv, Executing, procVars
  <1>9. Approved'
    BY <1>1, <1>2, <1>5 DEF IInv, Approved, Exists
  <1> QED BY <1>1, <1>2, <1>3, <1>4, <1>6, <1>7, <1>8, <1>9, RowsChange
          DEF IInv, RowTypes, procVars

LEMMA CheckIInv ==
  ASSUME IInv, NEW a \in Accounts, Check(a)
  PROVE  IInv'
  <1> DEFINE q == [action |-> "check", state |-> "queued", cancel |-> FALSE]
             f == [account[a] EXCEPT !.auth = "checking"]
  <1>1. /\ AppUp /\ op[a].state = "done" /\ account[a].life = "active"
        /\ op' = [op EXCEPT ![a] = q] /\ account' = [account EXCEPT ![a] = f]
        /\ UNCHANGED <<job, attempt, request, media, procVars, accepted, epoch, backup>>
    BY DEF Check
  <1>2. account \in [Accounts -> AccountRecord] /\ op \in [Accounts -> OpRecord]
    BY DEF IInv, RowTypes
  <1>3. /\ f \in AccountRecord /\ f.life = account[a].life
        /\ f.session = account[a].session
    BY <1>2, AccountType
  <1>4. q \in OpRecord
    BY DEF OpRecord
  <1>5. checks' \in 0..MaxChecks
    BY Bounds DEF Check, IInv, RowTypes
  <1> HIDE DEF f, q
  <1>6. Numbered'
    BY <1>1 DEF IInv, Numbered, Exists
  <1>7. Executing'
    BY <1>1, <1>2, <1>3 DEF IInv, Executing, procVars
  <1>8. Approved'
    BY <1>1, <1>2, <1>3 DEF IInv, Approved, Exists
  <1> QED BY <1>1, <1>2, <1>3, <1>4, <1>5, <1>6, <1>7, <1>8, RowsChange
          DEF IInv, RowTypes, procVars
\* A stop request is seen by its execution and changes nothing else of it.
LEMMA StopRequested ==
  ASSUME IInv, NEW p \in Procs, NEW b \in BOOLEAN,
         exec' = [exec EXCEPT ![p].stop = b]
  PROVE  /\ exec' \in [Procs -> ExecRecord]
         /\ \A q \in Procs :
              /\ exec'[q].step = exec[q].step /\ exec'[q].kind = exec[q].kind
              /\ exec'[q].job = exec[q].job /\ exec'[q].account = exec[q].account
              /\ exec'[q].result = exec[q].result
              /\ exec'[q].invoked = exec[q].invoked
  <1> DEFINE e == [exec[p] EXCEPT !.stop = b]
  <1>1. exec \in [Procs -> ExecRecord]
    BY DEF IInv, RowTypes
  <1>2. /\ e \in ExecRecord /\ e.step = exec[p].step /\ e.kind = exec[p].kind
        /\ e.job = exec[p].job /\ e.account = exec[p].account
        /\ e.result = exec[p].result /\ e.invoked = exec[p].invoked
    BY <1>1, StopType
  <1>3. exec' = [exec EXCEPT ![p] = e]
    OBVIOUS
  <1> HIDE DEF e
  <1> QED BY <1>1, <1>2, <1>3

\* The general case: outside a backup four parts are left to show.
LEMMA PartsIInv ==
  ASSUME IInv, ~Exclusive, backup' = backup, RowTypes', Numbered', Executing', Approved'
  PROVE  IInv'
  BY DEF IInv, Copying, Exclusive

LEMMA CancelIInv ==
  ASSUME IInv, NEW p \in Procs, NEW J \in SUBSET JobIds, Cancel(p, J)
  PROVE  IInv'
  <1> DEFINE b == exec[p].stop \/ exec[p].job \in J
  <1>1. /\ ~Exclusive
        /\ exec' = [exec EXCEPT ![p].stop = b]
        /\ job' = [j \in JobIds |-> IF j \in J THEN CancelJob(job[j]) ELSE job[j]]
        /\ UNCHANGED <<account, op, attempt, request, media, up, owner, accepted,
                       epoch, checks, backup>>
    BY DEF Cancel, Serves
  <1>2. b \in BOOLEAN
    BY DEF IInv, RowTypes, ExecRecord
  <1> HIDE DEF b
  <1>3. ASSUME NEW r \in JobRecord
        PROVE  LET f == CancelJob(r)
               IN  /\ f \in JobRecord /\ f.account = r.account
                   /\ f.approved = r.approved
                   /\ f.state = r.state \/ (/\ r.state \in {"draft", "queued"}
                                            /\ f.state = "canceled")
    BY DEF CancelJob, JobRecord, JobState, Settled
  <1>4. \A j \in JobIds : job[j] \in JobRecord
    BY DEF IInv, RowTypes
  <1>5. \A j \in JobIds :
          /\ job'[j] \in JobRecord /\ job'[j].account = job[j].account
          /\ job'[j].approved = job[j].approved
          /\ job'[j].state = job[j].state \/ (/\ job[j].state \in {"draft", "queued"}
                                              /\ job'[j].state = "canceled")
    BY <1>1, <1>3, <1>4
  <1>6. RowTypes'
    <2>1. job' \in [JobIds -> JobRecord]
      BY <1>1, <1>5
    <2>2. exec' \in [Procs -> ExecRecord]
      BY <1>1, <1>2, StopRequested
    <2> QED BY <1>1, <2>1, <2>2 DEF IInv, RowTypes
  <1>7. Numbered'
    BY <1>5 DEF IInv, Numbered, Exists
  <1>8. Executing'
    <2>1. \A q \in Procs :
            /\ exec'[q].step = exec[q].step /\ exec'[q].kind = exec[q].kind
            /\ exec'[q].job = exec[q].job /\ exec'[q].account = exec[q].account
            /\ exec'[q].result = exec[q].result
      BY <1>1, <1>2, StopRequested
    <2> QED BY <1>1, <1>5, <2>1 DEF IInv, Executing
  <1>9. Approved'
    BY <1>1, <1>5 DEF IInv, Approved, Exists
  <1> QED BY <1>1, <1>6, <1>7, <1>8, <1>9, PartsIInv

LEMMA CancelOperationIInv ==
  ASSUME IInv, NEW p \in Procs, NEW a \in Accounts, CancelOperation(p, a)
  PROVE  IInv'
  <1>1. /\ ~Exclusive
        /\ UNCHANGED <<job, attempt, request, media, up, owner, accepted, epoch,
                       checks, backup>>
    BY DEF CancelOperation, Serves
  <1>2. account[a] \in AccountRecord /\ op[a] \in OpRecord
    BY DEF IInv, RowTypes
  <1>3. Numbered'
    BY <1>1 DEF IInv, Numbered, Exists
  <1>4. CASE /\ op[a].state = "queued"
             /\ op' = [op EXCEPT ![a].state = "done"]
             /\ account' = [account EXCEPT ![a].auth = "unchecked"]
             /\ exec' = exec
    <2>1. /\ [op[a] EXCEPT !.state = "done"] \in OpRecord
          /\ LET f == [account[a] EXCEPT !.auth = "unchecked"]
             IN  f \in AccountRecord /\ f.life = account[a].life
                 /\ f.session = account[a].session
      BY <1>2, OpType, AccountType
    <2>2. RowTypes'
      BY <1>1, <1>4, <2>1 DEF IInv, RowTypes
    <2>3. Executing'
      BY <1>1, <1>4, <2>1 DEF IInv, Executing, RowTypes
    <2>4. Approved'
      BY <1>1, <1>4, <2>1 DEF IInv, Approved, Exists, RowTypes
    <2> QED BY <1>1, <1>3, <2>2, <2>3, <2>4, PartsIInv
  <1>5. CASE /\ op[a].state = "running" /\ ~op[a].cancel
             /\ op' = [op EXCEPT ![a].cancel = TRUE]
             /\ exec' = [exec EXCEPT ![p].stop = @ \/ Executes(p, a)]
             /\ account' = account
    <2> DEFINE b == exec[p].stop \/ Executes(p, a)
    <2>1. b \in BOOLEAN /\ exec' = [exec EXCEPT ![p].stop = b]
      BY <1>5 DEF IInv, RowTypes, ExecRecord, Executes
    <2> HIDE DEF b
    <2>2. LET f == [op[a] EXCEPT !.cancel = TRUE]
          IN  f \in OpRecord /\ f.state = op[a].state
      BY <1>2, OpType
    <2>3. \A c \in Accounts : op'[c].state = op[c].state
      BY <1>5, <2>2 DEF IInv, RowTypes
    <2>4. RowTypes'
      <3>1. exec' \in [Procs -> ExecRecord]
        BY <2>1, StopRequested
      <3> QED BY <1>1, <1>5, <2>2, <3>1 DEF IInv, RowTypes
    <2>5. Executing'
      <3>1. \A q \in Procs :
              /\ exec'[q].step = exec[q].step /\ exec'[q].kind = exec[q].kind
              /\ exec'[q].job = exec[q].job /\ exec'[q].account = exec[q].account
              /\ exec'[q].result = exec[q].result
        BY <2>1, StopRequested
      <3> QED BY <1>1, <1>5, <2>3, <3>1 DEF IInv, Executing
    <2>6. Approved'
      BY <1>1, <1>5 DEF IInv, Approved, Exists
    <2> QED BY <1>1, <1>3, <2>4, <2>5, <2>6, PartsIInv
  <1> QED BY <1>4, <1>5 DEF CancelOperation
LEMMA DisconnectIInv ==
  ASSUME IInv, NEW p \in Procs, NEW a \in Accounts, DisconnectAccount(p, a)
  PROVE  IInv'
  <1> DEFINE b == exec[p].stop \/ (Executes(p, a) /\ op[a].state = "running")
             f == [account[a] EXCEPT !.auth = "unchecked", !.life = "disconnected"]
             g == [op[a] EXCEPT !.state = "done"]
  <1>1. /\ ~Exclusive
        /\ exec' = [exec EXCEPT ![p].stop = b] /\ job' = RevokeQueued(job, a)
        /\ op' = [op EXCEPT ![a] = g] /\ account' = [account EXCEPT ![a] = f]
        /\ UNCHANGED <<attempt, request, media, up, owner, accepted, epoch,
                       checks, backup>>
    BY DEF DisconnectAccount, Serves
  <1>2. b \in BOOLEAN
    BY DEF IInv, RowTypes, ExecRecord, Executes
  <1>3. /\ account \in [Accounts -> AccountRecord] /\ op \in [Accounts -> OpRecord]
        /\ job \in [JobIds -> JobRecord]
    BY DEF IInv, RowTypes
  <1>4. /\ f \in AccountRecord /\ f.life = "disconnected"
        /\ f.session = account[a].session /\ g \in OpRecord
    BY <1>3, AccountType, OpType
  <1> HIDE DEF b, f, g
  <1>5. /\ job' \in [JobIds -> JobRecord]
        /\ \A j \in JobIds :
             /\ job'[j] = job[j] \/ (job[j].state = "queued" /\ job'[j].state = "draft")
             /\ job'[j].account = job[j].account /\ job'[j].approved = job[j].approved
    BY <1>1, <1>3, Revoked
  <1>6. /\ exec' \in [Procs -> ExecRecord]
        /\ \A q \in Procs :
             /\ exec'[q].step = exec[q].step /\ exec'[q].kind = exec[q].kind
             /\ exec'[q].job = exec[q].job /\ exec'[q].account = exec[q].account
             /\ exec'[q].result = exec[q].result
    BY <1>1, <1>2, StopRequested
  <1>7. RowTypes'
    BY <1>1, <1>3, <1>4, <1>5, <1>6 DEF IInv, RowTypes
  <1>8. Numbered'
    BY <1>5 DEF IInv, Numbered, Exists
  <1>9. Executing'
    BY <1>1, <1>3, <1>4, <1>5, <1>6 DEF IInv, Executing
  <1>10. Approved'
    BY <1>1, <1>3, <1>4, <1>5 DEF IInv, Approved, Exists
  <1> QED BY <1>1, <1>7, <1>8, <1>9, <1>10, PartsIInv

-----------------------------------------------------------------------------
(***************************************************************************)
(* Recovery and the steps of the scheduler                                 *)
(***************************************************************************)
\* The revision of a receipt that recovery or a reconciliation counts up.
LEMMA ReceiptRevision ==
  ASSUME NEW r, NEW t, ValidReceipt(r, t)
  PROVE  /\ t.state = "reserved" => t.revision = 0
         /\ t.state = "dispatch_may_have_started" => t.revision = 1
         /\ t.state = "unknown" => t.revision = 2
  BY DEF ValidReceipt

\* A receipt that is settled keeps what it says of the dispatch.
LEMMA SettledReceipt ==
  ASSUME NEW t \in AttemptRecord, NEW u,
         \/ u = t
         \/ \E x \in {"responded", "unknown"}, y \in {"failed", "unknown"}, n \in 0..3 :
              u = [t EXCEPT !.state = x, !.result = y, !.revision = n]
  PROVE  /\ u \in AttemptRecord /\ u.dispatched = t.dispatched /\ u.under = t.under
         /\ u = t \/ u.result \in {"failed", "unknown"}
  <1>1. ASSUME NEW x \in {"responded", "unknown"}, NEW y \in {"failed", "unknown"},
               NEW n \in 0..3,
               u = [t EXCEPT !.state = x, !.result = y, !.revision = n]
        PROVE  /\ u \in AttemptRecord /\ u.dispatched = t.dispatched
               /\ u.under = t.under /\ u.result \in {"failed", "unknown"}
    BY <1>1 DEF AttemptRecord, Results
  <1> QED BY <1>1

\* What recovery makes of a receipt and of a job.
LEMMA RecoveredType ==
  ASSUME NEW r \in JobRecord, NEW t \in AttemptRecord, Interrupted(r)
  PROVE  LET f == RecoveredJob(r, t)
             u == RecoveredAttempt(r, t)
         IN  /\ f \in JobRecord /\ f.account = r.account /\ f.approved = r.approved
             /\ f.retryOf = r.retryOf
             /\ f.state \in JobState \ {"none", "queued", "running"}
             /\ f.state = "draft" => t.state = "none" /\ r.state = "queued"
             /\ u \in AttemptRecord /\ u.dispatched = t.dispatched
             /\ u.under = t.under
  <1>1. LET u == RecoveredAttempt(r, t)
        IN  \/ u = t
            \/ \E x \in {"responded", "unknown"}, y \in {"failed", "unknown"}, n \in 0..3 :
                 u = [t EXCEPT !.state = x, !.result = y, !.revision = n]
    <2>1. CASE ~ValidReceipt(r, t)
      BY <2>1 DEF RecoveredAttempt
    <2>2. CASE ValidReceipt(r, t) /\ t.state = "reserved"
      <3>1. t.revision + 1 \in 0..3
        BY <2>2, ReceiptRevision
      <3> QED BY <2>2, <3>1 DEF RecoveredAttempt
    <2>3. CASE ValidReceipt(r, t) /\ t.state = "dispatch_may_have_started"
      <3>1. t.revision + 1 \in 0..3
        BY <2>3, ReceiptRevision
      <3> QED BY <2>3, <3>1 DEF RecoveredAttempt
    <2>4. CASE t.state \notin {"reserved", "dispatch_may_have_started"}
      BY <2>4 DEF RecoveredAttempt
    <2> QED BY <2>1, <2>2, <2>3, <2>4
  <1>2. LET u == RecoveredAttempt(r, t)
        IN  /\ u \in AttemptRecord /\ u.dispatched = t.dispatched /\ u.under = t.under
            /\ u = t \/ u.result \in {"failed", "unknown"}
    BY <1>1, SettledReceipt
  <1> DEFINE s == IF t.state = "none" /\ r.state = "queued" THEN "draft"
                  ELSE IF t.state = "none" \/ RecoveredAttempt(r, t) = t THEN "unknown"
                  ELSE RecoveredAttempt(r, t).result
  <1>3. /\ s \in {"draft", "failed", "unknown"}
        /\ s = "draft" => t.state = "none" /\ r.state = "queued"
    BY <1>2
  <1>4. RecoveredJob(r, t) = [r EXCEPT !.cancel = FALSE, !.state = s]
    BY DEF RecoveredJob
  <1> HIDE DEF s
  <1>5. LET f == [r EXCEPT !.cancel = FALSE, !.state = s]
        IN  /\ f \in JobRecord /\ f.account = r.account /\ f.approved = r.approved
            /\ f.retryOf = r.retryOf /\ f.state = s
    BY <1>3 DEF JobRecord, JobState, Settled
  <1> QED BY <1>2, <1>3, <1>4, <1>5 DEF JobState, Settled
\* After a recovery no job waits or runs, and no receipt has gained a dispatch.
LEMMA RecoveredRows ==
  ASSUME IInv, RecoverInterruptedRecords
  PROVE  /\ account' \in [Accounts -> AccountRecord] /\ op' \in [Accounts -> OpRecord]
         /\ job' \in [JobIds -> JobRecord] /\ attempt' \in [JobIds -> AttemptRecord]
         /\ UNCHANGED <<request, media>> /\ epoch' \in 0..MaxEpochs
         /\ Numbered' /\ Approved'
  <1>1. /\ \A j \in JobIds : job[j] \in JobRecord /\ attempt[j] \in AttemptRecord
        /\ \A a \in Accounts : account[a] \in AccountRecord /\ op[a] \in OpRecord
        /\ epoch \in 0..MaxEpochs
    BY DEF IInv, RowTypes
  <1>2. /\ job' = [j \in JobIds |->
                     IF Interrupted(job[j]) THEN RecoveredJob(job[j], attempt[j])
                     ELSE job[j]]
        /\ attempt' = [j \in JobIds |->
                         IF Interrupted(job[j]) /\ attempt[j].state # "none"
                         THEN RecoveredAttempt(job[j], attempt[j]) ELSE attempt[j]]
        /\ UNCHANGED <<request, media>> /\ epoch' \in 0..MaxEpochs
    BY <1>1, Bounds DEF RecoverInterruptedRecords
  <1>3. ASSUME NEW j \in JobIds
        PROVE  /\ job'[j] \in JobRecord /\ attempt'[j] \in AttemptRecord
               /\ job'[j].account = job[j].account
               /\ job'[j].approved = job[j].approved
               /\ job'[j].state = "none" <=> job[j].state = "none"
               /\ job'[j].state \notin {"queued", "running"}
               /\ job'[j].state = "draft" => job[j].state \in {"draft", "queued"}
               /\ attempt'[j].dispatched = attempt[j].dispatched
               /\ attempt'[j].under = attempt[j].under
    <2>1. CASE Interrupted(job[j])
      <3>1. /\ job'[j] = RecoveredJob(job[j], attempt[j])
            /\ attempt'[j] = attempt[j] \/ attempt'[j] = RecoveredAttempt(job[j], attempt[j])
        BY <1>2, <2>1
      <3>2. job[j].state # "none"
        BY <2>1 DEF Interrupted
      <3> QED BY <1>1, <2>1, <3>1, <3>2, RecoveredType
    <2>2. CASE ~Interrupted(job[j])
      BY <1>1, <1>2, <2>2 DEF Interrupted
    <2> QED BY <2>1, <2>2
  <1>4. job' \in [JobIds -> JobRecord] /\ attempt' \in [JobIds -> AttemptRecord]
    BY <1>2, <1>3
  <1>5. account' \in [Accounts -> AccountRecord] /\ op' \in [Accounts -> OpRecord]
        /\ \A a \in Accounts : account'[a].session = account[a].session
    <2>1. \A a \in Accounts :
            /\ [op[a] EXCEPT !.state = "done"] \in OpRecord
            /\ LET f == [account[a] EXCEPT !.auth = AuthAfterRestart(@)]
               IN  f \in AccountRecord /\ f.session = account[a].session
      BY <1>1 DEF OpRecord, AccountRecord, AuthAfterRestart
    <2> QED BY <2>1 DEF RecoverInterruptedRecords
  <1>6. Numbered'
    BY <1>3 DEF IInv, Numbered, Exists
  <1>7. Approved'
    BY <1>3 DEF IInv, Approved, Exists
  <1> QED BY <1>2, <1>4, <1>5, <1>6, <1>7

LEMMA StartIInv ==
  ASSUME IInv, NEW p \in Procs, Start(p)
  PROVE  IInv'
  <1>1. /\ owner = Nobody /\ ~Exclusive /\ owner' = p /\ RecoverInterruptedRecords
        /\ up' = [up EXCEPT ![p] = "running"]
        /\ UNCHANGED <<exec, accepted, checks, backup>>
    BY DEF Start
  <1>2. RowTypes'
    BY <1>1, RecoveredRows DEF IInv, RowTypes, Alive
  <1>3. Executing'
    BY <1>1, UploadNames DEF IInv, Executing
  <1> QED BY <1>1, <1>2, <1>3, RecoveredRows, PartsIInv

LEMMA SchedulerFailsIInv ==
  ASSUME IInv, NEW p \in Procs, SchedulerFails(p)
  PROVE  IInv'
  <1>1. IdleExec \in ExecRecord /\ IdleExec.step = "idle"
    BY IdleType
  <1>2. /\ owner = p /\ ~Exclusive /\ exec' = [exec EXCEPT ![p] = IdleExec]
        /\ UNCHANGED <<accepted, checks, backup>>
    BY HolderServes DEF SchedulerFails
  <1>3. exec' \in [Procs -> ExecRecord] /\ Executing'
    BY <1>1, <1>2 DEF IInv, RowTypes, Executing
  <1>4. CASE RecoverInterruptedRecords /\ UNCHANGED <<up, owner>>
    <2>1. RowTypes'
      BY <1>2, <1>3, <1>4, RecoveredRows DEF IInv, RowTypes
    <2> QED BY <1>2, <1>3, <1>4, <2>1, RecoveredRows, PartsIInv
  <1>5. CASE UNCHANGED <<dbVars, epoch>> /\ owner' = Nobody
             /\ up' \in {[up EXCEPT ![p] = "faulted"], [up EXCEPT ![p] = "down"]}
    <2>1. up' \in [Procs -> Alive \cup {"down"}]
      BY <1>5 DEF IInv, RowTypes, Alive
    <2> QED BY <1>2, <1>3, <1>5, <2>1, RowsKept DEF IInv, RowTypes
  <1> QED BY <1>4, <1>5 DEF SchedulerFails

LEMMA ClaimOperationIInv ==
  ASSUME IInv, NEW p \in Procs, NEW a \in Accounts, ClaimOperation(p, a)
  PROVE  IInv'
  <1> DEFINE e == [IdleExec EXCEPT !.step = "claimed", !.kind = "account", !.account = a]
             q == [op[a] EXCEPT !.state = "running", !.cancel = FALSE]
  <1>1. /\ owner = p /\ ~Exclusive
        /\ exec' = [exec EXCEPT ![p] = e] /\ op' = [op EXCEPT ![a] = q]
        /\ UNCHANGED <<account, job, attempt, request, media, up, owner, accepted,
                       epoch, checks, backup>>
    BY HolderServes DEF ClaimOperation
  <1>2. /\ e \in ExecRecord /\ e.step = "claimed" /\ e.kind = "account"
        /\ e.account = a
    BY IdleType DEF ExecRecord
  <1>3. q \in OpRecord /\ q.state = "running"
    BY OpType DEF IInv, RowTypes
  <1> HIDE DEF e, q
  <1>4. RowTypes'
    BY <1>1, <1>2, <1>3 DEF IInv, RowTypes
  <1>5. Numbered' /\ Approved'
    BY <1>1 DEF IInv, Numbered, Approved, Exists
  <1>6. Executing'
    BY <1>1, <1>2, <1>3 DEF IInv, RowTypes, Executing
  <1> QED BY <1>1, <1>4, <1>5, <1>6, PartsIInv

LEMMA ClaimUploadIInv ==
  ASSUME IInv, NEW p \in Procs, NEW j \in JobIds, ClaimUpload(p, j)
  PROVE  IInv'
  <1> DEFINE e == [IdleExec EXCEPT !.step = "claimed", !.kind = "upload", !.job = j,
                                   !.account = job[j].account]
             f == [job[j] EXCEPT !.state = "running", !.cancel = FALSE]
  <1>1. /\ owner = p /\ ~Exclusive /\ job[j].state = "queued"
        /\ exec' = [exec EXCEPT ![p] = e] /\ job' = [job EXCEPT ![j] = f]
        /\ attempt' = [attempt EXCEPT ![j] = Reserved(j)]
        /\ UNCHANGED <<account, op, request, media, up, owner, accepted, epoch,
                       checks, backup>>
    BY HolderServes DEF ClaimUpload, Claimable
  <1>2. /\ job[j].account \in Accounts
        /\ job[j].approved = <<account[job[j].account].session, epoch>>
    BY <1>1 DEF IInv, Approved, Exists
  <1>3. /\ e \in ExecRecord /\ e.step = "claimed" /\ e.kind = "upload"
        /\ e.account = job[j].account /\ e.job = j
    BY <1>2, IdleType DEF ExecRecord
  <1>4. /\ f \in JobRecord /\ f.state = "running" /\ f.account = job[j].account
        /\ f.approved = job[j].approved
    <2>1. job[j] \in JobRecord /\ "running" \in JobState /\ FALSE \in BOOLEAN
      BY DEF IInv, RowTypes, JobState
    <2> QED BY <2>1, JobStateType
  <1>5. /\ Reserved(j) \in AttemptRecord /\ ~Reserved(j).dispatched
        /\ Reserved(j).session = account[job[j].account].session
    <2>1. account[job[j].account].session \in 0..MaxLogins
      BY <1>2 DEF IInv, RowTypes, AccountRecord
    <2>2. NoApproval \in Approvals
      BY Bounds DEF NoApproval, Approvals
    <2>3. NoAttempt \in AttemptRecord /\ ~NoAttempt.dispatched
      BY <2>2, Bounds DEF NoAttempt, AttemptRecord
    <2>4. ASSUME NEW t \in AttemptRecord, NEW n \in 0..MaxLogins
          PROVE  LET u == [t EXCEPT !.state = "reserved", !.session = n]
                 IN  /\ u \in AttemptRecord /\ u.dispatched = t.dispatched
                     /\ u.session = n
      BY DEF AttemptRecord
    <2> QED BY <2>1, <2>3, <2>4 DEF Reserved
  <1> HIDE DEF e, f
  <1>6. RowTypes'
    BY <1>1, <1>3, <1>4, <1>5 DEF IInv, RowTypes
  <1>7. /\ job'[j].state = "running" /\ job'[j].account = job[j].account
        /\ job'[j].approved = <<attempt'[j].session, epoch>>
        /\ ~attempt'[j].dispatched
        /\ \A i \in JobIds \ {j} : job'[i] = job[i] /\ attempt'[i] = attempt[i]
    BY <1>1, <1>2, <1>4, <1>5 DEF IInv, RowTypes
  <1>8. Numbered'
    BY <1>1, <1>7 DEF IInv, Numbered, Exists
  <1>9. Executing'
    BY <1>1, <1>2, <1>3, <1>7 DEF IInv, RowTypes, Executing
  <1>10. Approved'
    BY <1>1, <1>2, <1>7 DEF IInv, Approved, Exists
  <1> QED BY <1>1, <1>6, <1>8, <1>9, <1>10, PartsIInv
\* An execution is in hand: nothing is copied meanwhile.
LEMMA ExecutionAlone ==
  ASSUME IInv, NEW p \in Procs, exec[p].step # "idle"
  PROVE  /\ owner = p /\ ~Exclusive
         /\ \A q \in Procs \ {p} : exec[q].step = "idle"
  BY UploadNames DEF IInv, Executing, Copying

LEMMA FinishOperationIInv ==
  ASSUME IInv, NEW p \in Procs, FinishOperation(p)
  PROVE  IInv'
  <1> DEFINE a == exec[p].account
  <1>1. /\ exec[p].step = "returned" /\ exec[p].kind = "account"
        /\ exec' = [exec EXCEPT ![p] = IdleExec]
        /\ UNCHANGED <<job, attempt, request, media, up, owner, accepted,
                       epoch, checks, backup>>
    BY DEF FinishOperation
  <1>2. ~Exclusive /\ \A q \in Procs \ {p} : exec[q].step = "idle"
    BY <1>1, ExecutionAlone
  <1>3. a \in Accounts
    BY <1>1 DEF IInv, Executing
  <1>4. /\ op' \in [Accounts -> OpRecord] /\ account' \in [Accounts -> AccountRecord]
        /\ \A c \in Accounts : account'[c].session = account[c].session
    <2>1. account \in [Accounts -> AccountRecord] /\ op \in [Accounts -> OpRecord]
      BY DEF IInv, RowTypes
    <2>2. CASE UNCHANGED <<op, account>>
      BY <2>1, <2>2
    <2>3. CASE /\ op' = [op EXCEPT ![a].state = "done"]
               /\ \E x \in {"ready", "unchecked", "invalid"} :
                    account' = [account EXCEPT ![a].auth = x]
      <3>1. [op[a] EXCEPT !.state = "done"] \in OpRecord
        BY <1>3, <2>1, OpType
      <3>2. PICK x \in {"ready", "unchecked", "invalid"} :
              account' = [account EXCEPT ![a].auth = x]
        BY <2>3
      <3>3. LET f == [account[a] EXCEPT !.auth = x]
            IN  f \in AccountRecord /\ f.session = account[a].session
        BY <1>3, <2>1, AccountType
      <3> QED BY <2>1, <2>3, <3>1, <3>2, <3>3
    <2> QED BY <2>2, <2>3 DEF FinishOperation
  <1>5. RowTypes'
    BY <1>1, <1>4, IdleType DEF IInv, RowTypes
  <1>6. Numbered' /\ Approved'
    BY <1>1, <1>4 DEF IInv, Numbered, Approved, Exists
  <1>7. Executing'
    BY <1>1, <1>2, IdleType DEF IInv, RowTypes, Executing
  <1> QED BY <1>1, <1>2, <1>5, <1>6, <1>7, PartsIInv

LEMMA MarkDispatchIInv ==
  ASSUME IInv, NEW p \in Procs, MarkDispatch(p)
  PROVE  IInv'
  <1> DEFINE j == exec[p].job
             e == [exec[p] EXCEPT !.step = "invoked", !.invoked = TRUE]
             v == <<account[job[j].account].session, epoch>>
             t == [attempt[j] EXCEPT !.state = "dispatch_may_have_started",
                                     !.dispatched = TRUE, !.revision = 1, !.under = v]
  <1>1. /\ exec[p].step = "prepared"
        /\ UNCHANGED <<account, op, job, request, media, up, owner, accepted,
                       epoch, checks, backup>>
    BY DEF MarkDispatch
  <1>2. /\ exec[p].kind = "upload" /\ j \in JobIds /\ job[j].state = "running"
        /\ exec[p].account \in Accounts
    BY <1>1 DEF IInv, Executing
  <1>3. CASE (\E r \in {"canceled", "failed"} : Return(p, r, FALSE)) /\ UNCHANGED attempt
    BY <1>1, <1>3, ReturnIInv DEF Results, dbVars
  <1>4. CASE /\ SessionUnchanged(j)
             /\ attempt' = [attempt EXCEPT ![j] = t]
             /\ exec' = [exec EXCEPT ![p] = e]
    <2>1. /\ exec[p] \in ExecRecord /\ attempt[j] \in AttemptRecord
          /\ account \in [Accounts -> AccountRecord] /\ epoch \in 0..MaxEpochs
      BY <1>2 DEF IInv, RowTypes
    <2>2. /\ job[j].account \in Accounts
          /\ job[j].approved = <<attempt[j].session, epoch>>
      BY <1>2 DEF IInv, Approved, Exists
    <2>3. v \in Approvals /\ v = job[j].approved
      BY <1>4, <2>1, <2>2 DEF SessionUnchanged, AccountRecord, Approvals
    <2>4. /\ e \in ExecRecord /\ e.step = "invoked" /\ e.kind = exec[p].kind
          /\ e.job = j /\ e.account = exec[p].account
      BY <2>1 DEF ExecRecord
    <2> HIDE DEF v, e
    <2>5. /\ t \in AttemptRecord /\ t.under = v
          /\ t.session = attempt[j].session
      <3> DEFINE x == "dispatch_may_have_started"
                 n == 1
                 b == TRUE
                 y == [attempt[j] EXCEPT !.state = x, !.dispatched = b,
                                         !.revision = n, !.under = v]
      <3>1. x \in {"dispatch_may_have_started"} /\ n \in 0..3 /\ b \in BOOLEAN /\ t = y
        OBVIOUS
      <3> HIDE DEF x, n, b, t
      <3> QED BY <2>1, <2>3, <3>1 DEF AttemptRecord
    <2> HIDE DEF t
    <2>6. RowTypes'
      BY <1>1, <1>4, <2>4, <2>5 DEF IInv, RowTypes
    <2>7. Numbered'
      BY <1>1 DEF IInv, Numbered, Exists
    <2>8. Executing'
      BY <1>1, <1>2, <1>4, <2>4, ExecutionAlone DEF IInv, RowTypes, Executing
    <2>9. Approved'
      <3>1. /\ attempt'[j] = t /\ \A i \in JobIds \ {j} : attempt'[i] = attempt[i]
        BY <1>2, <1>4 DEF IInv, RowTypes
      <3> QED BY <1>1, <1>2, <2>2, <2>3, <2>5, <3>1 DEF IInv, Approved, Exists
    <2> QED BY <1>1, <2>6, <2>7, <2>8, <2>9, ExecutionAlone, PartsIInv
  <1> QED BY <1>3, <1>4 DEF MarkDispatch
\* How an upload ends: never in a state that another approval could start.
LEMMA UploadEnds ==
  ASSUME NEW r \in Results, NEW invoked, NEW mode
  PROVE  UploadResultState(r, invoked, mode) \in Results
  BY DEF UploadResultState, Results

LEMMA FinishUploadIInv ==
  ASSUME IInv, NEW p \in Procs, FinishUpload(p)
  PROVE  IInv'
  <1> DEFINE j == exec[p].job
             a == exec[p].account
             s == UploadResultState(exec[p].result, exec[p].invoked, ModeOf[a])
             f == [job[j] EXCEPT !.state = s, !.cancel = FALSE]
             done == [job EXCEPT ![j] = f]
  <1>1. /\ exec[p].step = "returned" /\ exec[p].kind = "upload"
        /\ Finalizes(p, s)
        /\ job' = RevokeQueued(done, a) \/ job' = done
        /\ exec' = [exec EXCEPT ![p] = IdleExec]
        /\ UNCHANGED <<op, request, media, up, owner, accepted, epoch, checks, backup>>
    <2>1. done = [job EXCEPT ![j].state = s, ![j].cancel = FALSE]
      OBVIOUS
    <2> QED BY <2>1 DEF FinishUpload
  <1>2. ~Exclusive /\ \A q \in Procs \ {p} : exec[q].step = "idle"
    BY <1>1, ExecutionAlone
  <1>3. /\ j \in JobIds /\ a \in Accounts /\ job[j].state = "running"
        /\ exec[p].result \in Results
    BY <1>1 DEF IInv, Executing
  <1>4. s \in Results
    BY <1>3, UploadEnds
  <1>5. /\ account \in [Accounts -> AccountRecord] /\ job \in [JobIds -> JobRecord]
        /\ attempt \in [JobIds -> AttemptRecord]
    BY DEF IInv, RowTypes
  <1>6. /\ account' \in [Accounts -> AccountRecord]
        /\ \A c \in Accounts : account'[c].session = account[c].session
    <2>1. LET g == [account[a] EXCEPT !.auth = "invalid"]
          IN  g \in AccountRecord /\ g.session = account[a].session
      BY <1>3, <1>5, AccountType
    <2>2. account' = account \/ account' = [account EXCEPT ![a].auth = "invalid"]
      BY DEF FinishUpload
    <2> QED BY <1>5, <2>1, <2>2
  <1>7. /\ attempt' \in [JobIds -> AttemptRecord]
        /\ \A i \in JobIds \ {j} : attempt'[i] = attempt[i]
        /\ attempt'[j].dispatched = attempt[j].dispatched
        /\ attempt'[j].under = attempt[j].under
    <2> DEFINE x == IF s = "unknown" THEN "unknown" ELSE "responded"
               y == exec[p].result
               n == attempt[j].revision + 1
               t == [attempt[j] EXCEPT !.state = x, !.result = y, !.revision = n]
    <2>1. x \in {"unknown", "responded"} /\ y \in Results
      BY <1>3
    <2>2. n \in 0..3
      BY <1>1 DEF Finalizes
    <2>3. attempt' = [attempt EXCEPT ![j] = t]
      BY <1>1 DEF Finalizes
    <2> HIDE DEF x, y, n
    <2>4. /\ t \in AttemptRecord /\ t.dispatched = attempt[j].dispatched
          /\ t.under = attempt[j].under
      <3>1. attempt[j] \in AttemptRecord
        BY <1>3, <1>5
      <3> QED BY <2>1, <2>2, <3>1 DEF AttemptRecord
    <2> HIDE DEF t
    <2> QED BY <1>3, <1>5, <2>3, <2>4
  <1>8. /\ f \in JobRecord /\ f.state = s /\ f.account = job[j].account
        /\ f.approved = job[j].approved
    <2>1. job[j] \in JobRecord /\ s \in JobState /\ FALSE \in BOOLEAN
      BY <1>3, <1>4, <1>5 DEF Results, JobState, Settled
    <2> HIDE DEF s
    <2> QED BY <2>1, JobStateType
  <1> HIDE DEF s, f
  <1>9. /\ done \in [JobIds -> JobRecord] /\ done[j] = f
        /\ \A i \in JobIds \ {j} : done[i] = job[i]
    BY <1>3, <1>5, <1>8
  <1> HIDE DEF done
  <1>10. /\ job' \in [JobIds -> JobRecord]
         /\ \A i \in JobIds :
              /\ job'[i] = done[i] \/ (done[i].state = "queued" /\ job'[i].state = "draft")
              /\ job'[i].account = done[i].account /\ job'[i].approved = done[i].approved
    BY <1>1, <1>9, Revoked
  <1>11. RowTypes'
    BY <1>1, <1>6, <1>7, <1>10, IdleType DEF IInv, RowTypes
  <1>12. /\ \A i \in JobIds \ {j} :
              /\ job'[i] = job[i] \/ (job[i].state = "queued" /\ job'[i].state = "draft")
              /\ job'[i].account = job[i].account /\ job'[i].approved = job[i].approved
         /\ job'[j].state = s /\ job'[j].account = job[j].account
         /\ job'[j].approved = job[j].approved
    BY <1>3, <1>4, <1>8, <1>9, <1>10 DEF Results
  <1>13. Numbered'
    BY <1>3, <1>4, <1>12 DEF IInv, Numbered, Exists, Results
  <1>14. Executing'
    BY <1>1, <1>2, IdleType DEF IInv, RowTypes, Executing
  <1>15. Approved'
    <2>1. \A i \in JobIds : Exists(i)' => Exists(i) /\ job'[i].account = job[i].account
      BY <1>3, <1>12 DEF Exists
    <2>2. ASSUME NEW i \in JobIds \ {j}
          PROVE  /\ job'[i].state \in {"none", "draft", "queued"} => ~attempt'[i].dispatched
                 /\ job'[i].state = "queued" =>
                      job'[i].approved = <<account'[job'[i].account].session, epoch'>>
                 /\ job'[i].state = "running" =>
                      job'[i].approved = <<attempt'[i].session, epoch'>>
                 /\ attempt'[i].dispatched => attempt'[i].under = job'[i].approved
      BY <1>1, <1>6, <1>7, <1>12 DEF IInv, Approved, Exists
    <2>3. /\ job'[j].state \notin {"none", "draft", "queued", "running"}
          /\ attempt'[j].dispatched => attempt'[j].under = job'[j].approved
      BY <1>3, <1>4, <1>7, <1>12 DEF IInv, Approved, Results
    <2> QED BY <2>1, <2>2, <2>3 DEF IInv, Approved
  <1> QED BY <1>1, <1>2, <1>11, <1>13, <1>14, <1>15, PartsIInv
\* What the state policy of a restore makes of a receipt and of a job.
LEMMA RestoredType ==
  ASSUME NEW r \in JobRecord, NEW t \in AttemptRecord,
         t.state # "none" => ValidReceipt(r, t)
  PROVE  /\ RestoredJob(r, t) \in JobRecord
         /\ RestoredJob(r, t).account = r.account
         /\ RestoredJob(r, t).approved = r.approved
         /\ RestoredJob(r, t).retryOf = r.retryOf
         /\ RestoredJob(r, t).state \notin {"queued", "running"}
         /\ RestoredJob(r, t).state = "none" <=> r.state = "none"
         /\ RestoredJob(r, t).state = "draft" => r.state \in {"draft", "queued"}
         /\ RestoredAttempt(r, t) \in AttemptRecord
         /\ RestoredAttempt(r, t).dispatched = t.dispatched
         /\ RestoredAttempt(r, t).under = t.under
  <1>1. {"draft", "failed", "unknown"} \subseteq JobState
    BY DEF JobState, Settled
  <1>2. /\ RestoredJob(r, t) \in JobRecord
        /\ RestoredJob(r, t).account = r.account
        /\ RestoredJob(r, t).approved = r.approved
        /\ RestoredJob(r, t).retryOf = r.retryOf
        /\ RestoredJob(r, t).state \notin {"queued", "running"}
        /\ RestoredJob(r, t).state = "none" <=> r.state = "none"
        /\ RestoredJob(r, t).state = "draft" => r.state \in {"draft", "queued"}
    <2>1. CASE r.state = "queued"
      <3>1. RestoredJob(r, t) = [r EXCEPT !.state = "draft", !.cancel = FALSE]
        BY <2>1 DEF RestoredJob
      <3>2. RestoredJob(r, t) \in JobRecord /\ RestoredJob(r, t).account = r.account
            /\ RestoredJob(r, t).approved = r.approved
            /\ RestoredJob(r, t).retryOf = r.retryOf
            /\ RestoredJob(r, t).state = "draft"
        BY <1>1, <3>1 DEF JobRecord
      <3> QED BY <2>1, <3>2
    <2>2. CASE r.state = "running"
      <3> DEFINE x == IF t.state = "reserved" THEN "failed" ELSE "unknown"
      <3>1. x \in {"failed", "unknown"} /\ x \in JobState
        BY <1>1
      <3>2. RestoredJob(r, t) = [r EXCEPT !.state = x, !.cancel = FALSE]
        BY <2>2 DEF RestoredJob
      <3> HIDE DEF x
      <3>3. RestoredJob(r, t) \in JobRecord /\ RestoredJob(r, t).account = r.account
            /\ RestoredJob(r, t).approved = r.approved
            /\ RestoredJob(r, t).retryOf = r.retryOf
            /\ RestoredJob(r, t).state = x
        BY <3>1, <3>2 DEF JobRecord
      <3> QED BY <2>2, <3>1, <3>3
    <2>3. CASE r.state \notin {"queued", "running"}
      BY <2>3 DEF RestoredJob
    <2> QED BY <2>1, <2>2, <2>3
  <1>3. \/ RestoredAttempt(r, t) = t
        \/ \E x \in {"responded", "unknown"}, y \in {"failed", "unknown"}, n \in 0..3 :
             RestoredAttempt(r, t) = [t EXCEPT !.state = x, !.result = y, !.revision = n]
    <2>1. CASE r.state = "running" /\ t.state = "reserved"
      <3>1. t.revision + 1 \in 0..3
        BY <2>1, ReceiptRevision
      <3> QED BY <2>1, <3>1 DEF RestoredAttempt
    <2>2. CASE r.state = "running" /\ t.state = "dispatch_may_have_started"
      <3>1. t.revision + 1 \in 0..3
        BY <2>2, ReceiptRevision
      <3> QED BY <2>2, <3>1 DEF RestoredAttempt
    <2>3. CASE ~(r.state = "running" /\ t.state \in {"reserved", "dispatch_may_have_started"})
      BY <2>3 DEF RestoredAttempt
    <2> QED BY <2>1, <2>2, <2>3
  <1>4. /\ RestoredAttempt(r, t) \in AttemptRecord
        /\ RestoredAttempt(r, t).dispatched = t.dispatched
        /\ RestoredAttempt(r, t).under = t.under
    BY <1>3, SettledReceipt
  <1> QED BY <1>2, <1>4

LEMMA RestoreIInv ==
  ASSUME IInv, RestoreBackup
  PROVE  IInv'
  <1>1. /\ Exclusive /\ owner = Nobody /\ backup.rows = Rows
    BY DEF RestoreBackup, IInv, Copying, Exclusive
  <1>2. /\ job' = [j \in JobIds |-> RestoredJob(job[j], attempt[j])]
        /\ attempt' = [j \in JobIds |-> RestoredAttempt(job[j], attempt[j])]
        /\ op' = [a \in Accounts |-> [op[a] EXCEPT !.state = "done"]]
        /\ account' = [a \in Accounts |-> [account[a] EXCEPT !.auth =
                         IF @ \in {"ready", "checking"} THEN "unchecked" ELSE @]]
        /\ request' = request /\ media' = media
        /\ up' = [p \in Procs |-> "down"]
        /\ UNCHANGED <<owner, exec, accepted, epoch, checks>>
        /\ backup'.phase = "over"
    BY <1>1 DEF RestoreBackup, Rows
  <1>3. \A j \in JobIds : attempt[j].state # "none" => ValidReceipt(job[j], attempt[j])
    BY <1>1 DEF RestoreBackup, Audits, RowsSound, ReceiptsSound, Rows
  <1>4. /\ \A j \in JobIds : job[j] \in JobRecord /\ attempt[j] \in AttemptRecord
        /\ \A a \in Accounts : account[a] \in AccountRecord /\ op[a] \in OpRecord
    BY DEF IInv, RowTypes
  <1>5. \A j \in JobIds :
          /\ job'[j] \in JobRecord /\ attempt'[j] \in AttemptRecord
          /\ job'[j].account = job[j].account /\ job'[j].approved = job[j].approved
          /\ job'[j].state \notin {"queued", "running"}
          /\ job'[j].state = "none" <=> job[j].state = "none"
          /\ job'[j].state = "draft" => job[j].state \in {"draft", "queued"}
          /\ attempt'[j].dispatched = attempt[j].dispatched
          /\ attempt'[j].under = attempt[j].under
    BY <1>2, <1>3, <1>4, RestoredType
  <1>6. /\ job' \in [JobIds -> JobRecord] /\ attempt' \in [JobIds -> AttemptRecord]
    BY <1>2, <1>5
  <1>7. /\ op' \in [Accounts -> OpRecord] /\ account' \in [Accounts -> AccountRecord]
    <2>1. \A a \in Accounts : [op[a] EXCEPT !.state = "done"] \in OpRecord
      BY <1>4, OpType
    <2>2. \A a \in Accounts :
            [account[a] EXCEPT !.auth =
               IF @ \in {"ready", "checking"} THEN "unchecked" ELSE @] \in AccountRecord
      BY <1>4 DEF AccountRecord
    <2> QED BY <1>2, <2>1, <2>2
  <1>8. RowTypes'
    BY <1>2, <1>6, <1>7 DEF IInv, RowTypes
  <1>9. Numbered'
    BY <1>5 DEF IInv, Numbered, Exists
  <1>10. Executing'
    BY <1>1, <1>2, UploadNames DEF IInv, Executing
  <1>11. Approved'
    BY <1>5 DEF IInv, Approved, Exists
  <1>12. Copying'
    BY <1>2 DEF Copying, Exclusive
  <1> QED BY <1>8, <1>9, <1>10, <1>11, <1>12 DEF IInv

-----------------------------------------------------------------------------
(***************************************************************************)
(* The theorems                                                            *)
(***************************************************************************)
LEMMA UserIInv ==
  ASSUME IInv, UserStep
  PROVE  IInv'
  <1>1. CASE \E k \in Keys : CreateJobs(k) \/ TombstoneRequest(k) \/ RetryMany(k)
    BY <1>1, CreateJobsIInv, RequestIInv, RetryIInv
  <1>2. CASE \E J \in (SUBSET JobIds) \ {{}} :
               Confirm(J) \/ \E p \in Procs : Cancel(p, J)
    BY <1>2, ConfirmIInv, CancelIInv
  <1>3. CASE \E s \in Sources, p \in Procs :
               DeleteSourceMedia(p, s) \/ RestoreSourceMedia(p, s)
    BY <1>3, MovesIInv
  <1>4. CASE \E j \in JobIds : Retry(j) \/ ReconcileUnknown(j)
    BY <1>4, RetryIInv, ReconcileIInv
  <1>5. CASE \E a \in Accounts :
               \/ Check(a)
               \/ \E p \in Procs : \/ Login(p, a) \/ CancelOperation(p, a)
                                   \/ DisconnectAccount(p, a)
    BY <1>5, CheckIInv, LoginIInv, CancelOperationIInv, DisconnectIInv
  <1> QED BY <1>1, <1>2, <1>3, <1>4, <1>5 DEF UserStep

LEMMA NextIInv == IInv /\ Moves /\ [Next]_vars => IInv'
  <1> SUFFICES ASSUME IInv, Moves, [Next]_vars PROVE IInv'
    OBVIOUS
  <1>1. CASE UserStep
    BY <1>1, UserIInv
  <1>2. CASE BackupStep
    BY <1>2, BackupIInv, RestoreIInv DEF BackupStep
  <1>3. CASE \E j \in JobIds : RemoteAccepts(j)
    BY <1>3, RemoteIInv
  <1>4. CASE \E s \in Sources : MediaStep(s)
    BY <1>4, CommitMediaIInv, MovesIInv DEF MediaStep, Moves
  <1>5. ASSUME NEW p \in Procs,
               \/ Start(p) \/ StartFaults(p) \/ StartStandby(p) \/ Stop(p) \/ Crash(p)
               \/ WatchCancellation(p) \/ WatcherBlind(p) \/ SchedulerFails(p)
        PROVE  IInv'
    BY <1>5, StartIInv, LifecycleIInv, WatcherIInv, SchedulerFailsIInv
  <1>6. ASSUME NEW p \in Procs, SchedulerStep(p)
        PROVE  IInv'
    BY <1>6, ClaimOperationIInv, ClaimUploadIInv, CallIInv, FinishOperationIInv,
       MarkDispatchIInv, FinishUploadIInv, LifecycleIInv DEF SchedulerStep
  <1>7. CASE UNCHANGED vars
    BY <1>7, StillIInv DEF vars
  <1> QED BY <1>1, <1>2, <1>3, <1>4, <1>5, <1>6, <1>7 DEF Next

\* Whatever users, crashes, recoveries, the platform and a backup do, the jobs
\* stay numbered without gaps, executions in one hand and approvals current.
THEOREM UploadInvariance == Spec => []IInv
  BY InitIInv, NextIInv, MediaMoves, PTL DEF Spec

\* Every row, every scheduler register and every media operation has a value the
\* code can write.
THEOREM UploadTypes == Spec => []TypeOK
  <1>1. IInv /\ Moves => TypeOK
    BY DEF IInv, Moves, TypeOK
  <1> QED BY <1>1, UploadInvariance, MediaMoves, PTL

\* Only the holder of the scheduler lock executes, what it executes is still
\* marked as running, and what was dispatched was dispatched under the approval
\* that the user gave to this login, with no recovery in between.
THEOREM UploadExecution == Spec => []ExecutionSound
  <1>1. IInv => ExecutionSound
    BY DEF IInv, Executing, Approved, ExecutionSound, OneExecutor, ApprovalCurrent
  <1> QED BY <1>1, UploadInvariance, PTL

-----------------------------------------------------------------------------
(***************************************************************************)
(* What is sent, and how often                                             *)
(***************************************************************************)
\* The receipts that a retry requires: the platform has not taken the job.
NotTaken(t) ==
    \/ t.state = "responded" /\ t.result \in {"failed", "canceled"}
    \/ t.state = "reconciled" /\ t.accepted = "no"

\* The receipts that a job the platform took can have
MayBeTaken(t) ==
    \/ t.state \in {"dispatch_may_have_started", "unknown"}
    \/ t.state = "responded" /\ t.result \in {"submitted", "draft_saved"}
    \/ t.state = "reconciled" /\ t.accepted = "yes"

\* A job that was retried has no way back: its receipt says it was not taken
\* and its successor is the only one.
Retried ==
    /\ \A k \in JobIds : Exists(k) /\ job[k].retryOf # 0 =>
         job[k].retryOf \in JobIds /\ NotTaken(attempt[job[k].retryOf])
    /\ \A k, l \in JobIds :
         /\ Exists(k) /\ Exists(l)
         /\ job[k].retryOf = job[l].retryOf /\ job[k].retryOf # 0
         => k = l

\* A retry is a later row than the job it retries.
Ordered ==
    \A k \in JobIds : job[k].retryOf < k /\ (job[k].retryOf # 0 => Exists(k))

\* What an execution knows of the platform: nothing was sent before the
\* dispatch, and a failure it holds in its hand is a fact.
KnownFailure ==
    \A p \in Procs :
      /\ exec[p].step \in {"claimed", "prepared"} => ~exec[p].invoked
      /\ /\ exec[p].step = "returned" /\ exec[p].kind = "upload"
         /\ exec[p].invoked /\ exec[p].result = "failed"
         => exec[p].job \notin accepted

Sent ==
    /\ \A j \in JobIds : j \in accepted => MayBeTaken(attempt[j])
    /\ Retried /\ Ordered /\ KnownFailure

LEMMA Apart == \A t : ~(NotTaken(t) /\ MayBeTaken(t))
  BY DEF NotTaken, MayBeTaken

LEMMA InitSent == Init => Sent
  BY Bounds DEF Init, Sent, Retried, Ordered, KnownFailure, Exists, NoJob, IdleExec, JobIds

\* The rows a retry rests on are kept.
ChainsKept ==
    /\ \A j \in JobIds : /\ Exists(j)' <=> Exists(j)
                         /\ job'[j].retryOf = job[j].retryOf
                         /\ NotTaken(attempt[j]) => NotTaken(attempt'[j])
    /\ \A j \in JobIds : j \in accepted /\ MayBeTaken(attempt[j]) => MayBeTaken(attempt'[j])
    /\ accepted' = accepted

\* An execution ends or goes on with what it knows.
ExecKept(p) ==
    \/ exec'[p].step = "idle"
    \/ /\ exec'[p].step = exec[p].step /\ exec'[p].kind = exec[p].kind
       /\ exec'[p].invoked = exec[p].invoked /\ exec'[p].result = exec[p].result
       /\ exec'[p].job = exec[p].job

LEMMA ChainsSent ==
  ASSUME Sent, ChainsKept, KnownFailure'
  PROVE  Sent'
  BY DEF Sent, Retried, Ordered, ChainsKept, Exists

LEMMA KeptSent ==
  ASSUME Sent, ChainsKept, \A p \in Procs : ExecKept(p)
  PROVE  Sent'
  <1>1. KnownFailure'
    BY DEF Sent, KnownFailure, ChainsKept, ExecKept
  <1> QED BY <1>1, ChainsSent

LEMMA StillRows ==
  ASSUME UNCHANGED <<job, attempt, accepted>>
  PROVE  ChainsKept
  BY DEF ChainsKept, Exists

LEMMA LifecycleSent ==
  ASSUME IInv, Sent, NEW p \in Procs,
         \/ StartFaults(p) \/ StartStandby(p) \/ Stop(p) \/ ThreadExits(p)
         \/ Crash(p) \/ WatchCancellation(p) \/ WatcherBlind(p)
  PROVE  Sent'
  <1>1. UNCHANGED <<job, attempt, accepted>>
    BY DEF StartFaults, StartStandby, Stop, ThreadExits, Crash, WatchCancellation,
           WatcherBlind, dbVars
  <1>2. CASE StartFaults(p) \/ StartStandby(p) \/ ThreadExits(p)
    <2>1. exec' = exec
      BY <1>2 DEF StartFaults, StartStandby, ThreadExits
    <2> QED BY <1>1, <2>1, StillRows, KeptSent DEF ExecKept
  <1>3. CASE Stop(p) \/ WatchCancellation(p) \/ WatcherBlind(p)
    <2>1. PICK b \in BOOLEAN : exec' = [exec EXCEPT ![p].stop = b]
      BY <1>3 DEF Stop, WatchCancellation, WatcherBlind
    <2>2. \A q \in Procs : ExecKept(q)
      BY <2>1, StopRequested DEF ExecKept
    <2> QED BY <1>1, <2>2, StillRows, KeptSent
  <1>4. CASE Crash(p)
    <2>1. \A q \in Procs : ExecKept(q)
      BY <1>4, IdleType DEF Crash, ExecKept, IInv, RowTypes
    <2> QED BY <1>1, <2>1, StillRows, KeptSent
  <1> QED BY <1>2, <1>3, <1>4

\* A call that returns keeps the registers that KnownFailure reads.
LEMMA ReturnKeeps ==
  ASSUME IInv, NEW p \in Procs, NEW r \in Results \cup {"ready"},
         NEW bad \in BOOLEAN, Return(p, r, bad)
  PROVE  /\ exec'[p].step = "returned" /\ exec'[p].kind = exec[p].kind
         /\ exec'[p].invoked = exec[p].invoked /\ exec'[p].result = r
         /\ exec'[p].job = exec[p].job
         /\ \A q \in Procs \ {p} : exec'[q] = exec[q]
  <1> DEFINE e == [exec[p] EXCEPT !.step = "returned", !.result = r, !.badAuth = bad]
  <1>1. exec[p] \in ExecRecord /\ exec \in [Procs -> ExecRecord]
    BY DEF IInv, RowTypes
  <1>2. exec' = [exec EXCEPT ![p] = e]
    BY DEF Return
  <1>3. /\ e.step = "returned" /\ e.kind = exec[p].kind /\ e.job = exec[p].job
        /\ e.result = r /\ e.invoked = exec[p].invoked
    BY <1>1 DEF ExecRecord
  <1> HIDE DEF e
  <1> QED BY <1>1, <1>2, <1>3

LEMMA CallSent ==
  ASSUME IInv, Sent, NEW p \in Procs,
         \/ BackendAccount(p) \/ Prepare(p)
         \/ \E r \in Results, bad \in BOOLEAN : BackendUpload(p, r, bad)
  PROVE  Sent'
  <1>1. UNCHANGED <<job, attempt, accepted>>
    BY DEF BackendAccount, Prepare, BackendUpload, dbVars
  <1>2. ASSUME NEW r \in Results \cup {"ready"}, NEW bad \in BOOLEAN, Return(p, r, bad),
               exec[p].kind = "upload" /\ exec[p].invoked /\ r = "failed" =>
                 exec[p].job \notin accepted
        PROVE  Sent'
    <2>1. KnownFailure'
      BY <1>1, <1>2, ReturnKeeps DEF Sent, KnownFailure
    <2> QED BY <1>1, <2>1, StillRows, ChainsSent
  <1>3. CASE BackendAccount(p)
    BY <1>2, <1>3 DEF BackendAccount, Results
  <1>4. CASE \E r \in Results, bad \in BOOLEAN : BackendUpload(p, r, bad)
    BY <1>2, <1>4 DEF BackendUpload
  <1>5. CASE Prepare(p)
    <2>1. ~exec[p].invoked
      BY <1>5 DEF Prepare, Sent, KnownFailure
    <2>2. CASE \E r \in {"failed", "canceled"} : Return(p, r, FALSE)
      BY <1>2, <2>1, <2>2 DEF Results
    <2>3. CASE exec' = [exec EXCEPT ![p].step = "prepared"]
      <3> DEFINE e == [exec[p] EXCEPT !.step = "prepared"]
      <3>1. exec[p] \in ExecRecord /\ exec \in [Procs -> ExecRecord]
        BY DEF IInv, RowTypes
      <3>2. exec' = [exec EXCEPT ![p] = e]
        BY <2>3
      <3>3. e.step = "prepared" /\ e.invoked = exec[p].invoked
        BY <3>1 DEF ExecRecord
      <3> HIDE DEF e
      <3>4. /\ exec'[p].step = "prepared" /\ ~exec'[p].invoked
            /\ \A q \in Procs \ {p} : exec'[q] = exec[q]
        BY <2>1, <3>1, <3>2, <3>3
      <3>5. KnownFailure'
        BY <1>1, <3>4 DEF Sent, KnownFailure
      <3> QED BY <1>1, <3>5, StillRows, ChainsSent
    <2> QED BY <1>5, <2>2, <2>3 DEF Prepare
  <1> QED BY <1>3, <1>4, <1>5
-----------------------------------------------------------------------------
(***************************************************************************)
(* What users do                                                           *)
(***************************************************************************)
\* New drafts that extend chains only at jobs that were not taken and have no
\* successor yet, each at most one.
LEMMA NewDraftsSent ==
  ASSUME IInv, Sent,
         \A k \in JobIds : Exists(k) => job'[k] = job[k],
         \A k \in JobIds : Exists(k)' /\ ~Exists(k) /\ job'[k].retryOf # 0 =>
           /\ job'[k].retryOf \in JobIds /\ NotTaken(attempt[job'[k].retryOf])
           /\ Leaf(job'[k].retryOf)
           /\ job'[k].retryOf < k
           /\ \A l \in JobIds : Exists(l)' /\ ~Exists(l)
                                /\ job'[l].retryOf = job'[k].retryOf => k = l,
         \A k \in JobIds : Exists(k)' \/ job'[k] = job[k],
         UNCHANGED <<attempt, exec, accepted>>
  PROVE  Sent'
  <1>1. KnownFailure'
    BY DEF Sent, KnownFailure
  <1>2. \A k \in JobIds : Exists(k) => Exists(k)'
    BY DEF Exists
  <1>3. Retried'
    <2>1. ASSUME NEW k \in JobIds, Exists(k)', job'[k].retryOf # 0
          PROVE  job'[k].retryOf \in JobIds /\ NotTaken(attempt[job'[k].retryOf])
      BY <2>1 DEF Sent, Retried
    <2>2. ASSUME NEW k \in JobIds, NEW l \in JobIds, Exists(k)', Exists(l)',
                 job'[k].retryOf = job'[l].retryOf, job'[k].retryOf # 0
          PROVE  k = l
      <3>1. CASE Exists(k) /\ Exists(l)
        BY <2>2, <3>1 DEF Sent, Retried
      <3>2. CASE Exists(k) /\ ~Exists(l)
        BY <2>2, <3>2 DEF Leaf
      <3>3. CASE ~Exists(k) /\ Exists(l)
        BY <2>2, <3>3 DEF Leaf
      <3>4. CASE ~Exists(k) /\ ~Exists(l)
        BY <2>2, <3>4
      <3> QED BY <3>1, <3>2, <3>3, <3>4
    <2> QED BY <2>1, <2>2 DEF Retried
  <1>4. Ordered'
    <2>1. \A k \in JobIds : Exists(k)' /\ ~Exists(k) => job'[k].retryOf < k
      BY DEF JobIds
    <2> QED BY <1>2, <2>1 DEF Sent, Ordered
  <1> QED BY <1>1, <1>3, <1>4 DEF Sent

LEMMA CreateJobsSent ==
  ASSUME IInv, Sent, NEW k \in Keys, CreateJobs(k)
  PROVE  Sent'
  <1>1. PICK m \in 0..MaxJobs : \A j \in JobIds : Exists(j) <=> j <= m
    BY DEF IInv, Numbered
  <1>2. JobCount = m
    BY <1>1, JobCountIs
  <1>3. DOMAIN TargetsOf[k] = 1..Len(TargetsOf[k]) /\ Len(TargetsOf[k]) \in Nat
    BY UploadAssumption
  <1>4. ASSUME NEW j \in JobIds
        PROVE  /\ Exists(j) => job'[j] = job[j]
               /\ ~Exists(j) => \/ job'[j] = job[j]
                                \/ job'[j] = Draft(TargetsOf[k][j - m], k, 0)
    <2>1. job'[j] = IF j - m \in 1..Len(TargetsOf[k])
                    THEN Draft(TargetsOf[k][j - m], k, 0) ELSE job[j]
      BY <1>2, <1>3 DEF CreateJobs
    <2>2. Exists(j) => ~(j - m \in 1..Len(TargetsOf[k]))
      BY <1>1, <1>3, Bounds DEF JobIds
    <2> QED BY <2>1, <2>2
  <1>5. \A a : Draft(a, k, 0).retryOf = 0
    <2>1. NoJob \in JobRecord
      BY NoJobType
    <2> QED BY <2>1 DEF Draft, JobRecord
  <1>6. /\ \A j \in JobIds : Exists(j)' /\ ~Exists(j) => job'[j].retryOf = 0
        /\ \A j \in JobIds : Exists(j)' \/ job'[j] = job[j]
    BY <1>4, <1>5, NoJobType DEF Exists, Draft, JobRecord
  <1>7. UNCHANGED <<attempt, exec, accepted>>
    BY DEF CreateJobs, procVars
  <1> QED BY <1>4, <1>6, <1>7, NewDraftsSent

LEMMA InsertedSent ==
  ASSUME IInv, Sent, NEW J \in SUBSET {j \in JobIds : Retryable(j)},
         job' \in WithRetries(J), OnlyJobs
  PROVE  Sent'
  <1>1. PICK m \in 0..MaxJobs : \A j \in JobIds : Exists(j) <=> j <= m
    BY DEF IInv, Numbered
  <1>2. JobCount = m
    BY <1>1, JobCountIs
  <1>3. IsFiniteSet(J)
    <2>1. IsFiniteSet(JobIds) /\ J \in SUBSET JobIds
      BY Bounds, FS_Interval DEF JobIds
    <2> QED BY <2>1, FS_Subset
  <1>4. Cardinality(J) \in Nat
    BY <1>3, FS_CardinalityType
  <1>5. PICK place \in [J -> 1..Cardinality(J)] :
          /\ \A i, j \in J : place[i] = place[j] => i = j
          /\ job' = [q \in JobIds |->
                       IF \E j \in J : q = JobCount + place[j]
                       THEN LET j == CHOOSE i \in J : q = JobCount + place[i]
                            IN  Draft(job[j].account, job[j].key, j)
                       ELSE job[q]]
    BY DEF WithRetries
  <1>6. \A j \in J : place[j] \in Nat /\ place[j] >= 1
    BY <1>4, <1>5
  <1>7. \A j \in JobIds : Exists(j) => job'[j] = job[j]
    BY <1>1, <1>2, <1>5, <1>6, Bounds DEF JobIds
  <1>8. ASSUME NEW q \in JobIds, Exists(q)', ~Exists(q)
        PROVE  \E j \in J : /\ q = m + place[j] /\ job'[q].retryOf = j
                            /\ Exists(j) /\ j < q
    <2>1. \E j \in J : q = JobCount + place[j]
      BY <1>5, <1>8 DEF Exists
    <2> DEFINE j == CHOOSE i \in J : q = JobCount + place[i]
    <2>2. j \in J /\ q = JobCount + place[j]
      BY <2>1
    <2>3. job'[q] = Draft(job[j].account, job[j].key, j)
      BY <1>5, <2>1
    <2>4. Draft(job[j].account, job[j].key, j).retryOf = j
      BY NoJobType DEF Draft, JobRecord
    <2> HIDE DEF j
    <2>5. Exists(j) /\ j < q
      <3>1. j \in JobIds /\ Retryable(j)
        BY <2>2
      <3>2. Exists(j) /\ j <= m
        BY <1>1, <3>1 DEF Retryable, Exists
      <3>3. place[j] \in Nat /\ place[j] >= 1
        BY <1>6, <2>2
      <3> QED BY <1>2, <2>2, <3>1, <3>2, <3>3, Bounds DEF JobIds
    <2> QED BY <1>2, <2>2, <2>3, <2>4, <2>5
  <1>9. \A j \in J : j \in JobIds /\ Leaf(j) /\ NotTaken(attempt[j])
    BY DEF Retryable, NotTaken
  <1>10. UNCHANGED <<attempt, exec, accepted>>
    BY DEF OnlyJobs, procVars
  <1>11. ASSUME NEW k \in JobIds, Exists(k)', ~Exists(k)
         PROVE  /\ job'[k].retryOf \in JobIds /\ NotTaken(attempt[job'[k].retryOf])
                /\ Leaf(job'[k].retryOf) /\ job'[k].retryOf < k
                /\ \A l \in JobIds : Exists(l)' /\ ~Exists(l)
                                     /\ job'[l].retryOf = job'[k].retryOf => k = l
    BY <1>8, <1>9, <1>11
  <1>12. ASSUME NEW q \in JobIds
         PROVE  Exists(q)' \/ job'[q] = job[q]
    <2>1. \A a, k, i : Draft(a, k, i).state = "draft"
      BY DEF Draft, NoJob
    <2> QED BY <1>5, <2>1 DEF Exists
  <1> QED BY <1>7, <1>10, <1>11, <1>12, NewDraftsSent

LEMMA RetrySent ==
  ASSUME IInv, Sent, \/ \E j \in JobIds : Retry(j)
                     \/ \E k \in Keys : RetryMany(k)
  PROVE  Sent'
  <1>1. ASSUME NEW j \in JobIds, Retry(j)
        PROVE  Sent'
    <2>1. {j} \in SUBSET {i \in JobIds : Retryable(i)}
      BY <1>1 DEF Retry
    <2> QED BY <1>1, <2>1, InsertedSent DEF Retry
  <1>2. ASSUME NEW k \in Keys, RetryMany(k)
        PROVE  Sent'
    <2> DEFINE leaves     == {j \in JobIds : Exists(j) /\ job[j].key = k /\ Leaf(j)}
               candidates == {j \in leaves : job[j].state \in {"failed", "canceled"}}
    <2>1. /\ \A j \in candidates : Retryable(j)
          /\ job' \in WithRetries(candidates) /\ OnlyJobs
      BY <1>2 DEF RetryMany
    <2>2. candidates \in SUBSET {i \in JobIds : Retryable(i)}
      BY <2>1
    <2> HIDE DEF candidates
    <2> QED BY <2>1, <2>2, InsertedSent
  <1> QED BY <1>1, <1>2
LEMMA RowsSent ==
  ASSUME IInv, Sent,
         \/ \E k \in Keys : TombstoneRequest(k)
         \/ \E s \in Sources, p \in Procs :
              DeleteSourceMedia(p, s) \/ RestoreSourceMedia(p, s)
         \/ \E s \in Sources : MediaStep(s)
         \/ \E a \in Accounts : Check(a)
  PROVE  Sent'
  <1>1. UNCHANGED <<job, attempt, accepted, exec>>
    BY DEF TombstoneRequest, DeleteSourceMedia, RestoreSourceMedia, MediaStep, CommitMedia,
           RollBackMedia, UndoMedia, Check, dbVars, procVars
  <1> QED BY <1>1, StillRows, KeptSent DEF ExecKept

LEMMA ConfirmSent ==
  ASSUME IInv, Sent, NEW J \in SUBSET JobIds, Confirm(J)
  PROVE  Sent'
  <1> DEFINE now(j) == <<account[job[j].account].session, epoch>>
             f(j)   == [job[j] EXCEPT !.state = "queued", !.cancel = FALSE,
                                      !.approved = now(j)]
  <1>1. /\ \A j \in JobIds :
             job'[j] = job[j] \/ (job[j].state = "draft" /\ job'[j] = f(j))
        /\ UNCHANGED <<attempt, accepted, exec>>
    BY DEF Confirm, procVars
  <1>2. ASSUME NEW r \in JobRecord, NEW v
        PROVE  LET g == [r EXCEPT !.state = "queued", !.cancel = FALSE, !.approved = v]
               IN  g.state = "queued" /\ g.retryOf = r.retryOf
    BY DEF JobRecord
  <1>3. \A j \in JobIds : job[j] \in JobRecord
    BY DEF IInv, RowTypes
  <1> HIDE DEF now
  <1>4. \A j \in JobIds : f(j).state = "queued" /\ f(j).retryOf = job[j].retryOf
    BY <1>2, <1>3
  <1> HIDE DEF f
  <1>5. ChainsKept
    BY <1>1, <1>4 DEF ChainsKept, Exists
  <1> QED BY <1>1, <1>5, KeptSent DEF ExecKept

LEMMA CancelSent ==
  ASSUME IInv, Sent, NEW p \in Procs, NEW J \in SUBSET JobIds, Cancel(p, J)
  PROVE  Sent'
  <1> DEFINE b == exec[p].stop \/ exec[p].job \in J
  <1>1. b \in BOOLEAN /\ exec' = [exec EXCEPT ![p].stop = b]
    BY DEF Cancel, IInv, RowTypes, ExecRecord
  <1> HIDE DEF b
  <1>2. \A q \in Procs : ExecKept(q)
    BY <1>1, StopRequested DEF ExecKept
  <1>3. ASSUME NEW r \in JobRecord
        PROVE  LET f == CancelJob(r)
               IN  f.retryOf = r.retryOf /\ (f.state = "none" <=> r.state = "none")
    BY DEF CancelJob, JobRecord
  <1>4. ChainsKept
    <2>1. \A j \in JobIds : job'[j] = job[j] \/ job'[j] = CancelJob(job[j])
      BY DEF Cancel
    <2>2. \A j \in JobIds : job[j] \in JobRecord
      BY DEF IInv, RowTypes
    <2>3. UNCHANGED <<attempt, accepted>>
      BY DEF Cancel
    <2> QED BY <1>3, <2>1, <2>2, <2>3 DEF ChainsKept, Exists
  <1> QED BY <1>2, <1>4, KeptSent

LEMMA CancelOperationSent ==
  ASSUME IInv, Sent, NEW p \in Procs, NEW a \in Accounts, CancelOperation(p, a)
  PROVE  Sent'
  <1>1. UNCHANGED <<job, attempt, accepted>>
    BY DEF CancelOperation
  <1> DEFINE b == exec[p].stop \/ Executes(p, a)
  <1>2. exec' = exec \/ (b \in BOOLEAN /\ exec' = [exec EXCEPT ![p].stop = b])
    BY DEF CancelOperation, IInv, RowTypes, ExecRecord, Executes
  <1> HIDE DEF b
  <1>3. \A q \in Procs : ExecKept(q)
    BY <1>2, StopRequested DEF ExecKept
  <1> QED BY <1>1, <1>3, StillRows, KeptSent

LEMMA RevokedChains ==
  ASSUME IInv, NEW a, job' = RevokeQueued(job, a), UNCHANGED <<attempt, accepted>>
  PROVE  ChainsKept
  <1>1. job \in [JobIds -> JobRecord]
    BY DEF IInv, RowTypes
  <1>2. \A j \in JobIds :
          /\ job'[j] = job[j] \/ (job[j].state = "queued" /\ job'[j].state = "draft")
          /\ job'[j].retryOf = job[j].retryOf
    BY <1>1, Revoked
  <1> QED BY <1>2 DEF ChainsKept, Exists

LEMMA LoginSent ==
  ASSUME IInv, Sent, NEW p \in Procs, NEW a \in Accounts, Login(p, a)
  PROVE  Sent'
  <1>1. job' = RevokeQueued(job, a) /\ UNCHANGED <<attempt, accepted, exec>>
    BY DEF Login, LoginRevokes, procVars
  <1> QED BY <1>1, RevokedChains, KeptSent DEF ExecKept

LEMMA DisconnectSent ==
  ASSUME IInv, Sent, NEW p \in Procs, NEW a \in Accounts, DisconnectAccount(p, a)
  PROVE  Sent'
  <1> DEFINE b == exec[p].stop \/ (Executes(p, a) /\ op[a].state = "running")
  <1>1. b \in BOOLEAN /\ exec' = [exec EXCEPT ![p].stop = b]
    BY DEF DisconnectAccount, IInv, RowTypes, ExecRecord, Executes
  <1> HIDE DEF b
  <1>2. \A q \in Procs : ExecKept(q)
    BY <1>1, StopRequested DEF ExecKept
  <1>3. job' = RevokeQueued(job, a) /\ UNCHANGED <<attempt, accepted>>
    BY DEF DisconnectAccount
  <1> QED BY <1>2, <1>3, RevokedChains, KeptSent

\* The operator reports what the platform shows, and only of the end of a chain.
LEMMA ReconcileSent ==
  ASSUME IInv, Sent, NEW j \in JobIds, ReconcileUnknown(j)
  PROVE  Sent'
  <1> DEFINE v == IF j \in accepted THEN "yes" ELSE "no"
             n == attempt[j].revision + 1
             t == [attempt[j] EXCEPT !.state = "reconciled", !.revision = n, !.accepted = v]
             s == IF j \in accepted THEN Outcome(job[j].account) ELSE "failed"
             f == [job[j] EXCEPT !.state = s]
  <1>1. /\ job[j].state = "unknown" /\ attempt[j].state = "unknown"
        /\ UNCHANGED <<accepted, exec>>
    BY DEF ReconcileUnknown, procVars
  <1>2. attempt' = [attempt EXCEPT ![j] = t] /\ job' = [job EXCEPT ![j] = f]
    BY DEF ReconcileUnknown
  <1>3. /\ job \in [JobIds -> JobRecord] /\ attempt \in [JobIds -> AttemptRecord]
    BY DEF IInv, RowTypes
  <1>4. f.state # "none" /\ f.retryOf = job[j].retryOf
    BY <1>3 DEF JobRecord, Outcome
  <1>5. t.state = "reconciled" /\ (j \in accepted => t.accepted = "yes")
    <2> HIDE DEF v, n
    <2>1. t.state = "reconciled" /\ t.accepted = v
      BY <1>3 DEF AttemptRecord
    <2> QED BY <2>1 DEF v
  <1> HIDE DEF f, t, s
  <1>6. ChainsKept
    <2>1. \A i \in JobIds \ {j} : job'[i] = job[i] /\ attempt'[i] = attempt[i]
      BY <1>2, <1>3
    <2>2. job'[j] = f /\ attempt'[j] = t
      BY <1>2, <1>3
    <2>3. ~NotTaken(attempt[j]) /\ (j \in accepted => MayBeTaken(t))
      BY <1>1, <1>5 DEF NotTaken, MayBeTaken
    <2> QED BY <1>1, <1>4, <2>1, <2>2, <2>3 DEF ChainsKept, Exists
  <1> QED BY <1>1, <1>6, KeptSent DEF ExecKept

-----------------------------------------------------------------------------
(***************************************************************************)
(* Recovery, the steps of the scheduler, the platform, the backup          *)
(***************************************************************************)
\* Recovery settles receipts, but none that says the job was not taken, and
\* none as failed that may have been dispatched.
LEMMA RecoveredChains ==
  ASSUME IInv, RecoverInterruptedRecords, accepted' = accepted
  PROVE  ChainsKept
  <1>1. \A j \in JobIds : job[j] \in JobRecord /\ attempt[j] \in AttemptRecord
    BY DEF IInv, RowTypes
  <1>2. ASSUME NEW r \in JobRecord, NEW t \in AttemptRecord
        PROVE  /\ NotTaken(t) => NotTaken(RecoveredAttempt(r, t))
               /\ MayBeTaken(t) => MayBeTaken(RecoveredAttempt(r, t))
    <2>1. CASE t.state \notin {"reserved", "dispatch_may_have_started"}
      BY <2>1 DEF RecoveredAttempt
    <2>2. CASE t.state = "reserved"
      BY <2>2 DEF NotTaken, MayBeTaken
    <2>3. CASE t.state = "dispatch_may_have_started"
      <3> DEFINE n == t.revision + 1
      <3>1. \/ RecoveredAttempt(r, t) = t
            \/ RecoveredAttempt(r, t) = [t EXCEPT !.state = "unknown", !.result = "unknown",
                                                  !.revision = n]
        BY <2>3 DEF RecoveredAttempt
      <3> HIDE DEF n
      <3>2. [t EXCEPT !.state = "unknown", !.result = "unknown", !.revision = n].state
              = "unknown"
        BY DEF AttemptRecord
      <3> QED BY <2>3, <3>1, <3>2 DEF NotTaken, MayBeTaken
    <2> QED BY <2>1, <2>2, <2>3
  <1>3. \A j \in JobIds :
          /\ job'[j].state = "none" <=> job[j].state = "none"
          /\ job'[j].retryOf = job[j].retryOf
    <2>1. ASSUME NEW j \in JobIds, Interrupted(job[j])
          PROVE  /\ job'[j].state # "none" /\ job[j].state # "none"
                 /\ job'[j].retryOf = job[j].retryOf
      <3>1. job'[j] = RecoveredJob(job[j], attempt[j])
        BY <2>1 DEF RecoverInterruptedRecords
      <3>2. job[j].state # "none"
        BY <2>1 DEF Interrupted
      <3> QED BY <1>1, <2>1, <3>1, <3>2, RecoveredType
    <2>2. \A j \in JobIds : ~Interrupted(job[j]) => job'[j] = job[j]
      BY DEF RecoverInterruptedRecords
    <2> QED BY <2>1, <2>2
  <1>4. \A j \in JobIds : \/ attempt'[j] = attempt[j]
                          \/ attempt'[j] = RecoveredAttempt(job[j], attempt[j])
    BY DEF RecoverInterruptedRecords
  <1> QED BY <1>1, <1>2, <1>3, <1>4 DEF ChainsKept, Exists

LEMMA StartSent ==
  ASSUME IInv, Sent, NEW p \in Procs, Start(p)
  PROVE  Sent'
  BY RecoveredChains, KeptSent DEF Start, ExecKept

LEMMA SchedulerFailsSent ==
  ASSUME IInv, Sent, NEW p \in Procs, SchedulerFails(p)
  PROVE  Sent'
  <1>1. accepted' = accepted /\ exec' = [exec EXCEPT ![p] = IdleExec]
    BY DEF SchedulerFails
  <1>2. \A q \in Procs : ExecKept(q)
    BY <1>1, IdleType DEF ExecKept, IInv, RowTypes
  <1>3. ChainsKept
    BY <1>1, RecoveredChains, StillRows DEF SchedulerFails, dbVars
  <1> QED BY <1>2, <1>3, KeptSent
\* The execution of p is replaced by one that knows no more than it may.
LEMMA StepSent ==
  ASSUME Sent, ChainsKept, NEW p \in Procs,
         \A q \in Procs \ {p} : exec'[q] = exec[q],
         \/ exec'[p].step \in {"idle", "invoked"}
         \/ exec'[p].step = "claimed" /\ ~exec'[p].invoked
  PROVE  Sent'
  <1>1. KnownFailure'
    BY DEF Sent, KnownFailure, ChainsKept
  <1> QED BY <1>1, ChainsSent

LEMMA OperationSent ==
  ASSUME IInv, Sent, NEW p \in Procs,
         FinishOperation(p) \/ \E a \in Accounts : ClaimOperation(p, a)
  PROVE  Sent'
  <1>1. UNCHANGED <<job, attempt, accepted>>
    BY DEF FinishOperation, ClaimOperation
  <1>2. exec \in [Procs -> ExecRecord]
    BY DEF IInv, RowTypes
  <1>3. CASE FinishOperation(p)
    <2>1. exec'[p].step = "idle" /\ \A q \in Procs \ {p} : exec'[q] = exec[q]
      BY <1>2, <1>3, IdleType DEF FinishOperation
    <2> QED BY <1>1, <2>1, StillRows, StepSent
  <1>4. ASSUME NEW a \in Accounts, ClaimOperation(p, a)
        PROVE  Sent'
    <2> DEFINE e == [IdleExec EXCEPT !.step = "claimed", !.kind = "account", !.account = a]
    <2>1. exec' = [exec EXCEPT ![p] = e]
      BY <1>4 DEF ClaimOperation
    <2>2. e.step = "claimed" /\ ~e.invoked
      BY DEF IdleExec
    <2> HIDE DEF e
    <2>3. /\ exec'[p].step = "claimed" /\ ~exec'[p].invoked
          /\ \A q \in Procs \ {p} : exec'[q] = exec[q]
      BY <1>2, <2>1, <2>2
    <2> QED BY <1>1, <2>3, StillRows, StepSent
  <1> QED BY <1>3, <1>4

LEMMA ClaimUploadSent ==
  ASSUME IInv, Sent, NEW p \in Procs, NEW j \in JobIds, ClaimUpload(p, j)
  PROVE  Sent'
  <1> DEFINE e == [IdleExec EXCEPT !.step = "claimed", !.kind = "upload", !.job = j,
                                   !.account = job[j].account]
             f == [job[j] EXCEPT !.state = "running", !.cancel = FALSE]
  <1>1. /\ attempt[j].state = "none" /\ job[j].state = "queued"
        /\ exec' = [exec EXCEPT ![p] = e] /\ job' = [job EXCEPT ![j] = f]
        /\ attempt' = [attempt EXCEPT ![j] = Reserved(j)]
        /\ accepted' = accepted
    BY DEF ClaimUpload, Claimable
  <1>2. e.step = "claimed" /\ ~e.invoked
    BY DEF IdleExec
  <1>3. f.state = "running" /\ f.retryOf = job[j].retryOf
    BY DEF IInv, RowTypes, JobRecord
  <1> HIDE DEF e, f
  <1>4. /\ exec'[p].step = "claimed" /\ ~exec'[p].invoked
        /\ \A q \in Procs \ {p} : exec'[q] = exec[q]
    BY <1>1, <1>2 DEF IInv, RowTypes
  <1>5. /\ job'[j] = f
        /\ \A i \in JobIds \ {j} : job'[i] = job[i] /\ attempt'[i] = attempt[i]
    BY <1>1 DEF IInv, RowTypes
  <1>6. ~NotTaken(attempt[j]) /\ ~MayBeTaken(attempt[j])
    BY <1>1 DEF NotTaken, MayBeTaken
  <1>7. ChainsKept
    BY <1>1, <1>3, <1>5, <1>6 DEF ChainsKept, Exists
  <1> QED BY <1>4, <1>7, StepSent

LEMMA MarkDispatchSent ==
  ASSUME IInv, Sent, NEW p \in Procs, MarkDispatch(p)
  PROVE  Sent'
  <1> DEFINE j == exec[p].job
             e == [exec[p] EXCEPT !.step = "invoked", !.invoked = TRUE]
             v == <<account[job[j].account].session, epoch>>
             t == [attempt[j] EXCEPT !.state = "dispatch_may_have_started",
                                     !.dispatched = TRUE, !.revision = 1, !.under = v]
  <1>1. /\ exec[p].step = "prepared" /\ ~exec[p].invoked
        /\ UNCHANGED <<job, accepted>>
    BY DEF MarkDispatch, Sent, KnownFailure
  <1>2. j \in JobIds
    BY <1>1 DEF IInv, Executing
  <1>3. ASSUME NEW r \in Results \cup {"ready"}, Return(p, r, FALSE), attempt' = attempt
        PROVE  Sent'
    <2>1. KnownFailure'
      BY <1>1, <1>3, ReturnKeeps DEF Sent, KnownFailure
    <2> QED BY <1>1, <1>3, <2>1, StillRows, ChainsSent
  <1>4. CASE /\ attempt[j].state = "reserved"
             /\ attempt' = [attempt EXCEPT ![j] = t]
             /\ exec' = [exec EXCEPT ![p] = e]
    <2>1. t.state = "dispatch_may_have_started"
      BY <1>2 DEF IInv, RowTypes, AttemptRecord
    <2>2. e.step = "invoked"
      BY DEF IInv, RowTypes, ExecRecord
    <2> HIDE DEF e, t, v
    <2>3. /\ exec'[p].step = "invoked"
          /\ \A q \in Procs \ {p} : exec'[q] = exec[q]
      BY <1>4, <2>2 DEF IInv, RowTypes
    <2>4. /\ attempt'[j] = t
          /\ \A i \in JobIds \ {j} : attempt'[i] = attempt[i]
      BY <1>2, <1>4 DEF IInv, RowTypes
    <2>5. ~NotTaken(attempt[j]) /\ MayBeTaken(t)
      BY <1>4, <2>1 DEF NotTaken, MayBeTaken
    <2>6. ChainsKept
      BY <1>1, <2>4, <2>5 DEF ChainsKept, Exists
    <2> QED BY <2>3, <2>6, StepSent
  <1> QED BY <1>3, <1>4 DEF MarkDispatch, Results

\* An upload that the platform took ends as taken or as unknown: what the
\* execution brings back is no failure, and a cancellation is not believed.
LEMMA FinishUploadSent ==
  ASSUME IInv, Sent, NEW p \in Procs, FinishUpload(p)
  PROVE  Sent'
  <1> DEFINE j == exec[p].job
             a == exec[p].account
             s == UploadResultState(exec[p].result, exec[p].invoked, ModeOf[a])
             f == [job[j] EXCEPT !.state = s, !.cancel = FALSE]
             done == [job EXCEPT ![j] = f]
             x == IF s = "unknown" THEN "unknown" ELSE "responded"
             y == exec[p].result
             n == attempt[j].revision + 1
             t == [attempt[j] EXCEPT !.state = x, !.result = y, !.revision = n]
  <1>1. /\ exec[p].step = "returned" /\ exec[p].kind = "upload"
        /\ job' = RevokeQueued(done, a) \/ job' = done
        /\ exec' = [exec EXCEPT ![p] = IdleExec]
        /\ accepted' = accepted
    <2>1. done = [job EXCEPT ![j].state = s, ![j].cancel = FALSE]
      OBVIOUS
    <2> QED BY <2>1 DEF FinishUpload
  <1>2. /\ attempt' = [attempt EXCEPT ![j] = t]
        /\ attempt[j].state = IF exec[p].invoked THEN "dispatch_may_have_started"
                              ELSE "reserved"
    <2>1. Finalizes(p, s)
      BY DEF FinishUpload
    <2> QED BY <2>1 DEF Finalizes
  <1>3. /\ j \in JobIds /\ job[j].state = "running" /\ y \in Results
    BY <1>1 DEF IInv, Executing
  <1>4. s \in Results
    BY <1>3, UploadEnds
  <1>5. /\ job \in [JobIds -> JobRecord] /\ attempt \in [JobIds -> AttemptRecord]
    BY DEF IInv, RowTypes
  <1>6. j \in accepted => /\ exec[p].invoked
                          /\ x = "unknown" \/ y \in {"submitted", "draft_saved"}
    <2>1. j \in accepted => exec[p].invoked
      BY <1>2, <1>3 DEF Sent, MayBeTaken
    <2>2. exec[p].invoked /\ y = "canceled" => s = "unknown"
      BY DEF UploadResultState
    <2>3. y = "unknown" => s = "unknown"
      BY DEF UploadResultState
    <2>4. exec[p].invoked /\ y = "failed" => j \notin accepted
      BY <1>1 DEF Sent, KnownFailure
    <2> QED BY <1>3, <2>1, <2>2, <2>3, <2>4 DEF Results
  <1>7. x \in {"unknown", "responded"}
    OBVIOUS
  <1>8. f.state = s /\ f.retryOf = job[j].retryOf /\ f \in JobRecord
    <2>1. job[j] \in JobRecord /\ s \in JobState /\ FALSE \in BOOLEAN
      BY <1>3, <1>4, <1>5 DEF Results, JobState, Settled
    <2> HIDE DEF s
    <2> QED BY <2>1, JobStateType
  <1> HIDE DEF s, f, x, y, n
  <1>9. t.state = x /\ t.result = y
    BY <1>3, <1>5 DEF AttemptRecord
  <1> HIDE DEF t
  <1>10. /\ done \in [JobIds -> JobRecord] /\ done[j] = f
         /\ \A i \in JobIds \ {j} : done[i] = job[i]
    BY <1>3, <1>5, <1>8
  <1> HIDE DEF done
  <1>11. \A i \in JobIds :
           /\ job'[i] = done[i] \/ (done[i].state = "queued" /\ job'[i].state = "draft")
           /\ job'[i].retryOf = done[i].retryOf
    BY <1>1, <1>10, Revoked
  <1>12. \A i \in JobIds : Exists(i)' <=> Exists(i)
    BY <1>3, <1>4, <1>8, <1>10, <1>11 DEF Exists, Results
  <1>13. /\ attempt'[j] = t
         /\ \A i \in JobIds \ {j} : attempt'[i] = attempt[i]
    BY <1>2, <1>3, <1>5
  <1>14. ~NotTaken(attempt[j]) /\ (j \in accepted => MayBeTaken(t))
    BY <1>2, <1>6, <1>7, <1>9 DEF NotTaken, MayBeTaken
  <1>15. ChainsKept
    <2>1. \A i \in JobIds : job'[i].retryOf = job[i].retryOf
      BY <1>8, <1>10, <1>11
    <2> QED BY <1>1, <1>12, <1>13, <1>14, <2>1 DEF ChainsKept
  <1>16. /\ exec'[p].step = "idle"
         /\ \A q \in Procs \ {p} : exec'[q] = exec[q]
    BY <1>1, IdleType DEF IInv, RowTypes
  <1> QED BY <1>15, <1>16, StepSent

LEMMA RemoteSent ==
  ASSUME IInv, Sent, NEW j \in JobIds, RemoteAccepts(j)
  PROVE  Sent'
  <1>1. /\ accepted' = accepted \cup {j}
        /\ UNCHANGED <<job, attempt, exec>>
        /\ attempt[j].state \in {"dispatch_may_have_started", "unknown"}
        /\ \A p \in Procs : ~(exec[p].job = j /\ exec[p].result = "failed")
    BY DEF RemoteAccepts, dbVars, procVars
  <1>2. MayBeTaken(attempt[j])
    BY <1>1 DEF MayBeTaken
  <1>3. KnownFailure'
    BY <1>1 DEF Sent, KnownFailure
  <1>4. Retried' /\ Ordered'
    BY <1>1 DEF Sent, Retried, Ordered, Exists
  <1> QED BY <1>1, <1>2, <1>3, <1>4 DEF Sent

LEMMA BackupSent ==
  ASSUME IInv, Sent, BeginBackup \/ EndBackup
  PROVE  Sent'
  <1>1. UNCHANGED <<job, attempt, accepted, exec>>
    BY DEF BeginBackup, EndBackup, dbVars, procVars
  <1> QED BY <1>1, StillRows, KeptSent DEF ExecKept

\* A restore settles the receipts of the jobs that ran, as recovery does.
LEMMA RestoreSent ==
  ASSUME IInv, Sent, RestoreBackup
  PROVE  Sent'
  <1>1. backup.rows = Rows
    BY DEF RestoreBackup, IInv, Copying, Exclusive
  <1>2. /\ job' = [j \in JobIds |-> RestoredJob(job[j], attempt[j])]
        /\ attempt' = [j \in JobIds |-> RestoredAttempt(job[j], attempt[j])]
        /\ UNCHANGED <<exec, accepted>>
    BY <1>1 DEF RestoreBackup, Rows
  <1>3. \A j \in JobIds : attempt[j].state # "none" => ValidReceipt(job[j], attempt[j])
    BY <1>1 DEF RestoreBackup, Audits, RowsSound, ReceiptsSound, Rows
  <1>4. \A j \in JobIds : job[j] \in JobRecord /\ attempt[j] \in AttemptRecord
    BY DEF IInv, RowTypes
  <1>5. \A j \in JobIds : /\ job'[j].retryOf = job[j].retryOf
                          /\ job'[j].state = "none" <=> job[j].state = "none"
    BY <1>2, <1>3, <1>4, RestoredType
  <1>6. ASSUME NEW r \in JobRecord, NEW t \in AttemptRecord
        PROVE  /\ NotTaken(t) => NotTaken(RestoredAttempt(r, t))
               /\ MayBeTaken(t) => MayBeTaken(RestoredAttempt(r, t))
    <2>1. CASE t.state \notin {"reserved", "dispatch_may_have_started"}
      BY <2>1 DEF RestoredAttempt
    <2>2. CASE t.state = "reserved"
      BY <2>2 DEF NotTaken, MayBeTaken
    <2>3. CASE t.state = "dispatch_may_have_started"
      <3> DEFINE n == t.revision + 1
      <3>1. \/ RestoredAttempt(r, t) = t
            \/ RestoredAttempt(r, t) = [t EXCEPT !.state = "unknown", !.result = "unknown",
                                                 !.revision = n]
        BY <2>3 DEF RestoredAttempt
      <3> HIDE DEF n
      <3>2. [t EXCEPT !.state = "unknown", !.result = "unknown", !.revision = n].state
              = "unknown"
        BY DEF AttemptRecord
      <3> QED BY <2>3, <3>1, <3>2 DEF NotTaken, MayBeTaken
    <2> QED BY <2>1, <2>2, <2>3
  <1>7. ChainsKept
    BY <1>2, <1>4, <1>5, <1>6 DEF ChainsKept, Exists
  <1> QED BY <1>2, <1>7, KeptSent DEF ExecKept

-----------------------------------------------------------------------------
(***************************************************************************)
(* The theorems                                                            *)
(***************************************************************************)
LEMMA UserSent ==
  ASSUME IInv, Sent, UserStep
  PROVE  Sent'
  <1>1. CASE \E k \in Keys : CreateJobs(k) \/ TombstoneRequest(k) \/ RetryMany(k)
    BY <1>1, CreateJobsSent, RowsSent, RetrySent
  <1>2. CASE \E J \in (SUBSET JobIds) \ {{}} :
               Confirm(J) \/ \E p \in Procs : Cancel(p, J)
    BY <1>2, ConfirmSent, CancelSent
  <1>3. CASE \E s \in Sources, p \in Procs :
               DeleteSourceMedia(p, s) \/ RestoreSourceMedia(p, s)
    BY <1>3, RowsSent
  <1>4. CASE \E j \in JobIds : Retry(j) \/ ReconcileUnknown(j)
    BY <1>4, RetrySent, ReconcileSent
  <1>5. CASE \E a \in Accounts :
               \/ Check(a)
               \/ \E p \in Procs : \/ Login(p, a) \/ CancelOperation(p, a)
                                   \/ DisconnectAccount(p, a)
    BY <1>5, RowsSent, LoginSent, CancelOperationSent, DisconnectSent
  <1> QED BY <1>1, <1>2, <1>3, <1>4, <1>5 DEF UserStep

LEMMA NextSent == IInv /\ Sent /\ [Next]_vars => Sent'
  <1> SUFFICES ASSUME IInv, Sent, [Next]_vars PROVE Sent'
    OBVIOUS
  <1>1. CASE UserStep
    BY <1>1, UserSent
  <1>2. CASE BackupStep
    BY <1>2, BackupSent, RestoreSent DEF BackupStep
  <1>3. CASE \E j \in JobIds : RemoteAccepts(j)
    BY <1>3, RemoteSent
  <1>4. CASE \E s \in Sources : MediaStep(s)
    BY <1>4, RowsSent
  <1>5. ASSUME NEW p \in Procs,
               \/ Start(p) \/ StartFaults(p) \/ StartStandby(p) \/ Stop(p) \/ Crash(p)
               \/ WatchCancellation(p) \/ WatcherBlind(p) \/ SchedulerFails(p)
        PROVE  Sent'
    BY <1>5, StartSent, LifecycleSent, SchedulerFailsSent
  <1>6. ASSUME NEW p \in Procs, SchedulerStep(p)
        PROVE  Sent'
    BY <1>6, OperationSent, ClaimUploadSent, CallSent, MarkDispatchSent,
       FinishUploadSent, LifecycleSent DEF SchedulerStep
  <1>7. CASE UNCHANGED vars
    <2>1. UNCHANGED <<job, attempt, accepted, exec>>
      BY <1>7 DEF vars, dbVars, procVars
    <2> QED BY <2>1, StillRows, KeptSent DEF ExecKept
  <1> QED BY <1>1, <1>2, <1>3, <1>4, <1>5, <1>6, <1>7 DEF Next

\* What the platform took, the receipts and the chains of retries agree on.
THEOREM UploadReceipts == Spec => []Sent
  BY UploadInvariance, InitSent, NextSent, PTL DEF Spec

-----------------------------------------------------------------------------
(***************************************************************************)
(* Chains of retries                                                       *)
(***************************************************************************)
LEMMA LeastNumber ==
  ASSUME NEW T \in SUBSET Nat, T # {}
  PROVE  \E x \in T : \A y \in T : x <= y
  <1> DEFINE R == {ss \in Nat \X Nat : ss[1] < ss[2]}
  <1>1. IsWellFoundedOn(R, Nat)
    BY NatLessThanWellFounded DEF OpToRel
  <1>2. \E x \in T : \A y \in T : <<y, x>> \notin R
    <2> HIDE DEF R
    <2> QED BY <1>1, WFMin
  <1>3. \A x, y \in T : <<y, x>> \notin R => x <= y
    OBVIOUS
  <1> QED BY <1>2, <1>3

\* The recursion of Ancestors has a solution: it descends.
LEMMA ChainExists ==
  ASSUME NEW N \in Nat, NEW par, \A n \in 1..N : par[n] \in 0..(n - 1)
  PROVE  \E f : f = [n \in 0..N |-> IF n = 0 THEN {} ELSE {n} \cup f[par[n]]]
  <1> DEFINE Is(f, m) == f = [n \in 0..m |-> IF n = 0 THEN {} ELSE {n} \cup f[par[n]]]
             T == {m \in 0..N : ~\E f : Is(f, m)}
  <1>1. SUFFICES T = {}
    <2>1. N \in 0..N
      OBVIOUS
    <2> QED BY <2>1
  <1>2. SUFFICES ASSUME T # {} PROVE FALSE
    OBVIOUS
  <1>3. T \in SUBSET Nat
    OBVIOUS
  <1>4. PICK m \in T : \A k \in T : m <= k
    <2> HIDE DEF T
    <2> QED BY <1>2, <1>3, LeastNumber
  <1>5. m # 0
    <2> DEFINE f == [n \in 0..0 |-> {}]
    <2>1. Is(f, 0)
      OBVIOUS
    <2> QED BY <1>4, <2>1
  <1>6. m - 1 \in 0..N /\ m - 1 \notin T
    <2>1. m \in 0..N
      BY <1>4
    <2> HIDE DEF T
    <2> QED BY <1>4, <1>5, <2>1
  <1>7. PICK g : Is(g, m - 1)
    BY <1>6
  <1> DEFINE f == [n \in 0..m |-> IF n = m THEN {m} \cup g[par[m]] ELSE g[n]]
  <1>8. \A n \in 0..m : f[n] = IF n = 0 THEN {} ELSE {n} \cup f[par[n]]
    <2> TAKE n \in 0..m
    <2>1. CASE n = 0
      BY <1>5, <1>6, <1>7, <2>1
    <2>2. CASE n # 0
      <3>1. par[n] \in 0..(n - 1) /\ par[n] \in 0..m /\ par[n] # m
        BY <1>4, <2>2
      <3>2. f[par[n]] = g[par[n]]
        BY <3>1
      <3>3. n # m => g[n] = {n} \cup g[par[n]]
        BY <1>4, <1>7, <2>2
      <3> QED BY <2>2, <3>2, <3>3
    <2> QED BY <2>1, <2>2
  <1>9. Is(f, m)
    BY <1>8
  <1> QED BY <1>4, <1>9

LEMMA ChainIs ==
  ASSUME IInv, Sent
  PROVE  \A j \in JobIds :
           Ancestors(j) = {j} \cup (IF job[j].retryOf = 0 THEN {}
                                   ELSE Ancestors(job[j].retryOf))
  <1> DEFINE par   == [n \in 1..MaxJobs |-> IF job[n].retryOf < n THEN job[n].retryOf ELSE 0]
             F(f)  == [n \in 0..MaxJobs |->
                         IF n = 0 THEN {}
                         ELSE {n} \cup f[IF job[n].retryOf < n THEN job[n].retryOf ELSE 0]]
             chain == CHOOSE f : f = F(f)
  <1>1. \A n \in 1..MaxJobs : job[n].retryOf \in 0..(n - 1)
    <2>1. \A n \in JobIds : job[n].retryOf \in 0..MaxJobs /\ job[n].retryOf < n
      BY DEF IInv, RowTypes, JobRecord, Sent, Ordered
    <2> QED BY <2>1, Bounds DEF JobIds
  <1>2. \E f : f = F(f)
    <2>1. PICK f : f = [n \in 0..MaxJobs |-> IF n = 0 THEN {} ELSE {n} \cup f[par[n]]]
      <3>1. \A n \in 1..MaxJobs : par[n] \in 0..(n - 1)
        BY <1>1
      <3> HIDE DEF par
      <3> QED BY <3>1, Bounds, ChainExists
    <2>2. \A n \in 0..MaxJobs : n # 0 =>
            par[n] = IF job[n].retryOf < n THEN job[n].retryOf ELSE 0
      BY Bounds
    <2>3. \A n \in 0..MaxJobs :
            (IF n = 0 THEN {} ELSE {n} \cup f[par[n]])
              = IF n = 0 THEN {}
                ELSE {n} \cup f[IF job[n].retryOf < n THEN job[n].retryOf ELSE 0]
      <3> HIDE DEF par
      <3> QED BY <2>2
    <2> HIDE DEF par
    <2>4. f = F(f)
      BY <2>1, <2>3
    <2> HIDE DEF F
    <2> QED BY <2>4
  <1>3. chain = F(chain)
    <2> HIDE DEF F
    <2> QED BY <1>2
  <1>4. \A j : Ancestors(j) = chain[j]
    BY DEF Ancestors
  <1> HIDE DEF chain
  <1>5. chain[0] = {} /\ \A j \in 1..MaxJobs : chain[j] = {j} \cup chain[job[j].retryOf]
    BY <1>1, <1>3, Bounds
  <1> QED BY <1>4, <1>5 DEF JobIds

-----------------------------------------------------------------------------
\* A job the platform took has no successor, however late the platform took it
\* and whatever failure, cancellation or report came before; and a job has one
\* successor at most, so that a chain of retries sends one job at a time.
RetriesUnsent ==
    /\ \A j \in accepted : Leaf(j)
    /\ \A k, l \in JobIds : /\ Exists(k) /\ Exists(l)
                            /\ job[k].retryOf = job[l].retryOf /\ job[k].retryOf # 0
                            => k = l

THEOREM UploadRetries == Spec => []RetriesUnsent
  <1>1. IInv /\ Sent => RetriesUnsent
    <2> SUFFICES ASSUME IInv, Sent PROVE RetriesUnsent
      OBVIOUS
    <2>1. ASSUME NEW j \in accepted, NEW k \in JobIds, Exists(k), job[k].retryOf = j
          PROVE  FALSE
      <3>1. j \in JobIds /\ j # 0
        BY DEF IInv, RowTypes, JobIds
      <3>2. NotTaken(attempt[j]) /\ MayBeTaken(attempt[j])
        BY <2>1, <3>1 DEF Sent, Retried
      <3> QED BY <3>2, Apart
    <2> QED BY <2>1 DEF RetriesUnsent, Leaf, Sent, Retried
  <1> QED BY <1>1, UploadInvariance, UploadReceipts, PTL

LEMMA AncestorsBelow ==
  ASSUME IInv, Sent, NEW j \in JobIds
  PROVE  Ancestors(j) \subseteq 1..j
  <1> DEFINE T == {n \in JobIds : ~(Ancestors(n) \subseteq 1..n)}
  <1>1. T \in SUBSET Nat
    BY DEF JobIds
  <1>2. ASSUME T # {} PROVE FALSE
    <2>1. PICK m \in T : \A k \in T : m <= k
      <3> HIDE DEF T
      <3> QED BY <1>1, <1>2, LeastNumber
    <2>2. m \in JobIds /\ ~(Ancestors(m) \subseteq 1..m)
      BY <2>1
    <2>3. job[m].retryOf \in 0..MaxJobs /\ job[m].retryOf < m
      BY <2>2 DEF IInv, RowTypes, JobRecord, Sent, Ordered
    <2> DEFINE q == job[m].retryOf
    <2>4. q # 0 => Ancestors(q) \subseteq 1..q
      <3>1. q # 0 => q \in JobIds /\ q \notin T
        <4>1. q # 0 => q \in JobIds /\ ~(m <= q)
          BY <2>2, <2>3, Bounds DEF JobIds
        <4> HIDE DEF T, q
        <4> QED BY <2>1, <4>1
      <3> QED BY <3>1
    <2>5. Ancestors(m) = {m} \cup IF q = 0 THEN {} ELSE Ancestors(q)
      BY <2>2, ChainIs
    <2>6. m \in 1..m /\ 1..q \subseteq 1..m
      BY <2>2, <2>3, Bounds DEF JobIds
    <2> HIDE DEF T, q
    <2> QED BY <2>2, <2>4, <2>5, <2>6
  <1> QED BY <1>2

\* Between a job and one of its ancestors there is a successor of the ancestor.
LEMMA SuccessorOf ==
  ASSUME IInv, Sent, NEW j \in JobIds, NEW x \in Ancestors(j), x # j
  PROVE  \E c \in Ancestors(j) : c \in JobIds /\ job[c].retryOf = x
  <1> DEFINE Reached(n) == \A y \in Ancestors(n) : y # n =>
               \E c \in Ancestors(n) : c \in JobIds /\ job[c].retryOf = y
             T == {n \in JobIds : ~Reached(n)}
  <1>1. T \in SUBSET Nat
    BY DEF JobIds
  <1>2. ASSUME T # {} PROVE FALSE
    <2>1. PICK m \in T : \A k \in T : m <= k
      <3> HIDE DEF T
      <3> QED BY <1>1, <1>2, LeastNumber
    <2>2. m \in JobIds /\ ~Reached(m)
      BY <2>1
    <2>3. job[m].retryOf \in 0..MaxJobs /\ job[m].retryOf < m
      BY <2>2 DEF IInv, RowTypes, JobRecord, Sent, Ordered
    <2> DEFINE q == job[m].retryOf
    <2>4. q # 0 => q \in JobIds /\ Reached(q)
      <3>1. q # 0 => q \in JobIds /\ q \notin T
        <4>1. q # 0 => q \in JobIds /\ ~(m <= q)
          BY <2>2, <2>3, Bounds DEF JobIds
        <4> HIDE DEF T, q
        <4> QED BY <2>1, <4>1
      <3> HIDE DEF Reached
      <3> QED BY <3>1
    <2>5. Ancestors(m) = {m} \cup IF q = 0 THEN {} ELSE Ancestors(q)
      BY <2>2, ChainIs
    <2>6. ASSUME NEW y \in Ancestors(m), y # m
          PROVE  \E c \in Ancestors(m) : c \in JobIds /\ job[c].retryOf = y
      <3>1. q # 0 /\ y \in Ancestors(q)
        BY <2>5, <2>6
      <3>2. CASE y = q
        BY <2>2, <2>5, <3>2
      <3>3. CASE y # q
        BY <2>4, <2>5, <3>1, <3>3
      <3> QED BY <3>2, <3>3
    <2> QED BY <2>2, <2>6
  <1>3. Reached(j)
    BY <1>2
  <1> QED BY <1>3

\* Two jobs of one chain that are both its end are one job.
LEMMA OneEnd ==
  ASSUME IInv, Sent, NEW i \in JobIds, NEW j \in JobIds, Leaf(i), Leaf(j),
         NEW r \in Ancestors(i) \cap Ancestors(j)
  PROVE  i = j
  <1> DEFINE common == Ancestors(i) \cap Ancestors(j)
             T == {MaxJobs - x : x \in common}
  <1>1. common \subseteq JobIds
    BY AncestorsBelow, Bounds DEF JobIds
  <1>2. T \in SUBSET Nat /\ T # {}
    BY <1>1, Bounds DEF JobIds
  <1>3. PICK x \in common : \A y \in common : y <= x
    <2>1. PICK m \in T : \A k \in T : m <= k
      <3> HIDE DEF T
      <3> QED BY <1>2, LeastNumber
    <2>2. PICK x \in common : m = MaxJobs - x
      BY <2>1
    <2>3. ASSUME NEW y \in common PROVE y <= x
      <3>1. MaxJobs - x <= MaxJobs - y
        BY <2>1, <2>2
      <3>2. x \in Nat /\ y \in Nat
        BY <1>1 DEF JobIds
      <3> QED BY <3>1, <3>2, Bounds
    <2> QED BY <2>3
  <1>4. x \in JobIds /\ x # 0
    BY <1>1 DEF JobIds
  <1>5. \A c \in JobIds : job[c].retryOf = x => Exists(c)
    BY <1>4 DEF Sent, Ordered
  <1>6. SUFFICES ASSUME x # i, x # j PROVE FALSE
    <2>1. x # i => ~Leaf(x)
      BY <1>5, SuccessorOf DEF Leaf
    <2>2. x # j => ~Leaf(x)
      BY <1>5, SuccessorOf DEF Leaf
    <2> QED BY <1>6, <2>1, <2>2
  <1>7. PICK c \in Ancestors(i) : c \in JobIds /\ job[c].retryOf = x
    BY <1>6, SuccessorOf
  <1>8. PICK d \in Ancestors(j) : d \in JobIds /\ job[d].retryOf = x
    BY <1>6, SuccessorOf
  <1>9. c = d
    BY <1>4, <1>5, <1>7, <1>8 DEF Sent, Retried
  <1>10. c \in common /\ x < c
    BY <1>7, <1>8, <1>9 DEF Sent, Ordered
  <1> QED BY <1>3, <1>4, <1>7, <1>10 DEF JobIds

LEMMA RootOf ==
  ASSUME IInv, Sent, NEW j \in JobIds
  PROVE  Root(j) \in Ancestors(j)
  <1>1. Ancestors(j) # {} /\ Ancestors(j) \in SUBSET Nat
    BY ChainIs, AncestorsBelow DEF JobIds
  <1>2. \E k \in Ancestors(j) : \A i \in Ancestors(j) : k <= i
    BY <1>1, LeastNumber
  <1> QED BY <1>2 DEF Root

\* Of the jobs that descend from one job the platform takes at most one.
THEOREM UploadOnce == Spec => []NoDuplicateUpload
  <1>1. IInv /\ Sent /\ RetriesUnsent => NoDuplicateUpload
    <2> SUFFICES ASSUME IInv, Sent, RetriesUnsent, NEW i \in accepted, NEW j \in accepted,
                        Root(i) = Root(j)
                 PROVE  i = j
      BY DEF NoDuplicateUpload
    <2>1. i \in JobIds /\ j \in JobIds
      BY DEF IInv, RowTypes
    <2>2. Leaf(i) /\ Leaf(j)
      BY DEF RetriesUnsent
    <2>3. Root(i) \in Ancestors(i) \cap Ancestors(j)
      BY <2>1, RootOf
    <2> QED BY <2>1, <2>2, <2>3, OneEnd
  <1> QED BY <1>1, UploadInvariance, UploadReceipts, UploadRetries, PTL

-----------------------------------------------------------------------------
(***************************************************************************)
(* What a send and its retry rest on, and what a backup accepts            *)
(***************************************************************************)
Pending == {"draft", "queued", "running"}

\* The source is present, and its file too unless a move of it was cut short.
Held(s) == media[s] = "present" /\ s \in files \cup cut

\* A source whose file has not been moved, or was moved and moved back, fits its
\* row.  While the file is moved the row still says what it said before.
Placed ==
    \A s \in Sources :
      /\ move[s].step = "none" => move[s] = NoMove
      /\ move[s] = NoMove /\ s \notin cut => (media[s] = "present" <=> s \in files)
      /\ move[s].step # "none" /\ move[s].row = "deleted" =>
           media[s] = "present" /\ s \notin files /\ s \notin cut
      /\ move[s].step # "none" /\ move[s].row = "present" =>
           s \in files /\ (media[s] = "deleted" \/ s \in cut)

LEMMA InitPlaced == Init => Placed
  BY DEF Init, Placed, NoMove

LEMMA MovesPlaced ==
  ASSUME IInv, Moves, Placed, NEW s \in Sources,
         \/ MediaStep(s)
         \/ \E p \in Procs : DeleteSourceMedia(p, s) \/ RestoreSourceMedia(p, s)
  PROVE  Placed'
  <1>1. /\ move \in [Sources -> MoveRecord]
        /\ media \in [Sources -> {"present", "deleted"}]
        /\ NoMove.step = "none" /\ NoMove.row = "present"
    BY DEF Moves, FileTypes, IInv, RowTypes, NoMove
  <1>2. \A r \in Sources \ {s} :
          /\ media'[r] = media[r] /\ move'[r] = move[r]
          /\ r \in files' <=> r \in files
          /\ r \in cut' <=> r \in cut
    BY <1>1 DEF MediaStep, CommitMedia, RollBackMedia, UndoMedia, DeleteSourceMedia,
           RestoreSourceMedia, dbVars
  <1> DEFINE Good(c, f, m, b) ==
        /\ m.step = "none" => m = NoMove
        /\ m = NoMove /\ ~b => (c = "present" <=> f)
        /\ m.step # "none" /\ m.row = "deleted" => c = "present" /\ ~f /\ ~b
        /\ m.step # "none" /\ m.row = "present" => f /\ (c = "deleted" \/ b)
  <1>3. Good(media[s], s \in files, move[s], s \in cut)
    BY DEF Placed
  <1>4. Good(media'[s], s \in files', move'[s], s \in cut')
    <2>1. CASE CommitMedia(s)
      <3>1. move'[s] = NoMove /\ media'[s] = move[s].row /\ files' = files /\ s \notin cut'
        BY <1>1, <2>1 DEF CommitMedia
      <3>2. move[s].step # "none" /\ move[s].row \in {"present", "deleted"}
        BY <1>1, <2>1 DEF CommitMedia, MoveRecord
      <3> QED BY <1>1, <1>3, <3>1, <3>2
    <2>2. CASE RollBackMedia(s)
      <3> DEFINE m == [move[s] EXCEPT !.step = "undoing"]
      <3>1. move' = [move EXCEPT ![s] = m]
        BY <2>2 DEF RollBackMedia
      <3>2. m.step = "undoing" /\ m.row = move[s].row
        BY <1>1 DEF MoveRecord
      <3> HIDE DEF m
      <3>3. /\ move'[s].step = "undoing" /\ move'[s].row = move[s].row
            /\ move[s].step = "moved" /\ UNCHANGED <<media, files, cut>>
        BY <1>1, <2>2, <3>1, <3>2 DEF RollBackMedia, dbVars
      <3> QED BY <1>1, <1>3, <3>3
    <2>3. CASE UndoMedia(s)
      <3>1. /\ move'[s] = NoMove /\ media' = media /\ move[s].step # "none"
            /\ move[s].row \in {"present", "deleted"}
            /\ media[s] \in {"present", "deleted"}
        BY <1>1, <2>3 DEF UndoMedia, dbVars, MoveRecord
      <3>2. \/ s \in cut'
            \/ cut' = cut /\ (s \in files' <=> move[s].row = "deleted")
        BY <2>3 DEF UndoMedia
      <3> QED BY <1>1, <1>3, <3>1, <3>2
    <2>4. ASSUME NEW p \in Procs, DeleteSourceMedia(p, s)
          PROVE  Good(media'[s], s \in files', move'[s], s \in cut')
      <3>1. /\ move'[s] = Moving(p, "deleted") /\ media'[s] = "present"
            /\ s \notin files' /\ s \notin cut'
        BY <1>1, <2>4 DEF DeleteSourceMedia, Verified, dbVars
      <3>2. Moving(p, "deleted").step = "moved" /\ Moving(p, "deleted").row = "deleted"
        BY DEF Moving
      <3> QED BY <1>1, <3>1, <3>2
    <2>5. ASSUME NEW p \in Procs, RestoreSourceMedia(p, s)
          PROVE  Good(media'[s], s \in files', move'[s], s \in cut')
      <3>1. /\ move'[s] = Moving(p, "present") /\ media' = media /\ cut' = cut
            /\ s \in files' /\ s \notin files /\ move[s] = NoMove
            /\ media[s] \in {"present", "deleted"}
        BY <1>1, <2>5 DEF RestoreSourceMedia, dbVars
      <3>2. Moving(p, "present").step = "moved" /\ Moving(p, "present").row = "present"
        BY DEF Moving
      <3> QED BY <1>1, <1>3, <3>1, <3>2
    <2> QED BY <2>1, <2>2, <2>3, <2>4, <2>5 DEF MediaStep
  <1> QED BY <1>2, <1>4 DEF Placed

LEMMA CrashPlaced ==
  ASSUME Moves, Placed, NEW p \in Procs, Crash(p)
  PROVE  Placed'
  <1>1. UNCHANGED <<media, files>> /\ NoMove.step = "none"
    BY DEF Crash, dbVars, NoMove
  <1>2. ASSUME NEW s \in Sources
        PROVE  \/ move'[s] = NoMove /\ s \in cut'
               \/ move'[s] = move[s] /\ (s \in cut' <=> s \in cut)
    BY DEF Crash, MovesOf
  <1> QED BY <1>1, <1>2 DEF Placed

LEMMA NextPlaced == IInv /\ Moves /\ Placed /\ [Next]_vars => Placed'
  <1> SUFFICES ASSUME IInv, Moves, Placed, [Next]_vars PROVE Placed'
    OBVIOUS
  <1>1. ASSUME UNCHANGED <<media, fileVars>> PROVE Placed'
    BY <1>1 DEF fileVars, Placed
  <1>2. CASE UserStep
    BY <1>1, <1>2, UserFiles, MovesPlaced
  <1>3. CASE BackupStep
    <2>1. CASE RestoreBackup
      <3>1. /\ \A s \in Sources : media[s] = "present" <=> s \in files
            /\ \A s \in Sources : move[s] = NoMove
            /\ UNCHANGED <<media, files, move>>
        BY <2>1 DEF RestoreBackup, Audits, FilesFit, Rows, IInv, Copying, Moves, Quiet, Exclusive
      <3> QED BY <3>1 DEF Placed, NoMove
    <2> QED BY <1>1, <1>3, <2>1 DEF BackupStep, BeginBackup, EndBackup, dbVars
  <1>4. CASE \E s \in Sources : MediaStep(s)
    BY <1>4, MovesPlaced
  <1>5. CASE \E j \in JobIds : RemoteAccepts(j)
    BY <1>1, <1>5 DEF RemoteAccepts, dbVars
  <1>6. ASSUME NEW p \in Procs,
               \/ Start(p) \/ StartFaults(p) \/ StartStandby(p) \/ Stop(p) \/ Crash(p)
               \/ WatchCancellation(p) \/ WatcherBlind(p)
               \/ SchedulerStep(p) \/ SchedulerFails(p)
        PROVE  Placed'
    BY <1>1, <1>6, SchedulerFiles, CrashPlaced
  <1>7. CASE UNCHANGED vars
    BY <1>1, <1>7 DEF vars, dbVars
  <1> QED BY <1>2, <1>3, <1>4, <1>5, <1>6, <1>7 DEF Next

LEMMA MediaPlaced == Spec => []Placed
  BY UploadInvariance, MediaMoves, InitPlaced, NextPlaced, PTL DEF Spec

\* The receipt of a job is one that can belong to it.
Fits(r, t) ==
    /\ t.state # "none" => ValidReceipt(r, t) /\ r.state # "none"
    /\ r.state \in {"running", "unknown", "submitted", "draft_saved", "failed"} =>
         t.state # "none"

\* An execution has the account of its job, and without a dispatch it brings
\* back no outcome but a failure or a cancellation.
Answers ==
    \A p \in Procs :
      /\ exec[p].step # "idle" /\ exec[p].kind = "upload" =>
           exec[p].account = job[exec[p].job].account
      /\ exec[p].step = "invoked" => exec[p].invoked
      /\ exec[p].step = "returned" /\ exec[p].kind = "upload" /\ ~exec[p].invoked =>
           exec[p].result \in {"failed", "canceled"}

\* A disconnected account has no login and nothing to do.
AccountsFit ==
    \A a \in Accounts :
      /\ account[a].life = "disconnected" => account[a].auth = "unchecked"
      /\ op[a].state # "done" => account[a].life = "active"

\* A request that was served is the one its original jobs name.
RequestsFit ==
    \A k \in Keys : request[k] = "jobs" <=>
        \E j \in JobIds : Exists(j) /\ job[j].retryOf = 0 /\ job[j].key = k

Evident ==
    /\ \A j \in JobIds : /\ Exists(j) => job[j].key \in Keys
                         /\ Fits(job[j], attempt[j])
                         /\ job[j].state \in Pending => Held(SourceOf[job[j].key])
    /\ Answers /\ AccountsFit /\ RequestsFit

LEMMA InitEvident == Init => Evident
  BY DEF Init, Evident, Fits, Pending, Held, Answers, AccountsFit, RequestsFit, Exists, NoJob,
         NoAttempt, IdleExec

\* The names of the rows are kept, and no job comes to wait for its media.
NamesKept ==
    \A j \in JobIds :
      /\ Exists(j)' <=> Exists(j)
      /\ job'[j].account = job[j].account /\ job'[j].key = job[j].key
      /\ job'[j].retryOf = job[j].retryOf
      /\ job'[j].state \in Pending => job[j].state \in Pending

\* An execution ends or stays with what it has.
HandKept(p) ==
    \/ exec'[p].step = "idle"
    \/ /\ exec'[p].step = exec[p].step /\ exec'[p].kind = exec[p].kind
       /\ exec'[p].invoked = exec[p].invoked /\ exec'[p].result = exec[p].result
       /\ exec'[p].job = exec[p].job /\ exec'[p].account = exec[p].account

\* A job that may be sent does not lose its source.
SourcesKept ==
    \A s \in Sources : Held(s) /\ ActiveReferences(s) # {} => Held(s)'

LEMMA KeptEvident ==
  ASSUME Evident, NamesKept, \A j \in JobIds : Fits(job'[j], attempt'[j]),
         SourcesKept, request' = request, Answers', AccountsFit'
  PROVE  Evident'
  <1>1. RequestsFit'
    BY DEF Evident, RequestsFit, NamesKept
  <1>2. ASSUME NEW j \in JobIds
        PROVE  /\ Exists(j)' => job'[j].key \in Keys
               /\ (job[j].state \in Pending => Held(SourceOf[job[j].key]))'
    <2>1. Exists(j)' => job'[j].key \in Keys
      BY DEF Evident, NamesKept
    <2>2. ASSUME job'[j].state \in Pending PROVE Held(SourceOf[job[j].key])'
      <3>1. /\ job[j].state \in Pending /\ job'[j].key = job[j].key /\ Exists(j)
            /\ job[j].key \in Keys /\ Held(SourceOf[job[j].key])
        BY <2>2 DEF NamesKept, Evident, Pending, Exists
      <3>2. SourceOf[job[j].key] \in Sources /\ j \in ActiveReferences(SourceOf[job[j].key])
        BY <3>1, UploadAssumption DEF ActiveReferences, SourceJobs, Pending
      <3> QED BY <3>1, <3>2 DEF SourcesKept, Held
    <2> QED BY <2>1, <2>2
  <1> QED BY <1>1, <1>2 DEF Evident

LEMMA NamesEvident ==
  ASSUME Evident, NamesKept, \A j \in JobIds : Fits(job'[j], attempt'[j]),
         UNCHANGED <<media, fileVars, request>>, Answers', AccountsFit'
  PROVE  Evident'
  <1>1. SourcesKept
    BY DEF SourcesKept, Held, fileVars
  <1> QED BY <1>1, KeptEvident

LEMMA HandsAnswer ==
  ASSUME IInv, Evident, NamesKept, \A p \in Procs : HandKept(p)
  PROVE  Answers'
  <1>1. \A p \in Procs : exec[p].step # "idle" /\ exec[p].kind = "upload" =>
                           exec[p].job \in JobIds
    BY DEF IInv, Executing
  <1> QED BY <1>1 DEF Evident, Answers, NamesKept, HandKept

LEMMA RowsEvident ==
  ASSUME IInv, Evident, UNCHANGED <<dbVars, fileVars>>, Answers'
  PROVE  Evident'
  <1>1. NamesKept /\ AccountsFit' /\ \A j \in JobIds : Fits(job'[j], attempt'[j])
    BY DEF dbVars, NamesKept, Exists, Evident, AccountsFit
  <1> QED BY <1>1, NamesEvident DEF dbVars

LEMMA SameRowsKept ==
  ASSUME job' = job
  PROVE  NamesKept
  BY DEF NamesKept, Exists

LEMMA LifecycleEvident ==
  ASSUME IInv, Evident, NEW p \in Procs,
         \/ StartFaults(p) \/ StartStandby(p) \/ Stop(p) \/ ThreadExits(p)
         \/ Crash(p) \/ WatchCancellation(p) \/ WatcherBlind(p)
  PROVE  Evident'
  <1>1. UNCHANGED dbVars /\ SourcesKept
    BY DEF StartFaults, StartStandby, Stop, ThreadExits, Crash, WatchCancellation, WatcherBlind,
           SourcesKept, Held, dbVars, fileVars
  <1>2. \A q \in Procs : HandKept(q)
    <2>1. CASE StartFaults(p) \/ StartStandby(p) \/ ThreadExits(p)
      BY <2>1 DEF StartFaults, StartStandby, ThreadExits, HandKept
    <2>2. CASE Stop(p) \/ WatchCancellation(p) \/ WatcherBlind(p)
      <3>1. PICK b \in BOOLEAN : exec' = [exec EXCEPT ![p].stop = b]
        BY <2>2 DEF Stop, WatchCancellation, WatcherBlind
      <3> QED BY <3>1, StopRequested DEF HandKept
    <2>3. CASE Crash(p)
      BY <2>3, IdleType DEF Crash, HandKept, IInv, RowTypes
    <2> QED BY <2>1, <2>2, <2>3
  <1>3. NamesKept /\ AccountsFit' /\ \A j \in JobIds : Fits(job'[j], attempt'[j])
    BY <1>1, SameRowsKept DEF dbVars, Evident, AccountsFit
  <1> QED BY <1>1, <1>2, <1>3, HandsAnswer, KeptEvident DEF dbVars

LEMMA CallEvident ==
  ASSUME IInv, Sent, Evident, NEW p \in Procs,
         \/ BackendAccount(p) \/ Prepare(p)
         \/ \E r \in Results, bad \in BOOLEAN : BackendUpload(p, r, bad)
  PROVE  Evident'
  <1>1. UNCHANGED <<dbVars, fileVars>> /\ exec[p].step \in {"claimed", "invoked"}
    BY DEF BackendAccount, Prepare, BackendUpload
  <1>2. ASSUME NEW r \in Results \cup {"ready"}, NEW bad \in BOOLEAN, Return(p, r, bad),
               exec[p].kind = "upload" /\ ~exec[p].invoked => r \in {"failed", "canceled"}
        PROVE  Evident'
    <2>1. exec'[p].account = exec[p].account
      <3> DEFINE e == [exec[p] EXCEPT !.step = "returned", !.result = r, !.badAuth = bad]
      <3>1. exec[p] \in ExecRecord /\ exec \in [Procs -> ExecRecord]
        BY DEF IInv, RowTypes
      <3>2. exec' = [exec EXCEPT ![p] = e]
        BY <1>2 DEF Return
      <3>3. e.account = exec[p].account
        BY <3>1 DEF ExecRecord
      <3> HIDE DEF e
      <3> QED BY <3>1, <3>2, <3>3
    <2>2. Answers'
      BY <1>1, <1>2, <2>1, ReturnKeeps DEF Evident, Answers, dbVars
    <2> QED BY <1>1, <2>2, RowsEvident DEF Evident
  <1>3. CASE BackendAccount(p)
    BY <1>2, <1>3 DEF BackendAccount, Results
  <1>4. CASE \E r \in Results, bad \in BOOLEAN : BackendUpload(p, r, bad)
    BY <1>2, <1>4 DEF BackendUpload, Evident, Answers
  <1>5. CASE Prepare(p)
    <2>1. CASE \E r \in {"failed", "canceled"} : Return(p, r, FALSE)
      BY <1>2, <2>1 DEF Results
    <2>2. CASE exec' = [exec EXCEPT ![p].step = "prepared"]
      <3> DEFINE e == [exec[p] EXCEPT !.step = "prepared"]
      <3>1. exec[p] \in ExecRecord /\ exec \in [Procs -> ExecRecord]
        BY DEF IInv, RowTypes
      <3>2. exec' = [exec EXCEPT ![p] = e]
        BY <2>2
      <3>3. /\ e.step = "prepared" /\ e.kind = exec[p].kind /\ e.job = exec[p].job
            /\ e.account = exec[p].account
        BY <3>1 DEF ExecRecord
      <3> HIDE DEF e
      <3>4. /\ exec'[p] = e /\ \A q \in Procs \ {p} : exec'[q] = exec[q]
        BY <3>1, <3>2
      <3>5. Answers'
        BY <1>1, <3>3, <3>4 DEF Evident, Answers, dbVars
      <3> QED BY <1>1, <3>5, RowsEvident DEF Evident
    <2> QED BY <1>5, <2>1, <2>2 DEF Prepare
  <1> QED BY <1>3, <1>4, <1>5

LEMMA OthersEvident ==
  ASSUME IInv, Evident,
         \/ \E k \in Keys : TombstoneRequest(k)
         \/ \E a \in Accounts : Check(a)
         \/ \E j \in JobIds : RemoteAccepts(j)
  PROVE  Evident'
  <1>1. UNCHANGED <<job, attempt, exec>>
    BY DEF TombstoneRequest, Check, RemoteAccepts, procVars, dbVars
  <1>2. Answers'
    BY <1>1 DEF Evident, Answers
  <1>3. ASSUME UNCHANGED <<media, fileVars, request>>, AccountsFit'
        PROVE  Evident'
    BY <1>1, <1>2, <1>3, NamesEvident, SameRowsKept DEF Evident
  <1>4. ASSUME UNCHANGED <<account, op>>
        PROVE  AccountsFit'
    BY <1>4 DEF Evident, AccountsFit
  <1>5. ASSUME NEW k \in Keys, TombstoneRequest(k)
        PROVE  Evident'
    <2>1. RequestsFit'
      BY <1>1, <1>5 DEF TombstoneRequest, Evident, RequestsFit, Exists, IInv, RowTypes
    <2> QED BY <1>1, <1>2, <1>4, <1>5, <2>1 DEF TombstoneRequest, Evident, Exists, Held, fileVars
  <1>6. ASSUME NEW a \in Accounts, Check(a)
        PROVE  Evident'
    <2>1. /\ \A c \in Accounts \ {a} : account'[c] = account[c] /\ op'[c] = op[c]
          /\ account'[a].life = "active"
          /\ UNCHANGED <<media, fileVars, request>>
      BY <1>6 DEF Check, IInv, RowTypes, AccountRecord
    <2>2. AccountsFit'
      BY <2>1 DEF Evident, AccountsFit
    <2> QED BY <1>3, <2>1, <2>2
  <1>7. ASSUME NEW j \in JobIds, RemoteAccepts(j)
        PROVE  Evident'
    <2>1. UNCHANGED <<account, op, media, fileVars, request>>
      BY <1>7 DEF RemoteAccepts, dbVars
    <2> QED BY <1>3, <1>4, <2>1
  <1> QED BY <1>5, <1>6, <1>7

\* A file is moved away from under no job: when it is, and until its row is
\* written, no job that may be sent has its source.
LEMMA MovesEvident ==
  ASSUME IInv, Moves, Placed, Evident, NEW s \in Sources,
         \/ MediaStep(s)
         \/ \E p \in Procs : DeleteSourceMedia(p, s) \/ RestoreSourceMedia(p, s)
  PROVE  Evident'
  <1>1. UNCHANGED <<account, op, job, attempt, request, exec>>
    BY DEF MediaStep, CommitMedia, RollBackMedia, UndoMedia, DeleteSourceMedia,
           RestoreSourceMedia, dbVars, procVars
  <1>2. Answers' /\ AccountsFit' /\ NamesKept /\ \A j \in JobIds : Fits(job'[j], attempt'[j])
    BY <1>1, SameRowsKept DEF Evident, Answers, AccountsFit
  <1>3. media \in [Sources -> {"present", "deleted"}]
    BY DEF IInv, RowTypes
  <1>4. move[s] \in MoveRecord /\ move[s].row \in {"present", "deleted"}
    BY DEF Moves, FileTypes, MoveRecord
  <1>5. \A r \in Sources \ {s} : Held(r) => Held(r)'
    BY <1>3 DEF MediaStep, CommitMedia, RollBackMedia, UndoMedia, DeleteSourceMedia,
           RestoreSourceMedia, dbVars, Held
  <1>6. Held(s) /\ ActiveReferences(s) # {} => Held(s)'
    <2>1. CASE CommitMedia(s)
      BY <1>3, <1>4, <2>1 DEF CommitMedia, Placed, Held
    <2>2. CASE RollBackMedia(s)
      BY <2>2 DEF RollBackMedia, Held, dbVars
    <2>3. CASE UndoMedia(s)
      BY <1>4, <2>3 DEF UndoMedia, Placed, Held, dbVars
    <2>4. CASE \E p \in Procs : DeleteSourceMedia(p, s)
      BY <2>4 DEF DeleteSourceMedia
    <2>5. CASE \E p \in Procs : RestoreSourceMedia(p, s)
      BY <2>5 DEF RestoreSourceMedia, Held, dbVars
    <2> QED BY <2>1, <2>2, <2>3, <2>4, <2>5 DEF MediaStep
  <1>7. SourcesKept
    BY <1>5, <1>6 DEF SourcesKept
  <1> QED BY <1>1, <1>2, <1>7, KeptEvident

\* A job that waits for its confirmation or its turn has no receipt.
LEMMA WaitingUnsent ==
  ASSUME NEW r \in JobRecord, NEW t \in AttemptRecord, Fits(r, t),
         r.state \in {"none", "draft", "queued"}
  PROVE  t.state = "none"
  BY DEF Fits, ValidReceipt, Outcome, AttemptRecord, Results

\* The receipt fits as long as the state and the account of its job stay.
LEMMA FitsStays ==
  ASSUME NEW r, NEW s, NEW t, Fits(r, t), s.state = r.state, s.account = r.account
  PROVE  Fits(s, t)
  BY DEF Fits, ValidReceipt

\* Whatever a job without receipt turns to, but for the states that need one.
LEMMA FitsUnsent ==
  ASSUME NEW r, NEW t, t.state = "none",
         r.state \in {"none", "draft", "queued", "canceled"}
  PROVE  Fits(r, t)
  BY DEF Fits

LEMMA ConfirmEvident ==
  ASSUME IInv, Evident, NEW J \in SUBSET JobIds, Confirm(J)
  PROVE  Evident'
  <1> DEFINE now(j) == <<account[job[j].account].session, epoch>>
             f(j)   == [job[j] EXCEPT !.state = "queued", !.cancel = FALSE,
                                      !.approved = now(j)]
  <1>1. /\ \A j \in JobIds :
             job'[j] = job[j] \/ (job[j].state = "draft" /\ job'[j] = f(j))
        /\ UNCHANGED <<account, op, attempt, request, media, fileVars, exec, backup>>
    BY DEF Confirm, procVars
  <1>2. ASSUME NEW r \in JobRecord, NEW v
        PROVE  LET g == [r EXCEPT !.state = "queued", !.cancel = FALSE, !.approved = v]
               IN  /\ g.state = "queued" /\ g.retryOf = r.retryOf
                   /\ g.account = r.account /\ g.key = r.key
    BY DEF JobRecord
  <1>3. \A j \in JobIds : job[j] \in JobRecord
    BY DEF IInv, RowTypes
  <1> HIDE DEF now
  <1>4. \A j \in JobIds : /\ f(j).state = "queued" /\ f(j).retryOf = job[j].retryOf
                          /\ f(j).account = job[j].account /\ f(j).key = job[j].key
    BY <1>2, <1>3
  <1> HIDE DEF f
  <1>5. NamesKept
    BY <1>1, <1>4 DEF NamesKept, Exists, Pending
  <1>6. ASSUME NEW j \in JobIds
        PROVE  Fits(job'[j], attempt'[j])
    <2>1. CASE job'[j] = job[j]
      BY <1>1, <2>1 DEF Evident
    <2>2. CASE job[j].state = "draft" /\ job'[j].state = "queued"
      <3>1. attempt[j].state = "none"
        BY <1>3, <2>2, WaitingUnsent DEF Evident, IInv, RowTypes
      <3> QED BY <1>1, <2>2, <3>1, FitsUnsent
    <2> QED BY <1>1, <1>4, <2>1, <2>2
  <1>7. AccountsFit' /\ Answers'
    BY <1>1, <1>5, HandsAnswer DEF Evident, AccountsFit, HandKept
  <1> QED BY <1>1, <1>5, <1>6, <1>7, NamesEvident DEF Evident

LEMMA CancelEvident ==
  ASSUME IInv, Evident, NEW p \in Procs, NEW J \in SUBSET JobIds, Cancel(p, J)
  PROVE  Evident'
  <1> DEFINE b == exec[p].stop \/ exec[p].job \in J
  <1>1. /\ b \in BOOLEAN /\ exec' = [exec EXCEPT ![p].stop = b]
        /\ UNCHANGED <<account, op, attempt, request, media, fileVars, backup>>
    BY DEF Cancel, IInv, RowTypes, ExecRecord
  <1> HIDE DEF b
  <1>2. \A q \in Procs : HandKept(q)
    BY <1>1, StopRequested DEF HandKept
  <1>3. ASSUME NEW r \in JobRecord
        PROVE  LET f == CancelJob(r)
               IN  /\ f.retryOf = r.retryOf /\ f.account = r.account /\ f.key = r.key
                   /\ \/ f.state = r.state
                      \/ r.state \in {"draft", "queued"} /\ f.state = "canceled"
    BY DEF CancelJob, JobRecord
  <1>4. \A j \in JobIds :
          /\ job[j] \in JobRecord
          /\ job'[j].retryOf = job[j].retryOf /\ job'[j].account = job[j].account
          /\ job'[j].key = job[j].key
          /\ \/ job'[j].state = job[j].state
             \/ job[j].state \in {"draft", "queued"} /\ job'[j].state = "canceled"
    <2>1. \A j \in JobIds : job'[j] = job[j] \/ job'[j] = CancelJob(job[j])
      BY DEF Cancel
    <2>2. \A j \in JobIds : job[j] \in JobRecord
      BY DEF IInv, RowTypes
    <2> QED BY <1>3, <2>1, <2>2
  <1>5. NamesKept
    BY <1>4 DEF NamesKept, Exists, Pending
  <1>6. ASSUME NEW j \in JobIds
        PROVE  Fits(job'[j], attempt'[j])
    <2>1. CASE job'[j].state = job[j].state
      BY <1>1, <1>4, <2>1, FitsStays DEF Evident
    <2>2. CASE job[j].state \in {"draft", "queued"} /\ job'[j].state = "canceled"
      <3>1. attempt[j].state = "none"
        BY <1>4, <2>2, WaitingUnsent DEF Evident, IInv, RowTypes
      <3> QED BY <1>1, <2>2, <3>1, FitsUnsent
    <2> QED BY <1>4, <2>1, <2>2
  <1>7. AccountsFit' /\ Answers'
    BY <1>1, <1>2, <1>5, HandsAnswer DEF Evident, AccountsFit
  <1> QED BY <1>1, <1>5, <1>6, <1>7, NamesEvident DEF Evident

\* What _revoke_queued leaves of the names, and of what fits.
LEMMA RevokedNames ==
  ASSUME NEW jb \in [JobIds -> JobRecord], NEW a, NEW j \in JobIds, NEW t \in AttemptRecord,
         Fits(jb[j], t)
  PROVE  /\ RevokeQueued(jb, a)[j].key = jb[j].key
         /\ Fits(RevokeQueued(jb, a)[j], t)
  <1> DEFINE f == [jb[j] EXCEPT !.state = "draft"]
  <1>1. f.state = "draft" /\ f.key = jb[j].key
    BY DEF JobRecord
  <1>2. RevokeQueued(jb, a)[j] = jb[j] \/ (jb[j].state = "queued" /\ RevokeQueued(jb, a)[j] = f)
    BY DEF RevokeQueued
  <1>3. jb[j].state = "queued" => t.state = "none"
    BY WaitingUnsent
  <1> HIDE DEF f
  <1> QED BY <1>1, <1>2, <1>3, FitsUnsent

LEMMA RevokedEvident ==
  ASSUME IInv, Evident, NEW a, job' = RevokeQueued(job, a), attempt' = attempt
  PROVE  NamesKept /\ \A j \in JobIds : Fits(job'[j], attempt'[j])
  <1>1. job \in [JobIds -> JobRecord] /\ \A j \in JobIds : attempt[j] \in AttemptRecord
    BY DEF IInv, RowTypes
  <1>2. \A j \in JobIds :
          /\ job'[j] = job[j] \/ (job[j].state = "queued" /\ job'[j].state = "draft")
          /\ job'[j].retryOf = job[j].retryOf /\ job'[j].account = job[j].account
    BY <1>1, Revoked
  <1>3. \A j \in JobIds : job'[j].key = job[j].key /\ Fits(job'[j], attempt'[j])
    BY <1>1, RevokedNames DEF Evident
  <1> QED BY <1>2, <1>3 DEF NamesKept, Exists, Pending

LEMMA LoginEvident ==
  ASSUME IInv, Evident, NEW p \in Procs, NEW a \in Accounts, Login(p, a)
  PROVE  Evident'
  <1>1. job' = RevokeQueued(job, a) /\ UNCHANGED <<attempt, request, media, fileVars, exec, backup>>
    BY DEF Login, LoginRevokes, procVars
  <1>2. /\ \A c \in Accounts \ {a} : account'[c] = account[c] /\ op'[c] = op[c]
        /\ account'[a].life = "active"
    <2> DEFINE n == account[a].session + 1
               g == [account[a] EXCEPT !.auth = "checking", !.session = n]
    <2>1. account' = [account EXCEPT ![a] = g] /\ account[a].life = "active"
      BY DEF Login
    <2> HIDE DEF n
    <2>2. g.life = account[a].life
      BY DEF IInv, RowTypes, AccountRecord
    <2> HIDE DEF g
    <2> QED BY <2>1, <2>2 DEF Login, IInv, RowTypes
  <1>3. AccountsFit'
    BY <1>2 DEF Evident, AccountsFit
  <1>4. NamesKept /\ \A j \in JobIds : Fits(job'[j], attempt'[j])
    BY <1>1, RevokedEvident
  <1>5. Answers'
    BY <1>1, <1>4, HandsAnswer DEF HandKept
  <1> QED BY <1>1, <1>3, <1>4, <1>5, NamesEvident DEF Evident

LEMMA CancelOperationEvident ==
  ASSUME IInv, Evident, NEW p \in Procs, NEW a \in Accounts, CancelOperation(p, a)
  PROVE  Evident'
  <1>1. UNCHANGED <<job, attempt, request, media, fileVars, backup>>
    BY DEF CancelOperation
  <1> DEFINE b == exec[p].stop \/ Executes(p, a)
  <1>2. exec' = exec \/ (b \in BOOLEAN /\ exec' = [exec EXCEPT ![p].stop = b])
    BY DEF CancelOperation, IInv, RowTypes, ExecRecord, Executes
  <1> HIDE DEF b
  <1>3. \A q \in Procs : HandKept(q)
    BY <1>2, StopRequested DEF HandKept
  <1>4. account[a] \in AccountRecord /\ op[a] \in OpRecord
    BY DEF IInv, RowTypes
  <1>5. AccountsFit'
    <2>1. CASE /\ op' = [op EXCEPT ![a].state = "done"]
               /\ account' = [account EXCEPT ![a].auth = "unchecked"]
      <3>1. /\ account'[a].auth = "unchecked" /\ op'[a].state = "done"
            /\ \A c \in Accounts \ {a} : account'[c] = account[c] /\ op'[c] = op[c]
        BY <1>4, <2>1 DEF IInv, RowTypes, AccountRecord, OpRecord
      <3> QED BY <3>1 DEF Evident, AccountsFit
    <2>2. CASE op' = [op EXCEPT ![a].cancel = TRUE] /\ account' = account
      <3>1. /\ op'[a].state = op[a].state
            /\ \A c \in Accounts \ {a} : op'[c] = op[c]
        BY <1>4, <2>2 DEF IInv, RowTypes, OpRecord
      <3> QED BY <2>2, <3>1 DEF Evident, AccountsFit
    <2> QED BY <2>1, <2>2 DEF CancelOperation
  <1>6. NamesKept /\ \A j \in JobIds : Fits(job'[j], attempt'[j])
    BY <1>1, SameRowsKept DEF Evident
  <1> QED BY <1>1, <1>3, <1>5, <1>6, HandsAnswer, NamesEvident DEF Evident

LEMMA DisconnectEvident ==
  ASSUME IInv, Evident, NEW p \in Procs, NEW a \in Accounts, DisconnectAccount(p, a)
  PROVE  Evident'
  <1> DEFINE b == exec[p].stop \/ (Executes(p, a) /\ op[a].state = "running")
             g == [account[a] EXCEPT !.auth = "unchecked", !.life = "disconnected"]
             h == [op[a] EXCEPT !.state = "done"]
  <1>1. b \in BOOLEAN /\ exec' = [exec EXCEPT ![p].stop = b]
    BY DEF DisconnectAccount, IInv, RowTypes, ExecRecord, Executes
  <1> HIDE DEF b
  <1>2. \A q \in Procs : HandKept(q)
    BY <1>1, StopRequested DEF HandKept
  <1>3. /\ job' = RevokeQueued(job, a) /\ UNCHANGED <<attempt, request, media, fileVars, backup>>
        /\ account' = [account EXCEPT ![a] = g] /\ op' = [op EXCEPT ![a] = h]
    BY DEF DisconnectAccount
  <1>4. g.auth = "unchecked" /\ h.state = "done"
    BY DEF IInv, RowTypes, AccountRecord, OpRecord
  <1> HIDE DEF g, h
  <1>5. AccountsFit'
    <2>1. /\ account'[a] = g /\ op'[a] = h
          /\ \A c \in Accounts \ {a} : account'[c] = account[c] /\ op'[c] = op[c]
      BY <1>3 DEF IInv, RowTypes
    <2> QED BY <1>4, <2>1 DEF Evident, AccountsFit
  <1>6. NamesKept /\ \A j \in JobIds : Fits(job'[j], attempt'[j])
    BY <1>3, RevokedEvident
  <1> QED BY <1>2, <1>3, <1>5, <1>6, HandsAnswer, NamesEvident DEF Evident

\* The operator's report settles a receipt as the state of its job says.
LEMMA ReconcileEvident ==
  ASSUME IInv, Evident, NEW j \in JobIds, ReconcileUnknown(j)
  PROVE  Evident'
  <1> DEFINE v == IF j \in accepted THEN "yes" ELSE "no"
             n == attempt[j].revision + 1
             t == [attempt[j] EXCEPT !.state = "reconciled", !.revision = n, !.accepted = v]
             s == IF j \in accepted THEN Outcome(job[j].account) ELSE "failed"
             f == [job[j] EXCEPT !.state = s]
  <1>1. /\ job[j].state = "unknown" /\ attempt[j].state = "unknown"
        /\ UNCHANGED <<account, op, request, media, fileVars, exec, backup>>
        /\ ValidReceipt(job[j], attempt[j])
    BY DEF ReconcileUnknown, procVars
  <1>2. attempt' = [attempt EXCEPT ![j] = t] /\ job' = [job EXCEPT ![j] = f]
    BY DEF ReconcileUnknown
  <1>3. /\ job \in [JobIds -> JobRecord] /\ attempt \in [JobIds -> AttemptRecord]
    BY DEF IInv, RowTypes
  <1>4. /\ f.state = s /\ f.retryOf = job[j].retryOf /\ f.account = job[j].account
        /\ f.key = job[j].key
    <2> HIDE DEF s
    <2> QED BY <1>3 DEF JobRecord
  <1>5. /\ t.state = "reconciled" /\ t.revision = n /\ t.accepted = v
        /\ t.dispatched = attempt[j].dispatched /\ t.result = attempt[j].result
    <2> HIDE DEF v, n
    <2> QED BY <1>3 DEF AttemptRecord
  <1>6. n = 3 /\ s \in {"failed", "submitted", "draft_saved"}
    BY <1>1 DEF ValidReceipt, Outcome
  <1> HIDE DEF f, t
  <1>7. Fits(f, t)
    <2>1. ValidReceipt(f, t)
      BY <1>1, <1>4, <1>5, <1>6 DEF ValidReceipt
    <2> QED BY <1>4, <1>5, <1>6, <2>1 DEF Fits
  <1>8. /\ \A i \in JobIds \ {j} : job'[i] = job[i] /\ attempt'[i] = attempt[i]
        /\ job'[j] = f /\ attempt'[j] = t
    BY <1>2, <1>3
  <1>9. NamesKept
    BY <1>1, <1>4, <1>6, <1>8 DEF NamesKept, Exists, Pending
  <1>10. \A i \in JobIds : Fits(job'[i], attempt'[i])
    BY <1>7, <1>8 DEF Evident
  <1>11. Answers' /\ AccountsFit'
    BY <1>1, <1>9, HandsAnswer DEF Evident, AccountsFit, HandKept
  <1> QED BY <1>1, <1>9, <1>10, <1>11, NamesEvident DEF Evident

\* New drafts have their media and no receipt; what they name is a request
\* that is served.
LEMMA NewDraftsEvident ==
  ASSUME IInv, Evident,
         \A j \in JobIds : Exists(j) => job'[j] = job[j],
         \A j \in JobIds : ~Exists(j) =>
           \/ job'[j] = job[j]
           \/ /\ job'[j].state = "draft" /\ job'[j].key \in Keys
              /\ Held(SourceOf[job'[j].key]),
         UNCHANGED <<account, op, attempt, media, fileVars, exec, backup>>,
         RequestsFit'
  PROVE  Evident'
  <1>1. ASSUME NEW j \in JobIds
        PROVE  /\ Exists(j)' => job'[j].key \in Keys
               /\ Fits(job'[j], attempt'[j])
               /\ job'[j].state \in Pending => Held(SourceOf[job'[j].key])
    <2>1. CASE job'[j] = job[j]
      BY <2>1 DEF Evident, Exists
    <2>2. CASE job'[j] # job[j]
      <3>1. ~Exists(j) /\ job[j] \in JobRecord /\ attempt[j] \in AttemptRecord
        BY <2>2 DEF IInv, RowTypes
      <3>2. attempt[j].state = "none"
        BY <3>1, WaitingUnsent DEF Exists, Evident
      <3> QED BY <2>2, <3>1, <3>2, FitsUnsent
    <2> QED BY <2>1, <2>2
  <1>2. Answers'
    <2>1. \A p \in Procs : exec[p].step # "idle" /\ exec[p].kind = "upload" =>
                             exec[p].job \in JobIds /\ Exists(exec[p].job)
      BY DEF IInv, Executing, Exists
    <2> QED BY <2>1 DEF Evident, Answers
  <1>3. AccountsFit'
    BY DEF Evident, AccountsFit
  <1>4. \A s : Held(s)' <=> Held(s)
    BY DEF Held, fileVars
  <1> QED BY <1>1, <1>2, <1>3, <1>4 DEF Evident

LEMMA DraftIs ==
  ASSUME NEW a \in Accounts, NEW k \in Keys \cup {Nobody}, NEW i \in 0..MaxJobs
  PROVE  /\ Draft(a, k, i).state = "draft" /\ Draft(a, k, i).key = k
         /\ Draft(a, k, i).retryOf = i
  <1>1. ASSUME NEW r \in JobRecord
        PROVE  LET f == [r EXCEPT !.state = "draft", !.account = a, !.key = k,
                                  !.retryOf = i]
               IN  f.state = "draft" /\ f.key = k /\ f.retryOf = i
    BY DEF JobRecord
  <1> QED BY <1>1, NoJobType DEF Draft

LEMMA CreateJobsEvident ==
  ASSUME IInv, Evident, NEW k \in Keys, CreateJobs(k)
  PROVE  Evident'
  <1>1. PICK m \in 0..MaxJobs : \A j \in JobIds : Exists(j) <=> j <= m
    BY DEF IInv, Numbered
  <1>2. JobCount = m
    BY <1>1, JobCountIs
  <1>3. /\ DOMAIN TargetsOf[k] = 1..Len(TargetsOf[k]) /\ Len(TargetsOf[k]) \in Nat
        /\ Len(TargetsOf[k]) >= 1 /\ \A i \in DOMAIN TargetsOf[k] : TargetsOf[k][i] \in Accounts
    <2>1. TargetsOf[k] \in Seq(Accounts) /\ TargetsOf[k] # <<>>
      BY UploadAssumption
    <2> QED BY <2>1
  <1>4. 0 \in 0..MaxJobs /\ m + Len(TargetsOf[k]) <= MaxJobs
    BY <1>2, Bounds DEF CreateJobs
  <1>5. ASSUME NEW j \in JobIds
        PROVE  /\ Exists(j) => job'[j] = job[j]
               /\ ~Exists(j) => \/ job'[j] = job[j]
                                \/ /\ job'[j].state = "draft" /\ job'[j].key = k
                                   /\ job'[j].retryOf = 0
               /\ j = m + 1 => job'[j].state = "draft"
    <2>1. job'[j] = IF j - m \in 1..Len(TargetsOf[k])
                    THEN Draft(TargetsOf[k][j - m], k, 0) ELSE job[j]
      BY <1>2, <1>3 DEF CreateJobs
    <2>2. Exists(j) => ~(j - m \in 1..Len(TargetsOf[k]))
      BY <1>1, <1>3, Bounds DEF JobIds
    <2>3. j = m + 1 => j - m \in 1..Len(TargetsOf[k])
      BY <1>3
    <2>4. ASSUME j - m \in 1..Len(TargetsOf[k])
          PROVE  /\ job'[j].state = "draft" /\ job'[j].key = k /\ job'[j].retryOf = 0
      <3>1. TargetsOf[k][j - m] \in Accounts
        BY <1>3, <2>4
      <3> QED BY <1>4, <2>1, <2>4, <3>1, DraftIs
    <2> QED BY <2>1, <2>2, <2>3, <2>4
  <1>6. /\ request[k] = "absent" /\ Held(SourceOf[k])
        /\ request' = [request EXCEPT ![k] = "jobs"]
        /\ UNCHANGED <<account, op, attempt, media, fileVars, exec, backup>>
    BY DEF CreateJobs, UnusedKey, procVars, Verified, Held
  <1>7. RequestsFit'
    <2>1. m + 1 \in JobIds /\ ~Exists(m + 1)
      BY <1>1, <1>3, <1>4, Bounds DEF JobIds
    <2>2. job'[m + 1].state = "draft" /\ job'[m + 1].key = k /\ job'[m + 1].retryOf = 0
      BY <1>5, <2>1 DEF Exists
    <2>3. request'[k] = "jobs" /\ \A q \in Keys \ {k} : request'[q] = request[q]
      BY <1>6 DEF IInv, RowTypes
    <2>4. ASSUME NEW q \in Keys \ {k}, NEW j \in JobIds
          PROVE  (Exists(j) /\ job[j].retryOf = 0 /\ job[j].key = q)
                   <=> (Exists(j)' /\ job'[j].retryOf = 0 /\ job'[j].key = q)
      BY <1>5 DEF Exists
    <2>5. \E j \in JobIds : Exists(j)' /\ job'[j].retryOf = 0 /\ job'[j].key = k
      BY <2>1, <2>2 DEF Exists
    <2> QED BY <2>3, <2>4, <2>5 DEF Evident, RequestsFit
  <1> QED BY <1>5, <1>6, <1>7, NewDraftsEvident

LEMMA InsertedEvident ==
  ASSUME IInv, Evident, NEW J \in SUBSET {j \in JobIds : Retryable(j)},
         job' \in WithRetries(J), OnlyJobs
  PROVE  Evident'
  <1>1. PICK m \in 0..MaxJobs : \A j \in JobIds : Exists(j) <=> j <= m
    BY DEF IInv, Numbered
  <1>2. JobCount = m
    BY <1>1, JobCountIs
  <1>3. IsFiniteSet(J)
    <2>1. IsFiniteSet(JobIds) /\ J \in SUBSET JobIds
      BY Bounds, FS_Interval DEF JobIds
    <2> QED BY <2>1, FS_Subset
  <1>4. Cardinality(J) \in Nat
    BY <1>3, FS_CardinalityType
  <1>5. PICK place \in [J -> 1..Cardinality(J)] :
          /\ \A i, j \in J : place[i] = place[j] => i = j
          /\ job' = [q \in JobIds |->
                       IF \E j \in J : q = JobCount + place[j]
                       THEN LET j == CHOOSE i \in J : q = JobCount + place[i]
                            IN  Draft(job[j].account, job[j].key, j)
                       ELSE job[q]]
    BY DEF WithRetries
  <1>6. \A j \in J : place[j] \in Nat /\ place[j] >= 1
    BY <1>4, <1>5
  <1>7. \A j \in JobIds : Exists(j) => job'[j] = job[j]
    BY <1>1, <1>2, <1>5, <1>6, Bounds DEF JobIds
  <1>8. ASSUME NEW q \in JobIds, ~Exists(q), job'[q] # job[q]
        PROVE  /\ job'[q].state = "draft" /\ job'[q].key \in Keys
               /\ Held(SourceOf[job'[q].key]) /\ job'[q].retryOf # 0
    <2>1. \E j \in J : q = JobCount + place[j]
      BY <1>5, <1>8
    <2> DEFINE j == CHOOSE i \in J : q = JobCount + place[i]
    <2>2. j \in J /\ q = JobCount + place[j]
      BY <2>1
    <2>3. job'[q] = Draft(job[j].account, job[j].key, j)
      BY <1>5, <2>1
    <2> HIDE DEF j
    <2>4. j \in JobIds /\ Exists(j) /\ Held(SourceOf[job[j].key])
      BY <2>2 DEF Retryable, Exists, Verified, Held
    <2>5. job[j].key \in Keys /\ job[j].account \in Accounts
      BY <2>4 DEF Evident, IInv, Approved
    <2>6. j \in 0..MaxJobs /\ j # 0
      BY <2>4, Bounds DEF JobIds
    <2> QED BY <2>3, <2>4, <2>5, <2>6, DraftIs
  <1>9. UNCHANGED <<account, op, attempt, request, media, fileVars, exec, backup>>
    BY DEF OnlyJobs, procVars
  <1>10. RequestsFit'
    <2>1. ASSUME NEW q \in Keys, NEW j \in JobIds
          PROVE  (Exists(j) /\ job[j].retryOf = 0 /\ job[j].key = q)
                   <=> (Exists(j)' /\ job'[j].retryOf = 0 /\ job'[j].key = q)
      BY <1>7, <1>8 DEF Exists
    <2> QED BY <1>9, <2>1 DEF Evident, RequestsFit
  <1> QED BY <1>7, <1>8, <1>9, <1>10, NewDraftsEvident

LEMMA RetryEvident ==
  ASSUME IInv, Evident, \/ \E j \in JobIds : Retry(j)
                        \/ \E k \in Keys : RetryMany(k)
  PROVE  Evident'
  <1>1. ASSUME NEW j \in JobIds, Retry(j)
        PROVE  Evident'
    <2>1. {j} \in SUBSET {i \in JobIds : Retryable(i)}
      BY <1>1 DEF Retry
    <2> QED BY <1>1, <2>1, InsertedEvident DEF Retry
  <1>2. ASSUME NEW k \in Keys, RetryMany(k)
        PROVE  Evident'
    <2> DEFINE leaves     == {j \in JobIds : Exists(j) /\ job[j].key = k /\ Leaf(j)}
               candidates == {j \in leaves : job[j].state \in {"failed", "canceled"}}
    <2>1. /\ \A j \in candidates : Retryable(j)
          /\ job' \in WithRetries(candidates) /\ OnlyJobs
      BY <1>2 DEF RetryMany
    <2>2. candidates \in SUBSET {i \in JobIds : Retryable(i)}
      BY <2>1
    <2> HIDE DEF candidates
    <2> QED BY <2>1, <2>2, InsertedEvident
  <1> QED BY <1>1, <1>2

LEMMA UserEvident ==
  ASSUME IInv, Moves, Placed, Evident, UserStep
  PROVE  Evident'
  <1>1. CASE \E k \in Keys : CreateJobs(k) \/ TombstoneRequest(k) \/ RetryMany(k)
    BY <1>1, CreateJobsEvident, OthersEvident, RetryEvident
  <1>2. CASE \E J \in (SUBSET JobIds) \ {{}} :
               Confirm(J) \/ \E p \in Procs : Cancel(p, J)
    BY <1>2, ConfirmEvident, CancelEvident
  <1>3. CASE \E s \in Sources, p \in Procs :
               DeleteSourceMedia(p, s) \/ RestoreSourceMedia(p, s)
    BY <1>3, MovesEvident
  <1>4. CASE \E j \in JobIds : Retry(j) \/ ReconcileUnknown(j)
    BY <1>4, RetryEvident, ReconcileEvident
  <1>5. CASE \E a \in Accounts :
               \/ Check(a)
               \/ \E p \in Procs : \/ Login(p, a) \/ CancelOperation(p, a)
                                   \/ DisconnectAccount(p, a)
    BY <1>5, OthersEvident, LoginEvident, CancelOperationEvident, DisconnectEvident
  <1> QED BY <1>1, <1>2, <1>3, <1>4, <1>5 DEF UserStep

\* What recovery and the policy of a restore leave of a row fits its receipt.
LEMMA RecoveredFits ==
  ASSUME NEW r \in JobRecord, NEW t \in AttemptRecord, Fits(r, t), Interrupted(r)
  PROVE  /\ RecoveredJob(r, t).key = r.key
         /\ Fits(RecoveredJob(r, t), IF t.state # "none" THEN RecoveredAttempt(r, t) ELSE t)
  <1> DEFINE s == IF t.state = "none" /\ r.state = "queued" THEN "draft"
                  ELSE IF t.state = "none" \/ RecoveredAttempt(r, t) = t THEN "unknown"
                  ELSE RecoveredAttempt(r, t).result
             f == [r EXCEPT !.cancel = FALSE, !.state = s]
             n == t.revision + 1
             x == [t EXCEPT !.state = "responded", !.result = "failed", !.revision = n]
             y == [t EXCEPT !.state = "unknown", !.result = "unknown", !.revision = n]
  <1>1. RecoveredJob(r, t) = f
    BY DEF RecoveredJob
  <1>2. f.state = s /\ f.key = r.key /\ f.account = r.account
    <2> HIDE DEF s
    <2> QED BY DEF JobRecord
  <1>3. /\ x.state = "responded" /\ x.result = "failed" /\ x.revision = n
        /\ x.dispatched = t.dispatched
        /\ y.state = "unknown" /\ y.result = "unknown" /\ y.revision = n
        /\ y.dispatched = t.dispatched
    <2> HIDE DEF n
    <2> QED BY DEF AttemptRecord
  <1> HIDE DEF f
  <1>4. CASE r.state = "queued"
    <2>1. t.state = "none"
      BY <1>4, WaitingUnsent
    <2> QED BY <1>1, <1>2, <1>4, <2>1 DEF Fits
  <1>5. CASE r.state = "running"
    <2>1. /\ t.state \in {"reserved", "dispatch_may_have_started"}
          /\ ValidReceipt(r, t)
      BY <1>5 DEF Fits, ValidReceipt, AttemptRecord, Results, Outcome
    <2>2. CASE t.state = "reserved"
      <3>1. RecoveredAttempt(r, t) = x
        BY <2>1, <2>2 DEF RecoveredAttempt
      <3>2. n = 1 /\ ~t.dispatched
        BY <2>1, <2>2 DEF ValidReceipt
      <3> HIDE DEF x, n
      <3>3. s = "failed"
        BY <1>3, <1>5, <2>2, <3>1
      <3>4. ValidReceipt(f, x)
        BY <1>2, <1>3, <3>2, <3>3 DEF ValidReceipt
      <3> QED BY <1>1, <1>2, <1>3, <2>2, <3>1, <3>3, <3>4 DEF Fits
    <2>3. CASE t.state = "dispatch_may_have_started"
      <3>1. RecoveredAttempt(r, t) = y
        BY <2>1, <2>3 DEF RecoveredAttempt
      <3>2. n = 2 /\ t.dispatched
        BY <2>1, <2>3 DEF ValidReceipt
      <3> HIDE DEF y, n
      <3>3. s = "unknown"
        BY <1>3, <1>5, <2>3, <3>1
      <3>4. ValidReceipt(f, y)
        BY <1>2, <1>3, <3>2, <3>3 DEF ValidReceipt
      <3> QED BY <1>1, <1>2, <1>3, <2>3, <3>1, <3>3, <3>4 DEF Fits
    <2> QED BY <2>1, <2>2, <2>3
  <1> QED BY <1>4, <1>5 DEF Interrupted

LEMMA RecoveredEvident ==
  ASSUME IInv, Evident, RecoverInterruptedRecords,
         \A p \in Procs : HandKept(p)
  PROVE  Evident'
  <1>1. \A j \in JobIds : job[j] \in JobRecord /\ attempt[j] \in AttemptRecord
    BY DEF IInv, RowTypes
  <1>2. ASSUME NEW j \in JobIds
        PROVE  /\ job'[j].account = job[j].account /\ job'[j].key = job[j].key
               /\ job'[j].retryOf = job[j].retryOf
               /\ Exists(j)' <=> Exists(j)
               /\ job'[j].state \in Pending => job[j].state \in Pending
               /\ Fits(job'[j], attempt'[j])
    <2>1. CASE Interrupted(job[j])
      <3>1. /\ job'[j] = RecoveredJob(job[j], attempt[j])
            /\ attempt'[j] = IF attempt[j].state # "none"
                             THEN RecoveredAttempt(job[j], attempt[j]) ELSE attempt[j]
        BY <2>1 DEF RecoverInterruptedRecords
      <3> QED BY <1>1, <2>1, <3>1, RecoveredType, RecoveredFits
              DEF Evident, Interrupted, Exists, Pending
    <2>2. CASE ~Interrupted(job[j])
      <3>1. job'[j] = job[j] /\ attempt'[j] = attempt[j]
        BY <2>2 DEF RecoverInterruptedRecords
      <3> QED BY <3>1 DEF Evident, Exists
    <2> QED BY <2>1, <2>2
  <1>3. NamesKept
    BY <1>2 DEF NamesKept
  <1>4. AccountsFit'
    <2>1. ASSUME NEW a \in Accounts
          PROVE  /\ account'[a].life = account[a].life
                 /\ account'[a].auth = AuthAfterRestart(account[a].auth)
                 /\ op'[a].state = "done"
      <3> DEFINE x == AuthAfterRestart(account[a].auth)
      <3>1. account'[a] = [account[a] EXCEPT !.auth = x]
            /\ op'[a] = [op[a] EXCEPT !.state = "done"]
        BY DEF RecoverInterruptedRecords
      <3> HIDE DEF x
      <3>2. account'[a].life = account[a].life /\ account'[a].auth = x /\ op'[a].state = "done"
        BY <3>1 DEF IInv, RowTypes, AccountRecord, OpRecord
      <3> QED BY <3>2 DEF x
    <2> QED BY <2>1 DEF Evident, AccountsFit, AuthAfterRestart
  <1>5. UNCHANGED <<media, fileVars, request>>
    BY DEF RecoverInterruptedRecords
  <1> QED BY <1>2, <1>3, <1>4, <1>5, HandsAnswer, NamesEvident DEF Evident

LEMMA StartEvident ==
  ASSUME IInv, Evident, NEW p \in Procs, Start(p) \/ SchedulerFails(p)
  PROVE  Evident'
  <1>1. \A q \in Procs : HandKept(q)
    BY IdleType DEF Start, SchedulerFails, HandKept, IInv, RowTypes
  <1>2. RecoverInterruptedRecords \/ UNCHANGED <<dbVars, fileVars>>
    BY DEF Start, SchedulerFails
  <1>3. CASE RecoverInterruptedRecords
    BY <1>1, <1>2, <1>3, RecoveredEvident
  <1>4. CASE UNCHANGED <<dbVars, fileVars>>
    <2>1. NamesKept
      BY <1>4, SameRowsKept DEF dbVars
    <2> QED BY <1>1, <1>2, <1>4, <2>1, HandsAnswer, RowsEvident DEF Evident
  <1> QED BY <1>2, <1>3, <1>4

LEMMA OperationEvident ==
  ASSUME IInv, Evident, NEW p \in Procs,
         FinishOperation(p) \/ \E a \in Accounts : ClaimOperation(p, a)
  PROVE  Evident'
  <1>1. UNCHANGED <<job, attempt, media, fileVars, request, backup>>
    BY DEF FinishOperation, ClaimOperation
  <1>2. /\ exec \in [Procs -> ExecRecord] /\ account \in [Accounts -> AccountRecord]
        /\ op \in [Accounts -> OpRecord]
    BY DEF IInv, RowTypes
  <1>3. CASE FinishOperation(p)
    <2> DEFINE a == exec[p].account
    <2>1. a \in Accounts
      BY <1>3 DEF FinishOperation, IInv, Executing
    <2>2. \A q \in Procs : HandKept(q)
      BY <1>2, <1>3, IdleType DEF FinishOperation, HandKept
    <2>3. AccountsFit'
      <3>1. CASE UNCHANGED <<op, account>>
        BY <3>1 DEF Evident, AccountsFit
      <3>2. CASE /\ account[a].life = "active"
                 /\ op' = [op EXCEPT ![a].state = "done"]
                 /\ \E x \in {"ready", "unchecked", "invalid"} :
                      account' = [account EXCEPT ![a].auth = x]
        <4>1. /\ account'[a].life = "active"
              /\ \A c \in Accounts \ {a} : account'[c] = account[c] /\ op'[c] = op[c]
          BY <1>2, <2>1, <3>2 DEF AccountRecord
        <4> QED BY <4>1 DEF Evident, AccountsFit
      <3> QED BY <1>3, <3>1, <3>2 DEF FinishOperation
    <2>4. NamesKept
      BY <1>1, SameRowsKept
    <2> QED BY <1>1, <2>2, <2>3, <2>4, HandsAnswer, NamesEvident DEF Evident
  <1>4. ASSUME NEW a \in Accounts, ClaimOperation(p, a)
        PROVE  Evident'
    <2> DEFINE e == [IdleExec EXCEPT !.step = "claimed", !.kind = "account", !.account = a]
               h == [op[a] EXCEPT !.state = "running", !.cancel = FALSE]
    <2>1. /\ exec' = [exec EXCEPT ![p] = e] /\ account[a].life = "active"
          /\ op' = [op EXCEPT ![a] = h] /\ account' = account
      BY <1>4 DEF ClaimOperation
    <2>2. e.step = "claimed" /\ e.kind = "account"
      BY DEF IdleExec
    <2> HIDE DEF e, h
    <2>3. exec'[p] = e /\ \A q \in Procs \ {p} : exec'[q] = exec[q]
      BY <1>2, <2>1
    <2>4. Answers'
      BY <1>1, <2>2, <2>3 DEF Evident, Answers
    <2>5. AccountsFit'
      BY <1>2, <2>1 DEF Evident, AccountsFit
    <2>6. NamesKept
      BY <1>1, SameRowsKept
    <2> QED BY <1>1, <2>4, <2>5, <2>6, NamesEvident DEF Evident
  <1> QED BY <1>3, <1>4

LEMMA ClaimUploadEvident ==
  ASSUME IInv, Evident, NEW p \in Procs, NEW j \in JobIds, ClaimUpload(p, j)
  PROVE  Evident'
  <1> DEFINE e == [IdleExec EXCEPT !.step = "claimed", !.kind = "upload", !.job = j,
                                   !.account = job[j].account]
             f == [job[j] EXCEPT !.state = "running", !.cancel = FALSE]
  <1>1. /\ attempt[j].state = "none" /\ job[j].state = "queued"
        /\ exec' = [exec EXCEPT ![p] = e] /\ job' = [job EXCEPT ![j] = f]
        /\ attempt' = [attempt EXCEPT ![j] = Reserved(j)]
        /\ UNCHANGED <<account, op, media, fileVars, request, backup>>
    BY DEF ClaimUpload, Claimable
  <1>2. e.step = "claimed" /\ e.kind = "upload" /\ e.job = j /\ e.account = job[j].account
    BY DEF IdleExec
  <1>3. /\ f.state = "running" /\ f.retryOf = job[j].retryOf
        /\ f.account = job[j].account /\ f.key = job[j].key
    BY DEF IInv, RowTypes, JobRecord
  <1>4. Fits(f, Reserved(j))
    <2>1. /\ Reserved(j).state = "reserved" /\ Reserved(j).result = "none"
          /\ ~Reserved(j).dispatched /\ Reserved(j).revision = 0
      BY DEF Reserved, NoAttempt
    <2> HIDE DEF f
    <2> QED BY <1>3, <2>1 DEF Fits, ValidReceipt
  <1> HIDE DEF e, f
  <1>5. exec'[p] = e /\ \A q \in Procs \ {p} : exec'[q] = exec[q]
    BY <1>1 DEF IInv, RowTypes
  <1>6. /\ job'[j] = f /\ attempt'[j] = Reserved(j)
        /\ \A i \in JobIds \ {j} : job'[i] = job[i] /\ attempt'[i] = attempt[i]
    BY <1>1 DEF IInv, RowTypes
  <1>7. NamesKept
    BY <1>1, <1>3, <1>6 DEF NamesKept, Exists, Pending
  <1>8. Answers'
    <2>1. \A q \in Procs : exec[q].step # "idle" /\ exec[q].kind = "upload" =>
                             exec[q].job \in JobIds
      BY DEF IInv, Executing
    <2> QED BY <1>2, <1>5, <1>7, <2>1 DEF Evident, Answers, NamesKept
  <1>9. AccountsFit' /\ \A i \in JobIds : Fits(job'[i], attempt'[i])
    BY <1>1, <1>4, <1>6 DEF Evident, AccountsFit
  <1> QED BY <1>1, <1>7, <1>8, <1>9, NamesEvident DEF Evident

LEMMA MarkDispatchEvident ==
  ASSUME IInv, Sent, Evident, NEW p \in Procs, MarkDispatch(p)
  PROVE  Evident'
  <1> DEFINE j == exec[p].job
             e == [exec[p] EXCEPT !.step = "invoked", !.invoked = TRUE]
             v == <<account[job[j].account].session, epoch>>
             t == [attempt[j] EXCEPT !.state = "dispatch_may_have_started",
                                     !.dispatched = TRUE, !.revision = 1, !.under = v]
  <1>1. /\ exec[p].step = "prepared" /\ ~exec[p].invoked
        /\ UNCHANGED <<account, op, job, request, media, fileVars, backup>>
    BY DEF MarkDispatch, Sent, KnownFailure
  <1>2. j \in JobIds /\ exec[p].kind = "upload"
    BY <1>1 DEF IInv, Executing
  <1>3. /\ exec[p] \in ExecRecord /\ exec \in [Procs -> ExecRecord]
        /\ attempt \in [JobIds -> AttemptRecord]
    BY DEF IInv, RowTypes
  <1>4. NamesKept /\ AccountsFit'
    BY <1>1, SameRowsKept DEF Evident, AccountsFit
  <1>5. ASSUME NEW r \in {"failed", "canceled"}, Return(p, r, FALSE), attempt' = attempt
        PROVE  Evident'
    <2>1. exec'[p].account = exec[p].account
      <3> DEFINE g == [exec[p] EXCEPT !.step = "returned", !.result = r, !.badAuth = FALSE]
      <3>1. exec' = [exec EXCEPT ![p] = g]
        BY <1>5 DEF Return
      <3>2. g.account = exec[p].account
        BY <1>3 DEF ExecRecord
      <3> HIDE DEF g
      <3> QED BY <1>3, <3>1, <3>2
    <2>2. /\ exec'[p].step = "returned" /\ exec'[p].kind = exec[p].kind
          /\ exec'[p].result = r /\ exec'[p].job = exec[p].job
          /\ \A q \in Procs \ {p} : exec'[q] = exec[q]
      <3>1. r \in Results \cup {"ready"} /\ FALSE \in BOOLEAN
        BY DEF Results
      <3> QED BY <1>5, <3>1, ReturnKeeps
    <2>3. Answers'
      BY <1>1, <2>1, <2>2 DEF Evident, Answers
    <2> QED BY <1>1, <1>4, <1>5, <2>3, NamesEvident DEF Evident
  <1>6. CASE /\ job[j].state = "running" /\ attempt[j].state = "reserved"
             /\ attempt' = [attempt EXCEPT ![j] = t]
             /\ exec' = [exec EXCEPT ![p] = e]
    <2>1. /\ t.state = "dispatch_may_have_started" /\ t.dispatched /\ t.revision = 1
          /\ t.result = attempt[j].result
      <3>1. attempt[j] \in AttemptRecord
        BY <1>2, <1>3
      <3> HIDE DEF v
      <3> QED BY <3>1 DEF AttemptRecord
    <2>2. attempt[j].result = "none"
      BY <1>2, <1>6 DEF Evident, Fits, ValidReceipt
    <2>3. /\ e.step = "invoked" /\ e.invoked /\ e.kind = exec[p].kind /\ e.job = j
          /\ e.account = exec[p].account
      BY <1>3 DEF ExecRecord
    <2> HIDE DEF e, t, v
    <2>4. /\ exec'[p] = e /\ \A q \in Procs \ {p} : exec'[q] = exec[q]
          /\ attempt'[j] = t /\ \A i \in JobIds \ {j} : attempt'[i] = attempt[i]
      BY <1>2, <1>3, <1>6
    <2>5. Fits(job[j], t)
      BY <1>6, <2>1, <2>2 DEF Fits, ValidReceipt
    <2>6. \A i \in JobIds : Fits(job'[i], attempt'[i])
      BY <1>1, <2>4, <2>5 DEF Evident
    <2>7. Answers'
      BY <1>1, <2>3, <2>4 DEF Evident, Answers
    <2> QED BY <1>1, <1>4, <2>6, <2>7, NamesEvident DEF Evident
  <1> QED BY <1>5, <1>6 DEF MarkDispatch

\* An upload ends in the state that its receipt tells.
LEMMA FinishUploadEvident ==
  ASSUME IInv, Evident, NEW p \in Procs, FinishUpload(p)
  PROVE  Evident'
  <1> DEFINE j == exec[p].job
             a == exec[p].account
             s == UploadResultState(exec[p].result, exec[p].invoked, ModeOf[a])
             f == [job[j] EXCEPT !.state = s, !.cancel = FALSE]
             done == [job EXCEPT ![j] = f]
             x == IF s = "unknown" THEN "unknown" ELSE "responded"
             y == exec[p].result
             n == attempt[j].revision + 1
             t == [attempt[j] EXCEPT !.state = x, !.result = y, !.revision = n]
  <1>1. /\ exec[p].step = "returned" /\ exec[p].kind = "upload"
        /\ job' = RevokeQueued(done, a) \/ job' = done
        /\ exec' = [exec EXCEPT ![p] = IdleExec]
        /\ UNCHANGED <<op, request, media, fileVars, backup>>
    <2>1. done = [job EXCEPT ![j].state = s, ![j].cancel = FALSE]
      OBVIOUS
    <2> QED BY <2>1 DEF FinishUpload
  <1>2. /\ attempt' = [attempt EXCEPT ![j] = t]
        /\ attempt[j].state = (IF exec[p].invoked THEN "dispatch_may_have_started"
                               ELSE "reserved")
        /\ n = (IF exec[p].invoked THEN 2 ELSE 1)
    <2>1. Finalizes(p, s)
      BY DEF FinishUpload
    <2>2. attempt' = [attempt EXCEPT ![j] = t]
      BY <2>1 DEF Finalizes
    <2>3. <<attempt[j].state, attempt[j].revision>> =
            (IF exec[p].invoked THEN <<"dispatch_may_have_started", 1>>
             ELSE <<"reserved", 0>>)
      BY <2>1 DEF Finalizes
    <2>4. CASE exec[p].invoked
      <3>1. attempt[j].state = "dispatch_may_have_started" /\ attempt[j].revision = 1
        BY <2>3, <2>4
      <3> QED BY <2>2, <2>4, <3>1
    <2>5. CASE ~exec[p].invoked
      <3>1. attempt[j].state = "reserved" /\ attempt[j].revision = 0
        BY <2>3, <2>5
      <3> QED BY <2>2, <2>5, <3>1
    <2> QED BY <2>4, <2>5
  <1>3. /\ j \in JobIds /\ job[j].state = "running" /\ y \in Results /\ a \in Accounts
        /\ job[j].account = a /\ (~exec[p].invoked => y \in {"failed", "canceled"})
    BY <1>1 DEF IInv, Executing, Evident, Answers
  <1>4. s \in Results
    BY <1>3, UploadEnds
  <1>5. /\ job \in [JobIds -> JobRecord] /\ attempt \in [JobIds -> AttemptRecord]
        /\ account \in [Accounts -> AccountRecord] /\ exec[p].invoked \in BOOLEAN
    BY DEF IInv, RowTypes, ExecRecord
  <1>6. attempt[j].dispatched <=> exec[p].invoked
    <2>1. ValidReceipt(job[j], attempt[j])
      BY <1>2, <1>3 DEF Evident, Fits
    <2>2. CASE exec[p].invoked
      <3>1. attempt[j].dispatched
        BY <1>2, <2>1, <2>2 DEF ValidReceipt
      <3> QED BY <2>2, <3>1
    <2>3. CASE ~exec[p].invoked
      <3>1. ~attempt[j].dispatched
        BY <1>2, <2>1, <2>3 DEF ValidReceipt
      <3> QED BY <2>3, <3>1
    <2> QED BY <2>2, <2>3
  <1>7. /\ f.state = s /\ f.retryOf = job[j].retryOf /\ f.account = a /\ f.key = job[j].key
        /\ f \in JobRecord
    <2>1. job[j] \in JobRecord /\ s \in JobState /\ FALSE \in BOOLEAN
      BY <1>3, <1>4, <1>5 DEF Results, JobState, Settled
    <2> HIDE DEF s
    <2> QED BY <1>3, <2>1 DEF JobRecord
  <1>8. /\ t.state = x /\ t.result = y /\ t.revision = n /\ t \in AttemptRecord
        /\ t.dispatched <=> exec[p].invoked
    <2>1. x \in {"unknown", "responded"} /\ n \in 0..3
      BY <1>2
    <2> HIDE DEF x, y, n
    <2>2. /\ t.state = x /\ t.result = y /\ t.revision = n /\ t \in AttemptRecord
          /\ t.dispatched = attempt[j].dispatched
      BY <1>3, <1>5, <2>1 DEF AttemptRecord
    <2> QED BY <1>6, <2>2
  <1>9. \/ s = y /\ y # "unknown"
        \/ /\ s = "unknown" /\ exec[p].invoked
           /\ \/ y \in {"unknown", "canceled"}
              \/ y = "draft_saved" /\ ModeOf[a] # "draft"
              \/ y = "submitted" /\ ModeOf[a] # "publish"
    BY <1>3 DEF UploadResultState, Results
  <1>10. s = y => /\ exec[p].invoked => y # "canceled"
                  /\ y = "draft_saved" => ModeOf[a] = "draft"
                  /\ y = "submitted" => ModeOf[a] = "publish"
    BY <1>3 DEF UploadResultState, Results
  <1> HIDE DEF f, t, s, y
  <1>11. Fits(f, t)
    <2>1. CASE s = "unknown"
      <3>1. ValidReceipt(f, t)
        BY <1>2, <1>7, <1>8, <1>9, <2>1 DEF ValidReceipt
      <3> QED BY <1>7, <1>8, <2>1, <3>1 DEF Fits
    <2>2. CASE s # "unknown"
      <3>1. s = y /\ x = "responded"
        BY <1>9, <2>2
      <3>2. CASE exec[p].invoked
        <4>1. ValidReceipt(f, t)
          BY <1>2, <1>3, <1>7, <1>8, <1>10, <2>2, <3>1, <3>2 DEF ValidReceipt, Results
        <4> QED BY <1>4, <1>7, <1>8, <3>1, <4>1 DEF Fits, Results
      <3>3. CASE ~exec[p].invoked
        <4>1. ValidReceipt(f, t)
          BY <1>2, <1>3, <1>7, <1>8, <2>2, <3>1, <3>3 DEF ValidReceipt
        <4> QED BY <1>4, <1>7, <1>8, <3>1, <4>1 DEF Fits, Results
      <3> QED BY <3>2, <3>3
    <2> QED BY <2>1, <2>2
  <1> HIDE DEF x, n
  <1>12. /\ done \in [JobIds -> JobRecord] /\ done[j] = f
         /\ \A i \in JobIds \ {j} : done[i] = job[i]
    BY <1>3, <1>5, <1>7
  <1> HIDE DEF done
  <1>13. /\ attempt' \in [JobIds -> AttemptRecord]
         /\ \A i \in JobIds : Fits(done[i], attempt'[i])
    <2>1. attempt'[j] = t /\ \A i \in JobIds \ {j} : attempt'[i] = attempt[i]
      BY <1>2, <1>3, <1>5
    <2> QED BY <1>2, <1>5, <1>8, <1>11, <1>12, <2>1 DEF Evident
  <1>14. \A i \in JobIds :
           /\ job'[i] = done[i] \/ (done[i].state = "queued" /\ job'[i].state = "draft")
           /\ job'[i].retryOf = done[i].retryOf /\ job'[i].account = done[i].account
    BY <1>1, <1>12, Revoked
  <1>15. \A i \in JobIds : job'[i].key = done[i].key /\ Fits(job'[i], attempt'[i])
    BY <1>1, <1>12, <1>13, RevokedNames
  <1>16. NamesKept
    <2>1. \A i \in JobIds :
            /\ done[i].account = job[i].account /\ done[i].key = job[i].key
            /\ done[i].retryOf = job[i].retryOf
            /\ done[i].state = "none" <=> job[i].state = "none"
            /\ done[i].state \in Pending => job[i].state \in Pending
      BY <1>3, <1>4, <1>7, <1>12 DEF Pending, Results
    <2> QED BY <1>14, <1>15, <2>1 DEF NamesKept, Exists, Pending
  <1>17. \A q \in Procs : HandKept(q)
    BY <1>1, IdleType DEF HandKept, IInv, RowTypes
  <1>18. AccountsFit'
    <2>1. \/ account' = account
          \/ account[a].life = "active" /\ account' = [account EXCEPT ![a].auth = "invalid"]
      BY DEF FinishUpload
    <2>2. \A c \in Accounts : \/ account'[c] = account[c]
                              \/ account[c].life = "active" /\ account'[c].life = "active"
      BY <1>5, <2>1 DEF AccountRecord
    <2> QED BY <1>1, <2>2 DEF Evident, AccountsFit
  <1> QED BY <1>1, <1>15, <1>16, <1>17, <1>18, HandsAnswer, NamesEvident DEF Evident

\* No rows the service leaves behind are such that the audit of a copy refuses
\* them, and their files fit them unless a move of a file was cut short.
LEMMA AuditsPass ==
  ASSUME IInv, Moves, Placed, Sent, Evident
  PROVE  BackupPasses
  <1> SUFFICES ASSUME Exclusive
               PROVE  RowsSound(backup.rows) /\ (cut = {} => FilesFit(backup.rows))
    BY DEF BackupPasses, Exclusive
  <1>1. backup.rows = Rows
    BY DEF IInv, Copying
  <1>2. \A j \in JobIds : job[j] \in JobRecord /\ attempt[j] \in AttemptRecord
    BY DEF IInv, RowTypes
  <1>3. AccountsSound(Rows) /\ OperationsSound(Rows)
    BY DEF Rows, Evident, AccountsFit, AccountsSound, OperationsSound
  <1>4. JobsSound(Rows)
    <2>1. ASSUME NEW j \in JobIds, job[j].state \in {"submitted", "draft_saved"}
          PROVE  /\ job[j].state = "submitted" => ModeOf[job[j].account] = "publish"
                 /\ job[j].state = "draft_saved" => ModeOf[job[j].account] = "draft"
      <3>1. ValidReceipt(job[j], attempt[j]) /\ job[j].account \in Accounts
        BY <2>1 DEF Evident, Fits, IInv, Approved, Exists
      <3>2. attempt[j].state \in {"responded", "reconciled"}
        BY <1>2, <2>1, <3>1 DEF ValidReceipt, AttemptRecord, Evident, Fits
      <3>3. CASE attempt[j].state = "responded"
        BY <2>1, <3>1, <3>3 DEF ValidReceipt
      <3>4. CASE attempt[j].state = "reconciled"
        BY <2>1, <3>1, <3>4, UploadAssumption DEF ValidReceipt, Outcome
      <3> QED BY <3>2, <3>3, <3>4
    <2> QED BY <2>1 DEF Rows, JobsSound, JobsIn, Evident, Pending, Held
  <1>5. RetriesSound(Rows)
    <2>1. ASSUME NEW j \in JobIds, Exists(j), job[j].retryOf # 0
          PROVE  /\ job[j].retryOf \in JobIds /\ job[j].retryOf # j
                 /\ Exists(job[j].retryOf)
                 /\ job[job[j].retryOf].state \in {"failed", "canceled", "unknown"}
      <3> DEFINE i == job[j].retryOf
      <3>1. i \in JobIds /\ NotTaken(attempt[i]) /\ i < j
        BY <2>1 DEF Sent, Retried, Ordered
      <3>2. Fits(job[i], attempt[i])
        BY <3>1 DEF Evident
      <3> HIDE DEF i
      <3>3. ValidReceipt(job[i], attempt[i]) /\ Exists(i)
        BY <3>1, <3>2 DEF NotTaken, Fits, Exists
      <3>4. job[i].state \in {"failed", "canceled"}
        BY <3>1, <3>3 DEF NotTaken, ValidReceipt
      <3>5. i # j
        BY <3>1, <2>1 DEF JobIds
      <3> QED BY <3>1, <3>3, <3>4, <3>5 DEF i
    <2>2. \A i, j \in JobIds :
            Exists(i) /\ Exists(j) /\ job[i].retryOf = job[j].retryOf /\ job[i].retryOf # 0
            => i = j
      BY DEF Sent, Retried
    <2> QED BY <2>1, <2>2 DEF Rows, RetriesSound, RetriesIn, JobsIn, Exists
  <1>6. RequestsSound(Rows)
    BY DEF Rows, RequestsSound, RetriesIn, JobsIn, Evident, RequestsFit, Exists
  <1>7. ReceiptsSound(Rows)
    BY DEF Rows, ReceiptsSound, JobsIn, Evident, Fits
  <1>8. cut = {} => FilesFit(Rows)
    BY DEF Rows, FilesFit, Moves, Quiet, Placed
  <1> QED BY <1>1, <1>3, <1>4, <1>5, <1>6, <1>7, <1>8 DEF RowsSound

LEMMA BackupEvident ==
  ASSUME IInv, Evident, BeginBackup \/ EndBackup
  PROVE  Evident'
  <1>1. UNCHANGED <<dbVars, fileVars, procVars>>
    BY DEF BeginBackup, EndBackup
  <1>2. Answers'
    BY <1>1 DEF Evident, Answers, dbVars, procVars
  <1> QED BY <1>1, <1>2, RowsEvident

\* The policy of a restore settles the receipts as recovery does.
LEMMA RestoredFits ==
  ASSUME NEW r \in JobRecord, NEW t \in AttemptRecord, Fits(r, t)
  PROVE  RestoredJob(r, t).key = r.key /\ Fits(RestoredJob(r, t), RestoredAttempt(r, t))
  <1> DEFINE s == IF t.state = "reserved" THEN "failed" ELSE "unknown"
             d == [r EXCEPT !.state = "draft", !.cancel = FALSE]
             f == [r EXCEPT !.state = s, !.cancel = FALSE]
             n == t.revision + 1
             x == [t EXCEPT !.state = "responded", !.result = "failed", !.revision = n]
             y == [t EXCEPT !.state = "unknown", !.result = "unknown", !.revision = n]
  <1>1. /\ f.state = s /\ f.key = r.key /\ f.account = r.account
        /\ d.state = "draft" /\ d.key = r.key
    <2> HIDE DEF s
    <2> QED BY DEF JobRecord
  <1>2. /\ x.state = "responded" /\ x.result = "failed" /\ x.revision = n
        /\ x.dispatched = t.dispatched
        /\ y.state = "unknown" /\ y.result = "unknown" /\ y.revision = n
        /\ y.dispatched = t.dispatched
    <2> HIDE DEF n
    <2> QED BY DEF AttemptRecord
  <1>3. CASE r.state = "queued"
    <2>1. t.state = "none"
      BY <1>3, WaitingUnsent
    <2>2. RestoredJob(r, t) = d /\ RestoredAttempt(r, t) = t
      BY <1>3, <2>1 DEF RestoredJob, RestoredAttempt
    <2> HIDE DEF d
    <2> QED BY <1>1, <2>1, <2>2, FitsUnsent
  <1>4. CASE r.state = "running"
    <2>1. /\ t.state \in {"reserved", "dispatch_may_have_started"}
          /\ ValidReceipt(r, t)
      BY <1>4 DEF Fits, ValidReceipt, AttemptRecord, Results, Outcome
    <2>2. RestoredJob(r, t) = f
      BY <1>4 DEF RestoredJob
    <2>3. CASE t.state = "reserved"
      <3>1. RestoredAttempt(r, t) = x /\ s = "failed"
        BY <1>4, <2>3 DEF RestoredAttempt
      <3>2. n = 1 /\ ~t.dispatched
        BY <2>1, <2>3 DEF ValidReceipt
      <3> HIDE DEF x, n, f, s
      <3>3. ValidReceipt(f, x)
        BY <1>1, <1>2, <3>1, <3>2 DEF ValidReceipt
      <3> QED BY <1>1, <1>2, <2>2, <3>1, <3>3 DEF Fits
    <2>4. CASE t.state = "dispatch_may_have_started"
      <3>1. RestoredAttempt(r, t) = y /\ s = "unknown"
        BY <1>4, <2>4 DEF RestoredAttempt
      <3>2. n = 2 /\ t.dispatched
        BY <2>1, <2>4 DEF ValidReceipt
      <3> HIDE DEF y, n, f, s
      <3>3. ValidReceipt(f, y)
        BY <1>1, <1>2, <3>1, <3>2 DEF ValidReceipt
      <3> QED BY <1>1, <1>2, <2>2, <3>1, <3>3 DEF Fits
    <2> QED BY <2>1, <2>3, <2>4
  <1>5. CASE r.state \notin {"queued", "running"}
    <2>1. RestoredJob(r, t) = r /\ RestoredAttempt(r, t) = t
      BY <1>5 DEF RestoredJob, RestoredAttempt
    <2> QED BY <2>1
  <1> QED BY <1>3, <1>4, <1>5

LEMMA RestoreEvident ==
  ASSUME IInv, Evident, RestoreBackup
  PROVE  Evident'
  <1>1. backup.rows = Rows
    BY DEF RestoreBackup, IInv, Copying, Exclusive
  <1>2. /\ job' = [j \in JobIds |-> RestoredJob(job[j], attempt[j])]
        /\ attempt' = [j \in JobIds |-> RestoredAttempt(job[j], attempt[j])]
        /\ op' = [a \in Accounts |-> [op[a] EXCEPT !.state = "done"]]
        /\ account' = [a \in Accounts |-> [account[a] EXCEPT !.auth =
                         IF @ \in {"ready", "checking"} THEN "unchecked" ELSE @]]
        /\ UNCHANGED <<request, media, files, exec>>
    BY <1>1 DEF RestoreBackup, Rows
  <1>3. \A j \in JobIds : job[j] \in JobRecord /\ attempt[j] \in AttemptRecord
    BY DEF IInv, RowTypes
  <1>4. ASSUME NEW j \in JobIds
        PROVE  /\ job'[j].account = job[j].account /\ job'[j].key = job[j].key
               /\ job'[j].retryOf = job[j].retryOf
               /\ Exists(j)' <=> Exists(j)
               /\ job'[j].state \in Pending => job[j].state \in Pending
               /\ Fits(job'[j], attempt'[j])
    <2>1. job'[j] = RestoredJob(job[j], attempt[j])
          /\ attempt'[j] = RestoredAttempt(job[j], attempt[j])
      BY <1>2
    <2>2. Fits(job[j], attempt[j]) /\ (attempt[j].state # "none" =>
                                         ValidReceipt(job[j], attempt[j]))
      BY DEF Evident, Fits
    <2> QED BY <1>3, <2>1, <2>2, RestoredType, RestoredFits DEF Exists, Pending
  <1>5. AccountsFit'
    <2>1. ASSUME NEW a \in Accounts
          PROVE  /\ account'[a].life = account[a].life /\ op'[a].state = "done"
                 /\ account[a].auth = "unchecked" => account'[a].auth = "unchecked"
      <3> DEFINE x == IF account[a].auth \in {"ready", "checking"} THEN "unchecked"
                      ELSE account[a].auth
      <3>1. account'[a] = [account[a] EXCEPT !.auth = x]
            /\ op'[a] = [op[a] EXCEPT !.state = "done"]
        BY <1>2
      <3> HIDE DEF x
      <3>2. account'[a].life = account[a].life /\ account'[a].auth = x /\ op'[a].state = "done"
        BY <3>1 DEF IInv, RowTypes, AccountRecord, OpRecord
      <3> QED BY <3>2 DEF x
    <2> QED BY <2>1 DEF Evident, AccountsFit
  <1>6. NamesKept /\ \A p \in Procs : HandKept(p)
    BY <1>2, <1>4 DEF NamesKept, HandKept
  <1>7. SourcesKept
    BY <1>1, <1>2 DEF RestoreBackup, Audits, FilesFit, Rows, SourcesKept, Held
  <1> QED BY <1>2, <1>4, <1>5, <1>6, <1>7, HandsAnswer, KeptEvident

LEMMA NextEvident == IInv /\ Moves /\ Placed /\ Sent /\ Evident /\ [Next]_vars => Evident'
  <1> SUFFICES ASSUME IInv, Moves, Placed, Sent, Evident, [Next]_vars PROVE Evident'
    OBVIOUS
  <1>1. CASE UserStep
    BY <1>1, UserEvident
  <1>2. CASE BackupStep
    BY <1>2, BackupEvident, RestoreEvident DEF BackupStep
  <1>3. CASE \E j \in JobIds : RemoteAccepts(j)
    BY <1>3, OthersEvident
  <1>4. ASSUME NEW p \in Procs,
               \/ Start(p) \/ StartFaults(p) \/ StartStandby(p) \/ Stop(p) \/ Crash(p)
               \/ WatchCancellation(p) \/ WatcherBlind(p) \/ SchedulerFails(p)
        PROVE  Evident'
    BY <1>4, StartEvident, LifecycleEvident
  <1>5. ASSUME NEW p \in Procs, SchedulerStep(p)
        PROVE  Evident'
    BY <1>5, OperationEvident, ClaimUploadEvident, CallEvident, MarkDispatchEvident,
       FinishUploadEvident, LifecycleEvident DEF SchedulerStep
  <1>6. CASE \E s \in Sources : MediaStep(s)
    BY <1>6, MovesEvident
  <1>7. CASE UNCHANGED vars
    BY <1>7, RowsEvident DEF vars, procVars, dbVars, Evident, Answers
  <1> QED BY <1>1, <1>2, <1>3, <1>4, <1>5, <1>6, <1>7 DEF Next

\* What a send and its retry rest on is kept through crashes, recoveries and
\* restores: a deletion or restoration of media that came to its end, or was
\* undone, leaves the file as the row says, no job that may be sent loses its
\* file to one, a job that ran has a receipt that belongs to it, and a backup
\* finds rows its audit accepts, with their files if no such move was cut short.
THEOREM UploadEvidence == Spec => []EvidenceHeld
  <1>1. Spec => []Evident
    BY UploadInvariance, UploadReceipts, MediaMoves, MediaPlaced, InitEvident, NextEvident, PTL DEF Spec
  <1>2. IInv /\ Moves /\ Placed /\ Sent /\ Evident => EvidenceHeld
    <2> SUFFICES ASSUME IInv, Moves, Placed, Sent, Evident PROVE EvidenceHeld
      OBVIOUS
    <2>1. TypeOK
      BY DEF IInv, Moves, TypeOK
    <2>2. MediaHeld
      BY DEF Placed, Evident, Pending, Held, MediaHeld
    <2>3. ReceiptsValid
      BY DEF Evident, Fits, ReceiptsValid
    <2> QED BY <2>1, <2>2, <2>3, AuditsPass DEF EvidenceHeld
  <1> QED BY <1>1, <1>2, UploadInvariance, UploadReceipts, MediaMoves, MediaPlaced, PTL

-----------------------------------------------------------------------------
(***************************************************************************)
(* Cancellation before the dispatch                                        *)
(***************************************************************************)
\* Only the dispatch itself records one, and it has read the flag.
LEMMA DispatchRecorded ==
  ASSUME IInv, Next, NEW j \in JobIds, job[j].cancel \/ job[j].state = "canceled"
  PROVE  attempt'[j].dispatched = attempt[j].dispatched
  <1>1. \A i \in JobIds : job[i] \in JobRecord /\ attempt[i] \in AttemptRecord
    BY DEF IInv, RowTypes
  <1>2. attempt \in [JobIds -> AttemptRecord]
    BY DEF IInv, RowTypes
  <1>3. CASE attempt' = attempt
    BY <1>3
  <1>4. ASSUME NEW i \in JobIds, ReconcileUnknown(i)
        PROVE  attempt'[j].dispatched = attempt[j].dispatched
    <2> DEFINE v == IF i \in accepted THEN "yes" ELSE "no"
               n == attempt[i].revision + 1
               t == [attempt[i] EXCEPT !.state = "reconciled", !.revision = n, !.accepted = v]
    <2>1. attempt' = [attempt EXCEPT ![i] = t]
      BY <1>4 DEF ReconcileUnknown
    <2> HIDE DEF v, n
    <2>2. t.dispatched = attempt[i].dispatched
      BY <1>1 DEF AttemptRecord
    <2> HIDE DEF t
    <2> QED BY <1>2, <2>1, <2>2
  <1>5. CASE RecoverInterruptedRecords
    <2>1. CASE Interrupted(job[j])
      <3>1. attempt'[j] = attempt[j] \/ attempt'[j] = RecoveredAttempt(job[j], attempt[j])
        BY <1>5 DEF RecoverInterruptedRecords
      <3> QED BY <1>1, <2>1, <3>1, RecoveredType
    <2>2. CASE ~Interrupted(job[j])
      BY <1>5, <2>2 DEF RecoverInterruptedRecords
    <2> QED BY <2>1, <2>2
  <1>6. CASE RestoreBackup
    <2>1. backup.rows = Rows
      BY <1>6 DEF RestoreBackup, IInv, Copying, Exclusive
    <2>2. /\ attempt'[j] = RestoredAttempt(job[j], attempt[j])
          /\ attempt[j].state # "none" => ValidReceipt(job[j], attempt[j])
      BY <1>6, <2>1 DEF RestoreBackup, Rows, Audits, RowsSound, ReceiptsSound
    <2> QED BY <1>1, <2>2, RestoredType
  <1>7. ASSUME NEW p \in Procs, NEW i \in JobIds, ClaimUpload(p, i)
        PROVE  attempt'[j].dispatched = attempt[j].dispatched
    <2>1. /\ job[i].state = "queued" /\ attempt' = [attempt EXCEPT ![i] = Reserved(i)]
      BY <1>7 DEF ClaimUpload, Claimable
    <2>2. ~attempt[i].dispatched /\ attempt[i].dispatched \in BOOLEAN
      BY <1>1, <2>1 DEF IInv, Approved, AttemptRecord
    <2>3. Reserved(i).dispatched = FALSE
      BY DEF Reserved, NoAttempt
    <2>4. CASE i = j
      <3>1. attempt'[j] = Reserved(i)
        BY <1>2, <2>1, <2>4
      <3> QED BY <2>2, <2>3, <2>4, <3>1
    <2>5. CASE i # j
      BY <2>1, <2>5, <1>2
    <2> QED BY <2>4, <2>5
  <1>8. ASSUME NEW p \in Procs, MarkDispatch(p)
        PROVE  attempt'[j].dispatched = attempt[j].dispatched
    <2>1. CASE attempt' = attempt
      BY <2>1
    <2>2. CASE /\ job[exec[p].job].state = "running" /\ ~job[exec[p].job].cancel
               /\ \A i \in JobIds : i # exec[p].job => attempt'[i] = attempt[i]
      BY <2>2
    <2> QED BY <1>2, <1>8, <2>1, <2>2 DEF MarkDispatch, CancelSeen
  <1>9. ASSUME NEW p \in Procs, FinishUpload(p)
        PROVE  attempt'[j].dispatched = attempt[j].dispatched
    <2> DEFINE i == exec[p].job
               s == UploadResultState(exec[p].result, exec[p].invoked, ModeOf[exec[p].account])
               x == IF s = "unknown" THEN "unknown" ELSE "responded"
               y == exec[p].result
               n == attempt[i].revision + 1
               t == [attempt[i] EXCEPT !.state = x, !.result = y, !.revision = n]
    <2>1. Finalizes(p, s) /\ i \in JobIds
      BY <1>9 DEF FinishUpload, IInv, Executing
    <2>2. attempt' = [attempt EXCEPT ![i] = t]
      BY <2>1 DEF Finalizes
    <2> HIDE DEF x, y, n
    <2>3. t.dispatched = attempt[i].dispatched
      BY <1>1, <2>1 DEF AttemptRecord
    <2> HIDE DEF t, i
    <2> QED BY <1>2, <2>1, <2>2, <2>3
  <1>10. CASE UserStep
    <2>1. CASE \E i \in JobIds : ReconcileUnknown(i)
      BY <1>4, <2>1
    <2>2. CASE ~\E i \in JobIds : ReconcileUnknown(i)
      <3>1. attempt' = attempt
        BY <1>10, <2>2 DEF UserStep, CreateJobs, TombstoneRequest, RetryMany, Confirm, Cancel,
           DeleteSourceMedia, RestoreSourceMedia, Retry, OnlyJobs, Check, Login,
           CancelOperation, DisconnectAccount, dbVars
      <3> QED BY <3>1
    <2> QED BY <2>1, <2>2
  <1>11. CASE BackupStep
    BY <1>3, <1>6, <1>11 DEF BackupStep, BeginBackup, EndBackup, dbVars
  <1>12. CASE \E i \in JobIds : RemoteAccepts(i)
    BY <1>3, <1>12 DEF RemoteAccepts, dbVars
  <1>13. ASSUME NEW p \in Procs, SchedulerStep(p)
         PROVE  attempt'[j].dispatched = attempt[j].dispatched
    <2>1. CASE FinishUpload(p) \/ MarkDispatch(p) \/ \E i \in JobIds : ClaimUpload(p, i)
      BY <1>7, <1>8, <1>9, <2>1
    <2>2. CASE ~(FinishUpload(p) \/ MarkDispatch(p) \/ \E i \in JobIds : ClaimUpload(p, i))
      BY <1>3, <1>13, <2>2 DEF SchedulerStep, ClaimOperation, BackendAccount, FinishOperation,
         Prepare, BackendUpload, ThreadExits, dbVars
    <2> QED BY <2>1, <2>2
  <1>14. ASSUME NEW p \in Procs,
                \/ Start(p) \/ StartFaults(p) \/ StartStandby(p) \/ Stop(p) \/ Crash(p)
                \/ WatchCancellation(p) \/ WatcherBlind(p) \/ SchedulerFails(p)
         PROVE  attempt'[j].dispatched = attempt[j].dispatched
    BY <1>3, <1>5, <1>14 DEF Start, StartFaults, StartStandby, Stop, Crash, WatchCancellation,
       WatcherBlind, SchedulerFails, dbVars
  <1>15. CASE \E s \in Sources : MediaStep(s)
    BY <1>3, <1>15 DEF MediaStep, CommitMedia, RollBackMedia, UndoMedia, dbVars
  <1> QED BY <1>10, <1>11, <1>12, <1>13, <1>14, <1>15 DEF Next

\* A job whose cancellation was asked for before its dispatch was recorded is
\* never sent: the transaction that records the dispatch reads the flag.
THEOREM UploadCancels == Spec => CancelBeforeDispatch
  <1>1. IInv /\ [Next]_vars =>
          [\A j \in JobIds : job[j].cancel \/ job[j].state = "canceled" =>
             attempt'[j].dispatched = attempt[j].dispatched]_vars
    BY DispatchRecorded
  <1> QED BY <1>1, UploadInvariance, PTL DEF Spec, CancelBeforeDispatch
=============================================================================
