---------------------------- MODULE UploadService ----------------------------
(***************************************************************************)
(* Upload jobs, attempt receipts and account operations                    *)
(* (uploads/service.py), shared by the application instances that open the *)
(* same upload database.  Every public mutation is one BEGIN IMMEDIATE     *)
(* transaction.  Only the instance that holds the scheduler file lock runs *)
(* the scheduler thread, whose steps between transactions (checks, the     *)
(* backend call, the return of its result) interleave with everything.     *)
(*                                                                         *)
(* Jobs are numbered in rowid order; number i does not exist while         *)
(* job[i].state = "none".  A session revision (the id of the latest login  *)
(* operation) is the number of logins the account has had.  The remote     *)
(* platform is the set accepted: the jobs it took, whether or not the      *)
(* program has learned of it.                                              *)
(***************************************************************************)
EXTENDS Integers, Sequences, FiniteSets

CONSTANTS
    Procs,      \* application instances
    Accounts,
    ModeOf,     \* "publish" or "draft" for the account's targets
    Keys,       \* idempotency keys of upload requests
    TargetsOf,  \* the account_ids of each request
    SourceOf,   \* the source of each request
    Sources,
    MaxJobs,    \* bound: rows of the jobs table
    MaxLogins,  \* bound: login operations of an account
    MaxChecks,  \* bound: check operations in all
    MaxEpochs,  \* bound: recoveries of interrupted records
    Movers      \* bound: instances at which media are deleted and restored

Nobody == "nobody"

\* The tables of requests have the right types; a request names at least one
\* account, because create_jobs refuses an empty list.
ASSUME UploadAssumption ==
    /\ ModeOf \in [Accounts -> {"publish", "draft"}]
    /\ TargetsOf \in [Keys -> Seq(Accounts) \ {<<>>}]
    /\ SourceOf \in [Keys -> Sources]
    /\ {MaxJobs, MaxLogins, MaxChecks, MaxEpochs} \subseteq Nat

\* No instance has the name that stands for a free lock.
ASSUME UploadNames == Nobody \notin Procs

VARIABLES
    account,   \* accounts, without their name
    op,        \* the queued or running account operation of each account
    job,       \* jobs
    attempt,   \* upload_attempts by job
    request,   \* requests: absent, tombstone ("[]") or the created jobs
    media,     \* media_state of each source's row
    files,     \* the sources whose managed file is in its place
    move,      \* the deletion or restoration of each source in flight
    cut,       \* ghost: sources whose last deletion or restoration was cut short
    up,        \* _scheduler_state of each instance, "down" when not running
    owner,     \* holder of the scheduler lock
    exec,      \* what each instance's scheduler thread is executing
    accepted,  \* ghost: jobs the remote platform accepted
    epoch,     \* ghost: recoveries so far
    checks,    \* ghost: check operations so far
    backup     \* phase of the backup of the upload root, and the rows it copied

dbVars   == <<account, op, job, attempt, request, media>>
fileVars == <<files, move, cut>>
procVars == <<up, owner, exec>>
vars     == <<dbVars, fileVars, procVars, accepted, epoch, checks, backup>>

JobIds     == 1..MaxJobs
Settled    == {"submitted", "draft_saved", "failed", "canceled"}
JobState   == Settled \cup {"none", "draft", "queued", "running", "unknown"}
Results    == {"submitted", "draft_saved", "failed", "unknown", "canceled"}
Approvals  == (0..MaxLogins) \X (0..MaxEpochs)
NoApproval == <<0, 0>>

JobRecord ==
    [state : JobState, cancel : BOOLEAN, account : Accounts \cup {Nobody},
     key : Keys \cup {Nobody}, retryOf : 0..MaxJobs, approved : Approvals]

AttemptRecord ==
    [state      : {"none", "reserved", "dispatch_may_have_started",
                   "responded", "unknown", "reconciled"},
     result     : Results \cup {"none"},
     dispatched : BOOLEAN,
     session    : 0..MaxLogins,
     under      : Approvals,
     accepted   : {"none", "yes", "no"},
     revision   : 0..3]

AccountRecord ==
    [life    : {"active", "disconnected"},
     auth    : {"unchecked", "checking", "ready", "invalid"},
     session : 0..MaxLogins]

OpRecord ==
    [action : {"login", "check"}, state : {"done", "queued", "running"},
     cancel : BOOLEAN]

ExecRecord ==
    [step    : {"idle", "claimed", "prepared", "invoked", "returned"},
     kind    : {"none", "account", "upload"},
     job     : 0..MaxJobs,
     account : Accounts \cup {Nobody},
     invoked : BOOLEAN,
     result  : Results \cup {"none", "ready"},
     badAuth : BOOLEAN,
     stop    : BOOLEAN]

NoJob ==
    [state |-> "none", cancel |-> FALSE, account |-> Nobody, key |-> Nobody,
     retryOf |-> 0, approved |-> NoApproval]

NoAttempt ==
    [state |-> "none", result |-> "none", dispatched |-> FALSE, session |-> 0,
     under |-> NoApproval, accepted |-> "none", revision |-> 0]

\* A file that is "moved" has left or taken its place under a transaction that
\* is still to write the row; "undoing" follows the rollback of the transaction.
MoveRecord ==
    [step : {"none", "moved", "undoing"}, by : Procs \cup {Nobody},
     row : {"present", "deleted"}]

NoMove == [step |-> "none", by |-> Nobody, row |-> "present"]

IdleExec ==
    [step |-> "idle", kind |-> "none", job |-> 0, account |-> Nobody,
     invoked |-> FALSE, result |-> "none", badAuth |-> FALSE, stop |-> FALSE]

\* The states in which start() has run and stop() has not finished.
Alive == {"standby", "running", "stopping", "faulted"}

\* A scheduler that started keeps a shared activity lease for its life, and
\* every operation of an instance takes one; only a faulted instance has none
\* between operations.
Leased == \/ \E p \in Procs : up[p] \in Alive \ {"faulted"}
          \/ \E s \in Sources : move[s] # NoMove

\* A backup holds the lease exclusively.
Exclusive == backup.phase = "copying"

\* BEGIN IMMEDIATE waits while another transaction is open.  The two that move
\* a media file are the only ones of several steps.
Writable == \A s \in Sources : move[s].step # "moved"

Serves(p) == up[p] \in Alive /\ ~Exclusive /\ Writable

AppUp == \E p \in Procs : Serves(p)

Exists(j) == job[j].state # "none"

\* _retry_lineage_in and _latest_retry_job_in: the unique last successor.
Leaf(j) == ~\E k \in JobIds : Exists(k) /\ job[k].retryOf = j

\* The jobs a retry descends from, the job itself included.
Ancestors(j) ==
    LET chain[n \in 0..MaxJobs] ==
          IF n = 0 THEN {}
          ELSE {n} \cup chain[IF job[n].retryOf < n THEN job[n].retryOf ELSE 0]
    IN  chain[j]

Root(j) == CHOOSE k \in Ancestors(j) : \A i \in Ancestors(j) : k <= i

JobCount == Cardinality({j \in JobIds : Exists(j)})

\* _job_query by source and by account
JobsOf(jb, a) == {j \in JobIds : jb[j].state # "none" /\ jb[j].account = a}

SourceJobs(s) == {j \in JobIds : Exists(j) /\ SourceOf[job[j].key] = s}

\* The active references that delete_source_media refuses to break.
\* Mutant: drafts do not count as references.
ActiveReferences_NoDrafts(s) ==
    {j \in SourceJobs(s) : job[j].state \in {"queued", "running"}}

ActiveReferences(s) ==
    {j \in SourceJobs(s) : job[j].state \in {"draft", "queued", "running"}}

\* Mutant: the row is believed.
Verified_RowOnly(s) == media[s] = "present"

\* _verified_source_media_path: the row says present and the file is there.
Verified(s) == media[s] = "present" /\ s \in files

-----------------------------------------------------------------------------
(***************************************************************************)
(* Requests, drafts, confirmation, cancellation                            *)
(***************************************************************************)
Draft(a, k, parent) ==
    [NoJob EXCEPT !.state = "draft", !.account = a, !.key = k,
                  !.retryOf = parent]

UnusedKey(k) == request[k] = "absent"

\* create_jobs.  A key that already has jobs is a replay that changes nothing
\* and a tombstoned key is an idempotency_conflict.
CreateJobs(k) ==
    /\ AppUp /\ UnusedKey(k)
    /\ JobCount + Len(TargetsOf[k]) <= MaxJobs
    /\ Verified(SourceOf[k])
    /\ \A m \in DOMAIN TargetsOf[k] : account[TargetsOf[k][m]].life = "active"
    /\ job' = [j \in JobIds |->
                 IF j - JobCount \in DOMAIN TargetsOf[k]
                 THEN Draft(TargetsOf[k][j - JobCount], k, 0)
                 ELSE job[j]]
    /\ request' = [request EXCEPT ![k] = "jobs"]
    /\ UNCHANGED <<account, op, attempt, media, fileVars, procVars, accepted,
                   epoch,
                   checks, backup>>

\* claim_or_read_workflow_cancellation and
\* claim_workflow_request_for_cancellation: an unused key is reserved empty.
TombstoneRequest(k) ==
    /\ AppUp /\ request[k] = "absent"
    /\ request' = [request EXCEPT ![k] = "tombstone"]
    /\ UNCHANGED <<account, op, job, attempt, media, fileVars, procVars, accepted,
                   epoch, checks, backup>>

\* _validate_confirmation of a draft
Confirmable(j) ==
    /\ account[job[j].account].life = "active"
    /\ account[job[j].account].auth = "ready"
    /\ Verified(SourceOf[job[j].key])

\* confirm (one job) and confirm_many: all the drafts among them or none.
Confirm(J) ==
    LET pending == {j \in J : job[j].state = "draft"}
    IN  /\ AppUp /\ pending # {}
        /\ \A j \in J : job[j].state \in {"draft", "queued", "running",
                                          "submitted", "draft_saved"}
        /\ \A j \in pending : Confirmable(j)
        /\ job' = [j \in JobIds |->
                     IF j \in pending
                     THEN [job[j] EXCEPT
                             !.state = "queued", !.cancel = FALSE,
                             !.approved = <<account[job[j].account].session,
                                            epoch>>]
                     ELSE job[j]]
        /\ UNCHANGED <<account, op, attempt, request, media, fileVars, procVars,
                       accepted, epoch, checks, backup>>

\* _cancel_current_jobs on one row
CancelJob(r) ==
    CASE r.state \in {"draft", "queued"} ->
           [r EXCEPT !.state = "canceled", !.cancel = FALSE]
      [] r.state = "running" -> [r EXCEPT !.cancel = TRUE]
      [] OTHER -> r

\* cancel and cancel_many at instance p, which sets the stop event when its
\* own scheduler thread is executing one of the jobs.
Cancel(p, J) ==
    /\ Serves(p)
    /\ \E j \in J : job[j].state \in {"draft", "queued", "running"}
    /\ job' = [j \in JobIds |-> IF j \in J THEN CancelJob(job[j]) ELSE job[j]]
    /\ exec' = [exec EXCEPT ![p].stop = @ \/ exec[p].job \in J]
    /\ UNCHANGED <<account, op, attempt, request, media, fileVars, up, owner,
                   accepted,
                   epoch, checks, backup>>

-----------------------------------------------------------------------------
(***************************************************************************)
(* The media file of a source and its row.  A deletion or a restoration    *)
(* moves the file inside an open transaction and writes the row at the end *)
(* of it.  A transaction that fails is rolled back first and the file is   *)
(* put back afterwards; a process that dies leaves the file where it is.   *)
(* Bound: the moves of one source do not overlap.                          *)
(***************************************************************************)
Moving(p, row) == [step |-> "moved", by |-> p, row |-> row]

\* delete_source_media up to the rename to quarantine, of a file that fits its
\* row
DeleteSourceMedia(p, s) ==
    /\ p \in Movers /\ Serves(p) /\ move[s] = NoMove
    /\ Verified(s) /\ ActiveReferences(s) = {}
    /\ files' = files \ {s} /\ cut' = cut \ {s}
    /\ move' = [move EXCEPT ![s] = Moving(p, "deleted")]
    /\ UNCHANGED <<dbVars, procVars, accepted, epoch, checks, backup>>

\* restore_source_media up to os.link: the state is "missing" or "deleted",
\* so nothing is in the file's place, whatever the row says.
RestoreSourceMedia(p, s) ==
    /\ p \in Movers /\ Serves(p) /\ move[s] = NoMove
    /\ s \notin files
    /\ files' = files \cup {s}
    /\ move' = [move EXCEPT ![s] = Moving(p, "present")]
    /\ UNCHANGED <<dbVars, procVars, cut, accepted, epoch, checks, backup>>

\* The row is written and the transaction commits.
CommitMedia(s) ==
    /\ move[s].step = "moved"
    /\ media' = [media EXCEPT ![s] = move[s].row]
    /\ move' = [move EXCEPT ![s] = NoMove]
    /\ cut' = cut \ {s}
    /\ UNCHANGED <<account, op, job, attempt, request, files, procVars, accepted,
                   epoch, checks, backup>>

\* The update or the commit raises; leaving _db rolls back and frees the lock.
RollBackMedia(s) ==
    /\ move[s].step = "moved"
    /\ move' = [move EXCEPT ![s].step = "undoing"]
    /\ UNCHANGED <<dbVars, files, procVars, cut, accepted, epoch, checks, backup>>

\* The quarantined file is linked back, or the published one is unlinked
\* again; that may fail (source_delete_rollback_failed, or what unlink raises).
UndoMedia(s) ==
    /\ move[s].step = "undoing"
    /\ \/ /\ files' = IF move[s].row = "deleted" THEN files \cup {s} ELSE files \ {s}
          /\ cut' = cut
       \/ files' = files /\ cut' = cut \cup {s}
    /\ move' = [move EXCEPT ![s] = NoMove]
    /\ UNCHANGED <<dbVars, procVars, accepted, epoch, checks, backup>>

-----------------------------------------------------------------------------
(***************************************************************************)
(* Retry and reconciliation                                                *)
(***************************************************************************)
\* The outcome of a job the platform took
Outcome(a) == IF ModeOf[a] = "publish" THEN "submitted" ELSE "draft_saved"

\* _validate_attempt_state: the receipt states that can belong to the job.
ValidReceipt(r, t) ==
    LET mismatch == \/ t.result \in {"unknown", "canceled"}
                    \/ t.result = "submitted" /\ ModeOf[r.account] # "publish"
                    \/ t.result = "draft_saved" /\ ModeOf[r.account] # "draft"
    IN  CASE t.state = "reserved" ->
               /\ t.result = "none" /\ ~t.dispatched /\ t.revision = 0
               /\ r.state = "running"
          [] t.state = "dispatch_may_have_started" ->
               /\ t.result = "none" /\ t.dispatched /\ t.revision = 1
               /\ r.state = "running"
          [] t.state = "responded" ->
               /\ r.state = t.result
               /\ \/ /\ ~t.dispatched /\ t.revision = 1
                     /\ t.result \in {"failed", "canceled"}
                  \/ /\ t.dispatched /\ t.revision = 2
                     /\ t.result = "failed" \/ ~mismatch
          [] t.state = "unknown" ->
               /\ mismatch /\ t.dispatched /\ t.revision = 2
               /\ r.state = "unknown"
          [] t.state = "reconciled" ->
               /\ mismatch /\ t.dispatched /\ t.revision = 3
               /\ r.state = IF t.accepted = "no" THEN "failed" ELSE Outcome(r.account)

\* _validate_retry_job_in for a leaf
Retryable(j) ==
    /\ job[j].state \in {"failed", "canceled"} /\ Leaf(j)
    /\ account[job[j].account].life = "active"
    /\ Verified(SourceOf[job[j].key])
    /\ attempt[j].state # "none" /\ ValidReceipt(job[j], attempt[j])
    /\ \/ /\ attempt[j].state = "responded"
          /\ attempt[j].result \in {"failed", "canceled"}
       \/ attempt[j].state = "reconciled" /\ attempt[j].accepted = "no"

\* _insert_retry_job_in for each job of the set, in the order given: the job
\* tables it can lead to.
WithRetries(J) ==
    {[n \in JobIds |->
         IF \E j \in J : n = JobCount + place[j]
         THEN LET j == CHOOSE i \in J : n = JobCount + place[i]
              IN  Draft(job[j].account, job[j].key, j)
         ELSE job[n]] :
     place \in {p \in [J -> 1..Cardinality(J)] : \A i, j \in J : p[i] = p[j] => i = j}}

OnlyJobs == UNCHANGED <<account, op, attempt, request, media, fileVars,
                        procVars, accepted,
                        epoch, checks, backup>>

\* retry.  Asked again for a job that has a successor it returns the leaf.
Retry(j) ==
    /\ AppUp /\ Retryable(j) /\ JobCount < MaxJobs
    /\ job' \in WithRetries({j}) /\ OnlyJobs

\* retry_many over a whole request: no leaf may be unknown and every failed
\* or canceled leaf must be retryable.
RetryMany(k) ==
    LET leaves     == {j \in JobIds : Exists(j) /\ job[j].key = k /\ Leaf(j)}
        candidates == {j \in leaves : job[j].state \in {"failed", "canceled"}}
    IN  /\ AppUp /\ request[k] = "jobs" /\ candidates # {}
        /\ \A j \in leaves : job[j].state # "unknown"
        /\ \A j \in candidates : Retryable(j)
        /\ JobCount + Cardinality(candidates) <= MaxJobs
        /\ job' \in WithRetries(candidates) /\ OnlyJobs

\* reconcile_unknown: the operator reports what the platform's back office
\* shows, which is taken to be true.
ReconcileUnknown(j) ==
    LET taken == j \in accepted
    IN  /\ AppUp
        /\ job[j].state = "unknown" /\ attempt[j].state = "unknown" /\ Leaf(j)
        /\ ValidReceipt(job[j], attempt[j])
        /\ attempt' = [attempt EXCEPT
                         ![j].state = "reconciled", ![j].revision = @ + 1,
                         ![j].accepted = IF taken THEN "yes" ELSE "no"]
        /\ job' = [job EXCEPT ![j].state =
                     IF taken THEN Outcome(job[j].account) ELSE "failed"]
        /\ UNCHANGED <<account, op, request, media, fileVars, procVars,
                       accepted, epoch,
                       checks, backup>>

-----------------------------------------------------------------------------
(***************************************************************************)
(* Accounts                                                                *)
(***************************************************************************)
\* Every queued approval of the account goes back to draft.
RevokeQueued(jb, a) ==
    [j \in JobIds |-> IF j \in JobsOf(jb, a) /\ jb[j].state = "queued"
                      THEN [jb[j] EXCEPT !.state = "draft"] ELSE jb[j]]

\* Mutant: a new login leaves the approvals of the old session queued.
LoginRevokes_Not(a) == job' = job

LoginRevokes(a) == job' = RevokeQueued(job, a)

\* account_action("login"), which only the lock holder accepts
Login(p, a) ==
    /\ owner = p /\ up[p] \in {"running", "stopping"} /\ Writable
    /\ account[a].life = "active" /\ op[a].state = "done"
    /\ account[a].session < MaxLogins
    /\ op' = [op EXCEPT ![a] = [action |-> "login", state |-> "queued",
                                cancel |-> FALSE]]
    /\ account' = [account EXCEPT ![a].auth = "checking",
                                  ![a].session = @ + 1]
    /\ LoginRevokes(a)
    /\ UNCHANGED <<attempt, request, media, fileVars, procVars, accepted,
                   epoch, checks, backup>>

\* account_action("check")
Check(a) ==
    /\ AppUp /\ account[a].life = "active" /\ op[a].state = "done"
    /\ checks < MaxChecks /\ checks' = checks + 1
    /\ op' = [op EXCEPT ![a] = [action |-> "check", state |-> "queued",
                                cancel |-> FALSE]]
    /\ account' = [account EXCEPT ![a].auth = "checking"]
    /\ UNCHANGED <<job, attempt, request, media, fileVars, procVars, accepted,
                   epoch, backup>>

Executes(p, a) == exec[p].kind = "account" /\ exec[p].account = a

\* cancel_operation at instance p
CancelOperation(p, a) ==
    /\ Serves(p)
    /\ \/ /\ op[a].state = "queued"
          /\ op' = [op EXCEPT ![a].state = "done"]
          /\ account' = [account EXCEPT ![a].auth = "unchecked"]
          /\ exec' = exec
       \/ /\ op[a].state = "running" /\ ~op[a].cancel
          /\ op' = [op EXCEPT ![a].cancel = TRUE]
          /\ exec' = [exec EXCEPT ![p].stop = @ \/ Executes(p, a)]
          /\ account' = account
    /\ UNCHANGED <<job, attempt, request, media, fileVars, up, owner, accepted,
                   epoch,
                   checks, backup>>

\* disconnect_account at instance p, refused while the account uploads
DisconnectAccount(p, a) ==
    /\ Serves(p) /\ account[a].life = "active"
    /\ \A j \in JobsOf(job, a) : job[j].state # "running"
    /\ exec' = [exec EXCEPT ![p].stop =
                  @ \/ (Executes(p, a) /\ op[a].state = "running")]
    /\ op' = [op EXCEPT ![a].state = "done"]
    /\ job' = RevokeQueued(job, a)
    /\ account' = [account EXCEPT ![a].auth = "unchecked",
                                  ![a].life = "disconnected"]
    /\ UNCHANGED <<attempt, request, media, fileVars, up, owner, accepted,
                   epoch, checks, backup>>

-----------------------------------------------------------------------------
(***************************************************************************)
(* Recovery of interrupted records                                         *)
(***************************************************************************)
\* Mutant: a receipt that may have been dispatched counts as not sent.
RecoveredAttempt_NotSent(r, t) ==
    IF t.state \in {"reserved", "dispatch_may_have_started"}
    THEN [t EXCEPT !.state = "responded", !.result = "failed",
                   !.revision = @ + 1]
    ELSE t

\* _recover_interrupted_records on the receipt t of the active job r
RecoveredAttempt(r, t) ==
    CASE ValidReceipt(r, t) /\ t.state = "reserved" ->
           [t EXCEPT !.state = "responded", !.result = "failed",
                     !.revision = @ + 1]
      [] ValidReceipt(r, t) /\ t.state = "dispatch_may_have_started" ->
           [t EXCEPT !.state = "unknown", !.result = "unknown",
                     !.revision = @ + 1]
      [] OTHER -> t

\* _recover_interrupted_records on the active job r with the receipt t
RecoveredJob(r, t) ==
    [r EXCEPT
       !.cancel = FALSE,
       !.state = IF t.state = "none" /\ @ = "queued" THEN "draft"
                 ELSE IF t.state = "none" \/ RecoveredAttempt(r, t) = t THEN "unknown"
                 ELSE RecoveredAttempt(r, t).result]

\* Mutant: only what waits is swept up.
Interrupted_QueuedOnly(r) == r.state = "queued"

Interrupted(r) == r.state \in {"queued", "running"}

AuthAfterRestart(auth) == IF auth = "checking" THEN "unchecked" ELSE auth

\* _recover_interrupted_records, one transaction
RecoverInterruptedRecords ==
    /\ Writable /\ epoch < MaxEpochs /\ epoch' = epoch + 1
    /\ job' = [j \in JobIds |->
                 IF Interrupted(job[j]) THEN RecoveredJob(job[j], attempt[j])
                 ELSE job[j]]
    /\ attempt' = [j \in JobIds |->
                     IF Interrupted(job[j]) /\ attempt[j].state # "none"
                     THEN RecoveredAttempt(job[j], attempt[j])
                     ELSE attempt[j]]
    /\ op' = [a \in Accounts |-> [op[a] EXCEPT !.state = "done"]]
    /\ account' = [a \in Accounts |->
                     [account[a] EXCEPT !.auth = AuthAfterRestart(@)]]
    /\ UNCHANGED <<request, media, fileVars>>

-----------------------------------------------------------------------------
(***************************************************************************)
(* The scheduler of one instance                                           *)
(***************************************************************************)
\* start() with the lock free, from nothing, standby or after a fault.
Start(p) ==
    /\ up[p] \in {"down", "standby", "faulted"} /\ owner = Nobody /\ ~Exclusive
    /\ owner' = p
    /\ up' = [up EXCEPT ![p] = "running"]
    /\ RecoverInterruptedRecords
    /\ UNCHANGED <<exec, accepted, checks, backup>>

\* start() whose recovery fails gives the lock back.
StartFaults(p) ==
    /\ up[p] \in {"down", "standby"} /\ owner = Nobody /\ ~Exclusive
    /\ up' = [up EXCEPT ![p] = "faulted"]
    /\ UNCHANGED <<dbVars, fileVars, owner, exec, accepted, epoch, checks,
                   backup>>

\* start() while another instance holds the lock
StartStandby(p) ==
    /\ up[p] \in {"down", "faulted"} /\ owner # Nobody /\ ~Exclusive
    /\ up' = [up EXCEPT ![p] = "standby"]
    /\ UNCHANGED <<dbVars, fileVars, owner, exec, accepted, epoch, checks,
                   backup>>

\* stop(): _shutdown and the stop event of the current operation
Stop(p) ==
    /\ up[p] \in {"running", "standby", "faulted"} /\ epoch < MaxEpochs
    /\ up' = [up EXCEPT ![p] = IF owner = p THEN "stopping" ELSE "down"]
    /\ exec' = [exec EXCEPT ![p].stop = exec[p].step # "idle"]
    /\ UNCHANGED <<dbVars, fileVars, owner, accepted, epoch, checks, backup>>

\* Mutant: stop() itself gives the lock back.
LockKeptUntilExit_Not(p) == TRUE

\* The lock is released by _run's finally, after the thread's last step.
LockKeptUntilExit(p) == exec[p].step = "idle"

ThreadExits(p) ==
    /\ owner = p /\ up[p] = "stopping" /\ LockKeptUntilExit(p)
    /\ owner' = Nobody
    /\ up' = [up EXCEPT ![p] = "down"]
    /\ UNCHANGED <<dbVars, fileVars, exec, accepted, epoch, checks, backup>>

\* The media operations in flight at instance p
MovesOf(p) == {s \in Sources : move[s].by = p}

\* The instance dies; the operating system drops its file lock and its open
\* transaction is rolled back, with no one left to put a moved file back.
Crash(p) ==
    /\ up[p] # "down" \/ MovesOf(p) # {}
    /\ epoch < MaxEpochs
    /\ move' = [s \in Sources |-> IF s \in MovesOf(p) THEN NoMove ELSE move[s]]
    /\ cut' = cut \cup MovesOf(p)
    /\ up' = [up EXCEPT ![p] = "down"]
    /\ owner' = IF owner = p THEN Nobody ELSE owner
    /\ exec' = [exec EXCEPT ![p] = IdleExec]
    /\ UNCHANGED <<dbVars, files, accepted, epoch, checks, backup>>

\* _claim of an account operation.  At most one is open per account; the order
\* among accounts is left open.
ClaimOperation(p, a) ==
    /\ up[p] = "running" /\ owner = p /\ exec[p].step = "idle" /\ Writable
    /\ op[a].state = "queued" /\ account[a].life = "active"
    /\ op' = [op EXCEPT ![a].state = "running", ![a].cancel = FALSE]
    /\ exec' = [exec EXCEPT ![p] = [IdleExec EXCEPT !.step = "claimed",
                                      !.kind = "account", !.account = a]]
    /\ UNCHANGED <<account, job, attempt, request, media, fileVars, up, owner,
                   accepted,
                   epoch, checks, backup>>

Claimable(j) == job[j].state = "queued" /\ account[job[j].account].life = "active"

\* _attempt_definition_in: what a receipt records is rebuilt from the rows, for
\* the last job of a chain that one request owns.
Defined(j) ==
    /\ Leaf(j)
    /\ Cardinality({k \in Keys : request[k] = "jobs" /\ job[Root(j)].key = k}) = 1

\* _reserve_upload_attempt_in: the receipt of a job that has none
Reserved(j) == [NoAttempt EXCEPT !.state = "reserved",
                                 !.session = account[job[j].account].session]

\* _claim of the oldest queued job, with its receipt reserved in the same
\* transaction (_reserve_upload_attempt_in)
ClaimUpload(p, j) ==
    /\ up[p] = "running" /\ owner = p /\ exec[p].step = "idle" /\ Writable
    /\ \A a \in Accounts : ~(op[a].state = "queued" /\ account[a].life = "active")
    /\ Claimable(j) /\ \A i \in JobIds : Claimable(i) => j <= i
    /\ attempt[j].state = "none" /\ Defined(j)
    /\ attempt' = [attempt EXCEPT ![j] = Reserved(j)]
    /\ job' = [job EXCEPT ![j].state = "running", ![j].cancel = FALSE]
    /\ exec' = [exec EXCEPT ![p] = [IdleExec EXCEPT !.step = "claimed",
                                      !.kind = "upload", !.job = j,
                                      !.account = job[j].account]]
    /\ UNCHANGED <<account, op, request, media, fileVars, up, owner, accepted,
                   epoch,
                   checks, backup>>

\* _watch_cancellation: the flag another instance set, or the shutdown
WatchCancellation(p) ==
    /\ exec[p].step # "idle" /\ ~exec[p].stop
    /\ \/ up[p] = "stopping"
       \/ exec[p].kind = "upload" /\ job[exec[p].job].cancel
       \/ exec[p].kind = "account" /\ op[exec[p].account].cancel
    /\ exec' = [exec EXCEPT ![p].stop = TRUE]
    /\ UNCHANGED <<dbVars, fileVars, up, owner, accepted, epoch, checks, backup>>

\* _watch_cancellation that cannot read the database stops the operation too.
WatcherBlind(p) ==
    /\ exec[p].step # "idle" /\ ~exec[p].stop
    /\ exec' = [exec EXCEPT ![p].stop = TRUE]
    /\ UNCHANGED <<dbVars, fileVars, up, owner, accepted, epoch, checks, backup>>

Return(p, result, bad) ==
    exec' = [exec EXCEPT ![p].step = "returned", ![p].result = result,
                         ![p].badAuth = bad]

\* backend.login_interactive, login or check
BackendAccount(p) ==
    /\ exec[p].step = "claimed" /\ exec[p].kind = "account"
    /\ \E r \in {"ready", "failed", "canceled"} : Return(p, r, FALSE)
    /\ UNCHANGED <<dbVars, fileVars, up, owner, accepted, epoch, checks, backup>>

\* The end of _execute_operation for an account operation
FinishOperation(p) ==
    LET a      == exec[p].account
        result == IF op[a].cancel \/ exec[p].stop THEN "canceled"
                  ELSE exec[p].result
    IN  /\ exec[p].step = "returned" /\ exec[p].kind = "account" /\ Writable
        /\ IF op[a].state = "running" /\ account[a].life = "active"
           THEN /\ op' = [op EXCEPT ![a].state = "done"]
                /\ account' = [account EXCEPT ![a].auth =
                                 CASE result = "ready" -> "ready"
                                   [] result = "canceled" -> "unchecked"
                                   [] OTHER -> "invalid"]
           ELSE UNCHANGED <<op, account>>
        /\ exec' = [exec EXCEPT ![p] = IdleExec]
        /\ UNCHANGED <<job, attempt, request, media, fileVars, up, owner,
                       accepted,
                       epoch, checks, backup>>

Ready(a) == account[a].life = "active" /\ account[a].auth = "ready"

\* What _execute_operation reads before the stop test: the account is ready
\* and _source_path finds the source's file.
Preparable(p) ==
    /\ Ready(exec[p].account)
    /\ Verified(SourceOf[job[exec[p].job].key])

\* _execute_operation up to the stop test: any check may fail, and a stop
\* requested so far cancels.
Prepare(p) ==
    /\ exec[p].step = "claimed" /\ exec[p].kind = "upload"
    /\ \/ Return(p, "failed", FALSE)
       \/ Preparable(p) /\ exec[p].stop /\ Return(p, "canceled", FALSE)
       \/ /\ Preparable(p) /\ ~exec[p].stop
          /\ exec' = [exec EXCEPT ![p].step = "prepared"]
    /\ UNCHANGED <<dbVars, fileVars, up, owner, accepted, epoch, checks, backup>>

\* _validate_attempt_identity_in: the receipt is of this job and of a login the
\* account has had.
Identified(j) == Defined(j) /\ attempt[j].session <= account[job[j].account].session

SessionUnchanged(j) ==
    /\ Ready(job[j].account)
    /\ account[job[j].account].session = attempt[j].session

\* Mutant: the cancellation flag is not read again.
CancelSeen_Not(j) == FALSE

CancelSeen(j) == job[j].cancel

\* _mark_upload_dispatch_may_have_started
MarkDispatch(p) ==
    LET j == exec[p].job
    IN  /\ exec[p].step = "prepared" /\ Writable
        /\ \/ /\ job[j].state = "running" /\ CancelSeen(j)
              /\ Return(p, "canceled", FALSE) /\ UNCHANGED attempt
           \/ /\ job[j].state # "running" \/ ~CancelSeen(j)
              /\ Return(p, "failed", FALSE) /\ UNCHANGED attempt
           \/ /\ job[j].state = "running" /\ ~CancelSeen(j)
              /\ Identified(j) /\ SessionUnchanged(j)
              /\ attempt[j].state = "reserved" /\ attempt[j].revision = 0
              /\ attempt' = [attempt EXCEPT
                               ![j].state = "dispatch_may_have_started",
                               ![j].dispatched = TRUE, ![j].revision = 1,
                               ![j].under = <<account[job[j].account].session,
                                              epoch>>]
              /\ exec' = [exec EXCEPT ![p].step = "invoked",
                                      ![p].invoked = TRUE]
        /\ UNCHANGED <<account, op, job, request, media, fileVars, up, owner,
                       accepted,
                       epoch, checks, backup>>

\* The platform takes the upload, possibly long after the program lost track
\* of it, but not once the backend has reported a definite failure.
RemoteAccepts(j) ==
    /\ attempt[j].state \in {"dispatch_may_have_started", "unknown"}
    /\ j \notin accepted
    /\ \A p \in Procs : ~(exec[p].job = j /\ exec[p].result = "failed")
    /\ accepted' = accepted \cup {j}
    /\ UNCHANGED <<dbVars, fileVars, procVars, epoch, checks, backup>>

\* backend.upload returns or raises.  It reports success only for what the
\* platform took and failure only for what it did not; anything else, an
\* invalid answer included, is "unknown" or "canceled".
BackendUpload(p, r, bad) ==
    LET j == exec[p].job
    IN  /\ exec[p].step = "invoked"
        /\ r \in {"submitted", "draft_saved"} => j \in accepted
        /\ r = "failed" => j \notin accepted
        /\ bad => r \in {"failed", "unknown"}
        /\ Return(p, r, bad)
        /\ UNCHANGED <<dbVars, fileVars, up, owner, accepted, epoch, checks,
                       backup>>

\* _upload_result_state
UploadResultState(r, invoked, mode) ==
    IF \/ invoked /\ r = "canceled"
       \/ r = "draft_saved" /\ mode # "draft"
       \/ r = "submitted" /\ mode # "publish"
    THEN "unknown" ELSE r

\* _finalize_upload_attempt_in changes a receipt only from the state, and the
\* revision, the execution left it in.
Finalizes(p, state) ==
    LET j == exec[p].job
    IN  /\ <<attempt[j].state, attempt[j].revision>> =
               IF exec[p].invoked THEN <<"dispatch_may_have_started", 1>> ELSE <<"reserved", 0>>
        /\ job[j].state = "running"
        /\ attempt' = [attempt EXCEPT
                         ![j].state = IF state = "unknown" THEN "unknown" ELSE "responded",
                         ![j].result = exec[p].result, ![j].revision = @ + 1]

\* The end of _execute_operation for an upload, which withdraws the account's
\* approvals when its login proved invalid.
FinishUpload(p) ==
    LET j     == exec[p].job
        a     == exec[p].account
        state == UploadResultState(exec[p].result, exec[p].invoked, ModeOf[a])
        done  == [job EXCEPT ![j].state = state, ![j].cancel = FALSE]
    IN  /\ exec[p].step = "returned" /\ exec[p].kind = "upload" /\ Writable
        /\ Finalizes(p, state)
        /\ job' = IF exec[p].badAuth THEN RevokeQueued(done, a) ELSE done
        /\ account' = IF exec[p].badAuth /\ account[a].life = "active"
                      THEN [account EXCEPT ![a].auth = "invalid"] ELSE account
        /\ exec' = [exec EXCEPT ![p] = IdleExec]
        /\ UNCHANGED <<op, request, media, fileVars, up, owner, accepted,
                       epoch, checks, backup>>

\* An exception in _run outside the guarded part of _execute_operation: the
\* claim, the watcher's start or the final transaction.  A stopping thread
\* just ends; otherwise it recovers the records and goes on, or after three
\* failures gives up and releases the lock.
SchedulerFails(p) ==
    /\ owner = p /\ up[p] \in {"running", "stopping"}
    /\ exec[p].step \in {"idle", "claimed", "returned"}
    /\ exec' = [exec EXCEPT ![p] = IdleExec]
    /\ \/ up[p] = "running" /\ RecoverInterruptedRecords /\ UNCHANGED <<up,
                                                                        owner>>
       \/ /\ up[p] = "running" /\ epoch < MaxEpochs
          /\ up' = [up EXCEPT ![p] = "faulted"] /\ owner' = Nobody
          /\ UNCHANGED <<dbVars, fileVars, epoch>>
       \/ /\ up[p] = "stopping" /\ epoch < MaxEpochs
          /\ up' = [up EXCEPT ![p] = "down"] /\ owner' = Nobody
          /\ UNCHANGED <<dbVars, fileVars, epoch>>
    /\ UNCHANGED <<accepted, checks, backup>>

-----------------------------------------------------------------------------
(***************************************************************************)
(* Backup and restore of the upload root (uploads/backup.py)               *)
(***************************************************************************)
Rows == [account |-> account, op |-> op, job |-> job, attempt |-> attempt,
         request |-> request, media |-> media]

NoRows == [account |-> [a \in Accounts |-> [life |-> "active",
                          auth |-> "unchecked", session |-> 0]],
           op |-> [a \in Accounts |-> [action |-> "check", state |-> "done",
                                        cancel |-> FALSE]],
           job |-> [j \in JobIds |-> NoJob],
           attempt |-> [j \in JobIds |-> NoAttempt],
           request |-> [k \in Keys |-> "absent"],
           media |-> [s \in Sources |-> "present"]]

\* _exclusive_upload_worker takes the lock of the scheduler.
SchedulerIdle == owner = Nobody

\* create_upload_backup up to the snapshot of the database, with the activity
\* lease and the scheduler lock.  Bound: one backup.
BeginBackup ==
    /\ backup.phase = "none" /\ ~Leased /\ SchedulerIdle
    /\ backup' = [phase |-> "copying", rows |-> Rows]
    /\ UNCHANGED <<dbVars, fileVars, procVars, accepted, epoch, checks>>

\* _audit_database_rows on accounts
AccountsSound(r) ==
    \A a \in Accounts :
        r.account[a].life = "disconnected" => r.account[a].auth = "unchecked"

\* _audit_database_rows on operations
OperationsSound(r) ==
    \A a \in Accounts : r.op[a].state # "done" => r.account[a].life = "active"

JobsIn(r)    == {j \in JobIds : r.job[j].state # "none"}
RetriesIn(r) == {j \in JobsIn(r) : r.job[j].retryOf # 0}

\* _audit_database_rows on jobs: their outcome fits their mode, and an active
\* job has its source.
JobsSound(r) ==
    \A j \in JobsIn(r) :
        /\ r.job[j].state = "submitted" => ModeOf[r.job[j].account] = "publish"
        /\ r.job[j].state = "draft_saved" => ModeOf[r.job[j].account] = "draft"
        /\ r.job[j].state \in {"draft", "queued", "running"} =>
             r.media[SourceOf[r.job[j].key]] = "present"

\* _audit_database_rows on retries: one successor of a job that did not succeed
RetriesSound(r) ==
    \A j \in RetriesIn(r) :
        /\ r.job[j].retryOf \in JobsIn(r) \ {j}
        /\ r.job[r.job[j].retryOf].state \in {"failed", "canceled", "unknown"}
        /\ \A i \in RetriesIn(r) : r.job[i].retryOf = r.job[j].retryOf => i = j

\* _audit_database_rows on requests: they name exactly the original jobs.
RequestsSound(r) ==
    \A k \in Keys : r.request[k] = "jobs" <=>
        \E j \in JobsIn(r) \ RetriesIn(r) : r.job[j].key = k

\* _audit_upload_attempts
ReceiptsSound(r) ==
    \A j \in JobIds : r.attempt[j].state # "none" =>
        j \in JobsIn(r) /\ ValidReceipt(r.job[j], r.attempt[j])

\* _copy_registered_media and the inventory in _audit_database_and_media: a
\* present source has its file, any other has none.
FilesFit(r) == \A s \in Sources : r.media[s] = "present" <=> s \in files

RowsSound(r) ==
    /\ AccountsSound(r) /\ JobsSound(r) /\ RetriesSound(r)
    /\ OperationsSound(r) /\ RequestsSound(r) /\ ReceiptsSound(r)

Audits == RowsSound(backup.rows) /\ FilesFit(backup.rows)

\* The rest of _create_upload_backup_locked: the media are copied and the copy
\* is audited and published, or something refuses it and its stage is removed,
\* or the process dies.  The leases are released and the root goes on.
EndBackup ==
    /\ backup.phase = "copying"
    /\ backup' = [phase |-> "over", rows |-> NoRows]
    /\ UNCHANGED <<dbVars, fileVars, procVars, accepted, epoch, checks>>

\* _apply_restore_state_policy on the receipt t of the job r
RestoredAttempt(r, t) ==
    CASE r.state = "running" /\ t.state = "reserved" ->
           [t EXCEPT !.state = "responded", !.result = "failed",
                     !.revision = @ + 1]
      [] r.state = "running" /\ t.state = "dispatch_may_have_started" ->
           [t EXCEPT !.state = "unknown", !.result = "unknown",
                     !.revision = @ + 1]
      [] OTHER -> t

\* _apply_restore_state_policy on the job r with the receipt t, and
\* _mark_current_missing_receipts, which changes only the code of the job
RestoredJob(r, t) ==
    CASE r.state = "queued" -> [r EXCEPT !.state = "draft", !.cancel = FALSE]
      [] r.state = "running" ->
           [r EXCEPT !.state = IF t.state = "reserved" THEN "failed" ELSE "unknown",
                     !.cancel = FALSE]
      [] OTHER -> r

\* restore_upload_backup, after which the new root is the one in use.  It is
\* restored before the old root works on: what the old root does afterwards
\* reaches neither the backup nor the new root.  Its media are the copied ones,
\* which the audit found to fit their rows.
RestoreBackup ==
    LET r == backup.rows
    IN  /\ backup.phase = "copying" /\ Audits
        /\ job' = [j \in JobIds |-> RestoredJob(r.job[j], r.attempt[j])]
        /\ attempt' = [j \in JobIds |-> RestoredAttempt(r.job[j], r.attempt[j])]
        /\ op' = [a \in Accounts |-> [r.op[a] EXCEPT !.state = "done"]]
        /\ account' = [a \in Accounts |-> [r.account[a] EXCEPT !.auth =
                         IF @ \in {"ready", "checking"} THEN "unchecked" ELSE @]]
        /\ request' = r.request /\ media' = r.media /\ cut' = {}
        /\ UNCHANGED <<files, move, owner, exec>>
        /\ up' = [p \in Procs |-> "down"]
        /\ backup' = [phase |-> "over", rows |-> NoRows]
        /\ UNCHANGED <<accepted, epoch, checks>>

BackupStep == BeginBackup \/ EndBackup \/ RestoreBackup

-----------------------------------------------------------------------------
Init ==
    /\ account = [a \in Accounts |-> [life |-> "active", auth |-> "unchecked",
                                      session |-> 0]]
    /\ op = [a \in Accounts |-> [action |-> "check", state |-> "done",
                                 cancel |-> FALSE]]
    /\ job = [j \in JobIds |-> NoJob]
    /\ attempt = [j \in JobIds |-> NoAttempt]
    /\ request = [k \in Keys |-> "absent"]
    /\ media = [s \in Sources |-> "present"]
    /\ files = Sources
    /\ move = [s \in Sources |-> NoMove]
    /\ cut = {}
    /\ up = [p \in Procs |-> "down"]
    /\ owner = Nobody
    /\ exec = [p \in Procs |-> IdleExec]
    /\ accepted = {}
    /\ epoch = 0
    /\ checks = 0
    /\ backup = [phase |-> "none", rows |-> NoRows]

\* What a user does through some instance's API
UserStep ==
    \/ \E k \in Keys : CreateJobs(k) \/ TombstoneRequest(k) \/ RetryMany(k)
    \/ \E J \in (SUBSET JobIds) \ {{}} :
         Confirm(J) \/ \E p \in Procs : Cancel(p, J)
    \/ \E s \in Sources, p \in Procs :
         DeleteSourceMedia(p, s) \/ RestoreSourceMedia(p, s)
    \/ \E j \in JobIds : Retry(j) \/ ReconcileUnknown(j)
    \/ \E a \in Accounts :
         \/ Check(a)
         \/ \E p \in Procs : \/ Login(p, a)
                             \/ CancelOperation(p, a)
                             \/ DisconnectAccount(p, a)

\* The rest of a deletion or a restoration
MediaStep(s) == CommitMedia(s) \/ RollBackMedia(s) \/ UndoMedia(s)

\* The scheduler thread and the backend it calls
SchedulerStep(p) ==
    \/ \E a \in Accounts : ClaimOperation(p, a)
    \/ \E j \in JobIds : ClaimUpload(p, j)
    \/ BackendAccount(p) \/ FinishOperation(p)
    \/ Prepare(p) \/ MarkDispatch(p) \/ FinishUpload(p)
    \/ \E r \in Results, bad \in BOOLEAN : BackendUpload(p, r, bad)
    \/ ThreadExits(p)

Next ==
    \/ UserStep \/ BackupStep
    \/ \E s \in Sources : MediaStep(s)
    \/ \E j \in JobIds : RemoteAccepts(j)
    \/ \E p \in Procs :
         \/ Start(p) \/ StartFaults(p) \/ StartStandby(p) \/ Stop(p) \/ Crash(p)
         \/ WatchCancellation(p) \/ WatcherBlind(p)
         \/ SchedulerStep(p) \/ SchedulerFails(p)

Spec == Init /\ [][Next]_vars

\* The scheduler thread is a loop whose backend calls run under a deadline and
\* a media transaction is a few local file operations.  A writer polls for the
\* database lock, and whoever holds it gives it back, so that one who waits gets
\* its turn however often others take it: the fairness of the two steps that
\* write is strong.  After a crash or a fault somebody starts an instance again;
\* a backup ends.
Fairness ==
    /\ \A p \in Procs : SF_vars(SchedulerStep(p))
    /\ \A s \in Sources : WF_vars(MediaStep(s))
    /\ SF_vars(\E p \in Procs : Start(p))
    /\ WF_vars(EndBackup)

FairSpec == Spec /\ Fairness

-----------------------------------------------------------------------------
(***************************************************************************)
(* Properties                                                              *)
(***************************************************************************)
RowTypes ==
    /\ account \in [Accounts -> AccountRecord]
    /\ op \in [Accounts -> OpRecord]
    /\ job \in [JobIds -> JobRecord]
    /\ attempt \in [JobIds -> AttemptRecord]
    /\ request \in [Keys -> {"absent", "tombstone", "jobs"}]
    /\ media \in [Sources -> {"present", "deleted"}]
    /\ up \in [Procs -> Alive \cup {"down"}]
    /\ owner \in Procs \cup {Nobody}
    /\ exec \in [Procs -> ExecRecord]
    /\ accepted \subseteq JobIds
    /\ epoch \in 0..MaxEpochs
    /\ checks \in 0..MaxChecks
    /\ backup.phase \in {"none", "copying", "over"}

FileTypes ==
    /\ files \subseteq Sources /\ cut \subseteq Sources
    /\ move \in [Sources -> MoveRecord]

\* Every row, every scheduler register and every media operation has a value the
\* code can write.
TypeOK == RowTypes /\ FileTypes

\* The retries of one request target reach the platform at most once: neither
\* a crash around the backend call, nor a late acceptance, nor a cancellation
\* that came too late, lets a job be sent again that was already taken.
NoDuplicateUpload ==
    \A i, j \in accepted : Root(i) = Root(j) => i = j

\* Every receipt is one _validate_attempt_state accepts for its job, so that
\* recovery never has to give up on a row it wrote itself, and no job runs
\* without a receipt.
ReceiptsValid ==
    \A j \in JobIds :
      /\ attempt[j].state # "none" => ValidReceipt(job[j], attempt[j])
      /\ job[j].state \in {"running", "unknown", "submitted", "draft_saved",
                           "failed"} => attempt[j].state # "none"

\* An upload is dispatched only under the approval the user gave: the same
\* login session, and no restart or recovery of the scheduler in between.
ApprovalCurrent ==
    \A j \in JobIds : attempt[j].dispatched => attempt[j].under = job[j].approved

\* A deletion or a restoration that came to its end, by its commit or by being
\* undone, leaves the file in its place exactly when the row says so; the source
\* of a job that may still be sent says so, and its file is not moved away.  Only
\* a source where the last of them was cut short is apart from its row: by a
\* death between the move and the commit or by a move that could not be undone.
MediaHeld ==
    /\ \A s \in Sources \ cut :
         move[s] = NoMove => (media[s] = "present" <=> s \in files)
    /\ \A j \in JobIds : job[j].state \in {"draft", "queued", "running"} =>
         LET s == SourceOf[job[j].key]
         IN  media[s] = "present" /\ s \in files \cup cut

\* Whatever the service did before, a backup finds rows that its audit accepts,
\* and files that fit them unless a deletion or a restoration was cut short.
BackupPasses ==
    backup.phase = "copying" =>
        RowsSound(backup.rows) /\ (cut = {} => FilesFit(backup.rows))

\* What a send and its retry rest on is kept, also by a restore: the rows, their
\* receipts and the media file, and a backup can be made of them.
EvidenceHeld ==
    TypeOK /\ MediaHeld /\ ReceiptsValid /\ BackupPasses

\* At most one instance executes, and it holds the scheduler lock; what it
\* executes is a job or an operation still marked running, unless its account
\* was disconnected meanwhile.
OneExecutor ==
    \A p \in Procs : exec[p].step # "idle" =>
      /\ owner = p
      /\ exec[p].kind = "upload" => job[exec[p].job].state = "running"
      /\ exec[p].kind = "account" =>
           \/ op[exec[p].account].state = "running"
           \/ account[exec[p].account].life = "disconnected"

\* Who executes may execute, and what it sent it was allowed to send.
ExecutionSound == ApprovalCurrent /\ OneExecutor

\* A job whose cancellation was asked for before the dispatch was recorded is
\* never sent.
CancelBeforeDispatch ==
    [][\A j \in JobIds : job[j].cancel \/ job[j].state = "canceled" =>
         attempt'[j].dispatched = attempt[j].dispatched]_vars

\* Every upload that began to run comes to an outcome and no account stays in
\* "checking", whatever crashes, faults, stops and restarts come in between.
RunningEnds ==
    /\ \A j \in JobIds : job[j].state = "running" ~> job[j].state # "running"
    /\ \A a \in Accounts : account[a].auth = "checking" ~> account[a].auth # "checking"
=============================================================================
